------------------------------ MODULE Recorder ------------------------------
(***************************************************************************)
(* `connect --record` (bolide-cli: record.rs): the task that samples the   *)
(* framebuffer on every tick of a clock and writes it to an ffmpeg child,  *)
(* the session it listens to, the daemon that stops it, and ffmpeg itself  *)
(* behind a pipe that holds less than a frame.                             *)
(*                                                                         *)
(* A frame is Chunks pieces, the pieces a pipe takes at a time; what is in *)
(* it (fit to the video's size, whatever the desktop's is now) is the      *)
(* business of module Picture.  ffmpeg and the session are external.       *)
(***************************************************************************)
EXTENDS Naturals

CONSTANTS
    Chunks,     \* pieces of a frame
    PipeCap,    \* pieces the pipe to ffmpeg holds
    MaxTicks,   \* bound: ticks of the clock
    MaxEvents,  \* bound: events of the session other than its end
    MaxStops    \* 1 when somebody stops the recording, 0 when nobody does

ASSUME RecorderAssumption ==
    /\ Chunks \in Nat \ {0} /\ PipeCap \in Nat \ {0}
    /\ MaxTicks \in Nat \ {0} /\ MaxEvents \in Nat /\ MaxStops \in {0, 1}

VARIABLES
    pc,       \* where the task is
    once,     \* the frame being taken is the one a recording has at least
    frames,   \* frames written whole
    failed,   \* the sink returned an error
    result,   \* what the task returned
    left,     \* pieces of the frame being written that are not in the pipe
    open,     \* ffmpeg's stdin is open on our side
    pipe,     \* pieces in the pipe
    eaten,    \* pieces ffmpeg has read
    ffmpeg,   \* "encoding", "finished" (status 0) or "failed"
    due,      \* ticks the clock has given
    taken,    \* ticks the task has taken
    stop,     \* the oneshot: the daemon has asked for the end
    desktop,  \* the session is up
    others,   \* events that wait in the task's receiver, other than the last
    told,     \* Disconnected waits behind them
    dueStop,  \* history: ticks due when the stop was asked
    late      \* history: frames begun with Disconnected in the receiver

taskVars == <<pc, once, frames, failed, result, left, open, taken, late>>
clockVars == <<due, stop, dueStop>>
sessionVars == <<desktop, others, told>>
ffmpegVars == <<pipe, eaten, ffmpeg>>
vars == <<taskVars, clockVars, sessionVars, ffmpegVars>>

Places == {"start", "select", "grab", "write", "finish", "wait", "done", "gone"}
Recording == {"select", "grab", "write"}

\* Recording::start: ffmpeg is running, the task has been spawned and has not
\* run; the first tick of the interval is at once.
Init ==
    /\ pc = "start" /\ once = FALSE /\ frames = 0 /\ failed = FALSE
    /\ result = "none" /\ left = 0 /\ open = TRUE /\ taken = 0 /\ late = 0
    /\ due = 1 /\ stop = FALSE /\ dueStop = 0
    /\ desktop = TRUE /\ others = 0 /\ told = FALSE
    /\ pipe = 0 /\ eaten = 0 /\ ffmpeg = "encoding"

-----------------------------------------------------------------------------
(* record *)

\* The task's first step: it subscribes to the session's events.  A session
\* that has ended by then told somebody else.
Subscribe ==
    /\ pc = "start"
    /\ pc' = "select"
    /\ UNCHANGED <<once, frames, failed, result, left, open, taken, late,
                   clockVars, sessionVars, ffmpegVars>>

\* The loop is left.  No frame and no failure: one is taken all the same.
Leave ==
    IF frames = 0 /\ ~failed THEN pc' = "grab" /\ once' = TRUE
                             ELSE pc' = "finish" /\ UNCHANGED once

\* The select is biased: the stop first, ...
HearStop ==
    /\ pc = "select" /\ stop
    /\ Leave
    /\ UNCHANGED <<frames, failed, result, left, open, taken, late,
                   clockVars, sessionVars, ffmpegVars>>

\* ... then the session's events, all but the last of no interest, ...
HearEvent ==
    /\ pc = "select" /\ ~stop
    /\ others > 0
    /\ others' = others - 1
    /\ UNCHANGED <<taskVars, clockVars, desktop, told, ffmpegVars>>

HearDisconnected ==
    /\ pc = "select" /\ ~stop
    /\ others = 0 /\ told
    /\ told' = FALSE
    /\ Leave
    /\ UNCHANGED <<frames, failed, result, left, open, taken, late,
                   clockVars, desktop, others, ffmpegVars>>

\* Mutant: the clock is looked at before the session.
TakeTickFirst ==
    /\ pc = "select" /\ ~stop
    /\ taken < due
    /\ taken' = taken + 1 /\ pc' = "grab"
    /\ UNCHANGED <<once, frames, failed, result, left, open, late,
                   clockVars, sessionVars, ffmpegVars>>

\* ... and the clock last.  A tick that was missed is there at once.
TakeTick ==
    /\ pc = "select" /\ ~stop /\ others = 0 /\ ~told
    /\ taken < due
    /\ taken' = taken + 1 /\ pc' = "grab"
    /\ UNCHANGED <<once, frames, failed, result, left, open, late,
                   clockVars, sessionVars, ffmpegVars>>

\* write_one: the framebuffer, which a session that has ended still has, fit
\* to the canvas.
Grab ==
    /\ pc = "grab"
    /\ pc' = "write" /\ left' = Chunks
    /\ late' = IF told THEN late + 1 ELSE late
    /\ UNCHANGED <<once, frames, failed, result, open, taken,
                   clockVars, sessionVars, ffmpegVars>>

\* write_all puts a piece into the pipe, when there is room.
WritePiece ==
    /\ pc = "write" /\ ffmpeg = "encoding"
    /\ left > 0 /\ pipe < PipeCap
    /\ pipe' = pipe + 1 /\ left' = left - 1
    /\ UNCHANGED <<pc, once, frames, failed, result, open, taken, late,
                   clockVars, sessionVars, eaten, ffmpeg>>

\* Mutant: a stop that comes while the frame is written cuts it off.
WroteOrStopped ==
    /\ pc = "write" /\ (left = 0 \/ stop)
    /\ frames' = frames + 1
    /\ pc' = (IF once THEN "finish" ELSE "select") /\ left' = 0
    /\ UNCHANGED <<once, failed, result, open, taken, late,
                   clockVars, sessionVars, ffmpegVars>>

Wrote ==
    /\ pc = "write" /\ left = 0
    /\ frames' = frames + 1
    /\ pc' = IF once THEN "finish" ELSE "select"
    /\ UNCHANGED <<once, failed, result, left, open, taken, late,
                   clockVars, sessionVars, ffmpegVars>>

\* ffmpeg is gone: EPIPE ends the recording, and not the session.
WriteFails ==
    /\ pc = "write" /\ ffmpeg # "encoding" /\ left > 0
    /\ failed' = TRUE
    /\ pc' = "finish" /\ left' = 0
    /\ UNCHANGED <<once, frames, result, open, taken, late,
                   clockVars, sessionVars, ffmpegVars>>

\* Mutant: ffmpeg is waited for with its stdin still open.
FinishOpen ==
    /\ pc = "finish"
    /\ pc' = "wait"
    /\ UNCHANGED <<once, frames, failed, result, left, open, taken, late,
                   clockVars, sessionVars, ffmpegVars>>

\* FfmpegSink::finish: the end of the input is how ffmpeg is told, ...
Finish ==
    /\ pc = "finish"
    /\ pc' = "wait" /\ open' = FALSE
    /\ UNCHANGED <<once, frames, failed, result, left, taken, late,
                   clockVars, sessionVars, ffmpegVars>>

\* ... and its status, unless a write has failed, is the recording's.
Reap ==
    /\ pc = "wait" /\ ffmpeg # "encoding"
    /\ pc' = "done"
    /\ result' = IF failed \/ ffmpeg = "failed" THEN "error" ELSE "frames"
    /\ UNCHANGED <<once, frames, failed, left, open, taken, late,
                   clockVars, sessionVars, ffmpegVars>>

Task ==
    \/ Subscribe \/ HearStop \/ HearEvent \/ HearDisconnected \/ TakeTick
    \/ Grab \/ WritePiece \/ Wrote \/ WriteFails \/ Finish \/ Reap

-----------------------------------------------------------------------------
(* The daemon, the clock, the session and ffmpeg *)

\* IntervalTicker: a tick is due whether or not the last one has been taken.
Tick ==
    /\ due < MaxTicks
    /\ due' = due + 1
    /\ UNCHANGED <<taskVars, stop, dueStop, sessionVars, ffmpegVars>>

\* Recording::finish sends the stop.
AskStop ==
    /\ ~stop /\ MaxStops = 1
    /\ stop' = TRUE /\ dueStop' = due
    /\ UNCHANGED <<taskVars, due, sessionVars, ffmpegVars>>

\* The process is killed, or main returns an error of its own after start and
\* the runtime drops the task where it awaits: the pipe closes, and ffmpeg,
\* which is not killed with its sink, has what was written.
Abandon ==
    /\ pc \notin {"done", "gone"}
    /\ pc' = "gone" /\ open' = FALSE /\ left' = 0
    /\ UNCHANGED <<once, frames, failed, result, taken, late,
                   clockVars, sessionVars, ffmpegVars>>

Paint ==
    /\ desktop /\ others < MaxEvents
    /\ others' = IF pc = "start" THEN others ELSE others + 1
    /\ UNCHANGED <<taskVars, clockVars, desktop, told, ffmpegVars>>

\* The session ends, and says so to the receivers there are.
DesktopDies ==
    /\ desktop
    /\ desktop' = FALSE /\ told' = (pc # "start")
    /\ UNCHANGED <<taskVars, clockVars, others, ffmpegVars>>

Encode ==
    /\ ffmpeg = "encoding" /\ pipe > 0
    /\ pipe' = pipe - 1 /\ eaten' = eaten + 1
    /\ UNCHANGED <<taskVars, clockVars, sessionVars, ffmpeg>>

\* The end of the input: the trailer is written, or that fails.
EndOfInput ==
    /\ ffmpeg = "encoding" /\ pipe = 0 /\ ~open
    /\ ffmpeg' \in {"finished", "failed"}
    /\ UNCHANGED <<taskVars, clockVars, sessionVars, pipe, eaten>>

\* ffmpeg dies: a full disk, a kill, an encoder it does not have.
Die ==
    /\ ffmpeg = "encoding"
    /\ ffmpeg' = "failed" /\ pipe' = 0
    /\ UNCHANGED <<taskVars, clockVars, sessionVars, eaten>>

Next ==
    \/ Task
    \/ Tick \/ AskStop \/ Abandon \/ Paint \/ DesktopDies
    \/ Encode \/ EndOfInput \/ Die

\* The task is polled while it can move; ffmpeg reads what it is sent.
Fairness == WF_vars(Task) /\ WF_vars(Encode) /\ WF_vars(EndOfInput)

Spec == Init /\ [][Next]_vars
FairSpec == Spec /\ Fairness

-----------------------------------------------------------------------------
(* Properties *)

\* The types: the task is at a place the code has, a frame and the pipe hold no
\* more than they can, and no more ticks are taken than were given.
TypeOK ==
    /\ pc \in Places /\ once \in BOOLEAN /\ failed \in BOOLEAN /\ open \in BOOLEAN
    /\ result \in {"none", "frames", "error"}
    /\ frames \in Nat /\ left \in 0..Chunks /\ pipe \in 0..PipeCap /\ eaten \in Nat
    /\ ffmpeg \in {"encoding", "finished", "failed"}
    /\ due \in Nat /\ taken \in 0..due /\ dueStop \in 0..due /\ late \in Nat
    /\ stop \in BOOLEAN /\ desktop \in BOOLEAN /\ told \in BOOLEAN
    /\ others \in 0..MaxEvents

\* A recording that reports success has at least one frame, and the file has
\* exactly the frames it reports, each of them whole, whatever stopped it and
\* in whichever of its awaits (record.rs:231, 272).
WholeFrames ==
    result = "frames" => frames >= 1 /\ eaten = frames * Chunks

\* Once the end of the session is in the recorder's receiver it begins at most
\* one more frame: the one whose tick it has already taken, or the one every
\* recording has.  However many ticks are missed, a dead desktop is not filmed
\* on (record.rs:249, the biased select).
EndsWithDesktop == late <= 1

\* Whoever ends the recording, the daemon, the session or the death of bolide,
\* ffmpeg gets the end of its input and the file its trailer, and a task that
\* is left alive returns (record.rs:272, 327).
Finalised ==
    /\ stop \/ told \/ pc = "gone" ~> ffmpeg # "encoding"
    /\ stop \/ told ~> pc \in {"done", "gone"}

\* What the comment on IntervalTicker says (record.rs:374): ticks missed while
\* a frame was written are made up, so the video is as long as the session.
LengthIsTheSessions ==
    result = "frames" /\ stop /\ desktop => frames >= dueStop
=============================================================================
