----------------------------- MODULE RfbSession -----------------------------
(***************************************************************************)
(* The RFB session actor of crates/bolide-rfb: the state every handle      *)
(* shares (session.rs, Inner), the writer task and the read loop           *)
(* (client.rs), the callers of refresh() and of the input methods, and     *)
(* mark_dead(), which any of them may run.  The remote desktop and the two *)
(* byte streams are external: a server that may answer several pending     *)
(* requests with one update, change or resize its screen when it likes,    *)
(* and hang up at any moment.                                              *)
(*                                                                         *)
(* A step is what the code does between two points where another thread    *)
(* can be seen: one atomic access, one critical section of the state lock, *)
(* one channel operation.  Pixels are abstracted to what the properties    *)
(* tell apart: which update painted the framebuffer last, and whether any  *)
(* of it was never painted since it was allocated.                         *)
(***************************************************************************)
EXTENDS Integers, Sequences

CONSTANTS
    Callers,        \* tasks holding a clone of the handle
    Ops,            \* the calls they make
    Endings,        \* the ways a session may end
    Continuous,     \* Config::continuous
    EventCapacity,  \* EVENT_CAPACITY, the depth of the broadcast channel
    WireCapacity,   \* client messages the socket holds before write_all blocks
    Sizes,          \* extents the desktop may have
    InitialSize,    \* the one ServerInit announced
    MaxCalls,       \* bound: calls per caller
    MaxChanges,     \* bound: changes of the desktop's screen
    MaxNotices      \* bound: bells, cut texts and malformed messages

ASSUME SessionAssumption ==
    /\ Ops \subseteq {"refresh", "refreshIncremental", "input"}
    /\ Endings \subseteq {"close", "hangup", "stall", "malformed"}
    /\ Continuous \in BOOLEAN
    /\ EventCapacity \in Nat \ {0}
    /\ WireCapacity \in Nat \ {0}
    /\ Sizes \subseteq Nat
    /\ InitialSize \in Sizes
    /\ MaxCalls \in Nat
    /\ MaxChanges \in Nat
    /\ MaxNotices \in Nat

VARIABLES
    connected, shutdown, \* Inner: the flag, and the watch both tasks select on
    dying,               \* how far each actor is in mark_dead
    fb, painted, lastCutText, needsFull,
    generation, updatesBegun, lastPaintedUpdate, outstanding,
    events, commands,    \* the broadcast channel, as a log, and the queue
    wpc, wcmd,           \* the writer task: control point, command it holds
    rpc, update,         \* the read loop: control point, locals of the update
    call, calls,         \* what each caller is doing, and how often it called
    c2s, s2c, link,      \* external: the two streams
    server,              \* external: the desktop and the requests it has read
    changes, notices     \* counters of the two bounds

lifeVars == <<connected, shutdown, dying>>
screenVars == <<fb, painted, lastCutText, needsFull>>
countVars == <<generation, updatesBegun, lastPaintedUpdate, outstanding>>
writerVars == <<wpc, wcmd>>
readerVars == <<rpc, update>>
callerVars == <<call, calls>>
wireVars == <<c2s, s2c, link>>
serverVars == <<server, changes, notices>>

innerVars == <<lifeVars, screenVars, countVars, events, commands>>
clientVars == <<innerVars, writerVars, readerVars, callerVars>>
externalVars == <<wireVars, serverVars>>
vars == <<clientVars, externalVars>>

-----------------------------------------------------------------------------
(* Values *)

Actors == {"reader", "writer", "closer"}

\* mark_dead: swap connected, emit Disconnected, tell the tasks.
Phases == {"alive", "swap", "emit", "tell", "over"}

Event == {"painted", "resized", "bell", "cutText", "disconnected"}

\* One unit of work for the writer.  from is history: who asked.
Origin == {"loop", "caller"}
Command == [kind : {"request"}, incremental : BOOLEAN, from : Origin]
               \cup [kind : {"write"}]

\* On the wire a FramebufferUpdateRequest names the area it asks for.
Request == [kind : {"request"}, incremental : BOOLEAN, from : Origin, area : Sizes]
Message == Request \cup [kind : {"write"}]
NoCommand == [kind |-> "none"]

\* whole: the rect covers every pixel of the framebuffer it is applied to.
Rect == [kind : {"paint"}, whole : BOOLEAN] \cup [kind : {"resize"}, size : Sizes]
ServerMessage == [kind : {"update"}, rects : Seq(Rect)]
                     \cup [kind : {"bell", "cutText", "malformed"}]

\* by: the update whose pixels it took last, 0 if none since it was allocated;
\* black: some pixel was never painted since then.
Framebuffer == [size : Sizes, black : BOOLEAN, by : Nat]
Black(size) == [size |-> size, black |-> TRUE, by |-> 0]

\* The locals of read_framebuffer_update: the rects still to read, painted_any
\* and resized.
Update == [rects : Seq(Rect), painted : BOOLEAN, resized : BOOLEAN]
NoUpdate == [rects |-> <<>>, painted |-> FALSE, resized |-> FALSE]

\* A call in progress.  pos counts the events its receiver has passed; begun
\* and composed are history: the updates the read loop had begun, and the ones
\* the server had composed, when the call was made.
Op == {"refresh", "refreshIncremental", "input"}
Call == [pc : {"idle", "floor", "admit", "push", "wait", "frame"}, op : Op,
         pos : Nat, floor : Nat, begun : Nat, composed : Nat]
NoCall == [pc |-> "idle", op |-> "input", pos |-> 0, floor |-> 0, begun |-> 0,
           composed |-> 0]

ReaderPoints == {"idle", "rects", "invalidate", "announce", "admit", "push",
                 "number", "paint", "publish", "failed", "gone"}
WriterPoints == {"recv", "size", "write", "failed", "closing", "gone"}

\* The desktop: its extent, the one it told the client, whether it changed since
\* it last composed an update, the requests it has not answered, and (history)
\* the number of updates it composed.
Server == [size : Sizes, told : Sizes, dirty : BOOLEAN, pending : Seq(Request),
           composed : Nat]

-----------------------------------------------------------------------------
(* Helpers *)

\* Inner::emit.
Emit(e) == events' = Append(events, e)

LoopRequest == [kind |-> "request", incremental |-> TRUE, from |-> "loop"]

CommandOf(c) ==
    IF call[c].op = "input" THEN [kind |-> "write"]
    ELSE [kind |-> "request", incremental |-> (call[c].op = "refreshIncremental"),
          from |-> "caller"]

\* The end of Inner::send.  The queue is dropped with the writer task.
Enqueue(cmd) == commands' = IF wpc = "gone" THEN commands ELSE Append(commands, cmd)

Init ==
    /\ connected = TRUE
    /\ shutdown = FALSE
    /\ dying = [a \in Actors |-> "alive"]
    /\ fb = Black(InitialSize)
    /\ painted = FALSE
    /\ lastCutText = 0
    /\ needsFull = TRUE
    /\ generation = 0 /\ updatesBegun = 0 /\ lastPaintedUpdate = 0
    /\ outstanding = IF Continuous THEN 1 ELSE 0
    /\ events = <<>>
    /\ commands = IF Continuous THEN <<LoopRequest>> ELSE <<>>
    /\ wpc = "recv" /\ wcmd = NoCommand
    /\ rpc = "idle" /\ update = NoUpdate
    /\ call = [c \in Callers |-> NoCall]
    /\ calls = [c \in Callers |-> 0]
    /\ c2s = <<>> /\ s2c = <<>> /\ link = "up"
    /\ server = [size |-> InitialSize, told |-> InitialSize, dirty |-> FALSE,
                 pending |-> <<>>, composed |-> 0]
    /\ changes = 0 /\ notices = 0

-----------------------------------------------------------------------------
(* mark_dead: whoever swaps connected from TRUE announces the death. *)

\* Mutant: the flag is stored rather than swapped, so everyone announces.
MarkDeadStores(a) ==
    /\ dying[a] = "swap"
    /\ connected' = FALSE
    /\ dying' = [dying EXCEPT ![a] = "emit"]
    /\ UNCHANGED <<shutdown, screenVars, countVars, events, commands, writerVars,
                   readerVars, callerVars, externalVars>>

MarkDeadSwap(a) ==
    /\ dying[a] = "swap"
    /\ connected' = FALSE
    /\ dying' = [dying EXCEPT ![a] = IF connected THEN "emit" ELSE "over"]
    /\ UNCHANGED <<shutdown, screenVars, countVars, events, commands, writerVars,
                   readerVars, callerVars, externalVars>>

MarkDeadEmit(a) ==
    /\ dying[a] = "emit"
    /\ Emit("disconnected")
    /\ dying' = [dying EXCEPT ![a] = "tell"]
    /\ UNCHANGED <<connected, shutdown, screenVars, countVars, commands,
                   writerVars, readerVars, callerVars, externalVars>>

\* Mutant: the tasks are not told.
MarkDeadKeepsQuiet(a) ==
    /\ dying[a] = "tell"
    /\ dying' = [dying EXCEPT ![a] = "over"]
    /\ UNCHANGED <<connected, shutdown, screenVars, countVars, events, commands,
                   writerVars, readerVars, callerVars, externalVars>>

MarkDeadTell(a) ==
    /\ dying[a] = "tell"
    /\ shutdown' = TRUE
    /\ dying' = [dying EXCEPT ![a] = "over"]
    /\ UNCHANGED <<connected, screenVars, countVars, events, commands, writerVars,
                   readerVars, callerVars, externalVars>>

MarkDead(a) == MarkDeadSwap(a) \/ MarkDeadEmit(a) \/ MarkDeadTell(a)

\* close(), or the Guard of the last handle being dropped.
Close ==
    /\ "close" \in Endings
    /\ dying["closer"] = "alive"
    /\ dying' = [dying EXCEPT !["closer"] = "swap"]
    /\ UNCHANGED <<connected, shutdown, screenVars, countVars, events, commands,
                   writerVars, readerVars, callerVars, externalVars>>

-----------------------------------------------------------------------------
(* The writer task *)

\* select! is unbiased: a queued command may win over a shutdown already seen.
\* Nothing else sees the pop, so swapping needs_full is part of the step.
WriterTakes ==
    /\ wpc = "recv"
    /\ commands # <<>>
    /\ commands' = Tail(commands)
    /\ \/ /\ Head(commands).kind = "request"
          /\ wcmd' = [Head(commands) EXCEPT !.incremental = @ /\ ~needsFull]
          /\ needsFull' = FALSE
          /\ wpc' = "size"
       \/ /\ Head(commands).kind = "write"
          /\ wcmd' = Head(commands)
          /\ wpc' = "write"
          /\ UNCHANGED needsFull
    /\ UNCHANGED <<lifeVars, fb, painted, lastCutText, countVars, events,
                   readerVars, callerVars, externalVars>>

\* The rest of build_request: the size is the one in force now.
WriterReadsSize ==
    /\ wpc = "size"
    /\ wcmd' = [kind |-> "request", incremental |-> wcmd.incremental,
                from |-> wcmd.from, area |-> fb.size]
    /\ wpc' = "write"
    /\ UNCHANGED <<innerVars, readerVars, callerVars, externalVars>>

\* write_all completes.  It blocks, deaf to a shutdown, while the peer leaves
\* the socket full; bytes written after the peer hung up may vanish.
WriterWrites ==
    /\ wpc = "write"
    /\ \/ link = "up" /\ Len(c2s) < WireCapacity /\ c2s' = Append(c2s, wcmd)
       \/ link = "down" /\ UNCHANGED c2s
    /\ wcmd' = NoCommand
    /\ wpc' = "recv"
    /\ UNCHANGED <<innerVars, readerVars, callerVars, s2c, link, serverVars>>

WriterFails ==
    /\ wpc = "write"
    /\ link = "down"
    /\ wcmd' = NoCommand
    /\ wpc' = "failed"
    /\ dying' = [dying EXCEPT !["writer"] = "swap"]
    /\ UNCHANGED <<connected, shutdown, screenVars, countVars, events, commands,
                   readerVars, callerVars, externalVars>>

\* Out of the loop: the shutdown watch fired, or its own mark_dead returned.
WriterStops ==
    /\ \/ wpc = "recv" /\ shutdown
       \/ wpc = "failed" /\ dying["writer"] = "over"
    /\ wpc' = "closing"
    /\ UNCHANGED <<innerVars, wcmd, readerVars, callerVars, externalVars>>

\* The half-close, after which the task is gone and the queue with it.
WriterHalfCloses ==
    /\ wpc = "closing"
    /\ wpc' = "gone"
    /\ UNCHANGED <<innerVars, wcmd, readerVars, callerVars, externalVars>>

WriterStep == WriterTakes \/ WriterReadsSize \/ WriterWrites
                  \/ WriterFails \/ WriterStops \/ WriterHalfCloses

-----------------------------------------------------------------------------
(* The read loop *)

\* The message-type byte of an update: it is numbered before it is decoded.
BeginUpdate ==
    /\ rpc = "idle"
    /\ s2c # <<>> /\ Head(s2c).kind = "update"
    /\ s2c' = Tail(s2c)
    /\ updatesBegun' = updatesBegun + 1
    /\ update' = [NoUpdate EXCEPT !.rects = Head(s2c).rects]
    /\ rpc' = "rects"
    /\ UNCHANGED <<lifeVars, screenVars, generation, lastPaintedUpdate,
                   outstanding, events, commands, writerVars, callerVars, c2s,
                   link, serverVars>>

NextRectIs(kind) == rpc = "rects" /\ update.rects # <<>> /\ Head(update.rects).kind = kind

\* A Raw, CopyRect or ZRLE rect, blitted under the lock.
PaintRect ==
    /\ NextRectIs("paint")
    /\ fb' = [fb EXCEPT !.black = @ /\ ~Head(update.rects).whole, !.by = updatesBegun]
    /\ update' = [update EXCEPT !.rects = Tail(@), !.painted = TRUE]
    /\ UNCHANGED <<lifeVars, painted, lastCutText, needsFull, countVars, events,
                   commands, writerVars, rpc, callerVars, externalVars>>

\* A DesktopSize rect: the new framebuffer first, under the lock ...
ResizeRect ==
    /\ NextRectIs("resize")
    /\ fb' = Black(Head(update.rects).size)
    /\ painted' = FALSE
    /\ rpc' = "invalidate"
    /\ UNCHANGED <<lifeVars, lastCutText, needsFull, countVars, events, commands,
                   writerVars, update, callerVars, externalVars>>

\* Mutant: the baseline survives the resize.
ResizeForgets ==
    /\ rpc = "invalidate"
    /\ rpc' = "announce"
    /\ UNCHANGED <<lifeVars, screenVars, countVars, events, commands, writerVars,
                   update, callerVars, externalVars>>

\* ... then the baseline is given up ...
ResizeInvalidates ==
    /\ rpc = "invalidate"
    /\ needsFull' = TRUE
    /\ rpc' = "announce"
    /\ UNCHANGED <<lifeVars, fb, painted, lastCutText, countVars, events, commands,
                   writerVars, update, callerVars, externalVars>>

\* ... then Resized goes out.
ResizeAnnounces ==
    /\ rpc = "announce"
    /\ Emit("resized")
    /\ update' = [update EXCEPT !.rects = Tail(@), !.resized = TRUE]
    /\ rpc' = "rects"
    /\ UNCHANGED <<lifeVars, screenVars, countVars, commands, writerVars,
                   callerVars, externalVars>>

\* On to publishing what was painted, or back to the top of the loop.
AfterRequest ==
    IF update.painted THEN rpc' = "number" /\ UNCHANGED update
                      ELSE rpc' = "idle" /\ update' = NoUpdate

\* Mutant: one answer is counted per request, and continuous mode asks again
\* only when none is left.
AnswerOne ==
    /\ rpc = "rects" /\ update.rects = <<>>
    /\ outstanding' = outstanding - 1
    /\ IF update.resized \/ (Continuous /\ outstanding' = 0)
       THEN rpc' = "admit" /\ UNCHANGED update ELSE AfterRequest
    /\ UNCHANGED <<lifeVars, screenVars, generation, updatesBegun, lastPaintedUpdate,
                   events, commands, writerVars, callerVars, externalVars>>

\* Mutant: an update that painted nothing earns no new request.
AskIfPainted ==
    /\ rpc = "rects" /\ update.rects = <<>>
    /\ outstanding' = 0
    /\ IF update.painted THEN rpc' = "admit" /\ UNCHANGED update ELSE AfterRequest
    /\ UNCHANGED <<lifeVars, screenVars, generation, updatesBegun, lastPaintedUpdate,
                   events, commands, writerVars, callerVars, externalVars>>

\* The last rect is applied: the update answers every outstanding request.  A
\* resize earns a new one, and continuous mode always asks again.
AnswerAll ==
    /\ rpc = "rects" /\ update.rects = <<>>
    /\ outstanding' = 0
    /\ IF update.resized \/ Continuous THEN rpc' = "admit" /\ UNCHANGED update
                                       ELSE AfterRequest
    /\ UNCHANGED <<lifeVars, screenVars, generation, updatesBegun,
                   lastPaintedUpdate, events, commands, writerVars, callerVars,
                   externalVars>>

\* send() from the read loop: the check and the count, which no other thread
\* can tell apart.  An error is ignored.
ReaderAdmits ==
    /\ rpc = "admit"
    /\ IF connected
       THEN outstanding' = outstanding + 1 /\ rpc' = "push" /\ UNCHANGED update
       ELSE UNCHANGED outstanding /\ AfterRequest
    /\ UNCHANGED <<lifeVars, screenVars, generation, updatesBegun,
                   lastPaintedUpdate, events, commands, writerVars, callerVars,
                   externalVars>>

ReaderPushes ==
    /\ rpc = "push"
    /\ Enqueue(LoopRequest)
    /\ AfterRequest
    /\ UNCHANGED <<lifeVars, screenVars, countVars, events, writerVars, callerVars,
                   externalVars>>

\* generation and last_painted_update, then painted, then the event.
NumberPaint ==
    /\ rpc = "number"
    /\ generation' = generation + 1
    /\ lastPaintedUpdate' = updatesBegun
    /\ rpc' = "paint"
    /\ UNCHANGED <<lifeVars, screenVars, updatesBegun, outstanding, events,
                   commands, writerVars, update, callerVars, externalVars>>

MarkPainted ==
    /\ rpc = "paint"
    /\ painted' = TRUE
    /\ rpc' = "publish"
    /\ UNCHANGED <<lifeVars, fb, lastCutText, needsFull, countVars, events,
                   commands, writerVars, update, callerVars, externalVars>>

PublishPainted ==
    /\ rpc = "publish"
    /\ Emit("painted")
    /\ rpc' = "idle" /\ update' = NoUpdate
    /\ UNCHANGED <<lifeVars, screenVars, countVars, commands, writerVars,
                   callerVars, externalVars>>

\* Bell, and ServerCutText, which is stored before it is announced.
ReadNotice ==
    /\ rpc = "idle"
    /\ s2c # <<>> /\ Head(s2c).kind \in {"bell", "cutText"}
    /\ s2c' = Tail(s2c)
    /\ lastCutText' = IF Head(s2c).kind = "cutText" THEN lastCutText + 1 ELSE lastCutText
    /\ Emit(Head(s2c).kind)
    /\ UNCHANGED <<lifeVars, fb, painted, needsFull, countVars, commands,
                   writerVars, readerVars, callerVars, c2s, link, serverVars>>

\* read_message fails: the stream ended, a message or an encoding bolide does
\* not know, or the deadline of a message that began and did not finish.
ReaderFails ==
    /\ \/ rpc = "idle" /\ link = "down"
       \/ rpc = "idle" /\ s2c # <<>> /\ Head(s2c).kind = "malformed"
       \/ rpc = "rects" /\ update.rects # <<>> /\ (link = "down" \/ "stall" \in Endings)
    /\ rpc' = "failed" /\ update' = NoUpdate
    /\ dying' = [dying EXCEPT !["reader"] = "swap"]
    /\ UNCHANGED <<connected, shutdown, screenVars, countVars, events, commands,
                   writerVars, callerVars, externalVars>>

\* The shutdown watch drops the read at whatever await it had reached; after a
\* failure the loop ends when mark_dead returns.
ReaderStops ==
    /\ \/ rpc = "idle" /\ shutdown
       \/ rpc = "rects" /\ update.rects # <<>> /\ shutdown
       \/ rpc = "failed" /\ dying["reader"] = "over"
    /\ rpc' = "gone" /\ update' = NoUpdate
    /\ UNCHANGED <<innerVars, writerVars, callerVars, externalVars>>

ReaderStep ==
    \/ BeginUpdate \/ PaintRect \/ ResizeRect \/ ResizeInvalidates
    \/ ResizeAnnounces \/ AnswerAll \/ ReaderAdmits \/ ReaderPushes
    \/ NumberPaint \/ MarkPainted \/ PublishPainted \/ ReadNotice
    \/ ReaderFails \/ ReaderStops

-----------------------------------------------------------------------------
(* The callers: refresh(), and the input methods, which only send. *)

\* refresh subscribes before it does anything else; an input method does not.
Begin(c) ==
    /\ call[c].pc = "idle"
    /\ calls[c] < MaxCalls
    /\ calls' = [calls EXCEPT ![c] = @ + 1]
    /\ \/ "input" \in Ops /\ call' = [call EXCEPT ![c].pc = "admit"]
       \/ \E o \in Ops \ {"input"} :
            call' = [call EXCEPT ![c] =
                       [NoCall EXCEPT !.pc = "floor", !.op = o, !.pos = Len(events),
                          !.begun = updatesBegun, !.composed = server.composed]]
    /\ UNCHANGED <<innerVars, writerVars, readerVars, externalVars>>

\* Mutant: the floor is the number the next update will get.
LoadNextFloor(c) ==
    /\ call[c].pc = "floor"
    /\ call' = [call EXCEPT ![c].pc = "admit", ![c].floor = updatesBegun + 1]
    /\ UNCHANGED <<innerVars, writerVars, readerVars, calls, externalVars>>

\* An update already begun does not count.
LoadFloor(c) ==
    /\ call[c].pc = "floor"
    /\ call' = [call EXCEPT ![c].pc = "admit", ![c].floor = updatesBegun]
    /\ UNCHANGED <<innerVars, writerVars, readerVars, calls, externalVars>>

\* The call goes on at p, or it returns and its locals are gone.
Proceed(c, p) == call' = [call EXCEPT ![c].pc = p]
Return(c) == call' = [call EXCEPT ![c] = NoCall]

\* Mutant: a request is sent whether or not the session is alive.
CallerAdmitsAnyway(c) ==
    /\ call[c].pc = "admit"
    /\ outstanding' = IF call[c].op # "input" THEN outstanding + 1 ELSE outstanding
    /\ Proceed(c, "push")
    /\ UNCHANGED <<lifeVars, screenVars, generation, updatesBegun,
                   lastPaintedUpdate, events, commands, writerVars, readerVars,
                   calls, externalVars>>

CallerAdmits(c) ==
    /\ call[c].pc = "admit"
    /\ outstanding' = IF connected /\ call[c].op # "input" THEN outstanding + 1
                                                           ELSE outstanding
    /\ IF connected THEN Proceed(c, "push") ELSE Return(c)
    /\ UNCHANGED <<lifeVars, screenVars, generation, updatesBegun,
                   lastPaintedUpdate, events, commands, writerVars, readerVars,
                   calls, externalVars>>

\* Mutant: refresh asks first and subscribes then.
CallerPushesFirst(c) ==
    /\ call[c].pc = "push"
    /\ Enqueue(CommandOf(c))
    /\ IF wpc = "gone" \/ call[c].op = "input" THEN Return(c)
       ELSE call' = [call EXCEPT ![c].pc = "wait", ![c].pos = Len(events)]
    /\ UNCHANGED <<lifeVars, screenVars, countVars, events, writerVars, readerVars,
                   calls, externalVars>>

CallerPushes(c) ==
    /\ call[c].pc = "push"
    /\ Enqueue(CommandOf(c))
    /\ IF wpc = "gone" \/ call[c].op = "input" THEN Return(c) ELSE Proceed(c, "wait")
    /\ UNCHANGED <<lifeVars, screenVars, countVars, events, writerVars, readerVars,
                   calls, externalVars>>

\* The channel no longer holds the next event of c's receiver.
Lagged(c) == Len(events) - call[c].pos > EventCapacity

\* Mutant: the update under way at the call counts too.
AnsweredAtFloor(c) == lastPaintedUpdate >= call[c].floor

\* Ok(Painted) if last_painted_update > floor.
Answered(c) == lastPaintedUpdate > call[c].floor

\* events.recv(): a receiver that was overtaken goes on from the oldest event
\* still held; otherwise the next event ends the wait or does not.
RefreshReceives(c) ==
    /\ call[c].pc = "wait"
    /\ call[c].pos < Len(events)
    /\ IF Lagged(c)
       THEN call' = [call EXCEPT ![c].pos = Len(events) - EventCapacity]
       ELSE LET e == events[call[c].pos + 1] IN
            IF e = "painted" /\ Answered(c) THEN Proceed(c, "frame")
            ELSE IF e = "disconnected" THEN Return(c)
            ELSE call' = [call EXCEPT ![c].pos = @ + 1]
    /\ UNCHANGED <<innerVars, writerVars, readerVars, calls, externalVars>>

\* The caller's timer.
RefreshTimesOut(c) ==
    /\ call[c].pc = "wait"
    /\ Return(c)
    /\ UNCHANGED <<innerVars, writerVars, readerVars, calls, externalVars>>

\* framebuffer(), which locks the state again, and the call returns Ok.
TakeFrame(c) ==
    /\ call[c].pc = "frame"
    /\ Return(c)
    /\ UNCHANGED <<innerVars, writerVars, readerVars, calls, externalVars>>

\* What the scheduler owes a caller: all but a new call and its timer.
CallerStep(c) ==
    \/ LoadFloor(c) \/ CallerAdmits(c) \/ CallerPushes(c)
    \/ RefreshReceives(c) \/ TakeFrame(c)

-----------------------------------------------------------------------------
(* External: the remote desktop, and the network *)

DesktopChanges ==
    /\ link = "up"
    /\ changes < MaxChanges
    /\ changes' = changes + 1
    /\ \E size \in Sizes : server' = [server EXCEPT !.size = size, !.dirty = TRUE]
    /\ UNCHANGED <<clientVars, wireVars, notices>>

\* A request is remembered; input changes the screen later (DesktopChanges) or
\* not at all.
ServerReads ==
    /\ link = "up"
    /\ c2s # <<>>
    /\ c2s' = Tail(c2s)
    /\ server' = IF Head(c2s).kind = "request"
                 THEN [server EXCEPT !.pending = Append(@, Head(c2s))] ELSE server
    /\ UNCHANGED <<clientVars, s2c, link, changes, notices>>

\* The rects of an update: a size the client has not been told goes out as a
\* DesktopSize rect, alone, after the pixels (as RFC 6143 has it) or before them.
Composed(whole) ==
    LET paint == [kind |-> "paint", whole |-> whole]
        resize == [kind |-> "resize", size |-> server.size]
    IN  IF server.size = server.told THEN {<<paint>>}
        ELSE {<<resize>>, <<paint, resize>>, <<resize, paint>>}

\* One update answers the first k pending requests.  It covers the screen when
\* one of them asked for all of it and was not incremental; otherwise it holds
\* what changed, and is due only if something did.
ServerAnswers ==
    /\ link = "up"
    /\ \E k \in 1 .. Len(server.pending) :
         LET full == {i \in 1 .. k : ~server.pending[i].incremental} IN
         /\ full # {} \/ server.dirty \/ server.size # server.told
         /\ \E rs \in Composed(\E i \in full : server.pending[i].area >= server.size) :
              s2c' = Append(s2c, [kind |-> "update", rects |-> rs])
         /\ server' = [server EXCEPT !.pending = SubSeq(@, k + 1, Len(@)),
                                     !.told = server.size, !.dirty = FALSE,
                                     !.composed = @ + 1]
    /\ UNCHANGED <<clientVars, c2s, link, changes, notices>>

ServerNotices ==
    /\ link = "up"
    /\ notices < MaxNotices
    /\ notices' = notices + 1
    /\ \E kind \in {"bell", "cutText"} \cup (Endings \cap {"malformed"}) :
         s2c' = Append(s2c, [kind |-> kind])
    /\ UNCHANGED <<clientVars, c2s, link, server, changes>>

\* The peer hangs up, or the network does; what it had not read or answered is
\* lost, and of what it had sent the client may read on (ReaderFails otherwise).
LinkBreaks ==
    /\ "hangup" \in Endings
    /\ link = "up"
    /\ link' = "down"
    /\ c2s' = <<>>
    /\ server' = [server EXCEPT !.pending = <<>>]
    /\ UNCHANGED <<clientVars, s2c, changes, notices>>

-----------------------------------------------------------------------------
Next ==
    \/ \E a \in Actors : MarkDead(a)
    \/ Close \/ WriterStep \/ ReaderStep
    \/ \E c \in Callers : Begin(c) \/ CallerStep(c) \/ RefreshTimesOut(c)
    \/ DesktopChanges \/ ServerReads \/ ServerAnswers \/ ServerNotices \/ LinkBreaks

Spec == Init /\ [][Next]_vars

\* The tokio scheduler runs every task that is ready.  Nothing is owed by a
\* timer, by a new call, by a close, or by the network's failing.
CodeFairness ==
    /\ \A a \in Actors : WF_vars(MarkDead(a))
    /\ WF_vars(WriterStep)
    /\ WF_vars(ReaderStep)
    /\ \A c \in Callers : WF_vars(CallerStep(c))

\* A peer that reads what it is sent and answers what it has read.
ServerFairness == WF_vars(ServerReads) /\ WF_vars(ServerAnswers)

FairSpec == Spec /\ CodeFairness /\ ServerFairness
HungPeerSpec == Spec /\ CodeFairness

-----------------------------------------------------------------------------
(* Properties *)

\* The types: every actor is at a place the code has, the streams and the log hold
\* messages and events of the protocol.
TypeOK ==
    /\ connected \in BOOLEAN /\ shutdown \in BOOLEAN
    /\ dying \in [Actors -> Phases]
    /\ fb \in Framebuffer
    /\ painted \in BOOLEAN /\ needsFull \in BOOLEAN /\ lastCutText \in Nat
    /\ generation \in Nat /\ updatesBegun \in Nat /\ lastPaintedUpdate \in Nat
    /\ outstanding \in Nat
    /\ events \in Seq(Event)
    /\ commands \in Seq(Command)
    /\ wpc \in WriterPoints
    /\ wcmd \in Command \cup Message \cup {NoCommand}
    /\ rpc \in ReaderPoints
    /\ update \in Update
    /\ call \in [Callers -> Call]
    /\ calls \in [Callers -> 0 .. MaxCalls]
    /\ c2s \in Seq(Message) /\ s2c \in Seq(ServerMessage) /\ link \in {"up", "down"}
    /\ server \in Server
    /\ changes \in 0 .. MaxChanges /\ notices \in 0 .. MaxNotices

\* Death is announced at most once, whichever of the three actors notices it
\* first: the events of a session hold one Disconnected at most.
DeathAnnouncedOnce ==
    \A i, j \in 1 .. Len(events) :
        events[i] = "disconnected" /\ events[j] = "disconnected" => i = j

\* The announcement is ahead of c's receiver, or was overwritten by later events.
DeathAhead(c) ==
    \E i \in 1 .. Len(events) :
        /\ events[i] = "disconnected"
        /\ call[c].pos < i \/ Len(events) - i >= EventCapacity

\* No refresh is left to its timer by a death.  A call that has sent its request
\* is on a connected session, or the announcement is about to be made, or it is
\* ahead of the call's receiver (or EventCapacity later events overwrote it).
DeathReachesEveryWaiter ==
    \A c \in Callers :
        call[c].pc \in {"push", "wait"} /\ call[c].op # "input" =>
            connected \/ (\E a \in Actors : dying[a] = "emit") \/ DeathAhead(c)

\* The requests on their way to an answer, in order.
Asked == commands \o (IF wpc \in {"size", "write"} THEN <<wcmd>> ELSE <<>>)
             \o c2s \o server.pending

Requests(P(_)) == {i \in 1 .. Len(Asked) : Asked[i].kind = "request" /\ P(Asked[i])}

\* An update is on its way, or is being read and its own request is not sent yet.
UpdateComing == \/ \E i \in 1 .. Len(s2c) : s2c[i].kind = "update"
                \/ rpc \in {"rects", "invalidate", "announce", "admit", "push"}

\* Nobody has noticed an end, and the network has not failed unnoticed.
Live == connected /\ link = "up" /\ rpc # "failed"

\* Continuous mode never stalls: as long as the session is alive, a request is
\* somewhere between the queue and the server, or the update that will send the
\* next one is coming.  (The phantom request of a server that folds requests
\* used to break this.)
NeverStalls ==
    Continuous /\ Live =>
        UpdateComing \/ Requests(LAMBDA r : TRUE) # {}

\* No black pixel is left unasked for.  A session that has asked for its screen
\* and holds one that is partly unpainted either still owes itself a whole
\* request, or has one for the current size under way, or has an update to read.
BlackIsAskedFor ==
    fb.black /\ Live =>
        \/ needsFull
        \/ UpdateComing
        \/ Requests(LAMBDA r : ~r.incremental /\
                       ("area" \in DOMAIN r => r.area >= fb.size)) # {}

\* painted() is never TRUE of a framebuffer that holds no pixel the desktop sent
\* since it was allocated.
PaintedHasPixels == painted => fb.by # 0

\* A refresh that resolves hands over pixels of an update the read loop began
\* after the call, or a framebuffer a resize has emptied since.
RefreshIsFresh ==
    \A c \in Callers :
        call[c].pc = "frame" => fb.by = 0 \/ fb.by > call[c].begun

\* What session.rs and protocol.md say of it: the update was composed after the
\* call, not on its way already.
RefreshShowsWhatFollowed ==
    \A c \in Callers :
        call[c].pc = "frame" => fb.by = 0 \/ fb.by > call[c].composed

\* What client.rs says of continuous mode: its own request is answered, and
\* replaced, and never doubled.
LoopNeverDoubles ==
    \A i, j \in Requests(LAMBDA r : r.from = "loop") : i = j

\* What lib.rs says of Disconnected: no further events arrive.
NothingAfterDisconnected ==
    [][\A i \in 1 .. Len(events) : events[i] = "disconnected" => events' = events]_vars

\* A session that stays connected comes to hold the desktop's last screen, every
\* pixel of it, whoever else asks for what.
ScreenCatchesUp ==
    <>[](connected => ~server.dirty /\ ~fb.black /\ fb.by = server.composed)

\* A refresh of the whole screen ends without its timer: the desktop answers it,
\* or the session dies and the call learns of it.
RefreshEnds ==
    \A c \in Callers :
        call[c].pc = "wait" /\ call[c].op = "refresh" ~> call[c].pc # "wait"

\* A dead session lets go of its socket: both tasks end.
TasksEnd == ~connected ~> wpc = "gone" /\ rpc = "gone"

=============================================================================
