# A formal model of bolide

bolide lets a program use a remote desktop: one daemon holds a VNC session and
offers it over a loopback HTTP server as "screenshot" and "computer" actions;
a command line starts the daemon, stops it, and talks to it. These modules
model the parts of it that run concurrently, can be interrupted, or must get
arithmetic right at its limits; TLC checks them on small instances, and TLAPS
proves the main safety properties for every value of the constants.

## 1. Inventory

### RFB session (`bolide-rfb`: `session.rs`, `client.rs`, `lib.rs`)

*State.* `Inner`, shared by every clone of the handle: `connected`, the
`shutdown` watch, the framebuffer and `painted` under one lock, the atomics
`generation`, `updates_begun`, `last_painted_update`, `outstanding` and
`needs_full`, a broadcast channel of events, a queue of commands.
*Operations.* A writer task drains the queue to the socket; a read loop applies
updates (pixels, `DesktopSize`, bells, cut texts) and, in continuous mode, asks
for the next one; `refresh()` subscribes, asks, and waits for a `Painted` that
counts; the input methods only queue; `mark_dead()` may be run by the writer,
by the read loop and by `close()`.
*What is hard.* Every pair of these interleaves at each atomic. The server
folds requests. A resize invalidates the screen in the middle of an update. The
session ends in five ways, noticed by any of three actors.
*Correct if* death is announced once and reaches everyone who waits; continuous
mode never stops asking; a refresh never returns pixels from before the call;
no region stays black unasked for; both tasks end.

### HTTP server and computer actions (`bolide-server`: `http.rs`, `actions.rs`, `lib.rs`)

*State.* `AppState`: the mutex `hands`, which guards the last pointer position,
and `last_input`, the moment of the last input nobody has waited for yet.
*Operations.* `computer` plans an action against the size of the screen, takes
the hands, executes the plan step by step, stamps the input, answers;
`screenshot` and `fresh_frame` let the last input settle, refresh, and answer
with a frame. *What is hard.* A client that hangs up drops its handler at
whatever await it has reached; a resize or the end of the session falls between
a check and its use; a screenshot races the input it is meant to show; a drag's
way is divided in integers.
*Correct if* two actions are never mixed on the wire, the recorded pointer is
the one sent, nothing stays pressed, a screenshot shows the input it follows and
is not black, a drag ends where it should, and every request ends.

### Daemon and state file (`bolide-cli`: `run.rs`, `daemon.rs`, `state.rs`)

*State.* One file, `session.json`, and the processes themselves.
*Operations.* `connect` looks for a daemon, starts one detached and polls for
its file; the daemon dials, records, serves, writes the file, waits for its end,
tears down and removes the file; `disconnect` signals the pid, waits five
seconds and removes the file; every other command reads the file, and any read
removes a stale one. *What is hard.* No locks: kills, crashes, two waits that
give up, a session that dies at any moment.
*Correct if* the file finds the daemon there is, a failed `connect` leaves
none, and a daemon that should end does.

### Recorder (`record.rs`)

*State.* ffmpeg's pipe, the frames written, the ticker and the ticks it owes,
the stop, the receiver of the session's events. *Operations.* On each tick a
frame of the framebuffer is fitted to the video's size and written; the loop
ends with the session, the stop or a failed write, and then the pipe is closed
and ffmpeg awaited. *What is hard.* The pipe takes a part of a frame at a time,
and the death of the session, the stop, and the death of ffmpeg fall anywhere in
it. *Correct if* the file holds whole frames, a dead desktop is not filmed on,
and ffmpeg always gets its end of input.

### Handshake and authentication (`client.rs`, `proto.rs`, `ard.rs`)

*State.* Where each side is in the exchange. *Operations.* Version, security
type, login, result, init. *What is hard.* What comes next depends on the
dialect (3.3, 3.7, 3.8), the type and the credentials together, and nothing in
the stream says what a message is. *Correct if* both sides agree on what comes
next, no login is sent that cannot be right, the error names what the desktop
decided, and a desktop that goes quiet does not hold `connect`.

### ZRLE decoder and pixel formats (`zrle.rs`, `proto.rs`, test kit `encode.rs`)

*State.* The bytes read, the tile under way, one zlib stream for the life of the
session. *What is hard.* All boundaries: run lengths at 255, packed rows,
palette sizes, tiles at the edge, CPIXELs of three bytes; and the peer may send
anything. *Correct if* what is written comes back, and no bytes make the decoder
leave the stream, the tile or the rect.

### Self-update (`update.rs`)

*State.* The installed binary, the staged copy beside it, a scratch directory.
*Operations.* Resolve the latest release, download, unpack, copy to `<exe>.new`,
make it executable, rename. *What is hard.* A failure or a kill between any two
of these, another update, a release published meanwhile, the order of versions.
*Correct if* the installed binary is whole at all times and never gets older.

### Test kit (`bolide-testkit`: `server.rs`, `encode.rs`)

A fake VNC server a test scripts. *State.* Its screen, the connection's one
ZRLE writer, a queue of directives, the log of what the client sent and the
waiters on it. *What is hard.* A directive crosses the client's request; a
`CopyRect` overlaps itself; a wait is begun after, before or while the input it
waits for is written down; a shutdown meets a client that has gone quiet.
*Correct if* what a client draws is what the desktop shows, `wait_for` misses
nothing, and a shutdown ends.

### The rest

Keysyms are tables and a parser of chords, the wire types of HTTP and the PNG
encoder are data, the command line parses and sends one request, the installer
and the workflows are shell and YAML.

### How they interact

    CLI processes --state file, SIGTERM--> daemon process
    agents, CLI   --HTTP--> handlers (server) --calls, events--> session handle
    recorder      --framebuffer(), events------------------------> session handle
    session handle <--Inner--> writer task, read loop <--TCP--> desktop
    desktop: a VNC server, or the test kit's
    bolide update --rename--> the binary, which no running process reads again

## 2. Modules

| module | models | extends or uses |
|---|---|---|
| `RfbSession` | the session actor, its callers and an external desktop | |
| `SessionPromise` | the abstract session: what `refresh()` promises | |
| `SessionRefinement` | the mapping of the one to the other | `RfbSession`, `SessionPromise` |
| `Actions` | `plan()` and its building blocks, as operators | |
| `ComputerServer` | the handlers, `execute()`, the hands, `fresh_frame` | `Actions` |
| `Daemon` | the processes of the command line and the state file | |
| `Recorder` | the recording task, its clock, its stop, and ffmpeg behind a pipe | |
| `Picture` | the size of a video, and a frame fitted to it, as operators | |
| `Handshake` | both sides of the opening exchange | |
| `Zrle` | the decoder, loop by loop | |
| `ZrleWriter` | the test kit's encoder, as operators | |
| `PixelFormats` | colours, pixels, bytes and CPIXELs, as operators on bits | |
| `FakeDesktop` | the test kit's server, its reader, a test, and a client that draws | |
| `Versions` | the comparison of versions, as operators | |
| `Update` | `update()` and `swap_in()` over names and inodes | `Versions` |
| `Conversions` | one question at a time to `PixelFormats`, `Picture`, `Actions` | these three |
| `RfbSessionProofs`, `ServerProofs`, `DaemonProofs`, `HandshakeProofs`, `FakeDesktopProofs`, `ZrleProofs`, `ConversionsProofs`, `UpdateProofs` | theorems and their proofs; the first with the refinement, `ConversionsProofs` with the recorder, the last with the comparison of versions | the module they name (`ServerProofs`: `ComputerServer`) |
| `MC*`, `*.cfg` | the instances TLC checks | |

### RfbSession and the code

A step is what the code does between two points at which another thread can
look: one atomic access, one critical section, one channel operation. `wpc` and
`rpc` are the control points of the writer task and the read loop, `call[c].pc`
that of a caller, `dying[a]` how far actor `a` is in `mark_dead`. `events` is
the broadcast channel as an append-only log with a position per receiver;
falling more than `EventCapacity` behind is the `Lagged` of tokio. `c2s` and
`s2c` are the byte streams as sequences of messages, `server` the desktop. The
framebuffer keeps its size, the number of the update that painted it last
(`by`) and whether any pixel was never painted (`black`); that is all the
properties tell apart. `begun` and `composed` in a call are history.

`SessionPromise` has none of this: updates begin, pixels come from the newest, a
call is answered by an update that began after it or by an emptied framebuffer,
never when the death had been announced by the time it was made. The mapping
reads `over` off the log, `begun` and `held` off the counters, and a call off
its place and its receiver.

### ComputerServer and the code

`req[r]` is the handler of request `r`: where it is, the rest of its plan and of
its timer. Time is relative: `Tick` lets one unit pass in every timer and age at
once. It cannot pass a timer that has run out, and it cannot pass the desktop's
two promises (it draws what an input changes within `Redraw`, and sends what it
drew within `UpdatePeriod`). The session is external here, with the behaviour
`RfbSession` shows of it: updates at any time, resizes that blacken the screen,
an end. Two things of an update can be seen apart: a resize behind a rect it has
painted (`ResizesBehindRect`), which wipes the framebuffer, and its end
(`UpdateEnds`), which sets `painted()` of that black framebuffer and answers the
refreshes the update found waiting (`unread`). `behind` and `misled` are history:
that this was the last the screen was resized, and that a handler looked at
`painted()` when it was. `Cancel` is what hyper does to the handler of a closed connection: it
disappears at its await, and gives back the mutex it holds or waits for.

### Daemon and the code

`at[c]` is where command `c` is, `child[p]` where the daemon of `connect` `p`
is; `p` is its pid. Reading the file and acting on it are two steps (`Read`,
and the action that `Loads`), because everything can happen in between. The
re-executed child is a `connect` itself and does the same once more before it
dials (`ChildReads`, `ChildLoads`, with `seen` what it read). A daemon that has exited is a zombie, for which `kill(pid, 0)` still succeeds, until its
parent polls it or ends. SIGTERM kills a daemon that has not installed its
handler, and waits in `term` otherwise. `told` is the `Disconnected` a daemon
that has subscribed will receive. `oneByOne` is chosen at the start: either the
user starts a command only when none runs, or all of them overlap freely.

### Recorder and the code

`pc` is the await the task is in: its `select!`, the framebuffer, `write_all`
(`left` pieces of the frame are not in the pipe yet), the close, ffmpeg's exit.
The select is biased as in the code: the stop first, then the session's events,
then the tick. `due` and `taken` count the clock's ticks and those the task has
used; missed ones are made up one by one, as tokio's interval does. `Abandon` is
the process that ends with the task in any await.
What is in a frame is in `Picture`, which `Conversions` asks about.

### Handshake and the code

`at` and `there` are the message each side reads next, or how it ended. A
message is one record, and a read takes the head of the stream, whatever it is:
to read a record of another kind is the misreading the code has to avoid. A
login carries which secret was put in it (VNC takes eight bytes of a password,
ARD all of it), not a cipher. The desktop is the test kit's for 3.8, and
external, as `client.rs` expects it, for the older dialects and other types.

### FakeDesktop and the code

The server task is a `select!` over the client's messages that its reader task
has passed on and the test's directives; `out` is what it is writing. The reader
writes an input down (`log`), announces it (`bus`), and passes it on, three
steps. A test subscribes, scans the log, and listens. The client has a
framebuffer of numbered pixels and draws copies and rects from the stream in
order, as `client.rs` does.

### Zrle, PixelFormats, Picture, Versions and the code

A step of `Zrle` is an iteration of a loop of `decode_tile`, with the reads that
can fail as actions of their own; `job` is the rect. `PixelFormats` gives a pixel
as the set of its bits, so that shifts, masks and byte orders are operations on
sets. `Versions` gives a word by its rank in the alphabet.

### Update and the code

Names point to inodes. A copy is written in `Parts` writes through a descriptor,
which goes on pointing to the inode whatever becomes of the name; `File::create`
empties what is there. `Cannot` is the failure of any of these, `Kill` the end of
the process at any step; the remains are there for the next run. `Publish` moves
`latest` between any two steps.

### Mutants

In each module an operator under a comment that begins "Mutant:" is a plausible
bug in the definition next to it. None is used by a specification; each
belongs to a property of a run, which fails when it takes the place of the
definition. `PROJECT.json` pairs them.

## 3. Runs

| run | asks | shows |
|---|---|---|
| `session_screen` | continuous mode against a desktop that folds, repaints and resizes | no stall, no black left unasked for, fresh frames, and the screen catches up |
| `session_death` | every ending, by every actor, on demand mode | one announcement, no waiter missed, refreshes and tasks end, every step is one of `SessionPromise` |
| `server_requests` | two handlers with hang-ups, a resize, the session's end | actions not mixed, true cursor, presses in place, nothing held, inputs shown and remembered, a black image only in the two ways it names, requests end |
| `daemon_commands` | two `connect`s and a third command, with crashes, failures and both timeouts | the file finds the one daemon, reports are true, no orphan, daemons end |
| `recorder` | a recording with a stop, a dead session, a dead ffmpeg, a killed bolide, at every await | whole frames, no filming of a dead desktop, ffmpeg always gets its end of input |
| `handshake` | every configuration against every kind of desktop | both sides in step, no guessed login, errors that tell the truth, an end |
| `fake_desktop` | a scripted screen, two connections, a waiting test, a shutdown | what is drawn is what is shown, no wait misses its input, shutdown ends |
| `zrle` | pictures in every tiling, and junk | a round trip that loses nothing, and a decoder that stays inside |
| `conversions` | colours, frames of a recording, drags | arithmetic that keeps its bounds and its promises |
| `update` | one updater run again and again, failing or killed, with releases meanwhile | a whole binary at all times, never an older one, true reports |

Runs that TLC refutes, each on a statement of the repository:

| run | what the code does |
|---|---|
| `session_black` | pixels followed by `DesktopSize` in one update leave `painted()` true of a black framebuffer |
| `update_twice` | two updates at once share `<exe>.new`; one renames what the other has just emptied over the installed binary |

### Statements of the code the models contradict

The full list, with the quoted lines, is in `PROJECT.json` under "findings".
Apart from the two runs above, these are definitions of the modules that no run
checks; added to the cfg of their module's run (of the session's, `SessionDeath.cfg`
for `NothingAfterDisconnected` and `SessionScreen.cfg` for the other two) as an
`INVARIANT`, or as a `PROPERTY` where the definition is temporal, TLC refutes
them in seconds.

| definition | what the code does |
|---|---|
| `RfbSession!RefreshShowsWhatFollowed` | a refresh counts an update whose first byte it reads after the call, though it was composed before |
| `RfbSession!LoopNeverDoubles` | an explicit refresh answered on its own leaves the loop with two requests |
| `RfbSession!NothingAfterDisconnected` | `close()` in the middle of an update is followed by that update's events |
| `ComputerServer!NeverBlack` | a screenshot is of a black frame after a resize between `painted()` and the reply, or after an update that painted and then resized |
| `Daemon!DisconnectFinalises` | a `disconnect` right after `connect` kills the daemon before it handles SIGTERM: the recording is cut off |
| `Daemon!NeverSilent` | a session that dies before the daemon subscribes to its events is served for ever |
| `Recorder!LengthIsTheSessions` | ticks still owed when the stop comes are dropped, and the video is that much shorter |
| `Handshake!AuthIsForced` | a 3.3 desktop chooses the type itself, and `--auth` is not looked at |

More are exceptions a property makes. `InStep` excepts the test kit's
`Security::Unsupported`, which offers a type the client implements, and a 3.3
desktop that names type 257: `client.rs:193` keeps the low byte of the type, so
the client takes it for None and a challenge for the `ServerInit`. `NeverGuesses`
lets a 3.3 desktop be sent a login for the low byte of what it named (258 is
answered like VNC). `BlackOnlyAfterResize` names the two ways to a black image
(`session_black` is where the second comes from). `PixelsAgree`
excepts a resize during the opening exchange (`moved`), which `ServerInit` no
longer has and nobody announces; `ColourSurvives` excepts formats with a channel
that straddles the byte a CPIXEL drops, shares a bit with another, or leaves the
pixel (`Sound`).

Three things the models show that contradict nothing written:

- `HungPeerSpec` of `RfbSession` does not satisfy `TasksEnd`: a writer blocked
  in `write_all` on a peer that has stopped reading does not see `shutdown`.
- A hang-up during a drag drops its handler with the button down and its input
  unstamped. `NothingHeld` and `InputRemembered` except such actions by name.
- A daemon that takes more than five seconds to tear down (a slow ffmpeg, a
  request in progress) removes the file of the daemon that was started after
  its `disconnect` gave up. `Findable` excepts this by name (`hurried`). With
  overlapping commands, two daemons can run and the first loses its file.

### Bounds, and why they are enough

- **Session.** One caller with one call: callers share only the counters and
  the log, and a second one adds requests of a kind the loop already sends.
  One change of the screen, which may be a resize; two extents, so that it
  shrinks, grows or stays. `WireCapacity` 2 lets `write_all` block.
  `EventCapacity` 2 in `session_screen` makes a receiver lag; 4 in
  `session_death` keeps the announcement from being overwritten in most states,
  so that the property rests on the order of the steps. One notice, so that the
  read loop may be busy with something else than an update when the end comes.
- **Server.** Two requests: r1 drags, types, clicks or points off the screen; r2 presses ctrl and the
  plus key, or takes a screenshot in either way, so that input meets input and
  input meets screenshot. Delays have the order of the real ones (a desktop that
  draws within the 500 ms of `input_settle`, and sends updates more often than
  the 2 s of `AFTER_INPUT_WAIT` but less often than the 250 ms of
  `INCREMENTAL_WAIT`) in units of one or a few ticks; `DelayAssumption` names
  what the code's comments take for granted. One resize falls in every window,
  alone or behind a rect; the screen keeps its extent, since r1 also asks for a
  point off the screen, which is all a plan has to do with the extent.
- **Daemon.** Two `connect`s, so that one replaces or meets the other, and one
  command that disconnects or queries, so that it meets both. Every daemon may
  crash, fail to set up or lose its session at any step.
- **Recorder.** A frame of two pieces and a pipe of one: every frame is caught
  half in the pipe. Four ticks: some are missed, made up, and left over. Two
  events before the last, so that it is behind others; one stop.
- **Handshake.** All 24 configurations against the test kit's five desktops,
  every subset of four types in five dialects (3.5 and 3.889 among them), in 3.3
  the types of more than a byte that end in 0, None and VNC, and
  four desktops that are refused. There is no other bound: it is finite.
- **Test kit.** Two directives and two connections, screens of 3 by 1 (a copy
  overlaps itself) and 2 by 2 (of two rows). A socket of one message, and a
  receiver of one announcement, so that writes wait and the waiter lags.
- **ZRLE.** Every picture of 3 by 2 in three colours and of 9 by 1 in two, in
  tiles of two by two and every tiling; runs of 1, 254 to 257 and 510 to 512;
  palettes of 4, 5, 16, 17 and 127 to 129; for the junk, every four bytes of six
  that mean something, alone and behind two palettes.
- **Conversions.** Seven levels of each channel in 19 formats; desktops up to 5
  by 5 on canvases of desktops up to 5 by 5; drags of every length up to nine in
  up to seven moves, and some across 65535.
- **Update.** One updater in three runs, so that the third finds the remains of
  a killed or failed one after a successful one; five releases whose order a
  comparison of strings, or of lengths, gets wrong; two writes to a copy.
  `update_twice`: two updaters, two releases.

`CHECK_DEADLOCK FALSE` is said where the system really stops: the session, which
ends and whose calls are bounded; the daemon, whose commands run once each; the
recorder, the handshake, the test kit after its shutdown; ZRLE and the
conversions, which have answered; the updater after its runs. The server is
checked for deadlock: its clock always ticks.

The `TypeOK` of the session, the server, the daemon, the recorder, the handshake
and the test kit's desktop are theorems (section 4).

### Fairness, and why the code justifies it

- **Session.** `CodeFairness`: tokio polls every task that is ready, so each
  task and each call takes the step it can take. Timers, new calls, `close()` and
  the network owe nothing. `ServerFairness`: the desktop reads what it is sent
  and answers what it has read; without it there is nothing to catch up with.
  Endings are not fair, so no property rests on the session dying.
- **Server.** Handlers are polled, time passes, and the desktop keeps its two
  promises. Cancellation, resizes and the end are not fair.
- **Daemon.** Each process that can run does (the parent, the daemon, the third
  command), and init reaps. Crashes, failures, the session's death and the
  start of a command are not fair.
- **Recorder.** The task is polled; ffmpeg reads what it is sent and sees the end
  of its input. The clock, the stop, the desktop and every death are not fair: a
  recording nobody stops may go on.
- **Handshake.** Only the client is fair, and its timer is one of its steps; the
  desktop owes nothing, which is what the timeout is for.
- **Test kit.** The client that is there reads what it is sent, or goes; a write
  that has room is made. The server's `select!` is random, so the shutdown is
  chosen sooner or later if it is ready again and again: `SF` on `HearShutdown`.

## 4. Proofs

All of it is proved for any value of the constants that satisfies the named
assumption of the module, which says that numbers are numbers, that sets hold
the values they may, and (for the daemon) that a pid is not a file's absence.
What a theorem assumes beyond that is in its statement and named here.

**RfbSession** (`RfbSessionProofs`).
`TypeCorrect`: `TypeInv` adds to `TypeOK` what the writer and the read loop hold
at each of their points, without which a step from there has no type.
`DeathIsAnnouncedOnce` and `DeathReachesWaiters`: `DeathInv`. A task that is in
its loop has not called `mark_dead`; at most one actor is about to announce,
and then nobody has; until then the session was connected. A receiver never
passes the end of the log, so an announcement appended later is ahead of it.
`RefreshesAreFresh`: `FreshInv`. `last_painted_update` never exceeds the updates
begun nor the number of the pixels on screen, and the floor of a call is at
least the updates begun at the call; a call that resolves has seen it exceeded.
`ContinuousNeverStalls` and `BlackPixelsAreAskedFor`: `ScreenInv`. While the
session is connected both tasks are in their loops (`TasksRunning`). The requests
are one set wherever they are, in the command queue, in the writer's hand, in the
stream or pending at the desktop (`UnderWay`), so that passing one on changes
nothing; only its answer takes it away, and then the update is in the stream or
being read (`LoopAsks`). A black framebuffer has a request for all of it among
them, or a rect to come that paints or replaces it (`BlackAhead`). That such a
request still covers the framebuffer when the desktop answers it takes that the
sizes in the stream lead to the one the desktop has told (`SizeTold`): a resize
still in the stream will set `needs_full` when it is read.

**SessionPromise** (also `RfbSessionProofs`). `SessionKeepsPromise`: the
session implements the abstract one, `Spec => Promise!Spec`. The initial states
map to the initial state; each step maps to one of the promise or to none it
sees, under the three invariants above (`RefInv`) and one more, that a caller who
calls nothing has the record of nothing. The steps that matter are the
admission of a call, where `connected` shows that nothing had been announced
when it was made, and its answer, where `FreshInv` gives the promise's guard.

**ComputerServer** (`ServerProofs`).
`Typing`: every plan is a sequence of operations, for any action and pacing.
`Cursor`: only `Send` touches the wire and the record, and both in one step.
`Unmixed`: `Hands`. Who executes holds the mutex; who has not had it has sent
nothing; what its holder has sent is the last thing on the wire. So nobody
sends between two inputs of an action, and a handler that was dropped never
sends again.
`BlackImages`: `Sight`. A screen that is painted and black was last resized behind
a painted rect; so from the moment a handler looked, or was answered, the screen
is not black, was resized since, or had been resized like that when the handler
looked (`Excused`). An update that is yet to answer a handler, and has wiped the
screen already, has done so since the handler asked (`Found`).
`ImagesShowInput`, under `DelayAssumption`: `Fresh`, over `Books` and `Sight`.
Every input on the wire is drawn or has an age of at most `Redraw` (`Books`); the
last input's timer never runs ahead of those ages (`Aged`), so when it has
settled everything it stands for is drawn. A handler that waits for an update
then has one with that input coming before its timer runs out (`Promised`).
`Remembered`: `Memory`. A plan without input sends none, who has stamped its
input is covered by the record or by a screenshot that took it, and a record is
only taken by a handler that owes it from then on.
`PressesHavePlace` and `NothingIsLeftHeld`: `Grip`. A plan by itself presses only
where its own pointer event went before (`Prepared`) and lets go of what it holds
down (`Released`): shown for clicks, drags, typing, chords and scrolls, each plan
as a function of its positions and their sequence by its two halves. Once a plan
is under way its first press may rely on the wire instead (`Ready`), and whatever
is held down has its release behind it on the wire or before it in the plan of
the one who holds the hands (`LetGoOf`); a cancelled handler ends the second
promise, and the property says so.

**Daemon** (`DaemonProofs`).
`OwnReport` and `NoOrphanLeft`: `IInv`. A pid that can be read was written by
that daemon itself, and a parent at its last look has reaped its child.
`AlwaysFindable` and `AlwaysOneDaemon`: `OneByOneInv`. `Findable` alone is not
inductive: a command could clear the file from stale knowledge. For a user who
runs one command at a time the invariant says that what the one running command
has read is still what there is (`ReadTrue`), that a `connect` past its check
is alone with its own child (`Alone`; so the child, looking once more, finds no file
or a stale one), that a `disconnect` only clears once
nobody is at work (`StopsTheOnly`), and that a daemon that has written is the
one in the file (`Named`). The case that decides is `Clears`, which removes the
file whoever wrote it: by `Named` it is its own.

**Recorder** (`ConversionsProofs`, last section). `FramesAreWhole`: `IInv`. As long as neither
ffmpeg nor a write has failed, what ffmpeg has read and what is in the pipe are
the whole frames and the part of the one under way (`Accounts`); ffmpeg finishes
only with an empty, closed pipe (`Plumbing`). `EndsWithTheDesktop`: of a dead
desktop at most the frame is taken whose tick was already taken (`LastOne`).

**Handshake** (`HandshakeProofs`). `SidesInStep`, `NoLoginIsGuessed` and
`EndsAreTruthful`, for any desktops and configurations: `HandInv`. The exchange is
a course of nine rows (`Course`), and a row says where the client is, what the
desktop has decided, and exactly which messages are in the two streams; a step of
either side leads from row to row. With the verdict in the row, the client's
error can be held against it; `LoggedIn` adds that a login is made in one row
only, after the type has been seen among the offers, as the client reads them
(`Offered`). A row outside the course is the desktop of 257 (`Astray`), whose
challenge the client cannot read as a `ServerInit`; it ends there.

**FakeDesktop** (`FakeDesktopProofs`), for pictures of any size and any script.
`DesktopTypes`: `TypeInv` adds to `TypeOK` what the messages hold.
`InputsAreFound`: `Announced`. An input that is written down, announced and not in
the reader's hand is in the receiver of a test that listens, unless the receiver
has lost something and knows it; then it scans the log again.
`ScreensAgree`: `Draws`. What is on its way to the client, and what the desktop is
writing, is replayed message by message (`Replay`): a sequence of states of the
client, from the one it is in (`Now`), each following from the one before by
drawing one message (`Drawing`, which no message does that the client could not
take). It must end in what is shown, with the place in the zlib stream the desktop
has reached (`Follows`). Reading takes the first state off the replay
(`FollowsRead`); a write moves a message from hand to socket and changes nothing; a
directive appends to it (`ReplayMore`), and a copy that is appended does on both
sides the same to the same picture. Until an update has painted the framebuffer
whole, only its size need be the desktop's (`Agrees`). A resize in an opening exchange breaks it (`moved`), and the
property says so.

**Zrle** (`ZrleProofs`). `DecoderStaysInside`, for any bytes, rect and tiles:
`DecoderInv`. The corner of the tile is in the rect (`Placed`), the tile has whole
rows of packed indices and never too much (`Filled`), and the cells decoded are
those of the rows of tiles above and of the tiles to the left (`Drawn`). The
lemmas under it are that a cell has one row and one column, and that the cells
`decode_tiles` copies to are those of the tile's rectangle (`TileCells`). From
them too: no pixel is decoded twice (`PixelsAreFinal`), and the bytes taken for a
row hold the index of each of its columns (`IndicesAreThere`), where an index
past the end would panic.

**Versions and Update** (`UpdateProofs`). `NotBoth` and
`ByWayOf`: the comparison of versions is a strict order. `BinaryIsWhole`, for
runs in which no two updaters overlap (`OneRuns`, without which `update_twice`
refutes it): what an updater under way holds at each step is the release it
resolved (`Underway`), and its descriptor is never the installed inode
(`Fresh`). `NoOlder` assumes besides that releases are published in their order
(`Published`); it needs that the order is one, which the first two say.
`WhatItSaysIsSo` is for one updater (`OneUpdater`): a later update by another
makes what the first has said history.

**Picture and Actions** (`ConversionsProofs`). `FramesFit`: for every size of the
desktop, when the recording began and since. Along one side the source of a pixel
is a quotient below the side, in order, and the place itself when nothing is
scaled (`AcrossSound`); the side that is scaled with the other stays on the canvas
because the products were compared (`ShorterFits`).
`WaysLeadToTheEnd`: for every start, end and number of moves. The quotients of two
neighbouring way points are in order and at most the whole distance.

**Pixel formats** (`ConversionsProofs`). `FormatTold`: the desktop decodes what
bolide encoded, whatever the format. `RawAndZrleAgree` is the first part of
`ColourSurvives`, `ZrleIsRaw`, for every format of the code's types that is `Sound`:
the bytes of a pixel that are on the wire bring exactly their bits back
(`Carries`), the byte ZRLE leaves out has no bit of a channel, for either byte
order and either end (`KeptHasTheChannels`), and pixels with the same bits in
the channels are the same colour (`SameColour`).
`ColoursSurvive` is the rest of it, for every such format and every colour. The
number of a set of bits has those bits (`BitsOfValue`, and `ValueOfBits` back, by
halving one bit after the other); channels share none and leave none behind at the
end of the pixel (`ChannelsApart`), so what is on the wire is the pixel
(`WireKeeps`) and each channel is its own again. With eight bits that is the
channel itself; with fewer, to scale up and down again loses nothing, because the
error of the first rounding, at most half of max, is less than half a step when it
is scaled back (`ScaledBack`, `ScaleAndBack`).

**What proving changed in the model.** `Authenticate` and `Scaled` were `CASE`s
whose arms overlapped; TLC takes the first that holds, as the code's `if` does,
but TLA+ does not say so, and no proof could. They are nested conditions now. The
two properties of buttons in `ComputerServer` are stated with positions on the
wire instead of a filtered copy of it; they say the same. `Sound` did not say
that a channel ends within the pixel: with a shift past the last bit the colour
is lost, so `ColourSurvives` was false for formats the run did not have. And the
number of a set of bits was a fold, which is a sum of sixteen terms now.

**Only model-checked.**

- All liveness (`ScreenCatchesUp`, `RefreshEnds`, `TasksEnd`, `RequestsEnd`,
  `AskedEnds`, `Finalised`, `HandshakeEnds`, `ShutdownEnds`): it needs `ENABLED`,
  which these provers do not reach.
- `RoundTrip`: what a recursive encoder wrote against what a loop reads, by
  induction over the data. It is the one safety property of the passing runs
  that is not a theorem.

## 5. Not modelled, and why

- JSON, HTTP framing, PNG, the table of keysyms, the argument parser and the
  HTTP client: data, or one pass without state. The zlib stream under ZRLE is a
  library; that it is one for the whole session is in `FakeDesktop`.
- The ciphers of ARD and VNC authentication: mathematics of a library.
- A 3.7 desktop that sends no `SecurityResult` for the type None: to the code
  only the reason string differs between 3.7 and 3.8 (`proto.rs:28`), and the
  model's external 3.7 desktop is the one the code expects.
- The server's clipboard and status handlers and its bearer token: one call or
  one comparison. Its graceful shutdown is an atomic part of `TearsDown`.
- The reuse of a pid, and a process of another user: nothing bolide can tell.
- Whether a file system commits the copy before the rename when the power fails:
  the code does not sync, and the model has kills, not power failures.
- In the test kit, a `CopyRect` that leaves the screen (the caller's mistake),
  a directive being written to a client that has stopped reading (`write_all` is
  not raced with the shutdown), the PNG loading of `Screen`, and the wrapper
  around the CLI's process.
- The installer, shell scripts and workflows.

## 6. Plan

Done: the session and its promise, the server, the daemon, the recorder, the
handshake, the test kit's desktop, ZRLE and pixel formats, conversions, updates,
and the proofs of section 4, which leave of the safety properties only the one that
needs induction over data. What is left, in order of what it would add:

1. `ComputerServer` over `SessionPromise` instead of its own external session,
   and `Recorder` under the `TearsDown` of `Daemon`.
2. The clipboard and status handlers, and a graceful shutdown in steps.
3. `RoundTrip` tile by tile, with the encoder as folds: what can be said of one
   tile without induction over its pixels.
