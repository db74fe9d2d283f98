--------------------------- MODULE ComputerServer ---------------------------
(***************************************************************************)
(* The HTTP layer of bolide-server (http.rs) and execute() (actions.rs):   *)
(* handlers of POST /computer and GET /screenshot that run concurrently,   *)
(* the desktop's one pair of hands they queue for, the record of the last  *)
(* input, and fresh_frame.  A client may hang up, which drops its handler  *)
(* at the await it has reached.                                            *)
(*                                                                         *)
(* External are the session, of which RfbSession has the detail, and the   *)
(* desktop: it draws what an input changes within Redraw ticks, and sends  *)
(* what it drew within UpdatePeriod.  An update may come at any time, and  *)
(* may resize the screen behind a rect it has painted.                     *)
(*                                                                         *)
(* Time is relative: a handler holds what is left of its wait, a record    *)
(* its age, and a Tick moves them all.                                     *)
(***************************************************************************)
EXTENDS Actions

CONSTANTS
    Requests,        \* HTTP requests, each made once
    Bodies,          \* what each of them may ask for
    Pacing,          \* ServerConfig::drag
    Sizes,           \* extents of the screen
    InitialSize,
    InputSettle,     \* ServerConfig::input_settle
    IncrementalWait, \* INCREMENTAL_WAIT
    AfterInputWait,  \* AFTER_INPUT_WAIT
    FrameTimeout,    \* ServerConfig::frame_timeout
    Redraw,          \* external: the desktop draws within this after an input
    UpdatePeriod,    \* external: and sends an update within this after drawing
    Mishaps,         \* what may go wrong
    MaxResizes       \* bound: resizes of the screen

Nobody == "nobody"
None == [age |-> -1, upto |-> 0]
GetScreenshot == [action |-> "get_screenshot"]

ASSUME ServerAssumption ==
    /\ {InputSettle, IncrementalWait, AfterInputWait, FrameTimeout, Redraw,
        UpdatePeriod, MaxResizes} \subseteq Nat
    /\ Mishaps \subseteq {"cancel", "resize", "death"}
    /\ InitialSize \in Sizes
    /\ Nobody \notin Requests
    /\ \A r \in Requests : Bodies[r] \subseteq Action \cup {GetScreenshot}
    /\ Pacing \in DragPacing

\* The delays the two waits were chosen for (http.rs, the constants' comments).
ASSUME DelayAssumption ==
    Redraw < InputSettle /\ UpdatePeriod < AfterInputWait /\ UpdatePeriod < FrameTimeout

VARIABLES
    holder, queue,   \* AppState::hands: who holds the mutex, who waits for it
    cursor,          \* what it guards: where bolide put the pointer last
    lastInput,       \* AppState::last_input: its age, and (history) its number
    req,             \* the handler of each request
    connected, painted, size, screen, \* external: the session
    unread,          \* and the update it is in the middle of, see below
    drawn, undrawn, unsent, \* external: the desktop, see below
    wire,            \* history: the inputs sent, and who sent them
    resizes,         \* counter of the bound
    behind           \* history: the last resize came behind a painted rect

handsVars == <<holder, queue, cursor>>
sessionVars == <<connected, painted, size, screen, unread, resizes, behind>>
desktopVars == <<drawn, undrawn, unsent>>
vars == <<handsVars, lastInput, req, sessionVars, desktopVars, wire>>

-----------------------------------------------------------------------------

\* A handler.  ops is what is left of its plan, input whether the plan had any;
\* timer what is left of a sleep or a wait; owes (history) the last of the
\* inputs it let settle, after whether there was one; asked the resizes it knew
\* of when it asked, misled (history) that the last of them was behind a painted
\* rect; answered that an update came since; image what it replied.
NewRequest == [pc |-> "new", body |-> GetScreenshot, ops |-> <<>>, input |-> FALSE,
               failed |-> FALSE, timer |-> 0, owes |-> 0, after |-> FALSE,
               whole |-> FALSE, asked |-> 0, misled |-> FALSE, answered |-> FALSE,
               image |-> [black |-> FALSE, shows |-> 0]]

\* The framebuffer shows the desktop as it was after `shows` inputs; drawn counts
\* those the desktop has drawn, undrawn has the ages of the others, and unsent
\* the age of what it drew and has not sent (-1: nothing).  unread is {}, or of an
\* update that has painted and then resized, and has not been read to its end, the
\* one set of the handlers whose refresh it will answer.
Init ==
    /\ holder = Nobody /\ queue = <<>> /\ cursor = <<0, 0>>
    /\ lastInput = None
    /\ req = [r \in Requests |-> NewRequest]
    /\ connected = TRUE /\ painted = FALSE /\ size = InitialSize
    /\ screen = [black |-> TRUE, shows |-> 0]
    /\ drawn = 0 /\ undrawn = <<>> /\ unsent = -1
    /\ wire = <<>>
    /\ unread = {} /\ resizes = 0 /\ behind = FALSE

\* A queue after r, who is in it once or not at all, has left it.
Without(q, r) ==
    IF \A i \in DOMAIN q : q[i] # r THEN q
    ELSE LET i == CHOOSE i \in DOMAIN q : q[i] = r
         IN  SubSeq(q, 1, i - 1) \o SubSeq(q, i + 1, Len(q))

At(r, pc) == req[r].pc = pc
Goto(r, pc) == req' = [req EXCEPT ![r] = [@ EXCEPT !.pc = pc]]

\* The handler returns or is dropped; of its locals only history is left.
Ends(r, pc) == req' = [req EXCEPT ![r] = [NewRequest EXCEPT !.pc = pc, !.owes = req[r].owes]]

-----------------------------------------------------------------------------
(* POST /computer *)

\* The plan is made for the size of this moment; then the handler queues for the
\* hands (a tokio mutex is fair).  A faulty action is refused at once.
Arrive(r) ==
    /\ At(r, "new")
    /\ \E b \in Bodies[r] :
         \/ /\ b = GetScreenshot
            /\ req' = [req EXCEPT ![r] = [@ EXCEPT !.pc = "take", !.body = b]]
            /\ UNCHANGED queue
         \/ /\ b # GetScreenshot /\ Plannable(b, size)
            /\ LET ops == Plan(b, Pacing) IN
               req' = [req EXCEPT ![r] = [@ EXCEPT !.pc = "queue", !.body = b, !.ops = ops,
                         !.input = \E i \in DOMAIN ops : IsInput(ops[i])]]
            /\ queue' = Append(queue, r)
         \/ /\ b # GetScreenshot /\ ~Plannable(b, size)
            /\ Ends(r, "done")
            /\ UNCHANGED queue
    /\ UNCHANGED <<holder, cursor, lastInput, sessionVars, desktopVars, wire>>

\* Mutant: nobody waits for the hands.
TakesAnyway(r) ==
    /\ At(r, "queue")
    /\ holder' = r
    /\ queue' = Without(queue, r)
    /\ Goto(r, "execute")
    /\ UNCHANGED <<cursor, lastInput, sessionVars, desktopVars, wire>>

TakeHands(r) ==
    /\ At(r, "queue")
    /\ holder = Nobody
    /\ queue # <<>> /\ Head(queue) = r
    /\ holder' = r
    /\ queue' = Tail(queue)
    /\ Goto(r, "execute")
    /\ UNCHANGED <<cursor, lastInput, sessionVars, desktopVars, wire>>

Executing(r) == At(r, "execute") /\ req[r].ops # <<>>

\* Mutant: the cursor is recorded before the event has gone out.
RecordFirst(r, op) ==
    cursor' = IF op.op = "pointer" THEN op.at ELSE cursor

\* The record follows an event that was sent.
Record(r, op) ==
    cursor' = IF op.op = "pointer" /\ connected THEN op.at ELSE cursor

\* session.pointer or session.key.  A closed session ends the run.
Send(r) ==
    /\ Executing(r)
    /\ LET op == Head(req[r].ops) IN
       /\ IsInput(op)
       /\ Record(r, op)
       /\ IF connected
          THEN /\ wire' = Append(wire, [by |-> r, op |-> op])
               /\ undrawn' = Append(undrawn, 0)
               /\ req' = [req EXCEPT ![r] = [@ EXCEPT !.ops = Tail(req[r].ops)]]
          ELSE /\ req' = [req EXCEPT ![r] = [@ EXCEPT !.ops = <<>>, !.failed = TRUE]]
               /\ UNCHANGED <<wire, undrawn>>
    /\ UNCHANGED <<holder, queue, lastInput, sessionVars, drawn, unsent>>

\* clock.sleep, with the hands held.
FallAsleep(r) ==
    /\ Executing(r)
    /\ Head(req[r].ops).op = "sleep"
    /\ req' = [req EXCEPT ![r] = [@ EXCEPT !.pc = "sleep", !.ops = Tail(req[r].ops),
                                         !.timer = Head(req[r].ops).ms]]
    /\ UNCHANGED <<handsVars, lastInput, sessionVars, desktopVars, wire>>

WakeUp(r) ==
    /\ At(r, "sleep")
    /\ req[r].timer = 0
    /\ Goto(r, "execute")
    /\ UNCHANGED <<handsVars, lastInput, sessionVars, desktopVars, wire>>

\* Mutant: only an action that succeeded is stamped.
StampSuccess(r) ==
    /\ At(r, "execute") /\ req[r].ops = <<>>
    /\ lastInput' = IF req[r].input /\ ~req[r].failed
                    THEN [age |-> 0, upto |-> Len(wire)] ELSE lastInput
    /\ Goto(r, "drop")
    /\ UNCHANGED <<handsVars, sessionVars, desktopVars, wire>>

\* execute returned: the input is stamped, failed or not.
Stamp(r) ==
    /\ At(r, "execute") /\ req[r].ops = <<>>
    /\ lastInput' = IF req[r].input THEN [age |-> 0, upto |-> Len(wire)] ELSE lastInput
    /\ Goto(r, "drop")
    /\ UNCHANGED <<handsVars, sessionVars, desktopVars, wire>>

\* The hands are given up before a screenshot waits for its frame.
DropHands(r) ==
    /\ At(r, "drop")
    /\ holder' = Nobody
    /\ IF req[r].body.action = "screenshot" /\ ~req[r].failed
       THEN Goto(r, "take") ELSE Ends(r, "done")
    /\ UNCHANGED <<queue, cursor, lastInput, sessionVars, desktopVars, wire>>

-----------------------------------------------------------------------------
(* fresh_frame *)

TakeLastInput(r) ==
    /\ At(r, "take")
    /\ lastInput' = None
    /\ req' = [req EXCEPT ![r] = [@ EXCEPT !.pc = "settle",
                 !.after = (lastInput # None), !.owes = lastInput.upto,
                 !.timer = IF lastInput # None THEN InputSettle - lastInput.age ELSE 0]]
    /\ UNCHANGED <<handsVars, sessionVars, desktopVars, wire>>

\* Mutant: whatever is there is taken for painted.
CheckNothing(r) ==
    /\ At(r, "settle")
    /\ req[r].timer = 0
    /\ req' = [req EXCEPT ![r] = [@ EXCEPT !.pc = "ask", !.whole = FALSE, !.asked = resizes,
                                         !.misled = behind]]
    /\ UNCHANGED <<handsVars, lastInput, sessionVars, desktopVars, wire>>

\* The input has settled.  Is there anything to fall back on?
CheckPainted(r) ==
    /\ At(r, "settle")
    /\ req[r].timer = 0
    /\ req' = [req EXCEPT ![r] = [@ EXCEPT !.pc = "ask", !.whole = ~painted, !.asked = resizes,
                                         !.misled = behind]]
    /\ UNCHANGED <<handsVars, lastInput, sessionVars, desktopVars, wire>>

AtMost(a, b) == IF a <= b THEN a ELSE b

\* Mutant: input or not, a painted screen waits a moment.
ShortWait(r) == IF req[r].whole THEN FrameTimeout ELSE AtMost(FrameTimeout, IncrementalWait)

\* How long the refresh may take.
Wait(r) ==
    IF req[r].whole THEN FrameTimeout
    ELSE AtMost(FrameTimeout, IF req[r].after THEN AfterInputWait ELSE IncrementalWait)

\* session.refresh: it fails at once on a closed session.
Ask(r) ==
    /\ At(r, "ask")
    /\ IF connected
       THEN req' = [req EXCEPT ![r] = [@ EXCEPT !.pc = "wait", !.timer = Wait(r)]]
       ELSE Ends(r, "done")
    /\ UNCHANGED <<handsVars, lastInput, sessionVars, desktopVars, wire>>

\* It resolves on an update that began after the call.
RefreshResolves(r) ==
    /\ At(r, "wait")
    /\ req[r].answered
    /\ Goto(r, "frame")
    /\ UNCHANGED <<handsVars, lastInput, sessionVars, desktopVars, wire>>

\* Mutant: the whole screen is waited for as long as it takes.
TimesOutIfPainted(r) ==
    /\ At(r, "wait")
    /\ req[r].timer = 0 /\ ~req[r].whole
    /\ Goto(r, "frame")
    /\ UNCHANGED <<handsVars, lastInput, sessionVars, desktopVars, wire>>

\* Out of time: the frame held will do, if the screen was painted when asked.
RefreshTimesOut(r) ==
    /\ At(r, "wait")
    /\ req[r].timer = 0
    /\ IF req[r].whole THEN Ends(r, "done") ELSE Goto(r, "frame")
    /\ UNCHANGED <<handsVars, lastInput, sessionVars, desktopVars, wire>>

RefreshCloses(r) ==
    /\ At(r, "wait")
    /\ ~connected
    /\ Ends(r, "done")
    /\ UNCHANGED <<handsVars, lastInput, sessionVars, desktopVars, wire>>

\* framebuffer(), which answers after a disconnect too, and the reply.
TakeFrame(r) ==
    /\ At(r, "frame")
    /\ req' = [req EXCEPT ![r] = [NewRequest EXCEPT !.pc = "image", !.owes = req[r].owes,
                                   !.asked = req[r].asked, !.misled = req[r].misled,
                                   !.image = screen]]
    /\ UNCHANGED <<handsVars, lastInput, sessionVars, desktopVars, wire>>

-----------------------------------------------------------------------------
\* The client hangs up: the handler is dropped at the await where it waits, and
\* with it its place in the queue, or the hands.
Suspended(r) ==
    \/ req[r].pc \in {"queue", "sleep", "wait"}
    \/ At(r, "settle") /\ req[r].timer > 0

Cancel(r) ==
    /\ "cancel" \in Mishaps
    /\ Suspended(r)
    /\ Ends(r, "gone")
    /\ holder' = IF holder = r THEN Nobody ELSE holder
    /\ queue' = Without(queue, r)
    /\ UNCHANGED <<cursor, lastInput, sessionVars, desktopVars, wire>>

Handler(r) ==
    \/ TakeHands(r) \/ Send(r) \/ FallAsleep(r) \/ WakeUp(r) \/ Stamp(r)
    \/ DropHands(r) \/ TakeLastInput(r) \/ CheckPainted(r) \/ Ask(r)
    \/ RefreshResolves(r) \/ RefreshTimesOut(r) \/ RefreshCloses(r) \/ TakeFrame(r)

-----------------------------------------------------------------------------
(* External: the desktop, the session, time *)

\* The desktop draws what the k oldest inputs changed, all they did.
DesktopDraws ==
    /\ connected
    /\ \E k \in 1 .. Len(undrawn) :
         /\ drawn' = drawn + k
         /\ undrawn' = SubSeq(undrawn, k + 1, Len(undrawn))
    /\ unsent' = IF unsent = -1 THEN 0 ELSE unsent
    /\ UNCHANGED <<handsVars, lastInput, req, sessionVars, wire>>

\* An update of what is drawn is applied, and answers every refresh.
UpdateArrives ==
    /\ connected
    /\ unread = {}
    /\ screen' = [black |-> FALSE, shows |-> drawn]
    /\ painted' = TRUE /\ behind' = FALSE
    /\ unsent' = -1
    /\ req' = [r \in Requests |-> IF At(r, "wait") THEN [req[r] EXCEPT !.answered = TRUE]
                                                   ELSE req[r]]
    /\ UNCHANGED <<handsVars, lastInput, connected, size, unread, resizes, drawn, undrawn, wire>>

\* The screen is resized, and the framebuffer black until the next update.
ScreenResizes ==
    /\ "resize" \in Mishaps
    /\ connected
    /\ resizes < MaxResizes
    /\ resizes' = resizes + 1
    /\ size' \in Sizes
    /\ screen' = [black |-> TRUE, shows |-> 0]
    /\ painted' = FALSE /\ behind' = FALSE
    /\ UNCHANGED <<handsVars, lastInput, req, connected, unread, desktopVars, wire>>

\* An update of what is drawn paints, and resizes the screen in a later rect, which
\* wipes what it painted.  It will answer some of the refreshes, those it found.
ResizesBehindRect ==
    /\ "resize" \in Mishaps
    /\ connected
    /\ unread = {}
    /\ resizes < MaxResizes
    /\ resizes' = resizes + 1
    /\ size' \in Sizes
    /\ screen' = [black |-> TRUE, shows |-> 0]
    /\ painted' = FALSE /\ behind' = FALSE
    /\ unsent' = -1
    /\ \E found \in SUBSET {r \in Requests : At(r, "wait")} : unread' = {found}
    /\ UNCHANGED <<handsVars, lastInput, req, connected, drawn, undrawn, wire>>

\* At its end it has painted, and says so of a framebuffer that is black.
UpdateEnds ==
    /\ painted' = TRUE /\ behind' = TRUE
    /\ unread' = {}
    /\ \E found \in unread :
         req' = [r \in Requests |-> IF At(r, "wait") /\ r \in found
                                     THEN [req[r] EXCEPT !.answered = TRUE] ELSE req[r]]
    /\ UNCHANGED <<handsVars, lastInput, connected, size, screen, resizes, desktopVars, wire>>

SessionDies ==
    /\ "death" \in Mishaps
    /\ connected
    /\ connected' = FALSE
    /\ unread' = {}
    /\ UNCHANGED <<handsVars, lastInput, req, painted, size, screen, resizes, behind,
                   desktopVars, wire>>

\* A tick passes, unless the desktop is due to draw or to send.
Tick ==
    /\ connected => (\A i \in DOMAIN undrawn : undrawn[i] < Redraw) /\ unsent < UpdatePeriod
    /\ req' = [r \in Requests |-> [req[r] EXCEPT !.timer = IF @ > 0 THEN @ - 1 ELSE 0]]
    /\ lastInput' = IF lastInput = None THEN None
                    ELSE [lastInput EXCEPT !.age = AtMost(@ + 1, InputSettle)]
    /\ undrawn' = [i \in DOMAIN undrawn |-> AtMost(undrawn[i] + 1, Redraw)]
    /\ unsent' = IF unsent = -1 THEN -1 ELSE AtMost(unsent + 1, UpdatePeriod)
    /\ UNCHANGED <<handsVars, sessionVars, drawn, wire>>

Next ==
    \/ \E r \in Requests : Arrive(r) \/ Handler(r) \/ Cancel(r)
    \/ DesktopDraws \/ UpdateArrives \/ ScreenResizes \/ ResizesBehindRect \/ UpdateEnds
    \/ SessionDies \/ Tick

Spec == Init /\ [][Next]_vars

\* The runtime polls every handler that is ready, time passes, and the desktop
\* draws and sends what it owes, to the end.  A still screen sends nothing.
Fairness ==
    /\ \A r \in Requests : WF_vars(Handler(r))
    /\ WF_vars(Tick)
    /\ WF_vars(DesktopDraws)
    /\ WF_vars(unsent # -1 /\ UpdateArrives)
    /\ WF_vars(UpdateEnds)

FairSpec == Spec /\ Fairness

-----------------------------------------------------------------------------
(* Properties *)

Points == {"new", "queue", "execute", "sleep", "drop", "take", "settle", "ask", "wait",
           "frame", "image", "done", "gone"}

Handlers ==
    [pc : Points, body : Action \cup {GetScreenshot}, ops : Seq(RfbOp), input : BOOLEAN,
     failed : BOOLEAN, timer : Nat, owes : Nat, after : BOOLEAN, whole : BOOLEAN,
     asked : Nat, misled : BOOLEAN, answered : BOOLEAN, image : [black : BOOLEAN, shows : Nat]]

\* The types: every handler is at a place the code has with a plan of operations,
\* and ages and delays are numbers.
TypeOK ==
    /\ holder \in Requests \cup {Nobody} /\ queue \in Seq(Requests)
    /\ cursor \in Int \X Int
    /\ lastInput \in [age : -1 .. InputSettle, upto : Nat]
    /\ req \in [Requests -> Handlers]
    /\ connected \in BOOLEAN /\ painted \in BOOLEAN /\ size \in Sizes
    /\ screen \in [black : BOOLEAN, shows : Nat]
    /\ drawn \in Nat /\ undrawn \in Seq(Nat) /\ unsent \in -1 .. UpdatePeriod
    /\ wire \in Seq([by : Requests, op : RfbOp])
    /\ unread \subseteq SUBSET Requests /\ resizes \in Nat /\ behind \in BOOLEAN

\* One pair of hands: on the wire the inputs of an action are next to each other,
\* whatever else runs, sleeps or is cancelled in between.
NeverBraided ==
    \A i, k \in DOMAIN wire : \A j \in i .. k :
        wire[i].by = wire[k].by => wire[j].by = wire[i].by

IsPointer(i) == wire[i].op.op = "pointer"

\* cursor_position is bolide's own last PointerEvent, [0, 0] before the first.
CursorIsTrue ==
    \/ /\ cursor = <<0, 0>>
       /\ \A i \in DOMAIN wire : ~IsPointer(i)
    \/ \E i \in DOMAIN wire :
          /\ IsPointer(i) /\ cursor = wire[i].op.at
          /\ \A j \in DOMAIN wire : j > i => ~IsPointer(j)

\* A button goes down only where the pointer already is: a press follows a pointer
\* event, and if that held no button it was at the same place.
PressesInPlace ==
    \A i \in DOMAIN wire :
        IsPointer(i) /\ wire[i].op.buttons # 0 =>
            /\ \E j \in 1 .. i - 1 : IsPointer(j)
            /\ \A j \in 1 .. i - 1 :
                 IsPointer(j) /\ wire[j].op.buttons = 0 /\ (\A k \in j + 1 .. i - 1 : ~IsPointer(k))
                     => wire[j].op.at = wire[i].op.at

\* A button or a key that is down, and the event that lets it go.
HoldsDown(op) == (op.op = "pointer" /\ op.buttons # 0) \/ (op.op = "key" /\ op.down)
LetsGo(op, held) ==
    IF held.op = "pointer" THEN op.op = "pointer" /\ op.buttons = 0 ELSE op = Key(held.sym, FALSE)

\* Between actions nothing is held down, unless one was cut short by a hang-up or
\* by the end of the session.
NothingHeld ==
    holder = Nobody /\ connected /\ (\A r \in Requests : ~At(r, "gone")) =>
        \A i \in DOMAIN wire : HoldsDown(wire[i].op) =>
            \E j \in DOMAIN wire : j > i /\ LetsGo(wire[j].op, wire[i].op)

\* An image shows every input its screenshot let settle, unless a resize or the
\* end of the session came between.
ScreenshotShowsInput ==
    \A r \in Requests :
        At(r, "image") /\ connected =>
            req[r].image.black \/ req[r].image.shows >= req[r].owes

\* An image is black only if the screen was resized after the handler had seen it
\* painted or asked for all of it, or if the resize it knew of came behind a painted
\* rect of its own update, which leaves painted() true of the black framebuffer
\* (client.rs:555).
BlackOnlyAfterResize ==
    \A r \in Requests : At(r, "image") /\ req[r].image.black =>
        resizes > req[r].asked \/ req[r].misled

\* The inputs some screenshot took notice of.
Taken == {req[r].owes : r \in Requests} \cup {lastInput.upto}

\* An input is remembered until a screenshot takes notice of it, be it the input
\* of an action that failed half way.  (One of an action that was cancelled is
\* not.)
InputRemembered ==
    \A i \in DOMAIN wire :
        req[wire[i].by].pc \in {"drop", "done"} => \E n \in Taken : n >= i

\* Every request ends, whatever becomes of the desktop.
RequestsEnd ==
    \A r \in Requests : ~At(r, "new") ~> req[r].pc \in {"done", "image", "gone"}

\* What http.rs says of a screen it cannot get: never a black image.
NeverBlack == \A r \in Requests : At(r, "image") => ~req[r].image.black

=============================================================================
