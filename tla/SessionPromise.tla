--------------------------- MODULE SessionPromise ---------------------------
(***************************************************************************)
(* What an RFB session promises to those who call refresh(), and nothing   *)
(* of how: no queue, no tasks, no requests, no event log.  The session     *)
(* receives updates, which it numbers; its framebuffer holds pixels of one *)
(* of them, or none; it announces its death.  A call is answered only by   *)
(* an update that began after the call was made (or with a framebuffer a   *)
(* resize has emptied since), and never when the death had been announced  *)
(* by then.  RfbSession is shown to keep this promise in SessionRefinement.*)
(***************************************************************************)
EXTENDS Integers

CONSTANT
    Callers    \* those who call

VARIABLES
    over,      \* Disconnected was announced
    begun,     \* updates that have begun to arrive
    held,      \* the update whose pixels the framebuffer took last, 0 if empty
    ask        \* the call each caller has made

promiseVars == <<over, begun, held, ask>>

\* since: what had begun, and late: the death was announced, at the call.
NoAsk == [state |-> "idle", since |-> 0, late |-> FALSE]

Init ==
    /\ over = FALSE
    /\ begun = 0
    /\ held = 0
    /\ ask = [c \in Callers |-> NoAsk]

Receive == begun' = begun + 1 /\ UNCHANGED <<over, held, ask>>

\* Pixels only ever come from the newest update.
Paint == held' = begun /\ UNCHANGED <<over, begun, ask>>

Empty == held' = 0 /\ UNCHANGED <<over, begun, ask>>

\* Once, and it is not taken back.
Announce == ~over /\ over' = TRUE /\ UNCHANGED <<begun, held, ask>>

Ask(c) ==
    /\ ask[c] = NoAsk
    /\ ask' = [ask EXCEPT ![c] = [state |-> "waiting", since |-> begun, late |-> over]]
    /\ UNCHANGED <<over, begun, held>>

Answer(c) ==
    /\ ask[c].state = "waiting" /\ ~ask[c].late
    /\ held = 0 \/ held > ask[c].since
    /\ ask' = [ask EXCEPT ![c] = [state |-> "answered", since |-> @.since, late |-> FALSE]]
    /\ UNCHANGED <<over, begun, held>>

\* With the answer, or without: an error, or the caller's timer.
Return(c) ==
    /\ ask' = [ask EXCEPT ![c] = NoAsk]
    /\ UNCHANGED <<over, begun, held>>

Next ==
    \/ Receive \/ Paint \/ Empty \/ Announce
    \/ \E c \in Callers : Ask(c) \/ Answer(c) \/ Return(c)

Spec == Init /\ [][Next]_promiseVars
=============================================================================
