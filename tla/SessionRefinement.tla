-------------------------- MODULE SessionRefinement -------------------------
(***************************************************************************)
(* RfbSession implements SessionPromise.  The log of events tells whether  *)
(* the death was announced; of a call to refresh() the promise sees when   *)
(* it was made, and when it has its answer; an input method is no call.    *)
(***************************************************************************)
EXTENDS RfbSession

AnnouncedBy(n) == \E i \in 1 .. n : events[i] = "disconnected"

\* The receiver is where the log ended when the call was made, until the session
\* admits it; then it was alive.
MadeLate(c) == call[c].pc \in {"floor", "admit"} /\ AnnouncedBy(call[c].pos)

AskOf(c) ==
    IF call[c].op = "input"
    THEN [state |-> "idle", since |-> 0, late |-> FALSE]
    ELSE [state |-> IF call[c].pc = "frame" THEN "answered" ELSE "waiting",
          since |-> call[c].begun, late |-> MadeLate(c)]

Promise == INSTANCE SessionPromise WITH
    over <- AnnouncedBy(Len(events)), begun <- updatesBegun, held <- fb.by,
    ask <- [c \in Callers |-> AskOf(c)]

\* Every step of the session is one the promise allows, or none it sees: no order
\* of its tasks, its callers and the wire lets an update already begun, an old
\* Painted, or a session already declared dead answer a refresh, or takes the
\* declaration back (session.rs:215-247).
KeepsPromise == Promise!Spec
=============================================================================
