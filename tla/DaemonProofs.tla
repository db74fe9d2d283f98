---------------------------- MODULE DaemonProofs ----------------------------
(***************************************************************************)
(* Theorems about Daemon, for any number of commands.                      *)
(***************************************************************************)
EXTENDS Daemon, FiniteSetTheorems, TLAPS

\* A pid that can be read was written, and whoever has written is past the writing.
PidsAreSaved ==
    /\ file \in saved \cup {None}
    /\ \A c \in Commands : got[c] \in saved \cup {None, Unread}
    /\ \A p \in Connects : seen[p] \in saved \cup {None, Unread}
    /\ \A s \in Others : at[s] \in {"signal", "await"} => got[s] \in saved
    /\ \A p \in Connects :
         child[p] \in {"subscribe", "signals", "wait", "teardown", "clear"} => p \in saved

\* A parent in its last look, and one that failed, has reaped its child.
Reaps == \A p \in Connects : at[p] \in {"last", "failed"} => child[p] = "gone"

IInv == TypeOK /\ PidsAreSaved /\ Reaps /\ ReportsItsOwn

USE DaemonAssumption DEF DaemonAssumption, Commands, Waiting, Over, Starting, Working

LEMMA Initially == Init => IInv
  <1> SUFFICES ASSUME Init PROVE IInv
    OBVIOUS
  <1> USE DEF Init
  <1>1. TypeOK
    BY DEF TypeOK
  <1>2. PidsAreSaved
    BY DEF PidsAreSaved
  <1>3. Reaps /\ ReportsItsOwn
    BY DEF Reaps, ReportsItsOwn
  <1> QED
    BY <1>1, <1>2, <1>3 DEF IInv

LEMMA ParentSteps ==
    ASSUME IInv, NEW p \in Connects, Parent(p)
    PROVE  IInv'
  <1> USE DEF IInv, TypeOK, PidsAreSaved, Reaps, ReportsItsOwn, Goto, Loads, Found, Living,
              daemonVars, history
  <1>1. CASE Read(p)
    BY <1>1 DEF Read
  <1>2. CASE ConnectLoads(p)
    BY <1>2 DEF ConnectLoads
  <1>3. CASE Spawn(p)
    BY <1>3 DEF Spawn
  <1>4. CASE Look(p)
    BY <1>4 DEF Look
  <1>5. CASE Poll(p)
    BY <1>5 DEF Poll
  <1>6. CASE LastLook(p)
    BY <1>6 DEF LastLook, Alive
  <1>7. CASE KillChild(p)
    BY <1>7 DEF KillChild, Exits
  <1> QED
    BY <1>1, <1>2, <1>3, <1>4, <1>5, <1>6, <1>7 DEF Parent

LEMMA ChildSteps ==
    ASSUME IInv, NEW p \in Connects, Child(p)
    PROVE  IInv'
  <1> USE DEF IInv, TypeOK, PidsAreSaved, Reaps, ReportsItsOwn, Becomes, history
  <1>1. CASE Dials(p)
    BY <1>1 DEF Dials
  <1>2. CASE Serves(p)
    BY <1>2 DEF Serves
  <1>3. CASE Saves(p)
    BY <1>3 DEF Saves
  <1>4. CASE Subscribes(p)
    BY <1>4 DEF Subscribes
  <1>5. CASE InstallsHandler(p)
    BY <1>5 DEF InstallsHandler
  <1>6. CASE WaitEnds(p)
    BY <1>6 DEF WaitEnds
  <1>7. CASE TearsDown(p)
    BY <1>7 DEF TearsDown
  <1>8. CASE Clears(p)
    BY <1>8 DEF Clears, Exits
  <1>9. CASE ChildReads(p)
    BY <1>9 DEF ChildReads
  <1>10. CASE ChildLoads(p)
    BY <1>10 DEF ChildLoads, Living, Exits
  <1> QED
    BY <1>1, <1>2, <1>3, <1>4, <1>5, <1>6, <1>7, <1>8, <1>9, <1>10 DEF Child

LEMMA OutsideSteps ==
    ASSUME IInv, NEW p \in Connects, Outside(p) \/ Reaped(p)
    PROVE  IInv'
  <1> USE DEF IInv, TypeOK, PidsAreSaved, Reaps, ReportsItsOwn, Exits, history
  <1>1. CASE SetupFails(p)
    BY <1>1 DEF SetupFails
  <1>2. CASE Crashes(p)
    BY <1>2 DEF Crashes
  <1>3. CASE SessionDies(p)
    BY <1>3 DEF SessionDies
  <1>4. CASE Reaped(p)
    BY <1>4 DEF Reaped
  <1> QED
    BY <1>1, <1>2, <1>3, <1>4 DEF Outside

LEMMA OtherSteps ==
    ASSUME IInv, NEW s \in Others, Other(s)
    PROVE  IInv'
  <1> USE DEF IInv, TypeOK, PidsAreSaved, Reaps, ReportsItsOwn, Goto, Loads, Found, Living,
              daemonVars, history
  <1>1. CASE Read(s)
    BY <1>1 DEF Read
  <1>2. CASE FindsNothing(s)
    BY <1>2 DEF FindsNothing
  <1>3. CASE Queries(s)
    BY <1>3 DEF Queries
  <1>4. CASE Disconnects(s)
    BY <1>4 DEF Disconnects
  <1>5. CASE Signals(s)
    BY <1>5 DEF Signals, Exits
  <1>6. CASE Awaits(s)
    BY <1>6 DEF Awaits
  <1>7. CASE StopClears(s)
    BY <1>7 DEF StopClears
  <1> QED
    BY <1>1, <1>2, <1>3, <1>4, <1>5, <1>6, <1>7 DEF Other

LEMMA Steps == IInv /\ [Next]_vars => IInv'
  <1> SUFFICES ASSUME IInv, [Next]_vars PROVE IInv'
    OBVIOUS
  <1>1. ASSUME NEW c \in Commands, Begin(c) PROVE IInv'
    BY <1>1 DEF Begin, IInv, TypeOK, PidsAreSaved, Reaps, ReportsItsOwn, Goto,
                daemonVars, history
  <1>2. CASE UNCHANGED vars
    BY <1>2 DEF vars, IInv, TypeOK, PidsAreSaved, Reaps, ReportsItsOwn, daemonVars, history
  <1> QED
    BY <1>1, <1>2, ParentSteps, ChildSteps, OutsideSteps, OtherSteps DEF Next

\* The invariant of the connect and disconnect commands and their daemons.
THEOREM Invariant == Spec => []IInv
  BY Initially, Steps, PTL DEF Spec

\* The commands, the daemons and the state file are what their types say, and no
\* daemon is signalled that has not written the file.
THEOREM Typing == Spec => []TypeOK
  <1>1. IInv => TypeOK
    BY DEF IInv
  <1> QED
    BY <1>1, Invariant, PTL

\* `connect` reports the endpoint of its own daemon, whatever number of other
\* commands write, clear and unlink the state file meanwhile (await_startup).
THEOREM OwnReport == Spec => []ReportsItsOwn
  <1>1. IInv => ReportsItsOwn
    BY DEF IInv
  <1> QED
    BY <1>1, Invariant, PTL

\* A `connect` that fails leaves no daemon behind (spawn_and_wait).
THEOREM NoOrphanLeft == Spec => []NoOrphan
  <1>1. IInv => NoOrphan
    BY DEF IInv, Reaps, NoOrphan
  <1> QED
    BY <1>1, Invariant, PTL
-----------------------------------------------------------------------------
(* A user who runs one command at a time.  Findable is not inductive: that no  *)
(* daemon loses its file rests on what the command that now runs has read, and *)
(* on who else can still be at work.                                           *)

Active(c) == at[c] \notin {"idle"} \cup Over
Busy(p) == child[p] \in Working
Written(p) == child[p] \in {"subscribe", "signals", "wait", "teardown", "clear"}
Young(p) == child[p] \in {"load", "dial", "serve", "save"}

OwnPlaces ==
    /\ \A s \in Others : at[s] \in {"idle", "load", "signal", "await", "clear", "failed", "done"}
    /\ \A p \in Connects : at[p] \notin {"signal", "await", "clear", "done"}
    /\ \A p \in Connects : child[p] = "none" \/ Young(p) => p \notin saved
    /\ \A c \in Commands : at[c] = "idle" => got[c] = Unread

\* At most one command runs.
Sole == \A c, d \in Commands : Active(c) /\ Active(d) => c = d

\* The file names the daemon that wrote it; one that has not is waited for.
Named == \A p \in Connects :
    /\ Written(p) => file = p
    /\ Young(p) => at[p] \in {"look", "poll", "kill"}

\* What a command read at its start is what there is, if anything still is.
ReadTrue == \A c \in Commands : at[c] = "load" /\ got[c] # Unread =>
    /\ file \in {None, got[c]}
    /\ \A q \in Connects : Busy(q) => got[c] = q

\* A `connect` past its start has the desk to itself.
Alone == \A p \in Connects : at[p] \in {"spawn", "look", "poll", "kill", "last"} =>
    /\ \A q \in Connects : Busy(q) => q = p
    /\ file \in {None, p} /\ got[p] \in {None, p, Unread}

\* A `disconnect` stops the only daemon, and clears when there is none.
StopsTheOnly == \A s \in Others :
    /\ at[s] \in {"signal", "await"} => \A q \in Connects : Busy(q) => q = got[s]
    /\ at[s] = "clear" => \A q \in Connects : ~Busy(q)

Core == Sole /\ Named /\ ReadTrue /\ Alone /\ StopsTheOnly

OneByOneInv == IInv /\ OwnPlaces /\ (oneByOne /\ ~hurried => Core)

LEMMA OneByOneInitially == Init => OneByOneInv
  <1> SUFFICES ASSUME Init PROVE OneByOneInv
    OBVIOUS
  <1>1. OwnPlaces
    BY DEF Init, OwnPlaces, Young
  <1>2. Core
    BY DEF Init, Core, Sole, Named, ReadTrue, Alone, StopsTheOnly, Active, Busy, Young, Written
  <1> QED
    BY <1>1, <1>2, Initially DEF OneByOneInv

LEMMA ParentPlaces ==
    ASSUME IInv, OwnPlaces, NEW p \in Connects, Parent(p)
    PROVE  OwnPlaces'
  <1> USE DEF IInv, TypeOK, PidsAreSaved, OwnPlaces, Young, Goto, Loads, Found, Living, Becomes, Exits,
              daemonVars, history
  <1>1. CASE Read(p)
    BY <1>1 DEF Read
  <1>2. CASE ConnectLoads(p)
    BY <1>2 DEF ConnectLoads
  <1>3. CASE Spawn(p)
    BY <1>3 DEF Spawn
  <1>4. CASE Look(p)
    BY <1>4 DEF Look
  <1>5. CASE Poll(p)
    BY <1>5 DEF Poll
  <1>6. CASE LastLook(p)
    BY <1>6 DEF LastLook
  <1>7. CASE KillChild(p)
    BY <1>7 DEF KillChild
  <1> QED
    BY <1>1, <1>2, <1>3, <1>4, <1>5, <1>6, <1>7 DEF Parent

LEMMA ChildPlaces ==
    ASSUME IInv, OwnPlaces, NEW p \in Connects, Child(p)
    PROVE  OwnPlaces'
  <1> USE DEF IInv, TypeOK, PidsAreSaved, OwnPlaces, Young, Goto, Loads, Found, Living, Becomes, Exits,
              daemonVars, history
  <1>1. CASE Dials(p)
    BY <1>1 DEF Dials
  <1>2. CASE Serves(p)
    BY <1>2 DEF Serves
  <1>3. CASE Saves(p)
    BY <1>3 DEF Saves
  <1>4. CASE Subscribes(p)
    BY <1>4 DEF Subscribes
  <1>5. CASE InstallsHandler(p)
    BY <1>5 DEF InstallsHandler
  <1>6. CASE WaitEnds(p)
    BY <1>6 DEF WaitEnds
  <1>7. CASE TearsDown(p)
    BY <1>7 DEF TearsDown
  <1>8. CASE Clears(p)
    BY <1>8 DEF Clears
  <1>9. CASE ChildReads(p)
    BY <1>9 DEF ChildReads
  <1>10. CASE ChildLoads(p)
    BY <1>10 DEF ChildLoads, Living, Exits
  <1> QED
    BY <1>1, <1>2, <1>3, <1>4, <1>5, <1>6, <1>7, <1>8, <1>9, <1>10 DEF Child

LEMMA OutsidePlaces ==
    ASSUME IInv, OwnPlaces, NEW p \in Connects, Outside(p) \/ Reaped(p)
    PROVE  OwnPlaces'
  <1> USE DEF IInv, TypeOK, PidsAreSaved, OwnPlaces, Young, Goto, Loads, Found, Living, Becomes, Exits,
              daemonVars, history
  <1>1. CASE SetupFails(p)
    BY <1>1 DEF SetupFails
  <1>2. CASE Crashes(p)
    BY <1>2 DEF Crashes
  <1>3. CASE SessionDies(p)
    BY <1>3 DEF SessionDies
  <1>4. CASE Reaped(p)
    BY <1>4 DEF Reaped
  <1> QED
    BY <1>1, <1>2, <1>3, <1>4 DEF Outside

LEMMA OtherPlaces ==
    ASSUME IInv, OwnPlaces, NEW s \in Others, Other(s)
    PROVE  OwnPlaces'
  <1> USE DEF IInv, TypeOK, PidsAreSaved, OwnPlaces, Young, Goto, Loads, Found, Living, Becomes, Exits,
              daemonVars, history
  <1>1. CASE Read(s)
    BY <1>1 DEF Read
  <1>2. CASE FindsNothing(s)
    BY <1>2 DEF FindsNothing
  <1>3. CASE Queries(s)
    BY <1>3 DEF Queries
  <1>4. CASE Disconnects(s)
    BY <1>4 DEF Disconnects
  <1>5. CASE Signals(s)
    BY <1>5 DEF Signals
  <1>6. CASE Awaits(s)
    BY <1>6 DEF Awaits
  <1>7. CASE StopClears(s)
    BY <1>7 DEF StopClears
  <1> QED
    BY <1>1, <1>2, <1>3, <1>4, <1>5, <1>6, <1>7 DEF Other

LEMMA ParentOrder ==
    ASSUME IInv, OwnPlaces, oneByOne, ~hurried, ~hurried', Core, NEW p \in Connects, Parent(p)
    PROVE  Core'
  <1> USE DEF IInv, TypeOK, PidsAreSaved, Reaps, OwnPlaces, Goto, Loads, Found, Living, Alive,
              Becomes, Exits, daemonVars, history, Active, Busy, Young, Written,
              Core, Sole, Named, ReadTrue, Alone, StopsTheOnly
  <1>1. CASE Read(p)
    BY <1>1 DEF Read
  <1>2. CASE ConnectLoads(p)
    BY <1>2 DEF ConnectLoads
  <1>3. CASE Spawn(p)
    BY <1>3 DEF Spawn
  <1>4. CASE Look(p)
    BY <1>4 DEF Look
  <1>5. CASE Poll(p)
    BY <1>5 DEF Poll
  <1>6. CASE LastLook(p)
    BY <1>6 DEF LastLook
  <1>7. CASE KillChild(p)
    BY <1>7 DEF KillChild
  <1> QED
    BY <1>1, <1>2, <1>3, <1>4, <1>5, <1>6, <1>7 DEF Parent

\* A daemon saves while nobody else is at work, and when one clears, nobody else
\* has written.
LEMMA ChildOrder ==
    ASSUME IInv, OwnPlaces, oneByOne, ~hurried, ~hurried', Core, NEW p \in Connects, Child(p)
    PROVE  Core'
  <1> USE DEF IInv, TypeOK, PidsAreSaved, Reaps, OwnPlaces, Goto, Loads, Found, Living, Alive,
              Becomes, Exits, daemonVars, history, Active, Busy, Young, Written,
              Core, Sole, Named, ReadTrue, Alone, StopsTheOnly
  <1>1. CASE Dials(p)
    BY <1>1 DEF Dials
  <1>2. CASE Serves(p)
    BY <1>2 DEF Serves
  <1>3. CASE Saves(p)
    <2>1. \A q \in Connects : q # p => ~Busy(q)
      BY <1>3 DEF Saves
    <2> QED
      BY <1>3, <2>1 DEF Saves
  <1>4. CASE Subscribes(p)
    BY <1>4 DEF Subscribes
  <1>5. CASE InstallsHandler(p)
    BY <1>5 DEF InstallsHandler
  <1>6. CASE WaitEnds(p)
    BY <1>6 DEF WaitEnds
  <1>7. CASE TearsDown(p)
    BY <1>7 DEF TearsDown
  <1>8. CASE Clears(p)
    <2>1. \A q \in Connects : q # p => ~Written(q)
      BY <1>8 DEF Clears
    <2> QED
      BY <1>8, <2>1 DEF Clears
  <1>9. CASE ChildReads(p)
    BY <1>9 DEF ChildReads
  <1>10. CASE ChildLoads(p)
    BY <1>10 DEF ChildLoads, Living, Exits
  <1> QED
    BY <1>1, <1>2, <1>3, <1>4, <1>5, <1>6, <1>7, <1>8, <1>9, <1>10 DEF Child

LEMMA OutsideOrder ==
    ASSUME IInv, OwnPlaces, oneByOne, ~hurried, ~hurried', Core, NEW p \in Connects,
           Outside(p) \/ Reaped(p)
    PROVE  Core'
  <1> USE DEF IInv, TypeOK, PidsAreSaved, Reaps, OwnPlaces, Goto, Loads, Found, Living, Alive,
              Becomes, Exits, daemonVars, history, Active, Busy, Young, Written,
              Core, Sole, Named, ReadTrue, Alone, StopsTheOnly
  <1>1. CASE SetupFails(p)
    BY <1>1 DEF SetupFails
  <1>2. CASE Crashes(p)
    BY <1>2 DEF Crashes
  <1>3. CASE SessionDies(p)
    BY <1>3 DEF SessionDies
  <1>4. CASE Reaped(p)
    BY <1>4 DEF Reaped
  <1> QED
    BY <1>1, <1>2, <1>3, <1>4 DEF Outside

LEMMA OtherOrder ==
    ASSUME IInv, OwnPlaces, oneByOne, ~hurried, ~hurried', Core, NEW s \in Others, Other(s)
    PROVE  Core'
  <1> USE DEF IInv, TypeOK, PidsAreSaved, Reaps, OwnPlaces, Goto, Loads, Found, Living, Alive,
              Becomes, Exits, daemonVars, history, Active, Busy, Young, Written,
              Core, Sole, Named, ReadTrue, Alone, StopsTheOnly
  <1>1. CASE Read(s)
    BY <1>1 DEF Read
  <1>2. CASE FindsNothing(s)
    BY <1>2 DEF FindsNothing
  <1>3. CASE Queries(s)
    BY <1>3 DEF Queries
  <1>4. CASE Disconnects(s)
    BY <1>4 DEF Disconnects
  <1>5. CASE Signals(s)
    <2>1. at[s] = "signal" /\ Goto(s, "await") /\ UNCHANGED <<file, got, oneByOne, hurried>>
      BY <1>5 DEF Signals
    <2>2. \A q \in Connects : child'[q] \in {child[q], "zombie"}
      BY <1>5 DEF Signals
    <2> QED
      BY <2>1, <2>2
  <1>6. CASE Awaits(s)
    <2>1. ~Alive(got[s])
      <3>1. hurried' = (hurried \/ Alive(got[s]))
        BY <1>6 DEF Awaits
      <3> QED
        BY <3>1, Zenon
    <2>2. \A q \in Connects : ~Busy(q)
      BY <1>6, <2>1 DEF Awaits
    <2> QED
      BY <1>6, <2>2 DEF Awaits
  <1>7. CASE StopClears(s)
    BY <1>7 DEF StopClears
  <1> QED
    BY <1>1, <1>2, <1>3, <1>4, <1>5, <1>6, <1>7 DEF Other

\* A command begins when no other runs.
LEMMA BeginOrder ==
    ASSUME IInv, OwnPlaces, oneByOne, Core, NEW c \in Commands, Begin(c)
    PROVE  Core'
  <1> USE DEF IInv, TypeOK, PidsAreSaved, Reaps, OwnPlaces, Begin, Goto, daemonVars, history,
              Active, Busy, Young, Written, Core
  <1>1. \A d \in Commands : ~Active(d)
    OBVIOUS
  <1>2. Sole' /\ Named' /\ Alone' /\ StopsTheOnly'
    BY <1>1 DEF Sole, Named, Alone, StopsTheOnly
  <1>3. ReadTrue'
    BY <1>1 DEF ReadTrue, Named
  <1> QED
    BY <1>2, <1>3

\* A user keeps to the habit, and a `disconnect` that hurried has hurried.
LEMMA UserIsOne == Next => (oneByOne' = oneByOne) /\ (hurried => hurried')
  <1> SUFFICES ASSUME Next PROVE (oneByOne' = oneByOne) /\ (hurried => hurried')
    OBVIOUS
  <1>1. ASSUME NEW c \in Commands, Begin(c) \/ Read(c)
        PROVE  (oneByOne' = oneByOne) /\ (hurried => hurried')
    BY <1>1 DEF Begin, Read, history
  <1>2. ASSUME NEW p \in Connects, Parent(p) \/ Reaped(p) \/ Outside(p)
        PROVE  (oneByOne' = oneByOne) /\ (hurried => hurried')
    BY <1>1, <1>2 DEF Parent, ConnectLoads, Spawn, Look, Poll, LastLook, KillChild, Reaped,
       Outside, SetupFails, Crashes, SessionDies, Loads, history
  <1>3. ASSUME NEW p \in Connects, Child(p)
        PROVE  (oneByOne' = oneByOne) /\ (hurried => hurried')
    BY <1>3 DEF Child, ChildReads, ChildLoads, Dials, Serves, Saves, Subscribes, InstallsHandler, WaitEnds, TearsDown,
       Clears, history
  <1>4. ASSUME NEW s \in Others, Other(s)
        PROVE  (oneByOne' = oneByOne) /\ (hurried => hurried')
    <2>1. CASE Awaits(s)
      <3>1. oneByOne' = oneByOne /\ hurried' = (hurried \/ Alive(got[s]))
        BY <2>1 DEF Awaits
      <3> QED
        BY <3>1, Zenon
    <2>2. CASE ~Awaits(s)
      BY <1>1, <1>4, <2>2 DEF Other, FindsNothing, Queries, Disconnects, Signals, StopClears,
         Loads, history
    <2> QED
      BY <2>1, <2>2
  <1> QED
    BY <1>1, <1>2, <1>3, <1>4 DEF Next

LEMMA OneByOneSteps == OneByOneInv /\ [Next]_vars => OneByOneInv'
  <1> SUFFICES ASSUME OneByOneInv, [Next]_vars PROVE OneByOneInv'
    OBVIOUS
  <1> USE DEF OneByOneInv
  <1>1. IInv'
    BY Steps
  <1>2. ASSUME NEW c \in Commands, Begin(c) PROVE OwnPlaces'
    BY <1>2 DEF Begin, Goto, OwnPlaces, Young, IInv, TypeOK, daemonVars, history
  <1>3. CASE UNCHANGED vars
    <2>1. OwnPlaces'
      BY <1>3 DEF vars, OwnPlaces, Young, daemonVars, history
    <2>2. Core => Core'
      BY <1>3 DEF vars, daemonVars, history, Core, Sole, Named, ReadTrue, Alone,
                  StopsTheOnly, Active, Busy, Young, Written
    <2> QED
      BY <1>1, <1>3, <2>1, <2>2 DEF vars, history
  <1>4. CASE Next
    <2>1. OwnPlaces'
      BY <1>2, <1>4, ParentPlaces, ChildPlaces, OutsidePlaces, OtherPlaces DEF Next
    <2>2. (oneByOne' => oneByOne) /\ (~hurried' => ~hurried)
      BY <1>4, UserIsOne
    <2>3. ASSUME oneByOne', ~hurried' PROVE Core'
      BY <1>4, <2>2, <2>3, BeginOrder, ParentOrder, ChildOrder, OutsideOrder, OtherOrder DEF Next
    <2> QED
      BY <1>1, <2>1, <2>3
  <1> QED
    BY <1>3, <1>4

THEOREM OneByOneInvariant == Spec => []OneByOneInv
  BY OneByOneInitially, OneByOneSteps, PTL DEF Spec

\* A user who runs one command at a time, and whose `disconnect` saw the daemon
\* go, never has a daemon without the state file that names it: no crash, failed
\* start or late unlink takes the file from a daemon that still serves.
THEOREM AlwaysFindable == Spec => []Findable
  <1>1. OneByOneInv => Findable
    BY DEF OneByOneInv, Findable, Undisturbed, Core, Named, Written
  <1> QED
    BY <1>1, OneByOneInvariant, PTL

LEMMA AtMostOne ==
    ASSUME NEW S, \A x, y \in S : x = y
    PROVE  Cardinality(S) <= 1
  <1>1. CASE S = {}
    BY <1>1, FS_EmptySet
  <1>2. CASE S # {}
    <2>1. PICK x \in S : TRUE
      BY <1>2
    <2>2. S = {x}
      BY <2>1
    <2> QED
      BY <2>2, FS_Singleton
  <1> QED
    BY <1>1, <1>2

\* For the same user there are never two daemons that hold the desktop.
THEOREM AlwaysOneDaemon == Spec => []OneDaemon
  <1>1. OneByOneInv => OneDaemon
    <2> SUFFICES ASSUME OneByOneInv, oneByOne, ~hurried
                 PROVE  Cardinality({p \in Connects : child[p] \in Serving}) <= 1
      BY DEF OneDaemon
    <2>1. ASSUME NEW p \in Connects, NEW q \in Connects,
                 child[p] \in Serving, child[q] \in Serving
          PROVE  p = q
      BY <2>1 DEF OneByOneInv, Core, Named, Alone, Busy, Young, Written, Serving, IInv, TypeOK
    <2> QED
      BY <2>1, AtMostOne
  <1> QED
    BY <1>1, OneByOneInvariant, PTL
=============================================================================
