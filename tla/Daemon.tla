------------------------------- MODULE Daemon -------------------------------
(***************************************************************************)
(* The processes of the bolide command line (bolide-cli: run.rs, daemon.rs *)
(* and state.rs): `connect`, which starts a daemon and waits for it, the   *)
(* daemon, `disconnect`, and the commands that only look the daemon up.    *)
(* All they share is the state file and each other's pids.                 *)
(*                                                                         *)
(* A pid is the `connect` that started it, and is not used twice.  The     *)
(* desktop session is external (RfbSession has its detail): it may end at  *)
(* any moment, and says so once to those who have subscribed.              *)
(***************************************************************************)
EXTENDS Naturals, FiniteSets

CONSTANTS
    Connects,  \* runs of `bolide connect`; also the pids of their daemons
    Others,    \* runs of the other commands, `disconnect` among them
    None,      \* no state file, no pid
    Unread,    \* the state file has not been read yet
    Timeouts,  \* which waits may run out: "startup", "disconnect"
    Mishaps    \* what may go wrong: "crash", "setup", "death"

Commands == Connects \cup Others

ASSUME DaemonAssumption ==
    /\ None \notin Connects /\ Unread \notin Connects /\ None # Unread
    /\ Connects \cap Others = {}
    /\ Timeouts \subseteq {"startup", "disconnect"}
    /\ Mishaps \subseteq {"crash", "setup", "death"}

VARIABLES
    file,       \* session.json: the pid in it, or None
    at, got,    \* of each command: where it is, and what it read
    child,      \* of each daemon: where it is
    seen,       \* of each daemon: what it read of the state file as it started
    term,       \* the daemons a SIGTERM waits in
    session,    \* of each daemon: its session with the desktop
    told,       \* the daemons a Disconnected event waits in
    saved,      \* history: the daemons that wrote the state file
    stopped,    \* history: the daemons `disconnect` signalled
    hurried,    \* history: a `disconnect` stopped waiting
    oneByOne    \* the user runs one command at a time

history == <<saved, stopped, hurried>>
daemonVars == <<child, seen, term, session, told>>
vars == <<file, at, got, daemonVars, history, oneByOne>>

Waiting == {"load", "look", "last"}      \* a command in load_in
Over == {"ok", "refused", "failed", "done"}
Starting == {"load", "dial", "serve", "save", "subscribe", "signals"}
Working == Starting \cup {"wait", "teardown", "clear"}
Serving == {"save", "subscribe", "signals", "wait"}

Init ==
    /\ file = None
    /\ at = [c \in Commands |-> "idle"] /\ got = [c \in Commands |-> Unread]
    /\ child = [p \in Connects |-> "none"] /\ seen = [p \in Connects |-> Unread]
    /\ session = [p \in Connects |-> "none"]
    /\ term = {} /\ told = {}
    /\ saved = {} /\ stopped = {} /\ hurried = FALSE
    /\ oneByOne \in BOOLEAN

Goto(c, place) == at' = [at EXCEPT ![c] = place]

\* A process that has exited stays a zombie, which kill(pid, 0) still finds,
\* until its parent has asked for its status or has ended.
Alive(p) == child[p] \in Working \cup {"zombie"}

\* The kernel ends process p: nothing of it runs any more.
Exits(p, how) ==
    /\ child' = [child EXCEPT ![p] = how] /\ seen' = [seen EXCEPT ![p] = Unread]
    /\ session' = [session EXCEPT ![p] = "none"]
    /\ term' = term \ {p} /\ told' = told \ {p}

-----------------------------------------------------------------------------
(* state.rs *)

\* load_in, first half: the file is read.
Read(c) ==
    /\ at[c] \in Waiting /\ got[c] = Unread
    /\ got' = [got EXCEPT ![c] = file]
    /\ UNCHANGED <<file, at, daemonVars, history, oneByOne>>

\* load_in, second half: what it found, and the removal of whatever is there by
\* then if the pid is gone.  (Dead stays dead, so the check and the removal are
\* one step.)
Living(pid) == IF pid \in Connects /\ Alive(pid) THEN pid ELSE None
Found(c) == Living(got[c])

Loads(c) ==
    /\ at[c] \in Waiting /\ got[c] # Unread
    /\ file' = IF got[c] # None /\ Found(c) = None THEN None ELSE file
    /\ UNCHANGED <<daemonVars, history, oneByOne>>

-----------------------------------------------------------------------------
(* connect: the parent *)

Begin(c) ==
    /\ at[c] = "idle"
    /\ oneByOne => \A d \in Commands : at[d] \in {"idle"} \cup Over
    /\ Goto(c, "load")
    /\ UNCHANGED <<file, got, daemonVars, history, oneByOne>>

ConnectLoads(p) ==
    /\ at[p] = "load" /\ Loads(p)
    /\ Goto(p, IF Found(p) = None THEN "spawn" ELSE "refused")
    /\ got' = [got EXCEPT ![p] = Unread]

Spawn(p) ==
    /\ at[p] = "spawn"
    /\ Goto(p, "look")
    /\ child' = [child EXCEPT ![p] = "load"]
    /\ UNCHANGED <<file, got, seen, term, session, told, history, oneByOne>>

\* Mutant: any live state file will do.
LookAtAny(p) ==
    /\ at[p] = "look" /\ Loads(p)
    /\ Goto(p, IF Found(p) = None THEN "poll" ELSE "ok")
    /\ got' = [got EXCEPT ![p] = Unread]

\* await_startup: is there a state file, with the pid of our own child?
Look(p) ==
    /\ at[p] = "look" /\ Loads(p)
    /\ Goto(p, IF Found(p) = p THEN "ok" ELSE "poll")
    /\ got' = [got EXCEPT ![p] = Unread]

\* status_of reaps a child that has exited; otherwise the parent naps and looks
\* again, until its attempts are used up.
Poll(p) ==
    /\ at[p] = "poll"
    /\ \/ /\ child[p] \in Working
          /\ \E next \in {"look"} \cup (IF "startup" \in Timeouts THEN {"kill"} ELSE {}) :
               Goto(p, next)
          /\ UNCHANGED child
       \/ /\ child[p] \in {"zombie", "gone"}
          /\ Goto(p, "last")
          /\ child' = [child EXCEPT ![p] = "gone"]
    /\ UNCHANGED <<file, got, seen, term, session, told, history, oneByOne>>

\* One last look.  A child that was reaped is not alive, whatever its file says;
\* then the kill and the wait of spawn_and_wait find nothing to do.
LastLook(p) ==
    /\ at[p] = "last" /\ Loads(p)
    /\ Goto(p, IF Found(p) = p THEN "ok" ELSE "failed")
    /\ got' = [got EXCEPT ![p] = Unread]

\* Mutant: a start that timed out leaves the child to itself.
LeaveTheChild(p) ==
    /\ at[p] = "kill" /\ Goto(p, "failed")
    /\ UNCHANGED <<file, got, daemonVars, history, oneByOne>>

\* child.kill() and child.wait(): no orphan is left.
KillChild(p) ==
    /\ at[p] = "kill"
    /\ Goto(p, "failed")
    /\ Exits(p, "gone")
    /\ UNCHANGED <<file, got, history, oneByOne>>

-----------------------------------------------------------------------------
(* connect --foreground: the daemon *)

Becomes(p, from, to) == child[p] = from /\ child' = [child EXCEPT ![p] = to]

\* The re-executed program is a `connect` too: it looks for a session of its own
\* accord, refuses if another daemon was there first, and removes a stale file.
ChildReads(p) ==
    /\ child[p] = "load" /\ seen[p] = Unread
    /\ seen' = [seen EXCEPT ![p] = file]
    /\ UNCHANGED <<file, at, got, child, term, session, told, history, oneByOne>>

ChildLoads(p) ==
    /\ child[p] = "load" /\ seen[p] # Unread
    /\ IF Living(seen[p]) # None
       THEN Exits(p, "zombie") /\ UNCHANGED file
       ELSE /\ file' = IF seen[p] # None THEN None ELSE file
            /\ child' = [child EXCEPT ![p] = "dial"] /\ seen' = [seen EXCEPT ![p] = Unread]
            /\ UNCHANGED <<term, session, told>>
    /\ UNCHANGED <<at, got, history, oneByOne>>

Dials(p) ==
    /\ Becomes(p, "dial", "serve")
    /\ session' = [session EXCEPT ![p] = "up"]
    /\ UNCHANGED <<file, at, got, seen, term, told, history, oneByOne>>

Serves(p) ==
    /\ Becomes(p, "serve", "save")
    /\ UNCHANGED <<file, at, got, seen, term, session, told, history, oneByOne>>

\* save_in: a rename, so the file is there or not.
Saves(p) ==
    /\ Becomes(p, "save", "subscribe")
    /\ file' = p /\ saved' = saved \cup {p}
    /\ UNCHANGED <<at, got, seen, term, session, told, stopped, hurried, oneByOne>>

\* wait_for_the_end: the events first, and then the handler of SIGTERM.
Subscribes(p) ==
    /\ Becomes(p, "subscribe", "signals")
    /\ UNCHANGED <<file, at, got, seen, term, session, told, history, oneByOne>>

InstallsHandler(p) ==
    /\ Becomes(p, "signals", "wait")
    /\ UNCHANGED <<file, at, got, seen, term, session, told, history, oneByOne>>

\* Mutant: the events are not listened to.
HearsOnlySignals(p) ==
    /\ p \in term
    /\ Becomes(p, "wait", "teardown")
    /\ UNCHANGED <<file, at, got, seen, term, session, told, history, oneByOne>>

WaitEnds(p) ==
    /\ p \in term \cup told
    /\ Becomes(p, "wait", "teardown")
    /\ UNCHANGED <<file, at, got, seen, term, session, told, history, oneByOne>>

\* The recording is finished first, then the server and the session.
TearsDown(p) ==
    /\ Becomes(p, "teardown", "clear")
    /\ session' = [session EXCEPT ![p] = "none"]
    /\ UNCHANGED <<file, at, got, seen, term, told, history, oneByOne>>

\* clear_in removes the file, whoever wrote it; and the process ends.
Clears(p) ==
    /\ child[p] = "clear"
    /\ file' = None
    /\ Exits(p, "zombie")
    /\ UNCHANGED <<at, got, history, oneByOne>>

\* The search for ffmpeg, the dial, the recorder, the listener or the state file fails.
SetupFails(p) ==
    /\ "setup" \in Mishaps /\ child[p] \in {"dial", "serve", "save"}
    /\ Exits(p, "zombie")
    /\ UNCHANGED <<file, at, got, history, oneByOne>>

-----------------------------------------------------------------------------
(* Outside: kernel, user and desktop *)

\* A zombie whose parent has ended goes to init, which reaps it.
Reaped(p) ==
    /\ child[p] = "zombie" /\ at[p] \in Over
    /\ child' = [child EXCEPT ![p] = "gone"]
    /\ UNCHANGED <<file, at, got, seen, term, session, told, history, oneByOne>>

Crashes(p) ==
    /\ "crash" \in Mishaps /\ child[p] \in Working
    /\ Exits(p, "zombie")
    /\ UNCHANGED <<file, at, got, history, oneByOne>>

SessionDies(p) ==
    /\ "death" \in Mishaps /\ session[p] = "up"
    /\ session' = [session EXCEPT ![p] = "down"]
    /\ told' = IF child[p] \in {"signals", "wait"} THEN told \cup {p} ELSE told
    /\ UNCHANGED <<file, at, got, child, seen, term, history, oneByOne>>

-----------------------------------------------------------------------------
(* disconnect, and the commands that ask the server *)

\* require_session.
FindsNothing(s) ==
    /\ at[s] = "load" /\ Loads(s) /\ Found(s) = None
    /\ Goto(s, "failed") /\ got' = [got EXCEPT ![s] = Unread]

\* Any other command asks the server at the endpoint it found.
Queries(s) ==
    /\ at[s] = "load" /\ Loads(s) /\ Found(s) # None
    /\ Goto(s, "done") /\ got' = [got EXCEPT ![s] = Unread]

Disconnects(s) ==
    /\ at[s] = "load" /\ Loads(s) /\ Found(s) # None
    /\ Goto(s, "signal")
    /\ UNCHANGED got

\* SIGTERM ends a daemon at once that has no handler for it yet.
Signals(s) ==
    /\ at[s] = "signal"
    /\ LET p == got[s] IN
         /\ stopped' = stopped \cup {p}
         /\ \/ /\ child[p] \in Starting
               /\ Exits(p, "zombie")
            \/ /\ child[p] \in Working \ Starting
               /\ term' = term \cup {p}
               /\ UNCHANGED <<child, seen, session, told>>
            \/ /\ child[p] \notin Working
               /\ UNCHANGED daemonVars
    /\ Goto(s, "await")
    /\ UNCHANGED <<file, got, saved, hurried, oneByOne>>

\* Mutant: `disconnect` does not wait for the daemon.
AwaitsNobody(s) ==
    /\ at[s] = "await"
    /\ Goto(s, "clear") /\ got' = [got EXCEPT ![s] = Unread]
    /\ UNCHANGED <<file, daemonVars, history, oneByOne>>

\* Until the pid is gone, for five seconds at most.
Awaits(s) ==
    /\ at[s] = "await"
    /\ Alive(got[s]) => "disconnect" \in Timeouts
    /\ hurried' = (hurried \/ Alive(got[s]))
    /\ Goto(s, "clear") /\ got' = [got EXCEPT ![s] = Unread]
    /\ UNCHANGED <<file, daemonVars, saved, stopped, oneByOne>>

StopClears(s) ==
    /\ at[s] = "clear"
    /\ file' = None
    /\ Goto(s, "done")
    /\ UNCHANGED <<got, daemonVars, history, oneByOne>>

-----------------------------------------------------------------------------
Parent(p) == Read(p) \/ ConnectLoads(p) \/ Spawn(p) \/ Look(p) \/ Poll(p)
               \/ LastLook(p) \/ KillChild(p)
Child(p) == ChildReads(p) \/ ChildLoads(p) \/ Dials(p) \/ Serves(p) \/ Saves(p)
              \/ Subscribes(p) \/ InstallsHandler(p) \/ WaitEnds(p) \/ TearsDown(p) \/ Clears(p)
Other(s) == Read(s) \/ FindsNothing(s) \/ Queries(s) \/ Disconnects(s) \/ Signals(s)
              \/ Awaits(s) \/ StopClears(s)
Outside(p) == SetupFails(p) \/ Crashes(p) \/ SessionDies(p)

Next ==
    \/ \E c \in Commands : Begin(c)
    \/ \E p \in Connects : Parent(p) \/ Child(p) \/ Reaped(p) \/ Outside(p)
    \/ \E s \in Others : Other(s)

Spec == Init /\ [][Next]_vars

\* A process that can run does, and init reaps; the user, the desktop and
\* what may go wrong owe nothing.
Fairness ==
    /\ \A p \in Connects : WF_vars(Parent(p)) /\ WF_vars(Child(p)) /\ WF_vars(Reaped(p))
    /\ \A s \in Others : WF_vars(Other(s))

FairSpec == Spec /\ Fairness

-----------------------------------------------------------------------------
(* Properties *)

\* The types, and what the phases of a command and its daemon imply for each other.
TypeOK ==
    /\ file \in Connects \cup {None}
    /\ at \in [Commands -> {"idle", "spawn", "poll", "kill", "signal", "await", "clear"}
                             \cup Waiting \cup Over]
    /\ got \in [Commands -> Connects \cup {None, Unread}]
    /\ child \in [Connects -> Working \cup {"none", "zombie", "gone"}]
    /\ seen \in [Connects -> Connects \cup {None, Unread}]
    /\ session \in [Connects -> {"none", "up", "down"}]
    /\ term \subseteq Connects /\ told \subseteq Connects
    /\ saved \subseteq Connects /\ stopped \subseteq saved
    /\ hurried \in BOOLEAN /\ oneByOne \in BOOLEAN
    /\ file \in saved \cup {None}
    /\ \A p \in Connects : at[p] \in {"idle", "load", "spawn", "refused"} <=> child[p] = "none"

\* A daemon that waits for its end, and that nothing has asked for it.
Undisturbed(p) == child[p] = "wait" /\ p \notin term \cup told

\* What `connect` writes is there for the other commands to find the daemon
\* (state.rs, SessionState): a user who runs one command at a time, and whose
\* `disconnect` saw the daemon go, never has one without the file that names it.
Findable ==
    oneByOne /\ ~hurried => \A p \in Connects : Undisturbed(p) => file = p

\* `connect` refuses while there is a daemon (run.rs, connect): for the same user
\* no two of them serve at once.
OneDaemon ==
    oneByOne /\ ~hurried => Cardinality({p \in Connects : child[p] \in Serving}) <= 1

\* await_startup reports no endpoint but that of its own child, which is then
\* past its setup, whatever other commands do to the file meanwhile.
ReportsItsOwn == \A p \in Connects : at[p] = "ok" => p \in saved

\* spawn_and_wait leaves no orphan that holds somebody's desktop: if it reports
\* a failure, its daemon does not run.
NoOrphan == \A p \in Connects : at[p] = "failed" => child[p] = "gone"

\* A daemon that `disconnect` has signalled, or that is told that its desktop went
\* away, does not run for ever (wait_for_the_end and what follows it).
AskedEnds == \A p \in Connects : (p \in stopped \cup told) ~> (child[p] \notin Working)

\* What the documents say and the code does not keep:
\* "the recording ... is finalised when it ends: `bolide disconnect` ...", where
\* nothing else kills the daemon and the user runs one command at a time: one that
\* was signalled ends by way of its teardown.
DisconnectFinalises ==
    [][\A p \in Connects :
         oneByOne /\ p \in stopped' /\ child[p] \in Working /\ child'[p] \notin Working
             => child[p] = "clear"]_vars

\* "The failure a daemon must never have is the silent one."
NeverSilent == \A p \in Connects : (session[p] = "down") ~> (session[p] # "down")
=============================================================================
