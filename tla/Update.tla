------------------------------- MODULE Update -------------------------------
(***************************************************************************)
(* bolide update (bolide-cli: update.rs): the latest release downloaded    *)
(* into a directory of its own, copied beside the installed binary and     *)
(* renamed over it.                                                        *)
(*                                                                         *)
(* The file system is names for inodes: the installed binary has one, the  *)
(* staged copy another.  A copy is written in parts; whoever holds a file  *)
(* open goes on writing to it whatever its name has become.  An update can *)
(* be killed between any two steps, and another started then or meanwhile. *)
(* GitHub, curl and tar are external.                                      *)
(***************************************************************************)
EXTENDS Versions, FiniteSets

CONSTANTS
    Updaters,     \* processes that run bolide update
    Releases,     \* the versions in the order they are published
    Parts,        \* writes a copy of a binary takes
    MaxRuns       \* bound: updates an updater starts

ASSUME UpdateAssumption ==
    /\ Releases \in Seq(Version) /\ Releases # <<>>
    /\ Parts \in Nat \ {0} /\ MaxRuns \in Nat

None == 0
NoFile == <<>>
Nothing == [tarball |-> None, binary |-> None]
Build == DOMAIN Releases      \* a binary, by its place among the releases
Inode == {<<u, n>> : u \in Updaters, n \in 0..MaxRuns}

VARIABLES
    latest,    \* the release that releases/latest redirects to
    platform,  \* where it runs: a release's target, a "checkout", "unsupported"
    file,      \* inode -> its parts, None where nothing is written, and its mode
    exe,       \* the inode of the installed binary
    staged,    \* the inode of <exe>.new, or NoFile
    pc,        \* updater -> the step it is at, "idle" before and after an update
    runs,      \* updater -> updates it started
    current,   \* updater -> the build it runs
    want,      \* updater -> the release it resolved
    work,      \* updater -> what its scratch directory holds
    fd,        \* updater -> the inode it writes to
    written,   \* updater -> parts written
    ended      \* updater -> how its last update ended, or "none"

names == <<file, exe, staged>>
world == <<latest, platform>>
mine == <<runs, current, want, fd, written>>
vars == <<latest, platform, file, exe, staged, pc, runs, current, want, work, fd, written, ended>>

Of(build) == [p \in 1..Parts |-> build]
Whole(i) == file[i].exec /\ \E b \in Build : file[i].parts = Of(b)
Empty == [p \in 1..Parts |-> None]

Init ==
    /\ latest \in Build
    /\ platform \in {"supported", "unsupported", "checkout"}
    /\ \E u \in Updaters, b \in Build :
          /\ exe = <<u, 0>>
          /\ file = [i \in Inode |-> [parts |-> IF i = exe THEN Of(b) ELSE Empty,
                                      exec |-> i = exe]]
    /\ staged = NoFile
    /\ pc = [u \in Updaters |-> "idle"] /\ runs = [u \in Updaters |-> 0]
    /\ current = [u \in Updaters |-> None] /\ want = [u \in Updaters |-> None]
    /\ work = [u \in Updaters |-> Nothing]
    /\ fd = [u \in Updaters |-> NoFile] /\ written = [u \in Updaters |-> 0]
    /\ ended = [u \in Updaters |-> "none"]

Publish ==
    /\ latest + 1 \in Build /\ latest' = latest + 1
    /\ UNCHANGED <<platform, names, pc, mine, work, ended>>

-----------------------------------------------------------------------------
(* update *)

Goto(u, step) == pc' = [pc EXCEPT ![u] = step]

\* update returns: the scratch directory is dropped with it.
Ends(u, how) ==
    /\ Goto(u, "idle") /\ ended' = [ended EXCEPT ![u] = how]
    /\ work' = [work EXCEPT ![u] = Nothing]

\* is_source_build: below a directory called target, a checkout's.
IsSourceBuild == platform = "checkout"

\* release_target: there is a release for this machine.
HasTarget == platform # "unsupported"

\* Starting takes a binary that runs, and the version is the one it was built as.
Start(u) ==
    /\ pc[u] = "idle" /\ runs[u] < MaxRuns /\ Whole(exe)
    /\ runs' = [runs EXCEPT ![u] = @ + 1]
    /\ current' = [current EXCEPT ![u] = file[exe].parts[1]]
    /\ want' = [want EXCEPT ![u] = None]
    /\ IF IsSourceBuild
       THEN Ends(u, "failed")
       ELSE Goto(u, "resolve") /\ ended' = [ended EXCEPT ![u] = "none"] /\ UNCHANGED work
    /\ UNCHANGED <<world, names, fd, written>>

\* latest_version: the tag the redirect lands on.
LatestVersion(u) == want' = [want EXCEPT ![u] = latest]

\* The question for it, and the comparison; only then does the platform matter.
Resolve(u) ==
    /\ pc[u] = "resolve"
    /\ LatestVersion(u)
    /\ IF ~Before(Releases[current[u]], Releases[latest]) THEN Ends(u, "uptodate")
       ELSE IF ~HasTarget THEN Ends(u, "failed")
       ELSE Goto(u, "scratch") /\ UNCHANGED <<work, ended>>
    /\ UNCHANGED <<world, names, runs, current, fd, written>>

\* WorkDir::new, over what a killed update left there.
Scratch(u) ==
    /\ pc[u] = "scratch"
    /\ work' = [work EXCEPT ![u] = Nothing]
    /\ Goto(u, "download")
    /\ UNCHANGED <<world, names, mine, ended>>

\* Mutant: the asset of whatever is the latest release by now.
AssetLatest(u) == latest

\* asset_url names the version that was resolved.
Asset(u) == want[u]

\* fetch.download: the tarball.
Download(u) ==
    /\ pc[u] = "download"
    /\ work' = [work EXCEPT ![u].tarball = Asset(u)]
    /\ Goto(u, "unpack")
    /\ UNCHANGED <<world, names, mine, ended>>

\* unpack: the binary that was in it.
Unpack(u) ==
    /\ pc[u] = "unpack"
    /\ work' = [work EXCEPT ![u].binary = work[u].tarball]
    /\ Goto(u, "copy")
    /\ UNCHANGED <<world, names, mine, ended>>

\* A network, a directory, a tar or an archive that is no good: nothing is touched.
Refused(u) ==
    /\ pc[u] \in {"resolve", "scratch", "download", "unpack"}
    /\ Ends(u, "failed")
    /\ UNCHANGED <<world, names, mine>>

-----------------------------------------------------------------------------
(* swap_in *)

\* Mutant: a staged copy that is already there is taken for this one.
OpenOrReuse(u) ==
    /\ pc[u] = "copy"
    /\ staged' = IF staged = NoFile THEN <<u, runs[u]>> ELSE staged
    /\ fd' = [fd EXCEPT ![u] = staged']
    /\ \E mode \in BOOLEAN :
          file' = IF staged = NoFile THEN [file EXCEPT ![staged'] = [parts |-> Empty, exec |-> mode]]
                  ELSE file
    /\ written' = [written EXCEPT ![u] = IF staged = NoFile THEN 0 ELSE Parts]
    /\ Goto(u, "write")
    /\ UNCHANGED <<world, exe, runs, current, want, work, ended>>

\* fs::copy opens <exe>.new, which creates it or empties the one that is there,
\* and gives it the mode of the file it copies.
Open(u) ==
    /\ pc[u] = "copy"
    /\ staged' = IF staged = NoFile THEN <<u, runs[u]>> ELSE staged
    /\ fd' = [fd EXCEPT ![u] = staged']
    /\ \E mode \in BOOLEAN :
          file' = [file EXCEPT ![staged'] = [parts |-> Empty, exec |-> mode]]
    /\ written' = [written EXCEPT ![u] = 0]
    /\ Goto(u, "write")
    /\ UNCHANGED <<world, exe, runs, current, want, work, ended>>

Write(u) ==
    /\ pc[u] = "write" /\ written[u] < Parts
    /\ written' = [written EXCEPT ![u] = @ + 1]
    /\ file' = [file EXCEPT ![fd[u]].parts[written'[u]] = work[u].binary]
    /\ UNCHANGED <<world, exe, staged, pc, runs, current, want, work, fd, ended>>

\* make_executable, by name.
MakeExecutable(u) ==
    /\ pc[u] = "write" /\ written[u] = Parts /\ staged # NoFile
    /\ file' = [file EXCEPT ![staged].exec = TRUE]
    /\ Goto(u, "rename")
    /\ UNCHANGED <<world, exe, staged, mine, work, ended>>

Rename(u) ==
    /\ pc[u] = "rename" /\ staged # NoFile
    /\ exe' = staged /\ staged' = NoFile
    /\ Ends(u, "updated")
    /\ UNCHANGED <<world, file, mine>>

\* cannot: any step of the swap may fail, and does when the staged copy is gone;
\* whatever bears its name is removed.
Cannot(u) ==
    /\ pc[u] \in {"copy", "write", "rename"}
    /\ staged' = NoFile
    /\ Ends(u, "failed")
    /\ UNCHANGED <<world, file, exe, mine>>

\* A signal: nothing is cleaned up.
Kill(u) ==
    /\ pc[u] # "idle"
    /\ Goto(u, "idle")
    /\ UNCHANGED <<world, names, mine, work, ended>>

Next ==
    \/ Publish
    \/ \E u \in Updaters :
          \/ Start(u) \/ Resolve(u) \/ Scratch(u) \/ Download(u) \/ Unpack(u) \/ Refused(u)
          \/ Open(u) \/ Write(u) \/ MakeExecutable(u) \/ Rename(u) \/ Cannot(u)
          \/ Kill(u)

Spec == Init /\ [][Next]_vars

-----------------------------------------------------------------------------
(* Properties *)

\* The installed binary is never half of a new one, and can be run
\* (update.rs:8-12).
AlwaysWhole == Whole(exe)

\* No step puts an older release in the place of a newer one (update.rs:5-8).
NeverOlder == [][file[exe].parts[1] <= (file[exe].parts[1])']_vars

\* What an update says is so: updated, the release it named is installed and
\* nothing is left beside it; any other end, the binary is the one that ran
\* (update.rs:319).
SaysWhatItDid ==
    \A u \in Updaters :
        /\ ended[u] = "updated" =>
              file[exe].parts = Of(want[u]) /\ staged = NoFile
        /\ ended[u] \in {"failed", "uptodate"} => file[exe].parts = Of(current[u])
=============================================================================
