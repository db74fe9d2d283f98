---------------------------- MODULE UpdateProofs ----------------------------
(***************************************************************************)
(* Theorems about Update, for any number of updaters, releases and parts.  *)
(* They are about updates that run one after another, each of which may be *)
(* killed anywhere: two at a time share <exe>.new, and the installed       *)
(* binary can be left half-written (run update_twice).                     *)
(***************************************************************************)
EXTENDS Update, TLAPS

-----------------------------------------------------------------------------
(* Versions.  The order of releases is one: no version is before itself, no  *)
(* two are before each other, and before is transitive, whatever prereleases *)
(* they have.                                                                *)

LEMMA IdsAreOrdered ==
    ASSUME NEW x \in Id, NEW y \in Id, IdBefore(x, y)
    PROVE  /\ ~IdBefore(y, x)
           /\ \A z \in Id : IdBefore(y, z) => IdBefore(x, z)
  BY DEF IdBefore, Id

LEMMA DifferIn ==
    ASSUME NEW S, NEW s \in Seq(S), NEW t \in Seq(S), NEW i \in Differ(s, t)
    PROVE  i \in Nat /\ s[i] \in S /\ t[i] \in S /\ s[i] # t[i]
  BY DEF Differ

\* Two sequences first differ in one place at most.
LEMMA DifferOnce ==
    ASSUME NEW S, NEW s \in Seq(S), NEW t \in Seq(S), NEW i \in Differ(s, t), NEW j \in Differ(t, s)
    PROVE  i = j /\ i \in 1..Len(s) /\ i \in 1..Len(t) /\ s[i] # t[i]
  BY DEF Differ

\* The place where s and u first differ is the earlier of the places where they
\* first differ from t.
LEMMA DifferFirst ==
    ASSUME NEW S, NEW s \in Seq(S), NEW t \in Seq(S), NEW u \in Seq(S),
           NEW i \in Differ(s, t), NEW j \in Differ(t, u)
    PROVE  /\ i \in Nat /\ j \in Nat
           /\ i < j => i \in Differ(s, u) /\ t[i] = u[i]
           /\ j < i => j \in Differ(s, u) /\ s[j] = t[j]
           /\ i = j /\ s[i] # u[i] => i \in Differ(s, u)
  <1>1. i \in Nat /\ j \in Nat
    BY DEF Differ
  <1>2. i < j => i \in Differ(s, u) /\ t[i] = u[i]
    BY <1>1 DEF Differ
  <1>3. j < i => j \in Differ(s, u) /\ s[j] = t[j]
    BY <1>1 DEF Differ
  <1>4. i = j /\ s[i] # u[i] => i \in Differ(s, u)
    BY <1>1 DEF Differ
  <1> QED
    BY <1>1, <1>2, <1>3, <1>4

LEMMA PreAsymmetric ==
    ASSUME NEW s \in Seq(Id), NEW t \in Seq(Id), PreBefore(s, t)
    PROVE  ~PreBefore(t, s)
  <1>1. CASE Begins(s, t)
    BY <1>1 DEF PreBefore, Begins, Differ
  <1>2. CASE \E i \in Differ(s, t) : IdBefore(s[i], t[i])
    <2>1. PICK i \in Differ(s, t) : IdBefore(s[i], t[i])
      BY <1>2
    <2>2. ~Begins(t, s)
      BY <2>1 DEF Begins, Differ
    <2>3. ASSUME NEW j \in Differ(t, s), IdBefore(t[j], s[j]) PROVE FALSE
      <3>1. i = j /\ s[i] \in Id /\ t[i] \in Id
        BY <2>1, DifferOnce
      <3> QED
        BY <2>1, <2>3, <3>1, IdsAreOrdered
    <2> QED
      BY <2>2, <2>3 DEF PreBefore
  <1> QED
    BY <1>1, <1>2 DEF PreBefore

LEMMA PreTransitive ==
    ASSUME NEW s \in Seq(Id), NEW t \in Seq(Id), NEW u \in Seq(Id),
           PreBefore(s, t), PreBefore(t, u)
    PROVE  PreBefore(s, u)
  <1>1. CASE Begins(s, t) /\ Begins(t, u)
    BY <1>1 DEF PreBefore, Begins
  <1>2. ASSUME Begins(s, t), NEW j \in Differ(t, u), IdBefore(t[j], u[j])
        PROVE  PreBefore(s, u)
    <2>1. j \in 1..Len(t) /\ j \in 1..Len(u) /\ \A k \in 1..j - 1 : t[k] = u[k]
      BY DEF Differ
    <2>2. CASE j <= Len(s)
      <3>1. j \in Differ(s, u) /\ s[j] = t[j]
        BY <1>2, <2>1, <2>2 DEF Begins, Differ
      <3> QED
        BY <1>2, <3>1 DEF PreBefore
    <2>3. CASE Len(s) < j
      BY <1>2, <2>1, <2>3 DEF PreBefore, Begins
    <2> QED
      BY <2>1, <2>2, <2>3
  <1>3. ASSUME NEW i \in Differ(s, t), IdBefore(s[i], t[i]), Begins(t, u)
        PROVE  PreBefore(s, u)
    <2>1. i \in Differ(s, u) /\ u[i] = t[i]
      BY <1>3 DEF Begins, Differ
    <2> QED
      BY <1>3, <2>1 DEF PreBefore
  <1>4. ASSUME NEW i \in Differ(s, t), IdBefore(s[i], t[i]),
               NEW j \in Differ(t, u), IdBefore(t[j], u[j])
        PROVE  PreBefore(s, u)
    <2>1. s[i] \in Id /\ t[i] \in Id /\ t[j] \in Id /\ u[j] \in Id
      BY DEF Differ
    <2>2. CASE i < j
      BY <1>4, <2>2, DifferFirst DEF PreBefore
    <2>3. CASE j < i
      BY <1>4, <2>3, DifferFirst DEF PreBefore
    <2>4. CASE i = j
      <3>1. IdBefore(s[i], u[i]) /\ ~IdBefore(t[i], s[i])
        BY <1>4, <2>1, <2>4, IdsAreOrdered
      <3>2. s[i] # u[i]
        BY <1>4, <2>4, <3>1
      <3> QED
        BY <2>4, <3>1, <3>2, DifferFirst DEF PreBefore
    <2> QED
      BY <2>2, <2>3, <2>4, DifferFirst
  <1> QED
    BY <1>1, <1>2, <1>3, <1>4 DEF PreBefore

LEMMA Cores == \A v \in Version : v.core \in Seq(Nat) /\ v.pre \in Seq(Id)
  <1> SUFFICES ASSUME NEW v \in Version PROVE v.core \in Seq(Nat) /\ v.pre \in Seq(Id)
    OBVIOUS
  <1>1. v.core \in Nat \X Nat \X Nat /\ v.pre \in Seq(Id)
    BY DEF Version
  <1>2. PICK x \in Nat, y \in Nat, z \in Nat : v.core = <<x, y, z>>
    BY <1>1
  <1>3. <<x, y, z>> \in Seq(Nat)
    OBVIOUS
  <1> QED
    BY <1>1, <1>2, <1>3

\* No two versions are before each other, and none is before itself: an update
\* is an update or it is not (update.rs:223).
THEOREM NotBoth ==
    ASSUME NEW a \in Version, NEW b \in Version, Before(a, b)
    PROVE  ~Before(b, a)
  <1>1. CASE a.core = b.core
    BY <1>1, Cores, PreAsymmetric DEF Before
  <1>2. CASE a.core # b.core
    <2>1. PICK i \in Differ(a.core, b.core) : a.core[i] < b.core[i]
      BY <1>2 DEF Before
    <2>2. ASSUME NEW j \in Differ(b.core, a.core), b.core[j] < a.core[j] PROVE FALSE
      <3>1. i = j /\ a.core[i] \in Nat /\ b.core[i] \in Nat
        BY Cores, DifferOnce
      <3> QED
        BY <2>1, <2>2, <3>1
    <2> QED
      BY <1>2, <2>2 DEF Before
  <1> QED
    BY <1>1, <1>2

\* Before is transitive: by way of any other release, an update leads to no
\* older one (update.rs:223).
THEOREM ByWayOf ==
    ASSUME NEW a \in Version, NEW b \in Version, NEW c \in Version, Before(a, b), Before(b, c)
    PROVE  Before(a, c)
  <1>1. /\ a.core \in Seq(Nat) /\ b.core \in Seq(Nat) /\ c.core \in Seq(Nat)
        /\ a.pre \in Seq(Id) /\ b.pre \in Seq(Id) /\ c.pre \in Seq(Id)
    BY Cores
  <1>2. CASE a.core = b.core /\ b.core = c.core
    <2>1. a.pre # <<>> /\ b.pre # <<>> /\ PreBefore(a.pre, b.pre)
      BY <1>2 DEF Before
    <2>2. c.pre = <<>> \/ PreBefore(a.pre, c.pre)
      BY <1>1, <1>2, <2>1, PreTransitive DEF Before
    <2> QED
      BY <1>2, <2>1, <2>2 DEF Before
  <1>3. CASE a.core # b.core /\ b.core # c.core
    <2>1. PICK i \in Differ(a.core, b.core) : a.core[i] < b.core[i]
      BY <1>3 DEF Before
    <2>2. PICK j \in Differ(b.core, c.core) : b.core[j] < c.core[j]
      BY <1>3 DEF Before
    <2>3. a.core[i] \in Nat /\ b.core[i] \in Nat /\ b.core[j] \in Nat /\ c.core[j] \in Nat
      BY <1>1, DifferIn
    <2>4. \E k \in Differ(a.core, c.core) : a.core[k] < c.core[k]
      <3>1. CASE i < j
        <4>1. i \in Differ(a.core, c.core) /\ b.core[i] = c.core[i]
          <5>1. \A S : \A s, t, u \in Seq(S) : \A m \in Differ(s, t), n \in Differ(t, u) :
                   m < n => m \in Differ(s, u) /\ t[m] = u[m]
            BY DifferFirst
          <5> QED
            BY <1>1, <3>1, <5>1
        <4> QED
          BY <2>1, <4>1
      <3>2. CASE j < i
        <4>1. j \in Differ(a.core, c.core) /\ a.core[j] = b.core[j]
          BY <1>1, <3>2, DifferFirst
        <4> QED
          BY <2>2, <4>1
      <3>3. CASE i = j
        <4>1. a.core[i] < c.core[i] /\ a.core[i] # c.core[i]
          BY <2>1, <2>2, <2>3, <3>3
        <4> QED
          BY <1>1, <3>3, <4>1, DifferFirst
      <3> QED
        BY <1>1, <3>1, <3>2, <3>3, DifferIn
    <2>5. a.core # c.core
      BY <1>1, <2>4, DifferIn
    <2> QED
      BY <2>4, <2>5 DEF Before
  <1>4. CASE (a.core = b.core) # (b.core = c.core)
    BY <1>4 DEF Before
  <1> QED
    BY <1>2, <1>3, <1>4

-----------------------------------------------------------------------------
(* Updates. *)

\* Nobody starts an update while another runs.
OneRuns == \A u, v \in Updaters : pc[u] # "idle" /\ pc[v] # "idle" => u = v

Steps == {"idle", "resolve", "scratch", "download", "unpack", "copy", "write", "rename"}
File == [parts : [1..Parts -> Build \cup {None}], exec : BOOLEAN]

Typed ==
    /\ latest \in Build
    /\ file \in [Inode -> File]
    /\ exe \in Inode /\ staged \in Inode \cup {NoFile}
    /\ pc \in [Updaters -> Steps] /\ runs \in [Updaters -> 0..MaxRuns]
    /\ current \in [Updaters -> Build \cup {None}] /\ want \in [Updaters -> Build \cup {None}]
    /\ work \in [Updaters -> [tarball : Build \cup {None}, binary : Build \cup {None}]]
    /\ fd \in [Updaters -> Inode \cup {NoFile}] /\ written \in [Updaters -> 0..Parts]

\* An update under way creates no file that is installed: every inode was made
\* by a run that started, and the installed one by a run that has ended.
Fresh ==
    /\ exe # staged
    /\ \A u \in Updaters, n \in 0..MaxRuns :
          exe = <<u, n>> => /\ n <= runs[u]
                            /\ pc[u] # "idle" => n < runs[u]
    /\ \A u \in Updaters, n \in 0..MaxRuns : staged = <<u, n>> => n <= runs[u]

\* What an update under way has resolved, holds and has written.
Underway(u) ==
    /\ pc[u] # "idle" => current[u] \in Build /\ file[exe].parts = Of(current[u])
    /\ pc[u] \notin {"idle", "resolve"} =>
          /\ want[u] \in Build
          /\ Before(Releases[current[u]], Releases[want[u]])
    /\ pc[u] = "unpack" => work[u].tarball = want[u]
    /\ pc[u] \in {"copy", "write", "rename"} => work[u].binary = want[u]
    /\ pc[u] \in {"write", "rename"} => staged # NoFile
    /\ pc[u] = "write" =>
          /\ fd[u] = staged
          /\ \A p \in 1..written[u] : file[staged].parts[p] = want[u]
    /\ pc[u] = "rename" => file[staged].exec /\ file[staged].parts = Of(want[u])

IInv == Typed /\ Fresh /\ AlwaysWhole /\ \A u \in Updaters : Underway(u)

USE UpdateAssumption DEF UpdateAssumption

LEMMA Builds ==
    /\ Build \subseteq Nat /\ None \notin Build /\ 1 \in Build
    /\ \A b \in Build, c \in Nat : 1 <= c /\ c <= b => c \in Build
  <1>1. Build = 1..Len(Releases) /\ Len(Releases) \in Nat \ {0}
    BY DEF Build
  <1> QED
    BY <1>1 DEF None

LEMMA Ofs ==
    ASSUME NEW b \in Build \cup {None}
    PROVE  Of(b) \in [1..Parts -> Build \cup {None}] /\ Of(b)[1] = b
  BY DEF Of

LEMMA Files ==
    ASSUME NEW f \in File, NEW p \in 1..Parts, NEW b \in Build \cup {None}, NEW mode \in BOOLEAN
    PROVE  [f EXCEPT !.parts[p] = b] \in File /\ [f EXCEPT !.exec = mode] \in File
  <1>1. [f EXCEPT !.exec = mode] \in File
    BY DEF File
  <1>2. [f.parts EXCEPT ![p] = b] \in [1..Parts -> Build \cup {None}]
    BY DEF File
  <1>3. [f EXCEPT !.parts = [f.parts EXCEPT ![p] = b]] \in File
    BY <1>2 DEF File
  <1> QED
    BY <1>1, <1>3

LEMMA Initially == Init => IInv
  <1> SUFFICES ASSUME Init PROVE IInv
    OBVIOUS
  <1> PICK v \in Updaters, b \in Build :
          /\ exe = <<v, 0>>
          /\ file = [i \in Inode |-> [parts |-> IF i = exe THEN Of(b) ELSE Empty,
                                      exec |-> i = exe]]
    BY DEF Init
  <1>1. exe \in Inode /\ exe # NoFile
    BY DEF Inode, NoFile
  <1>2. Empty \in [1..Parts -> Build \cup {None}] /\ Of(b) \in [1..Parts -> Build \cup {None}]
    BY DEF Empty, Of
  <1>3. file \in [Inode -> File]
    BY <1>2 DEF File
  <1>4. Typed
    BY <1>1, <1>3 DEF Init, Typed, Steps, Nothing
  <1>5. Fresh
    <2>1. ASSUME NEW u \in Updaters, NEW n \in 0..MaxRuns, exe = <<u, n>> PROVE n = 0
      BY <2>1
    <2> QED
      BY <1>1, <2>1 DEF Init, Fresh, NoFile
  <1>6. AlwaysWhole
    BY <1>1 DEF AlwaysWhole, Whole
  <1>7. ASSUME NEW u \in Updaters PROVE Underway(u)
    BY DEF Init, Underway
  <1> QED
    BY <1>4, <1>5, <1>6, <1>7 DEF IInv

\* Whoever acts in an update is the one whose update is under way.
LEMMA Others ==
    ASSUME OneRuns, NEW u \in Updaters, pc[u] # "idle", NEW v \in Updaters, v # u
    PROVE  pc[v] = "idle"
  BY DEF OneRuns

\* The steps that touch no file.
LEMMA ResolvingSteps ==
    ASSUME IInv, OneRuns, NEW u \in Updaters,
           Start(u) \/ Resolve(u) \/ Scratch(u) \/ Download(u) \/ Unpack(u) \/ Refused(u) \/ Kill(u)
    PROVE  IInv'
  <1> USE Builds DEF IInv
  <1>1. names' = names
    BY DEF Start, Resolve, Scratch, Download, Unpack, Refused, Kill
  <1>2. AlwaysWhole'
    BY <1>1 DEF AlwaysWhole, Whole, names
  <1>3. Typed'
    <2> USE <1>1 DEF Typed, names, world, mine, Goto, Ends, Steps, Nothing
    <2>1. CASE Start(u)
      <3>1. file[exe].parts[1] \in Build \cup {None}
        BY DEF File
      <3>2. runs'[u] \in 0..MaxRuns
        BY <2>1 DEF Start
      <3>3. runs' \in [Updaters -> 0..MaxRuns] /\ current' \in [Updaters -> Build \cup {None}]
            /\ want' \in [Updaters -> Build \cup {None}]
        BY <2>1, <3>1, <3>2 DEF Start
      <3>a. \/ pc' = [pc EXCEPT ![u] = "idle"]
            \/ pc' = [pc EXCEPT ![u] = "resolve"]
        BY <2>1 DEF Start
      <3>4. pc' \in [Updaters -> Steps]
        BY <3>a
      <3>5. work' \in [Updaters -> [tarball : Build \cup {None}, binary : Build \cup {None}]]
        BY <2>1 DEF Start, IsSourceBuild
      <3> QED
        BY <2>1, <3>3, <3>4, <3>5 DEF Start
    <2>2. CASE Resolve(u)
      <3>0. \/ pc' = [pc EXCEPT ![u] = "idle"]
            \/ pc' = [pc EXCEPT ![u] = "scratch"]
        BY <2>2 DEF Resolve
      <3>1. pc' \in [Updaters -> Steps]
        BY <3>0
      <3>a. work' = work \/ work' = [work EXCEPT ![u] = Nothing]
        BY <2>2 DEF Resolve
      <3>b. Nothing \in [tarball : Build \cup {None}, binary : Build \cup {None}]
        OBVIOUS
      <3>2. work' \in [Updaters -> [tarball : Build \cup {None}, binary : Build \cup {None}]]
        <4> HIDE DEF Nothing
        <4> QED
          BY <3>a, <3>b
      <3> QED
        BY <2>2, <3>1, <3>2 DEF Resolve, LatestVersion
    <2>3. CASE Scratch(u)
      BY <2>3 DEF Scratch
    <2>4. CASE Download(u)
      BY <2>4 DEF Download, Asset
    <2>5. CASE Unpack(u)
      BY <2>5 DEF Unpack
    <2>6. CASE Refused(u)
      BY <2>6 DEF Refused
    <2>7. CASE Kill(u)
      BY <2>7 DEF Kill
    <2> QED
      BY <2>1, <2>2, <2>3, <2>4, <2>5, <2>6, <2>7
  <1>4. Fresh'
    <2>1. CASE Start(u)
      <3>1. /\ pc[u] = "idle" /\ runs[u] \in Nat /\ runs'[u] = runs[u] + 1
            /\ exe' = exe /\ staged' = staged
        BY <2>1 DEF Start, names, Typed
      <3>2. \A v \in Updaters \ {u} : runs'[v] = runs[v] /\ pc'[v] = pc[v]
        BY <2>1 DEF Start, Goto, Ends, Typed
      <3> QED
        BY <1>1, <3>1, <3>2 DEF Fresh
    <2>2. CASE ~Start(u)
      <3>1. runs' = runs /\ \A v \in Updaters : pc'[v] # "idle" => pc[v] # "idle"
        BY <2>2 DEF Resolve, Scratch, Download, Unpack, Refused, Kill, mine, Goto, Ends,
           Typed, HasTarget
      <3> QED
        BY <3>1, <1>1 DEF Fresh, names
    <2> QED
      BY <2>1, <2>2
  <1>5. ASSUME NEW v \in Updaters PROVE Underway(v)'
    <2>1. Underway(v) /\ Underway(u)
      OBVIOUS
    <2> USE <1>1, <2>1 DEF Underway, Typed, names, mine, Goto, Ends, Steps
    <2>2. CASE Start(u)
      <3>1. file[exe].parts[1] \in Build /\ file[exe].parts = Of(file[exe].parts[1])
        BY Ofs DEF AlwaysWhole, Whole
      <3>2. current'[u] = file[exe].parts[1] /\ pc'[u] \in {"idle", "resolve"}
        BY <2>2 DEF Start, IsSourceBuild
      <3>3. v # u => pc'[v] = pc[v] /\ current'[v] = current[v] /\ want'[v] = want[v]
                     /\ work'[v] = work[v] /\ fd' = fd /\ written' = written
        BY <2>2 DEF Start, IsSourceBuild
      <3>4. CASE v = u
        BY <3>1, <3>2, <3>4
      <3>5. CASE v # u
        BY <3>3, <3>5
      <3> QED
        BY <3>4, <3>5
    <2>3. CASE Resolve(u)
      BY <2>3 DEF Resolve, LatestVersion, HasTarget
    <2>4. CASE Scratch(u)
      BY <2>4 DEF Scratch
    <2>5. CASE Download(u)
      BY <2>5 DEF Download, Asset
    <2>6. CASE Unpack(u)
      BY <2>6 DEF Unpack
    <2>7. CASE Refused(u)
      BY <2>7 DEF Refused
    <2>8. CASE Kill(u)
      BY <2>8 DEF Kill
    <2> QED
      BY <2>2, <2>3, <2>4, <2>5, <2>6, <2>7, <2>8
  <1> QED
    BY <1>2, <1>3, <1>4, <1>5

\* The staged copy: opened, written, made executable.
LEMMA StagingSteps ==
    ASSUME IInv, OneRuns, NEW u \in Updaters, Open(u) \/ Write(u) \/ MakeExecutable(u)
    PROVE  IInv'
  <1> USE Builds DEF IInv
  <1>1. pc[u] \in {"copy", "write"} /\ runs' = runs /\ exe' = exe /\ want' = want
        /\ current' = current /\ work' = work /\ latest' = latest
    BY DEF Open, Write, MakeExecutable, world, mine
  <1>2. \A v \in Updaters : v # u => pc[v] = "idle"
    BY <1>1, Others
  <1>3. /\ staged' \in Inode /\ staged' # NoFile
        /\ staged' = IF staged = NoFile THEN <<u, runs[u]>> ELSE staged
    <2>1. <<u, runs[u]>> \in Inode /\ NoFile \notin Inode
      BY DEF Typed, Inode, NoFile
    <2> QED
      BY <2>1 DEF Open, Write, MakeExecutable, Underway, Typed
  <1>4. Fresh'
    <2>1. pc' \in [Updaters -> Steps] /\ \A v \in Updaters : pc'[v] # "idle" => pc[v] # "idle"
      BY <1>1 DEF Open, Write, MakeExecutable, Goto, Typed, Steps
    <2>2. exe # <<u, runs[u]>>
      <3>1. runs[u] \in 0..MaxRuns /\ runs[u] \in Nat
        BY DEF Typed
      <3>2. pc[u] # "idle"
        BY <1>1
      <3> QED
        BY <3>1, <3>2 DEF Fresh
    <2>3. exe' # staged'
      BY <1>1, <1>3, <2>2 DEF Fresh
    <2>4. ASSUME NEW v \in Updaters, NEW n \in 0..MaxRuns, staged' = <<v, n>> PROVE n <= runs[v]
      BY <1>3, <2>4 DEF Fresh, Typed
    <2> QED
      BY <1>1, <2>1, <2>3, <2>4 DEF Fresh
  <1>5. file' \in [Inode -> File] /\ file'[exe] = file[exe]
    <2>1. exe # staged' /\ exe \in Inode
      BY <1>1, <1>4 DEF Fresh, Typed
    <2>2. CASE Open(u)
      <3>1. PICK mode \in BOOLEAN :
               file' = [file EXCEPT ![staged'] = [parts |-> Empty, exec |-> mode]]
        BY <2>2 DEF Open
      <3>2. [parts |-> Empty, exec |-> mode] \in File
        BY DEF File, Empty
      <3> QED
        BY <1>3, <2>1, <3>1, <3>2 DEF Typed
    <2>3. CASE Write(u)
      <3> DEFINE p == written[u] + 1
      <3>1. p \in 1..Parts /\ fd[u] = staged' /\ work[u].binary \in Build \cup {None}
        BY <2>3 DEF Write, Underway, Typed
      <3>2. file' = [file EXCEPT ![staged'].parts[p] = work[u].binary]
        BY <2>3, <3>1 DEF Write, Typed
      <3>3. [file[staged'] EXCEPT !.parts[p] = work[u].binary] \in File
        BY <1>3, <3>1, Files DEF Typed
      <3> QED
        BY <1>3, <2>1, <3>2, <3>3 DEF Typed
    <2>4. CASE MakeExecutable(u)
      <3>0. 1 \in 1..Parts /\ 1 \in Build
        BY Builds
      <3>1. file' = [file EXCEPT ![staged'].exec = TRUE]
        BY <2>4 DEF MakeExecutable
      <3>2. [file[staged'] EXCEPT !.exec = TRUE] \in File
        BY <1>3, <3>0, Files DEF Typed
      <3> QED
        BY <1>3, <2>1, <3>1, <3>2 DEF Typed
    <2> QED
      BY <2>2, <2>3, <2>4
  <1>6. AlwaysWhole'
    BY <1>1, <1>5 DEF AlwaysWhole, Whole
  <1>7. Typed'
    <2>1. pc' \in [Updaters -> Steps]
      BY DEF Open, Write, MakeExecutable, Goto, Typed, Steps
    <2>2. fd' \in [Updaters -> Inode \cup {NoFile}]
      BY <1>3 DEF Open, Write, MakeExecutable, Typed, mine
    <2>3. written' \in [Updaters -> 0..Parts]
      <3>1. CASE Open(u)
        BY <3>1 DEF Open, Typed
      <3>2. CASE Write(u)
        BY <3>2 DEF Write, Typed
      <3>3. CASE MakeExecutable(u)
        BY <3>3 DEF MakeExecutable, Typed, mine
      <3> QED
        BY <3>1, <3>2, <3>3
    <2> QED
      BY <1>1, <1>3, <1>5, <2>1, <2>2, <2>3 DEF Typed
  <1>8. ASSUME NEW v \in Updaters PROVE Underway(v)'
    <2>1. Underway(v) /\ Underway(u)
      OBVIOUS
    <2>2. CASE v # u
      <3>1. pc'[v] = "idle"
        BY <1>2, <2>2 DEF Open, Write, MakeExecutable, Goto, Typed
      <3> QED
        BY <3>1 DEF Underway
    <2>3. CASE v = u /\ Open(u)
      <3>1. pc'[u] = "write" /\ fd'[u] = staged' /\ written'[u] = 0
        BY <2>3 DEF Open, Goto, Typed
      <3> QED
        BY <1>1, <1>3, <1>5, <2>1, <2>3, <3>1 DEF Underway
    <2>4. CASE v = u /\ Write(u)
      <3>1. pc[u] = "write" /\ pc' = pc /\ fd' = fd /\ staged' = staged
            /\ written'[u] = written[u] + 1 /\ written[u] \in 0..Parts - 1
        BY <2>4 DEF Write, Typed
      <3>2. file' = [file EXCEPT ![staged].parts[written[u] + 1] = want[u]]
        BY <2>1, <2>4, <3>1 DEF Write, Underway
      <3>3. file[staged] \in File /\ staged \in Inode
        BY <1>3, <3>1 DEF Typed
      <3>a. /\ written[u] + 1 \in 1..Parts
            /\ \A q \in 1..written[u] : file[staged].parts[q] = want[u]
        BY <2>1, <3>1 DEF Underway
      <3>b. file'[staged].parts = [file[staged].parts EXCEPT ![written[u] + 1] = want[u]]
        BY <3>2, <3>3, <1>3 DEF Typed
      <3>c. file[staged].parts \in [1..Parts -> Build \cup {None}]
        BY <3>3 DEF File
      <3>4. \A q \in 1..written[u] + 1 : file'[staged].parts[q] = want[u]
        BY <3>1, <3>a, <3>b, <3>c
      <3> QED
        BY <1>1, <1>3, <1>5, <2>1, <2>4, <3>1, <3>4 DEF Underway
    <2>5. CASE v = u /\ MakeExecutable(u)
      <3>1. pc[u] = "write" /\ pc'[u] = "rename" /\ staged' = staged /\ written[u] = Parts
        BY <2>5 DEF MakeExecutable, Goto, Typed
      <3>2. file[staged] \in File /\ staged \in Inode
        BY <1>3, <3>1 DEF Typed
      <3>3. file'[staged].exec /\ file'[staged].parts = file[staged].parts
        BY <2>5, <3>2 DEF MakeExecutable, Typed, File
      <3>4. file[staged].parts = Of(want[u])
        BY <2>1, <3>1, <3>2 DEF Underway, File, Of
      <3> QED
        BY <1>1, <1>3, <1>5, <2>1, <2>5, <3>1, <3>3, <3>4 DEF Underway
    <2> QED
      BY <2>2, <2>3, <2>4, <2>5
  <1> QED
    BY <1>4, <1>6, <1>7, <1>8

\* The swap, or its failure.
LEMMA LastSteps ==
    ASSUME IInv, OneRuns, NEW u \in Updaters, Rename(u) \/ Cannot(u)
    PROVE  IInv'
  <1> USE Builds DEF IInv
  <1>1. /\ pc[u] # "idle" /\ pc' = [pc EXCEPT ![u] = "idle"] /\ staged' = NoFile
        /\ work' = [work EXCEPT ![u] = Nothing]
        /\ UNCHANGED <<world, file, mine>>
    BY DEF Rename, Cannot, Ends, Goto
  <1>2. \A v \in Updaters : pc'[v] = "idle"
    BY <1>1, Others DEF Typed
  <1>3. exe' \in Inode /\ exe' # NoFile /\ (exe' = exe \/ exe' = staged)
    <2>1. NoFile \notin Inode
      BY DEF Inode, NoFile
    <2>2. CASE Rename(u)
      BY <2>1, <2>2 DEF Rename, Typed
    <2>3. CASE Cannot(u)
      BY <2>1, <2>3 DEF Cannot, Typed
    <2> QED
      BY <2>2, <2>3
  <1>4. AlwaysWhole'
    <2>1. CASE Rename(u)
      <3>1. pc[u] = "rename" /\ Underway(u) /\ exe' = staged /\ file' = file
        BY <2>1 DEF Rename
      <3>2. want[u] \in Build /\ file[staged].exec /\ file[staged].parts = Of(want[u])
        BY <3>1 DEF Underway
      <3> QED
        BY <3>1, <3>2 DEF AlwaysWhole, Whole
    <2>2. CASE Cannot(u)
      BY <1>1, <2>2 DEF Cannot, AlwaysWhole, Whole
    <2> QED
      BY <2>1, <2>2
  <1>5. Fresh'
    <2>1. exe' # staged'
      BY <1>1, <1>3
    <2>2. \A v \in Updaters, n \in 0..MaxRuns : exe' = <<v, n>> => n <= runs[v]
      BY <1>3 DEF Fresh
    <2>3. \A v \in Updaters, n \in 0..MaxRuns : staged' # <<v, n>>
      BY <1>1 DEF NoFile
    <2> QED
      BY <1>1, <1>2, <2>1, <2>2, <2>3 DEF Fresh, mine
  <1>6. Nothing \in [tarball : Build \cup {None}, binary : Build \cup {None}]
    BY DEF Nothing
  <1>7. Typed'
    BY <1>1, <1>3, <1>6 DEF Typed, Steps, world, mine
  <1>8. ASSUME NEW v \in Updaters PROVE Underway(v)'
    BY <1>2 DEF Underway
  <1> QED
    BY <1>4, <1>5, <1>7, <1>8

LEMMA Inductive == IInv /\ OneRuns /\ [Next]_vars => IInv'
  <1> SUFFICES ASSUME IInv, OneRuns, [Next]_vars PROVE IInv'
    OBVIOUS
  <1>1. CASE UNCHANGED vars
    BY <1>1 DEF vars, IInv, Typed, Fresh, AlwaysWhole, Whole, Underway
  <1>2. CASE Publish
    BY <1>2, Builds DEF Publish, IInv, Typed, Fresh, AlwaysWhole, Whole, Underway, names, mine
  <1>3. CASE \E u \in Updaters :
                \/ Start(u) \/ Resolve(u) \/ Scratch(u) \/ Download(u) \/ Unpack(u) \/ Refused(u)
                \/ Open(u) \/ Write(u) \/ MakeExecutable(u) \/ Rename(u) \/ Cannot(u)
                \/ Kill(u)
    BY <1>3, ResolvingSteps, StagingSteps, LastSteps
  <1> QED
    BY <1>1, <1>2, <1>3 DEF Next

\* Updates that never overlap leave the installed binary whole, wherever each of
\* them fails or is killed, whatever an earlier one left beside the binary
\* (update.rs:8-12, 390).
THEOREM BinaryIsWhole == Spec /\ []OneRuns => []AlwaysWhole
  <1>1. IInv => AlwaysWhole
    BY DEF IInv
  <1> QED
    BY <1>1, Initially, Inductive, PTL DEF Spec

\* Releases are published in the order their versions have.
Published == \A i, j \in Build : i < j => Before(Releases[i], Releases[j])

LEMMA Steady ==
    ASSUME Published, IInv, OneRuns, [Next]_vars
    PROVE  file[exe].parts[1] <= file'[exe'].parts[1]
  <1> USE Builds
  <1>1. file[exe].parts[1] \in Nat
    BY Ofs DEF IInv, AlwaysWhole, Whole
  <1>2. CASE \E u \in Updaters : Rename(u)
    <2>1. PICK u \in Updaters : Rename(u)
      BY <1>2
    <2>2. Underway(u) /\ exe' = staged /\ file' = file /\ pc[u] = "rename"
      BY <2>1 DEF Rename, IInv
    <2>3. /\ current[u] \in Build /\ file[exe].parts = Of(current[u])
          /\ want[u] \in Build /\ file[staged].parts = Of(want[u])
          /\ Before(Releases[current[u]], Releases[want[u]])
      BY <2>2 DEF Underway
    <2>4. ~(want[u] < current[u])
      <3>1. Releases[current[u]] \in Version /\ Releases[want[u]] \in Version
        BY <2>3 DEF Build
      <3> QED
        BY <2>3, <3>1, NotBoth DEF Published
    <2> QED
      <3>1. Of(current[u])[1] = current[u] /\ Of(want[u])[1] = want[u]
        BY <2>3, Ofs
      <3>2. current[u] \in Nat /\ want[u] \in Nat
        BY <2>3
      <3> QED
        BY <2>2, <2>3, <2>4, <3>1, <3>2
  <1>3. CASE \E u \in Updaters : Open(u) \/ Write(u)
    <2>1. PICK u \in Updaters : Open(u) \/ Write(u)
      BY <1>3
    <2>2. exe' = exe /\ exe # staged'
      <3>1. IInv'
        BY <2>1, StagingSteps
      <3> QED
        BY <2>1, <3>1 DEF IInv, Fresh, Open, Write
    <2>3. file'[exe] = file[exe]
      <3>1. CASE Open(u)
        BY <2>2, <3>1 DEF Open, IInv, Typed
      <3>2. CASE Write(u)
        <4>1. fd[u] = staged' /\ staged' = staged
          BY <3>2 DEF Write, IInv, Underway
        <4> QED
          BY <2>2, <3>2, <4>1 DEF Write, IInv, Typed
      <3> QED
        BY <2>1, <3>1, <3>2
    <2> QED
      BY <1>1, <2>2, <2>3
  <1>4. CASE \E u \in Updaters : MakeExecutable(u)
    <2>1. PICK u \in Updaters : MakeExecutable(u)
      BY <1>4
    <2>2. exe' = exe /\ exe # staged /\ file' = [file EXCEPT ![staged].exec = TRUE]
      BY <2>1 DEF MakeExecutable, IInv, Fresh
    <2> QED
      BY <1>1, <2>2 DEF IInv, Typed
  <1>5. CASE exe' = exe /\ file' = file
    BY <1>1, <1>5
  <1> QED
    BY <1>2, <1>3, <1>4, <1>5 DEF Next, vars, Publish, names, mine, Start, Resolve, Scratch,
       Download, Unpack, Refused, Cannot, Kill

\* As long as releases are published in order, and updates do not overlap, no
\* step puts an older release in the place of a newer one, whatever is published
\* while an update is under way (update.rs:5-8).
THEOREM NoOlder ==
    ASSUME Published
    PROVE  Spec /\ []OneRuns => NeverOlder
  <1>1. IInv /\ OneRuns /\ [Next]_vars => [file[exe].parts[1] <= (file[exe].parts[1])']_vars
    BY Steady
  <1> QED
    BY <1>1, Initially, Inductive, PTL DEF Spec, NeverOlder

\* An updater says what it did as long as it is the only one: a later update by
\* somebody else is news to it.
OneUpdater == \A u, v \in Updaters : u = v

\* An update under way has said nothing yet.
Quiet ==
    /\ ended \in [Updaters -> {"none", "updated", "failed", "uptodate"}]
    /\ \A u \in Updaters : pc[u] # "idle" => ended[u] = "none"

Says(u) ==
    /\ ended[u] = "updated" => file[exe].parts = Of(want[u]) /\ staged = NoFile
    /\ ended[u] \in {"failed", "uptodate"} => file[exe].parts = Of(current[u])

LEMMA SayingSteps ==
    ASSUME IInv, OneUpdater, Quiet, NEW u \in Updaters, Says(u), [Next]_vars
    PROVE  Quiet' /\ Says(u)'
  <1> USE DEF IInv, Quiet, Says, Of, names, world, mine, Ends, Goto
  <1>0. Underway(u) /\ Typed /\ \A v \in Updaters : v = u
    BY DEF OneUpdater
  <1>1. CASE Start(u)
    <2>1. file[exe].parts = Of(file[exe].parts[1])
      BY Ofs DEF AlwaysWhole, Whole
    <2>2. current'[u] = file[exe].parts[1] /\ file' = file /\ exe' = exe
      BY <1>0, <1>1 DEF Start, Typed
    <2>3. \/ ended' = [ended EXCEPT ![u] = "failed"] /\ pc' = [pc EXCEPT ![u] = "idle"]
          \/ ended' = [ended EXCEPT ![u] = "none"]
      BY <1>1 DEF Start
    <2> QED
      BY <1>0, <2>1, <2>2, <2>3 DEF Typed
  <1>2. CASE Resolve(u)
    <2>1. \/ ended' = [ended EXCEPT ![u] = "failed"] /\ pc' = [pc EXCEPT ![u] = "idle"]
          \/ ended' = [ended EXCEPT ![u] = "uptodate"] /\ pc' = [pc EXCEPT ![u] = "idle"]
          \/ ended' = ended
      BY <1>2 DEF Resolve
    <2>2. pc[u] # "idle" /\ UNCHANGED <<file, exe, current>>
      BY <1>2 DEF Resolve
    <2> QED
      BY <1>0, <2>1, <2>2 DEF Typed, Underway
  <1>3. CASE Scratch(u) \/ Download(u) \/ Unpack(u) \/ Kill(u)
    BY <1>0, <1>3 DEF Scratch, Download, Unpack, Kill, Typed
  <1>4. CASE Refused(u)
    BY <1>0, <1>4 DEF Refused, Typed, Underway
  <1>5. CASE Open(u) \/ Write(u) \/ MakeExecutable(u)
    BY <1>0, <1>5 DEF Open, Write, MakeExecutable, Typed
  <1>6. CASE Rename(u)
    BY <1>0, <1>6 DEF Rename, Typed, Underway
  <1>7. CASE Cannot(u)
    BY <1>0, <1>7 DEF Cannot, Typed, Underway
  <1>8. CASE Publish \/ UNCHANGED vars
    BY <1>8 DEF Publish, vars
  <1> QED
    BY <1>0, <1>1, <1>2, <1>3, <1>4, <1>5, <1>6, <1>7, <1>8 DEF Next

\* What an update says is so: updated, the release it resolved is installed, and
\* no other, and nothing is left beside it; any other end, the binary is the one
\* that ran (update.rs:319).
THEOREM WhatItSaysIsSo ==
    ASSUME OneUpdater
    PROVE  Spec => []SaysWhatItDid
  <1> DEFINE Saying == IInv /\ Quiet /\ \A u \in Updaters : Says(u)
  <1>1. OneRuns
    BY DEF OneUpdater, OneRuns
  <1>2. Init => Saying
    BY Initially DEF Init, Quiet, Says
  <1>3. Saying /\ [Next]_vars => Saying'
    <2> SUFFICES ASSUME Saying, [Next]_vars PROVE Saying'
      OBVIOUS
    <2>1. IInv'
      BY <1>1, Inductive
    <2>2. ASSUME NEW u \in Updaters PROVE Quiet' /\ Says(u)'
      BY SayingSteps
    <2>3. Quiet'
      <3>1. CASE Updaters = {}
        BY <3>1 DEF Quiet, Next, vars, Publish
      <3> QED
        BY <2>2, <3>1
    <2> QED
      BY <2>1, <2>2, <2>3
  <1>4. Saying => SaysWhatItDid
    BY DEF Says, SaysWhatItDid
  <1> QED
    BY <1>2, <1>3, <1>4, PTL DEF Spec
=============================================================================
