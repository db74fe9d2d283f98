------------------------------ MODULE Versions ------------------------------
(***************************************************************************)
(* Release versions (bolide-cli: update.rs): MAJOR.MINOR.PATCH, with an    *)
(* optional prerelease of dotted identifiers, each a number or a word.     *)
(* Words are given by their rank in the alphabet.  What a version says     *)
(* after a + takes no part in anything, and is left out.                   *)
(***************************************************************************)
EXTENDS Integers, Sequences

Number(n) == [word |-> FALSE, rank |-> n]
Word(n) == [word |-> TRUE, rank |-> n]
Release(a, b, c) == [core |-> <<a, b, c>>, pre |-> <<>>]
Prerelease(a, b, c, pre) == [core |-> <<a, b, c>>, pre |-> pre]

Id == [word : BOOLEAN, rank : Nat]
Version == [core : Nat \X Nat \X Nat, pre : Seq(Id)]

\* A number sorts before a word, otherwise by rank.
IdBefore(x, y) ==
    IF x.word = y.word THEN x.rank < y.rank ELSE y.word

\* Where two sequences first differ.
Differ(s, t) ==
    { i \in DOMAIN s \cap DOMAIN t :
        s[i] # t[i] /\ \A j \in 1..i - 1 : s[j] = t[j] }

Begins(s, t) == Len(s) < Len(t) /\ \A i \in DOMAIN s : s[i] = t[i]

\* compare_prerelease: by the first identifier that differs, and a prefix first.
PreBefore(s, t) ==
    \/ Begins(s, t)
    \/ \E i \in Differ(s, t) : IdBefore(s[i], t[i])

\* Mutant: the longer prerelease is the later one, and no prerelease is the shortest.
BeforeByLength(a, b) ==
    IF a.core = b.core THEN PreBefore(a.pre, b.pre)
    ELSE \E i \in Differ(a.core, b.core) : a.core[i] < b.core[i]

\* compare_versions is Less: numeric fields as numbers, and a prerelease before its
\* release.
Before(a, b) ==
    IF a.core = b.core
    THEN /\ a.pre # <<>>
         /\ b.pre = <<>> \/ PreBefore(a.pre, b.pre)
    ELSE \E i \in Differ(a.core, b.core) : a.core[i] < b.core[i]
=============================================================================
