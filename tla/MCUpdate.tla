------------------------------ MODULE MCUpdate ------------------------------
(* Update for TLC: releases whose order a comparison of strings gets wrong. *)
EXTENDS Update, TLC

ManyReleases ==
    << Release(0, 9, 1), Prerelease(0, 10, 0, <<Word(1), Number(2)>>),
       Prerelease(0, 10, 0, <<Word(1), Number(10)>>),
       Prerelease(0, 10, 0, <<Word(1), Word(1)>>), Release(0, 10, 0) >>
TwoReleases == << Release(0, 9, 1), Release(0, 10, 0) >>
Symmetry == Permutations(Updaters)
=============================================================================
