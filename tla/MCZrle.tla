------------------------------- MODULE MCZrle -------------------------------
(***************************************************************************)
(* Zrle for TLC: what the test kit's encoder writes for every small        *)
(* picture and for pictures at the limits of a palette and of a run's      *)
(* length, and bytes that nobody wrote.  ZRLE_TILE is 64; the tiles are    *)
(* small where a rect should have several of them, clipped at its edges.   *)
(***************************************************************************)
EXTENDS Zrle, TLC

W == INSTANCE ZrleWriter

A == <<0, 0, 0>>
B == <<255, 0, 128>>
C == <<7, 255, 255>>
Colour(n) == <<n, 255 - n, 1>>

Picture(w, h, cells) == [w |-> w, h |-> h, px |-> cells]

\* Every picture of three by two in three colours, and of nine by one in two:
\* packed rows that end in the middle of a byte, and runs across rows.
Small ==
    {Picture(3, 2, cells) : cells \in [0..5 -> {A, B, C}]}
        \cup {Picture(9, 1, cells) : cells \in [0..8 -> {A, B}]}

\* A run of each length around one and two bytes of it, and the rest; and as
\* many colours as there can be on either side of a palette's limits.
Long ==
    {Picture(26, 20, [c \in 0..519 |-> IF c < k THEN A ELSE B]) :
        k \in {1, 254, 255, 256, 257, 510, 511, 512}}
        \cup {Picture(13, 10, [c \in 0..129 |-> Colour(c % n)]) :
                n \in {4, 5, 16, 17, 127, 128, 129}}

Written ==
    {[picture |-> p, tile |-> 2, tiling |-> t] : p \in Small, t \in W!Tilings}
        \cup {[picture |-> p, tile |-> 64, tiling |-> t] : p \in Long, t \in W!Tilings}

Job(p, tile, data) ==
    [data |-> data, w |-> p.w, h |-> p.h, tile |-> tile, want |-> p.px]
WrittenJobs == {Job(j.picture, j.tile, W!Tiles(j.picture, j.tile, j.tiling)) : j \in Written}

\* Bytes nobody wrote, for a rect of three by one in tiles of two: from the
\* start, and behind a palette of two and of three colours.
Heads == {<<>>, <<130>> \o A \o B, <<3>> \o A \o B \o C}
Junk == {head \o tail : head \in Heads,
                        tail \in UNION {[1..n -> {0, 1, 2, 128, 130, 255}] : n \in 0..4}}
JunkJobs == {Job(Picture(3, 1, <<>>), 2, data) : data \in Junk}
AllJobs == WrittenJobs \cup JunkJobs
=============================================================================
