--------------------------- MODULE MCConversions ----------------------------
(***************************************************************************)
(* Conversions for TLC: the formats servers use and some that none does, a *)
(* set of colours around every rounding, the sizes of a desktop up to five *)
(* by five, and drags of every length up to nine in up to seven moves and  *)
(* some at the limits of a screen.                                         *)
(***************************************************************************)
EXTENDS Conversions, TLC

F(bpp, depth, big, max, shift) ==
    [bpp |-> bpp, depth |-> depth, big |-> big, trueColour |-> TRUE,
     max |-> max, shift |-> shift]

ByteWide == {<<0, 8, 16>>, <<16, 8, 0>>, <<8, 16, 24>>, <<24, 16, 8>>, <<0, 8, 24>>, <<17, 8, 0>>}
ManyFormats ==
    { F(32, 24, big, <<255, 255, 255>>, shift) : big \in BOOLEAN, shift \in ByteWide }
        \cup { F(16, 16, big, <<31, 63, 31>>, shift) : big \in BOOLEAN,
                 shift \in {<<11, 5, 0>>, <<0, 5, 11>>} }
        \cup { F(32, 30, FALSE, <<1023, 1023, 1023>>, <<20, 10, 0>>),
               F(8, 8, FALSE, <<7, 7, 3>>, <<5, 2, 0>>), F(32, 24, TRUE, <<15, 0, 255>>, <<8, 0, 16>>) }

Levels == {0, 1, 4, 127, 128, 254, 255}
ManyColours == Levels \X Levels \X Levels

ManyScreens == (0..5) \X (0..5)

ManyDrags ==
    [from : 0..4, to : 0..9, n : 1..7]
        \cup [from : {0, 65535}, to : {0, 1, 32767, 65535}, n : {1, 3, 20}]
=============================================================================
