--------------------------- MODULE MCFakeDesktop ----------------------------
(***************************************************************************)
(* FakeDesktop for TLC: a row of pixels, in which a copy can overlap       *)
(* itself, and a square, of two rows, that a resize turns it into.         *)
(***************************************************************************)
EXTENDS FakeDesktop, TLC

RowAndSquare == {<<3, 1>>, <<2, 2>>}
=============================================================================
