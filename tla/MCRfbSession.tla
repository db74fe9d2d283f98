---------------------------- MODULE MCRfbSession ----------------------------
(***************************************************************************)
(* RfbSession for TLC.  The extents and the operations are fixed here, the *)
(* rest of the constants in the .cfg files:                                *)
(*   SessionScreen     continuous mode, one resize or change of the screen *)
(*   SessionDeath      on demand, every way a session may end              *)
(*   SessionBlack      continuous mode: what lib.rs promises of a screen   *)
(*                     that is painted and the code does not keep          *)
(***************************************************************************)
EXTENDS SessionRefinement

\* Two extents: a resize may shrink the screen, grow it or keep its size.
TwoExtents == {1, 2}

AllOps == {"refresh", "refreshIncremental", "input"}
RefreshOnly == {"refresh"}
AllEndings == {"close", "hangup", "stall", "malformed"}
NoEnding == {}
=============================================================================
