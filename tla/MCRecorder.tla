----------------------------- MODULE MCRecorder -----------------------------
(***************************************************************************)
(* Recorder for TLC: frames of two pieces, a pipe of one, so that every    *)
(* frame blocks on ffmpeg in the middle.                                   *)
(***************************************************************************)
EXTENDS Recorder, TLC
=============================================================================
