------------------------------ MODULE MCDaemon ------------------------------
(***************************************************************************)
(* Daemon for TLC: two runs of `connect` and one of another command.       *)
(***************************************************************************)
EXTENDS Daemon, TLC

AllTimeouts == {"startup", "disconnect"}
AllMishaps == {"crash", "setup", "death"}
=============================================================================
