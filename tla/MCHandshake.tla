---------------------------- MODULE MCHandshake -----------------------------
(***************************************************************************)
(* Handshake for TLC: every configuration against the fake server of the   *)
(* test kit in each of its manners, and against the older, newer and other *)
(* desktops the client has a branch for.                                   *)
(***************************************************************************)
EXTENDS Handshake, TLC

AllConfigs ==
    [user : BOOLEAN, password : Secrets \cup {"none"}, auth : {"auto", "ard", "vnc"}]

A(major, minor, offers, manner, key) ==
    [major |-> major, minor |-> minor, offers |-> offers, manner |-> manner, key |-> key]

\* server.rs: Security::None, VncAuth, AlwaysFail, Ard and Unsupported.
FakeServers ==
    { A(3, 8, {NONE}, "fair", "ok"), A(3, 8, {VNC}, "fair", "ok"),
      A(3, 8, {VNC}, "alwaysFail", "ok"), A(3, 8, {ARD}, "fair", "ok"),
      A(3, 8, {ARD}, "unsupported", "ok") }

\* Any list of types in any dialect; 3.5 is treated as 3.3, 889 is Apple's.
Servers == { A(3, minor, offers, "fair", "ok") :
               minor \in {3, 5, 7, 8, 889}, offers \in SUBSET {NONE, VNC, ARD, Unknown} }

\* Types of 3.3 that no byte holds, alone and beside others.
WideServers == { A(3, minor, offers, "fair", "ok") : minor \in {3, 5},
                   offers \in {{256}, {256 + NONE}, {256 + VNC}, {NONE, 256 + VNC, 256}} }

Strangers == { A(0, 0, {}, "fair", "ok"), A(4, 0, {}, "fair", "ok"), A(3, 2, {}, "fair", "ok"),
               A(3, 889, {ARD}, "fair", "odd") }

AllDesktops == FakeServers \cup Servers \cup WideServers \cup Strangers
=============================================================================
