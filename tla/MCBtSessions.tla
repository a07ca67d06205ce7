---------------------------- MODULE MCBtSessions ----------------------------
(* Model values for checking BtSessions with TLC.                          *)
EXTENDS BtSessions

CONSTANTS s1, s2

OneSession == {s1}
TwoSessions == {s1, s2}
=============================================================================
