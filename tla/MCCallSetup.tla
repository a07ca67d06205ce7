----------------------------- MODULE MCCallSetup -----------------------------
(* Model values for checking CallSetup with TLC.                           *)
EXTENDS CallSetup

CONSTANTS c1, c2

TwoCallers == {c1, c2}
=============================================================================
