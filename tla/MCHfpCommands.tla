---------------------------- MODULE MCHfpCommands ----------------------------
(* Model values for checking HfpCommands with TLC.                         *)
EXTENDS HfpCommands

CONSTANTS p1, p2

OnePend == {p1}
TwoPends == {p1, p2}
=============================================================================
