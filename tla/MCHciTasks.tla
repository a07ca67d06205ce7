------------------------------ MODULE MCHciTasks ------------------------------
(* Two devices, and clients that call from their callbacks.                *)
EXTENDS HciTasks, TLC

CONSTANTS d1, d2

TwoDevices == {d1, d2}

Devices == Permutations(TwoDevices)
===============================================================================
