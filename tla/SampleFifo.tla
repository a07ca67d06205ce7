----------------------------- MODULE SampleFifo -----------------------------
(***************************************************************************)
(* What the buffer of an endpoint promises the two sides that use it: the  *)
(* samples come out in the order they went in, none twice and none left    *)
(* out, until the buffer is cleared.                                       *)
(***************************************************************************)
EXTENDS Naturals

VARIABLES
    filled,     \* samples that were put in since the buffer was cleared
    drained     \* samples that were taken out

vars == <<filled, drained>>

Init == filled = 0 /\ drained = 0

Fill == filled' \in Nat /\ filled' >= filled /\ UNCHANGED drained
Drain == drained' \in drained .. filled /\ UNCHANGED filled
Clear == filled' = 0 /\ drained' = 0

Next == Fill \/ Drain \/ Clear

Spec == Init /\ [][Next]_vars
=============================================================================
