---------------------------- MODULE TaskService ----------------------------
(***************************************************************************)
(* What the SDP task interface of BtHub promises to its clients            *)
(* (BtHub::SdpTaskSubmit and SdpTaskCancel, SdpTask::cb_Result): a         *)
(* submitted request is settled exactly once, either by the answer to that *)
(* very request, or by a connection reset, or by its owner's cancellation; *)
(* and nothing is delivered for a request its owner has cancelled.         *)
(*                                                                         *)
(* A request is a serial number.  current[t] is the request that the owner *)
(* of task t is waiting for, 0 when it waits for none; outcome[n] is what  *)
(* became of request n.                                                    *)
(***************************************************************************)
EXTENDS Naturals

CONSTANTS
    Task,           \* the SdpTask objects
    MaxRequests     \* bound on the number of requests ever submitted

VARIABLES current, outcome

vars == <<current, outcome>>

Serial == 1 .. MaxRequests

Settled == {"answered", "reset", "cancelled"}

TypeOK ==
    /\ current \in [Task -> 0 .. MaxRequests]
    /\ outcome \in [Serial -> {"unused", "waiting"} \cup Settled]

Init ==
    /\ current = [t \in Task |-> 0]
    /\ outcome = [n \in Serial |-> "unused"]

\* The owner of t submits it; n is a request nobody has made before.
Submit(t, n) ==
    /\ current[t] = 0
    /\ outcome[n] = "unused"
    /\ current' = [current EXCEPT ![t] = n]
    /\ outcome' = [outcome EXCEPT ![n] = "waiting"]

\* The request t waits for is settled, in one of the three ways.
Settle(t, how) ==
    /\ current[t] # 0
    /\ outcome[current[t]] = "waiting"
    /\ current' = [current EXCEPT ![t] = 0]
    /\ outcome' = [outcome EXCEPT ![current[t]] = how]

Next ==
    \E t \in Task :
        \/ \E n \in Serial : Submit(t, n)
        \/ \E how \in Settled : Settle(t, how)

Spec == Init /\ [][Next]_vars
=============================================================================
