----------------------------- MODULE MCSdpTasks -----------------------------
(* Model values for checking SdpTasks with TLC.                            *)
EXTENDS SdpTasks

CONSTANTS t1, t2, t3

TwoTasks == {t1, t2}
ThreeTasks == {t1, t2, t3}
=============================================================================
