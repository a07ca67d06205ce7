----------------------------- MODULE MCScoAudio -----------------------------
(* One session; the service has two configurations to advertise.           *)
EXTENDS ScoAudio

TwoConfigs == {"plain", "renamed"}
=============================================================================
