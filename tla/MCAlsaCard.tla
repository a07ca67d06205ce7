----------------------------- MODULE MCAlsaCard -----------------------------
(* AlsaCard in its three modes.                                            *)
EXTENDS AlsaCard

AllModes == {"thread", "proc", "mmap"}
ZeroTimers == {"async", "abort"}
OtherTimers == {"wake"}
AnyFlag == BOOLEAN
=============================================================================
