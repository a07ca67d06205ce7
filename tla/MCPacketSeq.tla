---------------------------- MODULE MCPacketSeq -----------------------------
(* PacketSeq with packets of three samples, of which three are filled and  *)
(* one more is begun.                                                      *)
EXTENDS PacketSeq
=============================================================================
