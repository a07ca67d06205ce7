--------------------------- MODULE EndpointProofs ---------------------------
(***************************************************************************)
(* Proofs about the endpoints of the pump.  The buffer of an endpoint is   *)
(* safe for packets of any size and any number of them, and implements     *)
(* SampleFifo.  The ALSA endpoint never loses a thread, nor the end of a   *)
(* stream, nor an underrun, for buffers of any size.  The pump between two *)
(* endpoints keeps their levels, for packets and buffers of any size.      *)
(***************************************************************************)
EXTENDS PacketSeq, AlsaCard, SoundStream, SequenceTheorems, FiniteSetTheorems, WellFoundedInduction, TLAPS

\* What BufferSafe rests on: in a single packet the first sample comes before the
\* end.
Ordered == npackets = 1 => headStart <= tailEnd

Inv == TypeOK /\ Ordered /\ BufferSafe

-----------------------------------------------------------------------------
(* Places.                                                                 *)

LEMMA SizeIsPositive == Size \in Nat /\ Size > 0
    BY SizeAssumption, SMT

\* A packet more is Size places more.
LEMMA PlacesMove ==
    ASSUME NEW a \in Nat, NEW b \in Nat, NEW s \in Nat
    PROVE  /\ (a + b) * s = a * s + b * s
           /\ (a + b - 1) * s = a * s + b * s - s
           /\ (a - 1) * s = a * s - s
           /\ (a - 2) * s = a * s - s - s
           /\ a * s \in Nat
    BY SMT

LEMMA PlaceIsNat == ASSUME NEW a \in Nat, NEW s \in Nat PROVE a * s \in Nat
    BY SMT

\* The order of packets is that of their places.
LEMMA PlacesOrdered ==
    ASSUME NEW a \in Nat, NEW b \in Nat, NEW s \in Nat, a < b
    PROVE  a * s + s <= b * s
<1>1. PICK c \in Nat : b = a + 1 + c  BY SMT
<1>2. b * s = a * s + s + c * s  BY <1>1, SMT
<1>3. c * s >= 0  BY SMT
<1> QED  BY <1>2, <1>3, PlacesMove, SMT

\* What the invariant says of the places with the products written out.
LEMMA PlacesAre ==
    ASSUME Inv
    PROVE  /\ npackets = 0 => filled = released * Size /\ headStart = 0 /\ tailEnd = 0
           /\ npackets > 0 => filled = released * Size + npackets * Size - Size + tailEnd
           /\ drained = released * Size + headStart
           /\ npackets > 1 => TotalFill = npackets * Size - Size + tailEnd - headStart
           /\ released * Size \in Nat /\ npackets * Size \in Nat
<1> USE SizeIsPositive DEF Inv, TypeOK, BufferSafe, PlacesKept, EmptyIsClean
<1>1. /\ (released + npackets - 1) * Size = released * Size + npackets * Size - Size
      /\ (npackets - 2) * Size = npackets * Size - Size - Size
      /\ released * Size \in Nat /\ npackets * Size \in Nat
  BY PlacesMove, SMT
<1>2. npackets > 1 => TotalFill = npackets * Size - Size + tailEnd - headStart
  BY <1>1, SMT DEF TotalFill
<1> QED  BY <1>1, <1>2, SMT DEF WritePlace, ReadPlace

-----------------------------------------------------------------------------
(* The invariant.                                                          *)

LEMMA InitInv == Init => Inv
<1> SUFFICES ASSUME Init PROVE Inv
  OBVIOUS
<1> USE SizeIsPositive DEF Init
<1>1. TypeOK  BY SMT DEF TypeOK
<1>2. WritePlace = 0 /\ ReadPlace = 0 /\ TotalFill = 0
  BY SMT DEF WritePlace, ReadPlace, TotalFill
<1>3. BufferSafe
  BY <1>2, SMT DEF BufferSafe, EmptyIsClean, PlacesKept, PointersKept
<1> QED  BY <1>1, <1>3 DEF Inv, Ordered

\* A step that leaves the list and the counts alone keeps the places.
LEMMA SeqSame ==
    ASSUME Inv, UNCHANGED <<seqVars, filled, drained>>
    PROVE  /\ WritePlace' = WritePlace /\ ReadPlace' = ReadPlace
           /\ TotalFill' = TotalFill /\ Peeked' = Peeked
           /\ Ordered' /\ EmptyIsClean' /\ PlacesKept'
<1> USE DEF seqVars
<1>1. WritePlace' = WritePlace /\ ReadPlace' = ReadPlace
  BY DEF WritePlace, ReadPlace
<1>2. TotalFill' = TotalFill /\ Peeked' = Peeked
  BY DEF TotalFill, Peeked
<1> QED  BY <1>1, <1>2 DEF Inv, BufferSafe, Ordered, EmptyIsClean, PlacesKept

LEMMA GetUnfilledInv == ASSUME Inv, GetUnfilled PROVE Inv'
<1> USE SizeIsPositive
<1> DEFINE new == npackets = 0 \/ tailEnd = Size
<1>1. TypeOK /\ Ordered /\ EmptyIsClean /\ PlacesKept /\ PointersKept
  BY DEF Inv, BufferSafe
<1>2. UNCHANGED <<headStart, released, filled, drained, draining, reader>>
  BY DEF GetUnfilled, drainVars
<1>3. CASE new
  <2>1. npackets' = npackets + 1 /\ tailEnd' = 0
    BY <1>1, <1>3, SMT DEF GetUnfilled, TypeOK, EmptyIsClean
  <2>2. npackets > 0 => tailEnd = Size
    BY <1>1, <1>3, SMT DEF TypeOK
  <2>3. npackets' * Size = npackets * Size + Size
    BY <2>1, <1>1, PlacesMove, SMT DEF TypeOK
  <2>4. (released + npackets' - 1) * Size = released * Size + npackets' * Size - Size
    BY <2>1, <1>1, PlacesMove, SMT DEF TypeOK
  <2>5. WritePlace' = (released + npackets' - 1) * Size + tailEnd'
    BY <2>1, <1>1, <1>2, SMT DEF WritePlace, TypeOK
  <2>6. WritePlace' = filled /\ ReadPlace' = drained
    BY <2>1, <2>2, <2>3, <2>4, <2>5, <1>1, <1>2, PlacesAre, SMT
       DEF TypeOK, PlacesKept, ReadPlace
  <2>7. TotalFill' = TotalFill
    <3>1. (npackets' - 2) * Size = npackets' * Size - Size - Size
      BY <2>1, <1>1, PlacesMove, SMT DEF TypeOK
    <3>2. CASE npackets = 0
      BY <3>2, <2>1, <1>1, <1>2, SMT DEF TotalFill, EmptyIsClean
    <3>3. CASE npackets = 1
      BY <3>1, <3>3, <2>1, <2>2, <2>3, <1>1, <1>2, SMT DEF TotalFill, TypeOK
    <3>4. CASE npackets > 1
      <4>1. TotalFill = npackets * Size - Size + tailEnd - headStart
        BY <3>4, PlacesAre
      <4>2. TotalFill' = npackets' * Size - Size + tailEnd' - headStart'
        BY <3>1, <3>4, <2>1, <1>1, <1>2, SMT DEF TotalFill, TypeOK
      <4> QED  BY <4>1, <4>2, <3>4, <2>1, <2>2, <2>3, <1>1, <1>2, PlacesAre, SMT DEF TypeOK
    <3> QED  BY <3>2, <3>3, <3>4, <1>1, SMT DEF TypeOK
  <2>8. Peeked' >= Peeked
    BY <2>1, <2>2, <1>1, <1>2, SMT DEF Peeked, TypeOK, EmptyIsClean
  <2>9. filling' \in 1 .. Size /\ writer' = WritePlace'
    BY <2>1, <2>5, <1>1, SMT DEF GetUnfilled, TypeOK
  <2>10. TypeOK'
    BY <2>1, <2>6, <2>9, <1>1, <1>2, SMT DEF TypeOK
  <2>11. Ordered' /\ EmptyIsClean'
    BY <2>1, <1>1, <1>2, SMT DEF Ordered, EmptyIsClean, TypeOK
  <2>12. PlacesKept'
    BY <2>6, <2>7, <1>1, <1>2 DEF PlacesKept
  <2>13. Peeked \in Int /\ Peeked' \in Int
    BY <2>10, <1>1, SMT DEF Peeked, TypeOK
  <2>14. ReadPlace' = ReadPlace
    BY <1>2 DEF ReadPlace
  <2>15. npackets' > 0 /\ filling' <= Size - tailEnd'
    <3>1. npackets \in Nat /\ filling' \in 1 .. Size
      BY <2>9, <1>1 DEF TypeOK
    <3>2. npackets' \in Nat /\ tailEnd' \in Nat /\ filling' \in Nat
      BY <3>1, <2>1, SMT
    <3> QED  BY <3>1, <3>2, <2>1, SMT
  <2>16. draining > 0 => reader = ReadPlace /\ draining <= Peeked'
    BY <2>8, <2>13, <1>1, SMT DEF PointersKept, TypeOK
  <2>17. PointersKept'
    BY <2>9, <2>14, <2>15, <2>16, <1>2 DEF PointersKept
  <2> QED  BY <2>10, <2>11, <2>12, <2>17 DEF Inv, BufferSafe
<1>4. CASE ~new
  <2>1. UNCHANGED seqVars
    BY <1>2, <1>4 DEF GetUnfilled, seqVars
  <2>2. /\ WritePlace' = WritePlace /\ ReadPlace' = ReadPlace /\ Peeked' = Peeked
        /\ Ordered' /\ EmptyIsClean' /\ PlacesKept'
    BY <2>1, <1>2, SeqSame
  <2>3. filling' \in 1 .. Size - tailEnd /\ writer' = WritePlace'
    BY <2>1, <1>2, <1>4 DEF GetUnfilled, WritePlace, seqVars
  <2>4. writer' \in Nat
    BY <2>2, <2>3, <1>1, <1>2 DEF PlacesKept, TypeOK
  <2>5. TypeOK'
    BY <2>1, <2>3, <2>4, <1>1, <1>2, SMT DEF TypeOK, seqVars
  <2>6. npackets' > 0 /\ filling' <= Size - tailEnd'
    <3>1. npackets' = npackets /\ tailEnd' = tailEnd /\ npackets # 0
      BY <2>1, <1>4 DEF seqVars
    <3>2. npackets \in Nat /\ tailEnd \in 0 .. Size
      BY <1>1 DEF TypeOK
    <3>3. filling' \in 1 .. Size - tailEnd
      BY <2>3
    <3>4. npackets' \in Nat /\ tailEnd' \in Nat /\ filling' \in Nat
      BY <3>1, <3>2, <3>3, SMT
    <3> QED  BY <3>1, <3>2, <3>3, <3>4, SMT
  <2>7. PointersKept'
    BY <2>2, <2>3, <2>6, <1>1, <1>2 DEF PointersKept
  <2> QED  BY <2>2, <2>5, <2>7 DEF Inv, BufferSafe
<1> QED  BY <1>3, <1>4

LEMMA PutUnfilledInv ==
    ASSUME Inv, PutUnfilled PROVE Inv' /\ Fifo!Fill
<1> USE SizeIsPositive
<1>1. TypeOK /\ Ordered /\ EmptyIsClean /\ PlacesKept /\ PointersKept
  BY DEF Inv, BufferSafe
<1>2. /\ UNCHANGED <<npackets, headStart, released, writer, drained, draining, reader>>
      /\ filling > 0 /\ filling' = 0
  BY DEF PutUnfilled, drainVars
<1>3. PICK n \in 0 .. filling : tailEnd' = tailEnd + n /\ filled' = filled + n
  BY DEF PutUnfilled
<1>4. npackets > 0 /\ tailEnd' \in 0 .. Size /\ n \in Nat
  BY <1>1, <1>2, <1>3, SMT DEF PointersKept, TypeOK
<1>5. TypeOK'
  BY <1>1, <1>2, <1>3, <1>4, SMT DEF TypeOK
<1>6. Ordered' /\ EmptyIsClean'
  BY <1>1, <1>2, <1>3, <1>4, SMT DEF Ordered, EmptyIsClean, TypeOK
<1>7. WritePlace' = WritePlace + n /\ ReadPlace' = ReadPlace
  <2>1. (released + npackets - 1) * Size \in Int
    BY <1>1, <1>4, PlacesMove, SMT DEF TypeOK
  <2> QED  BY <2>1, <1>1, <1>2, <1>3, <1>4, SMT DEF WritePlace, ReadPlace, TypeOK
<1>8. TotalFill' = TotalFill + n
  <2>1. (npackets - 2) * Size \in Int
    BY <1>1, PlacesMove, SMT DEF TypeOK
  <2> QED  BY <2>1, <1>1, <1>2, <1>3, <1>4, SMT DEF TotalFill, TypeOK
<1>9. PlacesKept'
  BY <1>1, <1>2, <1>3, <1>4, <1>7, <1>8, SMT DEF PlacesKept, TypeOK
<1>10. Peeked \in Int /\ Peeked' \in Int /\ Peeked' >= Peeked
  BY <1>1, <1>2, <1>3, <1>4, SMT DEF Peeked, TypeOK
<1>11. PointersKept'
  BY <1>1, <1>2, <1>7, <1>10, SMT DEF PointersKept, TypeOK
<1>12. Fifo!Fill
  BY <1>1, <1>2, <1>3, <1>4, SMT DEF Fifo!Fill, TypeOK
<1> QED  BY <1>5, <1>6, <1>9, <1>11, <1>12 DEF Inv, BufferSafe

LEMMA PeekInv == ASSUME Inv, Peek PROVE Inv'
<1> USE SizeIsPositive
<1>1. TypeOK /\ PointersKept /\ PlacesKept
  BY DEF Inv, BufferSafe
<1>2. UNCHANGED <<seqVars, filled, filling, writer, drained>>
  BY DEF Peek, fillVars
<1>3. /\ WritePlace' = WritePlace /\ ReadPlace' = ReadPlace /\ Peeked' = Peeked
      /\ Ordered' /\ EmptyIsClean' /\ PlacesKept'
  BY <1>2, SeqSame
<1>4. draining' \in 1 .. Peeked /\ reader' = ReadPlace
  BY DEF Peek
<1>5. Peeked \in Int /\ ReadPlace \in Nat
  BY <1>1, SMT DEF TypeOK, Peeked, PlacesKept
<1>6. TypeOK'
  BY <1>1, <1>2, <1>4, <1>5, SMT DEF TypeOK, seqVars
<1>7. PointersKept'
  BY <1>1, <1>2, <1>3, <1>4, <1>5, SMT DEF PointersKept, TypeOK, seqVars
<1> QED  BY <1>3, <1>6, <1>7 DEF Inv, BufferSafe

\* What both ways to dequeue have in common: the last packet is emptied and
\* released with nothing left only when it is the only one.
LEMMA DequeueInv ==
    ASSUME Inv, NEW n \in Nat, Dequeue(n), n <= TotalFill,
           npackets > 1 => n < TotalFill \/ n <= Size - headStart
    PROVE  Inv' /\ Fifo!Drain
<1> USE SizeIsPositive
<1>1. TypeOK /\ Ordered /\ EmptyIsClean /\ PlacesKept /\ PointersKept
  BY DEF Inv, BufferSafe
<1>2. /\ drained' = drained + n /\ draining' = 0
      /\ UNCHANGED <<filled, filling, writer, reader>>
  BY DEF Dequeue, fillVars
<1>3. PICK k \in 0 .. npackets, start \in 0 .. Size - 1 :
        /\ headStart + n = k * Size + start
        /\ npackets' = npackets - k
        /\ released' = released + k
        /\ headStart' = start
        /\ tailEnd' = IF npackets = 1 /\ k = 1 THEN 0 ELSE tailEnd
  BY DEF Dequeue
<1>4. k \in Nat /\ k * Size \in Nat /\ npackets' \in Nat
  BY <1>1, <1>3, PlacesMove, SMT DEF TypeOK
<1>5. /\ released' * Size = released * Size + k * Size
      /\ npackets * Size = npackets' * Size + k * Size
  <2>1. npackets = npackets' + k
    BY <1>1, <1>3, <1>4, SMT DEF TypeOK
  <2> QED  BY <2>1, <1>1, <1>3, <1>4, PlacesMove, SMT DEF TypeOK
<1>6. CASE npackets = 0
  <2>1. n = 0 /\ k = 0
    BY <1>1, <1>3, <1>6, SMT DEF TotalFill
  <2>2. UNCHANGED <<seqVars, filled, drained>>
    BY <2>1, <1>1, <1>2, <1>3, <1>6, SMT DEF seqVars, TypeOK, EmptyIsClean
  <2>3. /\ WritePlace' = WritePlace /\ ReadPlace' = ReadPlace /\ Peeked' = Peeked
        /\ Ordered' /\ EmptyIsClean' /\ PlacesKept'
    BY <2>2, SeqSame
  <2>4. TypeOK'
    BY <2>2, <1>1, <1>2, SMT DEF TypeOK, seqVars
  <2>5. PointersKept'
    BY <2>2, <2>3, <1>1, <1>2, SMT DEF PointersKept, TypeOK, seqVars
  <2>6. Fifo!Drain
    <3>1. TotalFill = 0 /\ TotalFill = filled - drained
      BY <1>1, <1>6 DEF TotalFill, PlacesKept
    <3> QED  BY <3>1, <2>2, <1>1, SMT DEF Fifo!Drain, TypeOK
  <2> QED  BY <2>3, <2>4, <2>5, <2>6 DEF Inv, BufferSafe
<1>7. CASE npackets = 1
  <2>1. n <= tailEnd - headStart
    BY <1>7, SMT DEF TotalFill
  <2>2. /\ k = 0 => k * Size = 0
        /\ k = 1 => k * Size = Size
    BY SMT
  <2>3. \/ k = 0 /\ start = headStart + n /\ tailEnd' = tailEnd /\ npackets' = 1
        \/ k = 1 /\ start = 0 /\ tailEnd = Size /\ headStart + n = Size
           /\ tailEnd' = 0 /\ npackets' = 0
    BY <2>1, <2>2, <1>1, <1>3, <1>7, SMT DEF TypeOK
  <2>4. TypeOK'
    BY <2>3, <1>1, <1>2, <1>3, <1>4, SMT DEF TypeOK
  <2>5. Ordered' /\ EmptyIsClean'
    BY <2>1, <2>3, <1>1, <1>3, SMT DEF TypeOK, Ordered, EmptyIsClean
  <2>6. filled = released * Size + tailEnd /\ drained = released * Size + headStart
    BY <1>1, <1>7, SMT DEF PlacesKept, WritePlace, ReadPlace, TypeOK
  <2>7. released' * Size \in Nat /\ released * Size \in Nat
    <3>1. released \in Nat /\ released' \in Nat
      BY <2>4, <1>1 DEF TypeOK
    <3> QED  BY <3>1, PlaceIsNat
  <2>8. WritePlace' = filled' /\ ReadPlace' = drained'
    BY <2>2, <2>3, <2>6, <2>7, <1>1, <1>2, <1>3, <1>5, SMT
       DEF WritePlace, ReadPlace, TypeOK
  <2>9. TotalFill' = filled' - drained'
    BY <2>3, <2>6, <2>7, <1>1, <1>2, <1>3, SMT DEF TotalFill, TypeOK
  <2>10. PlacesKept'
    BY <2>8, <2>9 DEF PlacesKept
  <2>11. filling > 0 => k = 0
    BY <2>3, <1>1, SMT DEF PointersKept, TypeOK
  <2>12. PointersKept'
    BY <2>3, <2>8, <2>11, <1>1, <1>2, SMT DEF PointersKept, PlacesKept, TypeOK
  <2>13. Fifo!Drain
    BY <2>1, <2>6, <2>7, <1>1, <1>2, SMT DEF Fifo!Drain, TypeOK
  <2> QED  BY <2>4, <2>5, <2>10, <2>12, <2>13 DEF Inv, BufferSafe
<1>8. CASE npackets > 1
  <2>1. /\ headStart + n <= npackets * Size - Size + tailEnd
        /\ headStart + n < npackets * Size
    <3>1. Size + Size <= npackets * Size
      BY <1>1, <1>8, PlacesOrdered, SMT DEF TypeOK
    <3> QED  BY <3>1, <1>1, <1>8, PlacesAre, SMT DEF TypeOK
  <2>2. k < npackets
    <3>1. npackets * Size \in Nat
      BY PlacesAre
    <3>2. k # npackets
      BY <3>1, <2>1, <1>1, <1>3, SMT DEF TypeOK
    <3> QED  BY <3>2, <1>1, <1>3, SMT DEF TypeOK
  <2>3. npackets' > 0 /\ tailEnd' = tailEnd
    BY <2>2, <1>1, <1>3, <1>8, SMT DEF TypeOK
  <2>4. TypeOK'
    BY <2>3, <1>1, <1>2, <1>3, <1>4, SMT DEF TypeOK
  <2>5. npackets' * Size \in Nat /\ released' * Size \in Nat
    <3>1. npackets' \in Nat /\ released' \in Nat
      BY <2>4 DEF TypeOK
    <3> QED  BY <3>1, PlaceIsNat
  <2>6. start <= npackets' * Size - Size + tailEnd
    BY <2>1, <2>5, <1>1, <1>3, <1>4, <1>5, SMT DEF TypeOK
  <2>7. npackets' = 1 => npackets' * Size = Size
    BY SMT
  <2>8. Ordered' /\ EmptyIsClean'
    BY <2>3, <2>6, <2>7, <1>1, <1>3, SMT DEF Ordered, EmptyIsClean, TypeOK
  <2>9. /\ filled = released * Size + npackets * Size - Size + tailEnd
        /\ drained = released * Size + headStart
        /\ released * Size \in Nat /\ npackets * Size \in Nat
        /\ TotalFill = npackets * Size - Size + tailEnd - headStart
    BY <1>1, <1>8, PlacesAre, SMT DEF TypeOK
  <2>10. WritePlace' = released' * Size + npackets' * Size - Size + tailEnd
    <3>1. (released' + npackets' - 1) * Size = released' * Size + npackets' * Size - Size
      BY <2>4, PlacesMove, SMT DEF TypeOK
    <3> QED  BY <3>1, <2>3, SMT DEF WritePlace
  <2>11. WritePlace' = filled' /\ ReadPlace' = drained'
    BY <2>5, <2>9, <2>10, <1>1, <1>2, <1>3, <1>4, <1>5, SMT DEF ReadPlace, TypeOK
  <2>12. TotalFill' = npackets' * Size - Size + tailEnd - start
    <3>1. (npackets' - 2) * Size = npackets' * Size - Size - Size
      BY <2>4, PlacesMove, SMT DEF TypeOK
    <3>2. CASE npackets' = 1
      BY <3>2, <2>3, <2>7, <1>1, <1>3, SMT DEF TotalFill, TypeOK
    <3>3. CASE npackets' > 1
      BY <3>1, <3>3, <2>3, <2>5, <1>1, <1>3, SMT DEF TotalFill, TypeOK
    <3> QED  BY <3>2, <3>3, <2>3, <2>4, SMT DEF TypeOK
  <2>13. TotalFill' = filled' - drained'
    BY <2>5, <2>9, <2>12, <1>1, <1>2, <1>3, <1>4, <1>5, SMT DEF TypeOK
  <2>14. PlacesKept'
    BY <2>11, <2>13 DEF PlacesKept
  <2>15. PointersKept'
    BY <2>3, <2>11, <1>1, <1>2, SMT DEF PointersKept, PlacesKept, TypeOK
  <2>16. Fifo!Drain
    BY <2>9, <1>1, <1>2, SMT DEF Fifo!Drain, TypeOK
  <2> QED  BY <2>4, <2>8, <2>14, <2>15, <2>16 DEF Inv, BufferSafe
<1> QED  BY <1>1, <1>6, <1>7, <1>8, SMT DEF TypeOK

LEMMA DequeueReadInv == ASSUME Inv, DequeueRead PROVE Inv' /\ Fifo!Drain
<1> USE SizeIsPositive
<1>1. TypeOK /\ Ordered /\ PointersKept /\ EmptyIsClean /\ PlacesKept
  BY DEF Inv, BufferSafe
<1>2. PICK n \in 0 .. draining : draining > 0 /\ Dequeue(n)
  BY DEF DequeueRead
<1>3. n \in Nat /\ n <= Peeked /\ Peeked \in Int
  BY <1>1, <1>2, SMT DEF PointersKept, TypeOK, Peeked
<1>4. CASE npackets <= 1
  BY <1>1, <1>2, <1>3, <1>4, DequeueInv, SMT DEF Peeked, TotalFill, TypeOK
<1>5. CASE npackets > 1
  <2>1. npackets * Size \in Nat /\ TotalFill = npackets * Size - Size + tailEnd - headStart
    BY <1>5, PlacesAre
  <2>2. Size + Size <= npackets * Size
    BY <1>1, <1>5, PlacesOrdered, SMT DEF TypeOK
  <2>3. n <= TotalFill /\ n <= Size - headStart
    BY <2>1, <2>2, <1>1, <1>3, <1>5, SMT DEF Peeked, TypeOK
  <2> QED  BY <2>3, <1>2, <1>3, DequeueInv
<1> QED  BY <1>1, <1>4, <1>5, SMT DEF TypeOK

LEMMA TossInv == ASSUME Inv, Toss PROVE Inv' /\ Fifo!Drain
<1>1. PICK n \in 1 .. TotalFill - 1 : Dequeue(n)
  BY DEF Toss
<1>2. TotalFill \in Int
  BY PlacesAre, SizeIsPositive, SMT DEF Inv, TypeOK, TotalFill
<1>3. n \in Nat /\ n < TotalFill
  BY <1>1, <1>2, SMT
<1> QED  BY <1>1, <1>2, <1>3, DequeueInv, SMT

LEMMA ClearInv == ASSUME Clear PROVE Inv'
<1> USE SizeIsPositive DEF Clear
<1>1. TypeOK'  BY SMT DEF TypeOK
<1>2. WritePlace' = 0 /\ ReadPlace' = 0 /\ TotalFill' = 0
  BY SMT DEF WritePlace, ReadPlace, TotalFill
<1>3. BufferSafe'
  BY <1>2, SMT DEF BufferSafe, EmptyIsClean, PlacesKept, PointersKept
<1> QED  BY <1>1, <1>3 DEF Inv, Ordered

LEMMA StutterInv == ASSUME Inv, UNCHANGED vars PROVE Inv'
<1>1. UNCHANGED <<seqVars, filled, drained>>
  BY DEF vars, fillVars, drainVars
<1>2. /\ WritePlace' = WritePlace /\ ReadPlace' = ReadPlace /\ Peeked' = Peeked
      /\ Ordered' /\ EmptyIsClean' /\ PlacesKept'
  BY <1>1, SeqSame
<1>3. TypeOK' /\ PointersKept'
  BY <1>2 DEF Inv, BufferSafe, TypeOK, PointersKept, vars, seqVars, fillVars, drainVars
<1> QED  BY <1>2, <1>3 DEF Inv, BufferSafe

\* Each step keeps the invariant, and is one of SampleFifo's or leaves its
\* variables alone.
LEMMA StepInv == Inv /\ [Next]_vars => Inv' /\ [Fifo!Next]_(Fifo!vars)
<1> SUFFICES ASSUME Inv, [Next]_vars
             PROVE  Inv' /\ [Fifo!Next]_(Fifo!vars)
  OBVIOUS
<1> USE DEF Fifo!Next, Fifo!vars
<1>1. CASE GetUnfilled
  BY <1>1, GetUnfilledInv DEF GetUnfilled, drainVars
<1>2. CASE PutUnfilled
  BY <1>2, PutUnfilledInv
<1>3. CASE Peek
  BY <1>3, PeekInv DEF Peek, fillVars
<1>4. CASE DequeueRead
  BY <1>4, DequeueReadInv
<1>5. CASE Toss
  BY <1>5, TossInv
<1>6. CASE Clear
  BY <1>6, ClearInv DEF Clear, Fifo!Clear
<1>7. CASE UNCHANGED vars
  BY <1>7, StutterInv DEF vars, fillVars, drainVars
<1> QED  BY <1>1, <1>2, <1>3, <1>4, <1>5, <1>6, <1>7 DEF Next

-----------------------------------------------------------------------------
(* The theorems.                                                           *)

\* For packets of every size: no assertion of PacketSeq fails, the samples lie
\* where they were put, TotalFill counts them, and the pointer that one side uses
\* without the lock stays good whatever the other does meanwhile.
THEOREM BufferAlwaysSafe == Spec => []BufferSafe
<1>1. Inv => BufferSafe
  BY DEF Inv
<1> QED  BY <1>1, InitInv, StepInv, PTL DEF Spec

\* The buffer hands the samples on in order, none twice and none left out.
THEOREM BufferIsFifo == Spec => FifoSpec
<1>1. Init => Fifo!Init
  BY DEF Init, Fifo!Init
<1> QED  BY <1>1, InitInv, StepInv, PTL DEF Spec, FifoSpec, Fifo!Spec

-----------------------------------------------------------------------------
(* The ALSA endpoint (AlsaCard).  Most steps are those of the main thread, *)
(* which calls the client and is called by it: what the invariant says of  *)
(* a stream depends on the function that runs, the top of the stack.       *)

\* What a function may wait below, and what may wait below one.
Above == {"stop", "join", "close", "format"}
Below == {"packet", "told", "tell", "close", "format"}
Frame == {"async", "abort", "wakeup", "handle", "packet", "push", "after"} \cup Above \cup Below

Shaped(st) ==
    /\ st \in Seq(Frame)
    /\ \A i \in 1 .. Len(st) :
        /\ i < Len(st) => st[i] \in Above
        /\ i > 1 => st[i] \in Below

TopOf(st) == IF st = <<>> THEN "loop" ELSE Head(st)

\* The client is going to be told of the end of the stream.
Reports(st) == \E i \in 1 .. Len(st) : st[i] \in {"handle", "tell"}

-----------------------------------------------------------------------------

LEMMA TopIs == Top = TopOf(stack)
    BY DEF Top, TopOf

LEMMA NoStack == Shaped(<<>>) /\ TopOf(<<>>) = "loop" /\ ~Reports(<<>>)
    BY DEF Shaped, TopOf, Reports

LEMMA OneFrame ==
    ASSUME NEW f \in Frame
    PROVE  Shaped(<<f>>) /\ TopOf(<<f>>) = f /\ (Reports(<<f>>) <=> f \in {"handle", "tell"})
<1>1. <<f>> \in Seq(Frame) /\ Len(<<f>>) = 1 /\ <<f>>[1] = f /\ <<f>> # <<>> /\ Head(<<f>>) = f
  OBVIOUS
<1> QED  BY <1>1 DEF Shaped, TopOf, Reports

LEMMA TwoFrames ==
    ASSUME NEW f \in Above, NEW g \in Below
    PROVE  /\ Shaped(<<f, g>>) /\ TopOf(<<f, g>>) = f
           /\ Reports(<<f, g>>) <=> g = "tell"
<1> DEFINE st == <<f, g>>
<1>1. /\ st \in Seq(Frame) /\ Len(st) = 2 /\ st[1] = f /\ st[2] = g
      /\ st # <<>> /\ Head(st) = f
  BY DEF Frame, Above, Below
<1>2. 1 .. 2 = {1, 2}  OBVIOUS
<1> HIDE DEF st
<1>3. Shaped(st)  BY <1>1, <1>2, SMT DEF Shaped, Above
<1>4. TopOf(st) = f  BY <1>1 DEF TopOf
<1>5. Reports(st) <=> g = "tell"  BY <1>1, <1>2 DEF Reports, Above, Below
<1> QED  BY <1>3, <1>4, <1>5 DEF st

\* Only what the client or the end of a stream has called has something below.
LEMMA Alone ==
    ASSUME NEW st, Shaped(st), st # <<>>, TopOf(st) \notin Above
    PROVE  Tail(st) = <<>> /\ Len(st) = 1 /\ st = <<TopOf(st)>>
<1>1. st \in Seq(Frame) /\ Len(st) \in Nat /\ Len(st) > 0 /\ Head(st) = st[1]
  BY DEF Shaped
<1>2. Len(st) = 1
  <2>1. st[1] \notin Above /\ 1 \in 1 .. Len(st)
    BY <1>1 DEF TopOf
  <2>2. ~(1 < Len(st))
    BY <2>1 DEF Shaped
  <2> DEFINE n == Len(st)
  <2>3. n \in Nat /\ n > 0 /\ ~(1 < n)
    BY <1>1, <2>2
  <2> HIDE DEF n
  <2>4. n = 1
    BY <2>3
  <2> QED  BY <2>4 DEF n
<1>3. Tail(st) = <<>>
  <2>1. Tail(st) \in Seq(Frame) /\ Len(Tail(st)) = 0
    BY <1>1, <1>2, HeadTailProperties
  <2> QED  BY <2>1, EmptySeq
<1>4. st = <<st[1]>>
  <2>1. <<st[1]>> \in Seq(Frame) /\ Len(<<st[1]>>) = 1 /\ <<st[1]>>[1] = st[1]
    BY <1>1, <1>2, ElementOfSeq
  <2> QED  BY <1>1, <1>2, <2>1, SeqEqual
<1> QED  BY <1>1, <1>2, <1>3, <1>4 DEF TopOf

\* A function returns.
LEMMA Popped ==
    ASSUME NEW st, Shaped(st), st # <<>>
    PROVE  /\ Shaped(Tail(st))
           /\ TopOf(Tail(st)) \in Below \cup {"loop"}
           /\ Reports(Tail(st)) => Reports(st)
           /\ Tail(st) # <<>> => TopOf(st) \in Above
<1> DEFINE t == Tail(st)
<1>1. /\ t \in Seq(Frame) /\ Len(t) = Len(st) - 1 /\ Len(st) \in Nat /\ Len(st) > 0
      /\ \A i \in 1 .. Len(t) : t[i] = st[i + 1]
      /\ t # <<>> => Head(t) = t[1] /\ Len(t) > 0
      /\ Head(st) = st[1]
  BY DEF Shaped
<1> HIDE DEF t
<1>2. Shaped(t)
  BY <1>1 DEF Shaped
<1>3. TopOf(t) \in Below \cup {"loop"}
  BY <1>1 DEF Shaped, TopOf
<1>4. Reports(t) => Reports(st)
  BY <1>1 DEF Reports
<1>5. t # <<>> => TopOf(st) \in Above
  BY <1>1 DEF Shaped, TopOf
<1> QED  BY <1>2, <1>3, <1>4, <1>5 DEF t

\* SndAsyncStop goes on to wait for the threads.
LEMMA Replaced ==
    ASSUME NEW st, Shaped(st), st # <<>>, NEW f \in Above
    PROVE  /\ Shaped(<<f>> \o Tail(st)) /\ TopOf(<<f>> \o Tail(st)) = f
           /\ Reports(<<f>> \o Tail(st)) => Reports(st)
<1> DEFINE t == <<f>> \o Tail(st)
<1>1. /\ Tail(st) \in Seq(Frame) /\ Len(Tail(st)) = Len(st) - 1 /\ Len(st) \in Nat /\ Len(st) > 0
      /\ \A i \in 1 .. Len(st) - 1 : Tail(st)[i] = st[i + 1]
      /\ <<f>> \in Seq(Frame) /\ Len(<<f>>) = 1 /\ <<f>>[1] = f
  BY DEF Shaped, Frame
<1>2. /\ t \in Seq(Frame) /\ Len(t) = Len(st) /\ t[1] = f
      /\ \A i \in 2 .. Len(st) : t[i] = Tail(st)[i - 1]
  BY <1>1, ConcatProperties, SMT
<1>3. \A i \in 2 .. Len(st) : t[i] = st[i]
  BY <1>1, <1>2
<1>4. t # <<>> /\ Head(t) = t[1]
  BY <1>1, <1>2
<1> HIDE DEF t
<1>5. Shaped(t)
  BY <1>1, <1>2, <1>3 DEF Shaped
<1>6. TopOf(t) = f
  BY <1>2, <1>4 DEF TopOf
<1>7. Reports(t) => Reports(st)
  BY <1>1, <1>2, <1>3 DEF Reports, Above
<1> QED  BY <1>5, <1>6, <1>7 DEF t

\* The client, in a callback or called from the event loop, stops the stream.
LEMMA Stopping ==
    ASSUME NEW st, Shaped(st), TopOf(st) \in {"loop", "packet", "told"},
           NEW then \in {<<>>, <<"close">>, <<"format">>}
    PROVE  LET t == (<<"stop">> \o then) \o st IN
           Shaped(t) /\ TopOf(t) = "stop" /\ ~Reports(t)
<1> DEFINE t == (<<"stop">> \o then) \o st
<1>1. /\ st \in Seq(Frame) /\ Len(st) \in 0 .. 1
      /\ \A i \in 1 .. Len(st) : st[i] \in {"packet", "told"}
  <2>1. CASE st = <<>>  BY <2>1 DEF Shaped
  <2>2. CASE st # <<>>
    <3>1. TopOf(st) \in {"packet", "told"}
      BY <2>2 DEF Shaped, TopOf, Frame, Above, Below
    <3>2. Len(st) = 1 /\ st[1] = TopOf(st) /\ st \in Seq(Frame)
      BY <2>2, <3>1, Alone DEF Shaped, Above, TopOf
    <3> QED  BY <3>1, <3>2
  <2> QED  BY <2>1, <2>2
<1>2. PICK m \in 0 .. 1 : /\ then \in Seq(Frame) /\ Len(then) = m
                          /\ \A i \in 1 .. m : then[i] \in {"close", "format"}
  <2>1. ASSUME NEW f \in {"close", "format"}
        PROVE  <<f>> \in Seq(Frame) /\ Len(<<f>>) = 1 /\ <<f>>[1] = f
    BY DEF Frame, Above
  <2>2. CASE then = <<>>
    <3> WITNESS 0 \in 0 .. 1
    <3> QED  BY <2>2, EmptySeq
  <2>3. CASE then \in {<<"close">>, <<"format">>}
    <3>1. PICK f \in {"close", "format"} : then = <<f>>
      BY <2>3
    <3>2. /\ then \in Seq(Frame) /\ Len(then) = 1
          /\ \A i \in 1 .. 1 : then[i] \in {"close", "format"}
      BY <2>1, <3>1
    <3> QED  BY <3>2
  <2> QED  BY <2>2, <2>3
<1>3. /\ <<"stop">> \in Seq(Frame) /\ Len(<<"stop">>) = 1 /\ <<"stop">>[1] = "stop"
  BY DEF Frame, Above
<1> DEFINE a == <<"stop">> \o then
<1>4. /\ a \in Seq(Frame) /\ Len(a) = 1 + m /\ a[1] = "stop"
      /\ \A i \in 2 .. 1 + m : a[i] = then[i - 1]
  BY <1>2, <1>3, ConcatProperties, SMT
<1>5. \A i \in 2 .. 1 + m : a[i] \in {"close", "format"}
  BY <1>2, <1>4
<1> HIDE DEF a
<1>6. /\ a \o st \in Seq(Frame) /\ Len(a \o st) = 1 + m + Len(st) /\ (a \o st)[1] = "stop"
      /\ \A i \in 2 .. 1 + m : (a \o st)[i] = a[i]
      /\ \A i \in 2 + m .. 1 + m + Len(st) : (a \o st)[i] = st[i - (1 + m)]
  BY <1>1, <1>4, ConcatProperties, SMT
<1>7. t = a \o st  BY DEF a
<1> DEFINE u == a \o st
<1>8. /\ u \in Seq(Frame) /\ Len(u) = 1 + m + Len(st) /\ u[1] = "stop"
      /\ \A i \in 2 .. 1 + m : u[i] \in {"close", "format"}
      /\ \A i \in 2 + m .. 1 + m + Len(st) : u[i] \in {"packet", "told"}
  BY <1>1, <1>5, <1>6
<1>9. u # <<>> /\ Head(u) = u[1]
  BY <1>8, <1>1
<1> HIDE DEF u
<1>10. Shaped(u)
  BY <1>1, <1>8 DEF Shaped, Above, Below
<1>11. TopOf(u) = "stop" /\ ~Reports(u)
  BY <1>1, <1>8, <1>9 DEF TopOf, Reports
<1> QED  BY <1>7, <1>10, <1>11 DEF u

-----------------------------------------------------------------------------

\* The timer of the packets is set by threads only.
DispOk(d, mode) ==
    /\ d \in Dispatcher
    /\ mode = "thread" \/ "async" \notin d.due \cup d.run

Typed ==
    /\ DispOk(disp, access)
    /\ access \in Access
    /\ device \in {"closed", "ready", "broken"}
    /\ dirs \subseteq {"rec", "play"}
    /\ {rec, play} \subseteq Alive \cup {"none", "done"}
    /\ started \in BOOLEAN /\ idle \in BOOLEAN /\ aborted \in BOOLEAN
    /\ processing \in BOOLEAN /\ underrun \in BOOLEAN /\ believes \in BOOLEAN
    /\ missed \in BOOLEAN /\ stuck \in BOOLEAN
    /\ input \in 0 .. MaxQueued /\ output \in 0 .. MaxQueued

\* What is only there for a stream, in the mode of access that has it.
Modes ==
    /\ ~Threaded => rec = "none" /\ play = "none"
    /\ TopOf(stack) = "async" /\ ~Threaded => started
    /\ processing /\ access = "proc" => started
    /\ dirs # {} => started

\* The end of a stream: a failure is noted of one that has been started and that
\* the client believes in, unless its end is under way.
EndNoted ==
    /\ TopOf(stack) \in {"join", "close", "format", "tell"} => ~started
    /\ aborted => started \/ TopOf(stack) = "join"
    /\ started /\ TopOf(stack) # "stop" => believes
    /\ Reports(stack) => believes

\* A thread works for a stream or is waited for.
Working ==
    /\ {rec, play} \cap Alive # {} =>
          device # "closed" /\ (started \/ TopOf(stack) = "join")
    /\ play = "writing" => output > 0

CardInv ==
    /\ Typed
    /\ Shaped(stack)
    /\ Modes
    /\ EndNoted
    /\ Working
    /\ UnderrunsKept

-----------------------------------------------------------------------------
(* The event loop.                                                         *)

LEMMA Fields ==
    ASSUME NEW d \in Dispatcher
    PROVE  /\ d.at \in {"top", "early", "asleep", "late", "sockets"}
           /\ d.due \subseteq Immediate \cup Delayed
           /\ d.run \subseteq Immediate \cup Delayed
           /\ d.timed \in BOOLEAN /\ d.pipe \in BOOLEAN
           /\ d.seen \in BOOLEAN /\ d.pending \in BOOLEAN
    BY DEF Dispatcher

LEMMA TimerSet ==
    ASSUME NEW d, NEW mode, DispOk(d, mode), NEW t \in Immediate \cup Delayed,
           t = "async" => mode = "thread"
    PROVE  DispOk(SetTimer(d, t), mode)
<1> DEFINE e == SetTimer(d, t)
           wake == d.at = "asleep" /\ ~d.pending
           pipe == d.pipe \/ wake
           pending == d.pending \/ wake
<1>1. e = [d EXCEPT !.due = @ \cup {t}, !.run = @ \ {t}, !.pipe = pipe, !.pending = pending]
  BY DEF SetTimer
<1>2. pipe \in BOOLEAN /\ pending \in BOOLEAN  OBVIOUS
<1> HIDE DEF wake, pipe, pending
<1>3. e \in Dispatcher
  <2>1. d \in Dispatcher
    BY DEF DispOk
  <2>2. d = [at |-> d.at, due |-> d.due, run |-> d.run, timed |-> d.timed,
             pipe |-> d.pipe, seen |-> d.seen, pending |-> d.pending]
    BY <2>1 DEF Dispatcher
  <2> DEFINE due == d.due \cup {t}
             run == d.run \ {t}
  <2>3. due \subseteq Immediate \cup Delayed /\ run \subseteq Immediate \cup Delayed
    BY <2>1, Fields
  <2>4. e = [d EXCEPT !.due = due, !.run = run, !.pipe = pipe, !.pending = pending]
    BY <1>1
  <2> HIDE DEF due, run, e
  <2>5. e = [at |-> d.at, due |-> due, run |-> run, timed |-> d.timed,
             pipe |-> pipe, seen |-> d.seen, pending |-> pending]
    BY <2>2, <2>4
  <2> QED  BY <1>2, <2>1, <2>3, <2>5, Fields DEF Dispatcher
<1>4. e.due = d.due \cup {t} /\ e.run = d.run \ {t}
  BY <1>1 DEF DispOk, Dispatcher
<1> QED  BY <1>3, <1>4 DEF DispOk

LEMMA TimerCancelled ==
    ASSUME NEW d, NEW mode, DispOk(d, mode), NEW t
    PROVE  DispOk(CancelTimer(d, t), mode)
    BY Fields DEF DispOk, Dispatcher, CancelTimer

LEMMA LoopMoves ==
    ASSUME NEW d, NEW mode, DispOk(d, mode)
    PROVE  /\ DispOk(FallAsleep(d), mode)
           /\ DispOk(BackToTop(d), mode)
           /\ DispOk(WakeUp(d), mode)
           /\ DispOk(ReadSockets(d), mode)
           /\ \A t : DispOk(Takes(d, t), mode)
           /\ \A due \in SUBSET d.due : \A t : DispOk(RunTimers(d, due, t), mode)
           /\ \A t : DispOk(RunEarly(d, t), mode)
<1> USE Fields DEF DispOk, Dispatcher
<1>1. DispOk(FallAsleep(d), mode)
  <2> DEFINE timed == d.due # {}
  <2>1. timed \in BOOLEAN  OBVIOUS
  <2>2. FallAsleep(d) = [d EXCEPT !.at = "asleep", !.timed = timed]
    BY DEF FallAsleep
  <2> HIDE DEF timed
  <2> QED  BY <2>1, <2>2
<1>2. DispOk(BackToTop(d), mode)
  BY DEF BackToTop
<1>3. DispOk(WakeUp(d), mode)
  BY DEF WakeUp
<1>4. DispOk(ReadSockets(d), mode)
  <2> DEFINE pipe == d.pipe /\ ~d.seen
             pending == d.pending /\ ~d.seen
  <2>1. pipe \in BOOLEAN /\ pending \in BOOLEAN  OBVIOUS
  <2>2. ReadSockets(d) =
            [d EXCEPT !.at = "sockets", !.seen = FALSE, !.pipe = pipe, !.pending = pending]
    BY DEF ReadSockets
  <2> HIDE DEF pipe, pending
  <2> QED  BY <2>1, <2>2
<1>5. ASSUME NEW t  PROVE DispOk(Takes(d, t), mode)
  BY DEF Takes
<1>6. ASSUME NEW due \in SUBSET d.due, NEW t  PROVE DispOk(RunTimers(d, due, t), mode)
  BY DEF RunTimers
<1>7. ASSUME NEW t  PROVE DispOk(RunEarly(d, t), mode)
  <2> DEFINE e == RunTimers(d, d.due \cap Immediate, t)
  <2>1. DispOk(e, mode)
    BY <1>6
  <2>2. RunEarly(d, t) = [e EXCEPT !.at = "early"]
    BY DEF RunEarly
  <2> HIDE DEF e
  <2> QED  BY <2>1, <2>2
<1> QED  BY <1>1, <1>2, <1>3, <1>4, <1>5, <1>6, <1>7

-----------------------------------------------------------------------------
(* The threads.                                                            *)

LEMMA RecThreadKeeps ==
    ASSUME CardInv, RecThread
    PROVE  CardInv'
<1> USE DEF CardInv, Alive
<1>1. /\ UNCHANGED <<access, device, started, dirs, play, idle, processing, stack, believes, stuck>>
      /\ UNCHANGED <<output, underrun, missed>>
  BY DEF RecThread, RecBegins, RecReads, RecFails, RecAborts, queueVars
<1>2. rec \in Alive /\ access = "thread" /\ aborted' \in BOOLEAN
  BY DEF RecThread, RecBegins, RecReads, RecFails, RecAborts, Modes,
         Threaded, Typed
<1>3. DispOk(SetTimer(disp, "async"), access) /\ DispOk(SetTimer(disp, "abort"), access)
  BY <1>2, TimerSet, AlsaAssumption DEF Typed
<1>4. DispOk(disp', access')
  BY <1>1, <1>3 DEF RecThread, RecBegins, RecReads, RecFails, RecAborts,
         BufAbort, Typed
<1>5. rec' \in Alive \cup {"none", "done"} /\ input' \in 0 .. MaxQueued
  BY AlsaAssumption DEF RecThread, RecBegins, RecReads, RecFails, RecAborts, Typed,
         GoesOn, queueVars
<1>6. aborted' => started \/ TopOf(stack) = "join"
  BY <1>2 DEF RecThread, RecBegins, RecReads, RecFails, RecAborts, EndNoted, Working
<1>7. Typed'
  BY <1>1, <1>2, <1>4, <1>5 DEF Typed
<1>8. Shaped(stack)' /\ Modes' /\ EndNoted' /\ Working' /\ UnderrunsKept'
  BY <1>1, <1>2, <1>6 DEF Modes, EndNoted, Working, UnderrunsKept, Threaded
<1> QED  BY <1>7, <1>8

LEMMA PlayLoopKeeps ==
    ASSUME CardInv, play \in Alive, NEW n \in 0 .. MaxQueued,
           NEW found \in BOOLEAN, PlayLoop(n, found),
           UNCHANGED <<access, device, started, dirs, rec, aborted, processing, input, stack,
                       believes, stuck>>
    PROVE  CardInv'
<1> USE DEF CardInv, Alive
<1>1. access = "thread"
  BY DEF Modes, Threaded
<1> DEFINE d == SetTimer(disp, "async")
<1>2. /\ DispOk(d, access) /\ DispOk(SetTimer(d, "wake"), access)
      /\ DispOk(CancelTimer(d, "wake"), access)
  <2>1. DispOk(d, access)
    BY <1>1, TimerSet, AlsaAssumption DEF Typed
  <2> HIDE DEF d
  <2> QED  BY <2>1, TimerSet, TimerCancelled, AlsaAssumption
<1>3. DispOk(disp', access')
  BY <1>2 DEF PlayLoop, Typed
<1>4. /\ play' \in {"done", "waiting", "writing"} /\ idle' \in BOOLEAN
      /\ output' = n
      /\ play' = "writing" => n > 0
      /\ underrun' \in BOOLEAN /\ missed' \in BOOLEAN
      /\ missed' => underrun'
  <2>1. CASE started
    <3>1. underrun' = (underrun \/ found) /\ missed' = (missed \/ found)
      BY <2>1 DEF PlayLoop, Noted
    <3>2. underrun' \in BOOLEAN /\ missed' \in BOOLEAN
      BY <3>1
    <3>3. missed' => underrun'
      BY <3>1 DEF UnderrunsKept
    <3>4. play' \in {"done", "waiting", "writing"} /\ idle' \in BOOLEAN /\ output' = n
      BY <2>1 DEF PlayLoop
    <3>5. play' = "writing" => n > 0
      BY <2>1, SMT DEF PlayLoop
    <3> QED  BY <3>2, <3>3, <3>4, <3>5
  <2>2. CASE ~started
    BY <2>2 DEF PlayLoop, Typed, UnderrunsKept
  <2> QED  BY <2>1, <2>2 DEF Typed
<1>5. Typed'
  BY <1>3, <1>4 DEF Typed
<1>6. Shaped(stack)' /\ Modes' /\ EndNoted' /\ Working' /\ UnderrunsKept'
  BY <1>1, <1>4 DEF Modes, EndNoted, Working, UnderrunsKept, Threaded
<1> QED  BY <1>5, <1>6

LEMMA PlayThreadKeeps ==
    ASSUME CardInv, PlayThread
    PROVE  CardInv'
<1> USE DEF CardInv, Alive
<1>1. UNCHANGED <<access, device, started, dirs, rec, processing, input, stack, believes, stuck>>
  BY DEF PlayThread
<1>2. CASE PlayRuns
  BY <1>1, <1>2, PlayLoopKeeps DEF PlayRuns, Underruns, Typed
<1>3. CASE PlayWrites
  <2>1. PICK found \in BOOLEAN : PlayLoop(IF found THEN output ELSE output - 1, found)
    BY <1>3 DEF PlayWrites
  <2> DEFINE n == IF found THEN output ELSE output - 1
  <2>2. n \in 0 .. MaxQueued
    BY <1>3, AlsaAssumption DEF PlayWrites, Typed, Working
  <2>3. PlayLoop(n, found)
    BY <2>1
  <2> HIDE DEF n
  <2> QED  BY <1>1, <1>3, <2>2, <2>3, PlayLoopKeeps DEF PlayWrites
<1>4. CASE PlayFails
  <2>1. play = "writing" /\ play' = "aborting" /\ UNCHANGED <<disp, idle, aborted, output, underrun, missed>>
    BY <1>4 DEF PlayFails
  <2>2. Typed'
    BY <1>1, <2>1 DEF Typed
  <2> QED  BY <1>1, <2>1, <2>2 DEF Modes, EndNoted, Working, UnderrunsKept, Threaded
<1>5. CASE PlayAborts
  <2>1. /\ play = "aborting" /\ play' = "done" /\ aborted' = TRUE
        /\ disp' = BufAbort(disp) /\ UNCHANGED <<idle, output, underrun, missed>>
    BY <1>5 DEF PlayAborts
  <2>2. DispOk(disp', access')
    BY <1>1, <2>1, TimerSet, AlsaAssumption DEF Typed, BufAbort
  <2>3. Typed'
    BY <1>1, <2>1, <2>2 DEF Typed
  <2> QED  BY <1>1, <2>1, <2>3 DEF Modes, EndNoted, Working, UnderrunsKept, Threaded
<1> QED  BY <1>2, <1>3, <1>4, <1>5 DEF PlayThread

-----------------------------------------------------------------------------
(* The main thread.                                                        *)

LEMMA Returned ==
    ASSUME Shaped(stack), stack # <<>>, Returns
    PROVE  /\ Shaped(stack') /\ TopOf(stack') \in Below \cup {"loop"}
           /\ Reports(stack') => Reports(stack)
           /\ TopOf(stack) \notin Above => TopOf(stack') = "loop" /\ ~Reports(stack')
<1>1. stack' = Tail(stack)
  BY DEF Returns
<1>2. TopOf(stack) \notin Above => stack' = <<>>
  BY <1>1, Alone
<1> QED  BY <1>1, <1>2, Popped, NoStack

LEMMA Became ==
    ASSUME Shaped(stack), stack # <<>>, TopOf(stack) \notin Above,
           NEW f \in Frame, Becomes(<<f>>)
    PROVE  /\ Shaped(stack') /\ TopOf(stack') = f
           /\ Reports(stack') <=> f \in {"handle", "tell"}
<1>1. <<f>> \in Seq(Frame)
  OBVIOUS
<1>2. stack' = <<f>>
  BY <1>1, Alone, ConcatEmptySeq DEF Becomes
<1> QED  BY <1>2, OneFrame

\* What a step does that leaves the stream as it is.
LEMMA StreamKept ==
    ASSUME CardInv, UNCHANGED <<access, device, started, dirs, rec, believes>>,
           Typed', Shaped(stack'), TopOf(stack) \notin {"stop", "join"},
           TopOf(stack') \notin {"join", "close", "format", "tell"},
           TopOf(stack') = "async" /\ access # "thread" => started,
           aborted' => started, processing' /\ access = "proc" => started,
           Reports(stack') => believes,
           play' \in Alive => play \in Alive,
           access # "thread" => UNCHANGED play,
           play' = "writing" => output' > 0,
           missed' => underrun'
    PROVE  CardInv'
<1> USE DEF CardInv
<1>1. Modes'
  BY DEF Modes, Threaded
<1>2. EndNoted'
  BY DEF EndNoted
<1>3. Working'
  BY DEF Working
<1> QED  BY <1>1, <1>2, <1>3 DEF UnderrunsKept

LEMMA ThreadProcessKeeps ==
    ASSUME CardInv, ThreadProcess
    PROVE  CardInv'
<1> USE DEF CardInv
<1>1. /\ TopOf(stack) = "async" /\ stack # <<>> /\ access = "thread"
      /\ UNCHANGED <<disp, access, device, started, dirs, rec, play, idle, aborted, input, output, believes>>
  BY TopIs DEF ThreadProcess, threadVars, Threaded, TopOf
<1>2. CASE aborted
  <2>1. stuck' = TRUE /\ UNCHANGED <<processing, underrun, missed, stack>>
    BY <1>2 DEF ThreadProcess
  <2>2. Typed'
    BY <1>1, <2>1 DEF Typed
  <2> QED  BY <1>1, <2>1, <2>2 DEF Modes, EndNoted, Working, UnderrunsKept, Threaded
<1>3. CASE ~aborted
  <2>1. /\ underrun' = FALSE /\ missed' = FALSE /\ processing' = TRUE
        /\ Becomes(<<"packet">>) /\ stuck' = stuck
    BY <1>3 DEF ThreadProcess, UnderrunsKept
  <2>2. Shaped(stack') /\ TopOf(stack') = "packet" /\ ~Reports(stack')
    BY <1>1, <2>1, Became DEF Above, Below, Frame
  <2>3. Typed'
    BY <1>1, <2>1 DEF Typed
  <2> QED  BY <1>1, <1>3, <2>1, <2>2, <2>3, StreamKept DEF Working
<1> QED  BY <1>2, <1>3 DEF Typed

LEMMA ProcProcessKeeps ==
    ASSUME CardInv, ProcProcess
    PROVE  CardInv'
<1> USE DEF CardInv
<1>1. /\ TopOf(stack) = "async" /\ stack # <<>> /\ access = "proc" /\ started
      /\ UNCHANGED <<disp, access, device, started, dirs, rec, play, idle, output, underrun, missed,
                     believes, stuck>>
  BY TopIs DEF ProcProcess, threadVars, Threaded, TopOf, Modes
<1>2. /\ aborted' \in BOOLEAN /\ processing' \in BOOLEAN /\ input' \in 0 .. MaxQueued
      /\ Becomes(<<"handle">>) \/ Becomes(<<"packet">>)
  <2>1. MaxQueued \in 0 .. MaxQueued /\ 0 \in 0 .. MaxQueued
    BY AlsaAssumption
  <2>2. aborted' \in BOOLEAN /\ processing' \in BOOLEAN /\ input' \in 0 .. MaxQueued
    BY <2>1 DEF ProcProcess, Typed
  <2>3. Becomes(<<"handle">>) \/ Becomes(<<"packet">>)
    BY DEF ProcProcess
  <2> QED  BY <2>2, <2>3
<1>3. Shaped(stack') /\ TopOf(stack') \in {"handle", "packet"}
  BY <1>1, <1>2, Became DEF Above, Below, Frame
<1>4. Typed'
  BY <1>1, <1>2 DEF Typed
<1>5. believes
  BY <1>1 DEF EndNoted
<1> QED  BY <1>1, <1>3, <1>4, <1>5, StreamKept DEF Working, UnderrunsKept

LEMMA MmapProcessKeeps ==
    ASSUME CardInv, MmapProcess
    PROVE  CardInv'
<1> USE DEF CardInv
<1>1. /\ TopOf(stack) = "async" /\ stack # <<>> /\ access = "mmap" /\ started
      /\ UNCHANGED <<disp, access, device, started, dirs, rec, play, idle, processing, input, output,
                     underrun, missed, believes, stuck>>
  BY TopIs DEF MmapProcess, threadVars, queueVars, Threaded, TopOf, Modes
<1>2. /\ aborted' \in BOOLEAN
      /\ Becomes(<<"handle">>) \/ Becomes(<<"packet">>)
  BY DEF MmapProcess, CheckXrunFails, Typed
<1>3. Shaped(stack') /\ TopOf(stack') \in {"handle", "packet"}
  BY <1>1, <1>2, Became DEF Above, Below, Frame
<1>4. Typed'
  BY <1>1, <1>2 DEF Typed
<1>5. believes
  BY <1>1 DEF EndNoted
<1> QED  BY <1>1, <1>3, <1>4, <1>5, StreamKept DEF Working, Modes, UnderrunsKept

LEMMA PushKeeps ==
    ASSUME CardInv, Push
    PROVE  CardInv'
<1> USE DEF CardInv
<1>1. /\ TopOf(stack) = "push" /\ stack # <<>>
      /\ UNCHANGED <<access, device, started, dirs, rec, idle, processing, input, underrun, missed,
                     believes, stuck>>
  BY TopIs DEF Push, TopOf
<1>2. CASE access # "mmap" /\ ~processing
  <2>1. Returns /\ UNCHANGED <<disp, play, aborted, output>>
    BY <1>2 DEF Push
  <2>2. Shaped(stack') /\ TopOf(stack') = "loop" /\ ~Reports(stack')
    BY <1>1, <2>1, Returned DEF Above
  <2>3. Typed'
    BY <1>1, <2>1 DEF Typed
  <2> QED  BY <1>1, <2>1, <2>2, <2>3, StreamKept DEF Working, Modes, EndNoted, UnderrunsKept
<1>3. CASE ~(access # "mmap" /\ ~processing)
  <2>1. /\ Becomes(<<"after">>)
        /\ play' = play \/ (play = "waiting" /\ play' = "woken")
    <3>1. /\ Becomes(<<"after">>)
          /\ play' = IF ~aborted /\ idle /\ output > 0 THEN Signalled ELSE play
      BY <1>3 DEF Push
    <3> QED  BY <3>1 DEF Signalled
  <2>2. Shaped(stack') /\ TopOf(stack') = "after" /\ ~Reports(stack')
    BY <1>1, <2>1, Became DEF Above, Below, Frame
  <2>3. \/ UNCHANGED <<disp, aborted, output>>
        \/ /\ access = "proc" /\ ~aborted /\ aborted' = TRUE
           /\ disp' = SetTimer(disp, "abort") /\ UNCHANGED output
        \/ access = "proc" /\ output' = 0 /\ UNCHANGED <<disp, aborted>>
    BY <1>3 DEF Push, BufAbort
  <2>4. DispOk(disp', access') /\ aborted' \in BOOLEAN /\ output' \in 0 .. MaxQueued
    <3>1. DispOk(SetTimer(disp, "abort"), access)
      BY TimerSet, AlsaAssumption DEF Typed
    <3>2. 0 \in 0 .. MaxQueued
      BY AlsaAssumption
    <3> QED  BY <1>1, <2>3, <3>1, <3>2 DEF Typed
  <2>5. Typed'
    BY <1>1, <2>1, <2>4 DEF Typed, Alive
  <2>6. aborted' => started
    BY <1>1, <1>3, <2>3 DEF Modes, EndNoted
  <2>7. play' = "writing" => output' > 0
    BY <1>3, <2>1, <2>3 DEF Modes, Working, Threaded
  <2>8. /\ play' \in Alive => play \in Alive
        /\ access # "thread" => UNCHANGED play
    BY <2>1 DEF Modes, Threaded, Alive
  <2> QED  BY <1>1, <2>2, <2>5, <2>6, <2>7, <2>8, StreamKept DEF Modes, UnderrunsKept
<1> QED  BY <1>2, <1>3

LEMMA AfterPushKeeps ==
    ASSUME CardInv, AfterPush
    PROVE  CardInv'
<1> USE DEF CardInv
<1>1. /\ TopOf(stack) = "after" /\ stack # <<>>
      /\ processing' = FALSE
      /\ UNCHANGED <<disp, access, device, started, dirs, rec, play, idle, aborted, input, output,
                     underrun, missed, believes, stuck>>
      /\ (aborted /\ Becomes(<<"handle">>)) \/ (~aborted /\ Returns)
  BY TopIs DEF AfterPush, threadVars, queueVars, TopOf, Typed
<1>2. /\ Shaped(stack') /\ TopOf(stack') \in {"handle", "loop"}
      /\ Reports(stack') => aborted
  BY <1>1, Became, Returned DEF Above, Below, Frame
<1>3. Typed'
  BY <1>1 DEF Typed
<1>4. aborted => started /\ believes
  BY <1>1 DEF EndNoted
<1> QED  BY <1>1, <1>2, <1>3, <1>4, StreamKept DEF Working, Modes, UnderrunsKept

LEMMA BufAsyncAbortKeeps ==
    ASSUME CardInv, BufAsyncAbort
    PROVE  CardInv'
<1> USE DEF CardInv
<1>1. /\ TopOf(stack) = "abort" /\ stack # <<>>
      /\ aborted' = FALSE
      /\ UNCHANGED <<disp, access, device, started, dirs, rec, play, idle, processing, input, output,
                     underrun, missed, believes, stuck>>
      /\ (aborted /\ Becomes(<<"handle">>)) \/ (~aborted /\ Returns)
  BY TopIs DEF BufAsyncAbort, threadVars, queueVars, TopOf, Typed
<1>2. /\ Shaped(stack') /\ TopOf(stack') \in {"handle", "loop"}
      /\ Reports(stack') => aborted
  BY <1>1, Became, Returned DEF Above, Below, Frame
<1>3. Typed'
  BY <1>1 DEF Typed
<1>4. aborted => started /\ believes
  BY <1>1 DEF EndNoted
<1> QED  BY <1>1, <1>2, <1>3, <1>4, StreamKept DEF Working, Modes, UnderrunsKept

LEMMA SndHandleAbortKeeps ==
    ASSUME CardInv, SndHandleAbort
    PROVE  CardInv'
<1> USE DEF CardInv
<1>1. /\ TopOf(stack) = "handle" /\ stack # <<>>
      /\ disp' = CancelTimer(disp, "abort") /\ aborted' = FALSE
      /\ Becomes(<<"stop", "tell">>)
      /\ UNCHANGED <<access, device, started, dirs, rec, play, idle, processing, input, output,
                     underrun, missed, believes, stuck>>
  BY TopIs DEF SndHandleAbort, threadVars, queueVars, TopOf, BufCancelAbort
<1>2. stack' = <<"stop", "tell">>
  <2>1. Tail(stack) = <<>> /\ <<"stop", "tell">> \in Seq(Frame)
    BY <1>1, Alone DEF Above, Below, Frame
  <2> QED  BY <1>1, <2>1, ConcatEmptySeq DEF Becomes
<1>3. Shaped(stack') /\ TopOf(stack') = "stop"
  BY <1>2, TwoFrames DEF Above, Below
<1>4. believes
  <2>1. stack \in Seq(Frame) /\ Len(stack) \in Nat /\ Len(stack) > 0 /\ Head(stack) = stack[1]
    BY <1>1 DEF Shaped
  <2>2. 1 \in 1 .. Len(stack) /\ stack[1] = "handle"
    BY <1>1, <2>1 DEF TopOf
  <2> QED  BY <2>2 DEF EndNoted, Reports
<1>5. Typed'
  BY <1>1, TimerCancelled DEF Typed
<1>6. Modes' /\ EndNoted' /\ Working' /\ UnderrunsKept'
  BY <1>1, <1>3, <1>4 DEF Modes, EndNoted, Working, UnderrunsKept, Threaded
<1> QED  BY <1>3, <1>5, <1>6

LEMMA TellKeeps ==
    ASSUME CardInv, Tell
    PROVE  CardInv'
<1> USE DEF CardInv
<1>1. /\ TopOf(stack) = "tell" /\ stack # <<>> /\ believes' = FALSE /\ Becomes(<<"told">>)
      /\ UNCHANGED <<disp, access, device, started, dirs, rec, play, idle, aborted, processing, input,
                     output, underrun, missed, stuck>>
  BY TopIs DEF Tell, threadVars, queueVars, TopOf
<1>2. Shaped(stack') /\ TopOf(stack') = "told" /\ ~Reports(stack')
  BY <1>1, Became DEF Above, Below, Frame
<1>3. Typed'
  BY <1>1 DEF Typed
<1>4. Modes' /\ EndNoted' /\ Working' /\ UnderrunsKept'
  BY <1>1, <1>2 DEF Modes, EndNoted, Working, UnderrunsKept, Threaded
<1> QED  BY <1>2, <1>3, <1>4

LEMMA WakeupKeeps ==
    ASSUME CardInv, PlayThreadWakeup
    PROVE  CardInv'
<1> USE DEF CardInv
<1>1. /\ TopOf(stack) = "wakeup" /\ stack # <<>> /\ idle' = FALSE
      /\ Returns
      /\ play' = play \/ (play = "waiting" /\ play' = "woken")
      /\ UNCHANGED <<disp, access, device, started, dirs, rec, aborted, processing, input,
                     output, underrun, missed, believes, stuck>>
  <2>1. play' = IF idle THEN Signalled ELSE play
    BY DEF PlayThreadWakeup
  <2>2. play' = play \/ (play = "waiting" /\ play' = "woken")
    BY <2>1 DEF Signalled
  <2> QED  BY <2>2, TopIs DEF PlayThreadWakeup, queueVars, TopOf
<1>2. Shaped(stack') /\ TopOf(stack') = "loop" /\ ~Reports(stack')
  BY <1>1, Returned DEF Above
<1>3. Typed'
  BY <1>1 DEF Typed, Alive
<1>4. /\ play' \in Alive => play \in Alive
      /\ access # "thread" => UNCHANGED play
      /\ play' = "writing" => output' > 0
  BY <1>1 DEF Modes, Threaded, Alive, Working
<1> QED  BY <1>1, <1>2, <1>3, <1>4, StreamKept DEF Modes, EndNoted, UnderrunsKept

LEMMA SndAsyncStopKeeps ==
    ASSUME CardInv, SndAsyncStop
    PROVE  CardInv'
<1> USE DEF CardInv
<1>1. /\ TopOf(stack) = "stop" /\ stack # <<>> /\ started' = FALSE /\ dirs' = {}
      /\ UNCHANGED <<access, device, rec, idle, believes, stuck>>
  BY TopIs DEF SndAsyncStop, TopOf
<1>2. 0 \in 0 .. MaxQueued /\ DispOk(CancelTimer(disp, "async"), access)
      /\ DispOk(CancelTimer(disp, "abort"), access)
  BY TimerCancelled, AlsaAssumption DEF Typed
<1>3. CASE access = "thread" /\ started
  <2>1. /\ Becomes(<<"join">>) /\ disp' = CancelTimer(disp, "async")
        /\ play' = Signalled
        /\ UNCHANGED <<aborted, processing, input, output, underrun, missed>>
    BY <1>3 DEF SndAsyncStop, Threaded, queueVars
  <2>2. play' = play \/ (play = "waiting" /\ play' = "woken")
    BY <2>1 DEF Signalled
  <2>3. Shaped(stack') /\ TopOf(stack') = "join" /\ (Reports(stack') => Reports(stack))
    BY <1>1, <2>1, Replaced DEF Becomes, Above
  <2>4. Typed'
    BY <1>1, <1>2, <2>1, <2>2 DEF Typed, Alive
  <2>5. Working'
    BY <1>1, <1>3, <2>1, <2>2, <2>3 DEF Working, Alive
  <2> QED
    BY <1>1, <1>3, <2>1, <2>3, <2>4, <2>5 DEF Modes, EndNoted, UnderrunsKept, Threaded
<1>4. CASE access = "thread" /\ ~started
  <2>1. /\ Returns /\ disp' = CancelTimer(disp, "async")
        /\ play' = Signalled
        /\ UNCHANGED <<aborted, processing, input, output, underrun, missed>>
    BY <1>4 DEF SndAsyncStop, Threaded, queueVars
  <2>2. play \notin Alive /\ rec \notin Alive /\ ~aborted
    BY <1>1, <1>4 DEF Working, EndNoted
  <2>3. play' = play
    BY <2>1, <2>2 DEF Signalled, Alive
  <2>4. /\ Shaped(stack') /\ TopOf(stack') \in Below \cup {"loop"}
        /\ Reports(stack') => Reports(stack)
    BY <1>1, <2>1, Returned
  <2>5. Typed'
    BY <1>1, <1>2, <2>1, <2>3 DEF Typed
  <2> QED
    BY <1>1, <1>4, <2>1, <2>2, <2>3, <2>4, <2>5
    DEF Modes, EndNoted, Working, UnderrunsKept, Threaded, Below
<1>5. CASE access # "thread"
  <2>1. /\ Returns /\ disp' = CancelTimer(disp, "abort") /\ play' = play
        /\ aborted' = FALSE /\ processing' = FALSE
        /\ input' = 0 /\ output' = 0 /\ missed' = FALSE /\ underrun' = underrun
    BY <1>5 DEF SndAsyncStop, Threaded, BufClose, BufCancelAbort
  <2>2. rec = "none" /\ play = "none"
    BY <1>5 DEF Modes, Threaded
  <2>3. /\ Shaped(stack') /\ TopOf(stack') \in Below \cup {"loop"}
        /\ Reports(stack') => Reports(stack)
    BY <1>1, <2>1, Returned
  <2>4. Typed'
    BY <1>1, <1>2, <2>1 DEF Typed
  <2> QED
    BY <1>1, <1>5, <2>1, <2>2, <2>3, <2>4
    DEF Modes, EndNoted, Working, UnderrunsKept, Threaded, Alive, Below
<1> QED  BY <1>3, <1>4, <1>5 DEF Typed

\* What ends with BufClose when no thread lives.
LEMMA Cleared ==
    ASSUME CardInv, stack # <<>>, TopOf(stack) \in {"join", "close", "format"},
           {rec', play'} \subseteq {"none", "done"},
           access # "thread" => rec' = "none" /\ play' = "none",
           Returns, BufClose, DispOk(disp', access),
           device' \in {device, "closed"},
           UNCHANGED <<access, started, dirs, idle, believes, stuck>>
    PROVE  CardInv'
<1> USE DEF CardInv
<1>1. /\ aborted' = FALSE /\ processing' = FALSE /\ missed' = FALSE /\ underrun' = underrun
      /\ input' = 0 /\ output' = 0 /\ 0 \in 0 .. MaxQueued
  BY AlsaAssumption DEF BufClose
<1>2. ~started
  BY DEF EndNoted
<1>3. /\ Shaped(stack') /\ TopOf(stack') \in Below \cup {"loop"}
      /\ Reports(stack') => Reports(stack)
  BY Returned
<1>4. Typed'
  BY <1>1 DEF Typed
<1> QED
  BY <1>1, <1>2, <1>3, <1>4
  DEF Modes, EndNoted, Working, UnderrunsKept, Threaded, Alive, Below

LEMMA JoinKeeps ==
    ASSUME CardInv, Join
    PROVE  CardInv'
<1> USE DEF CardInv
<1>1. TopOf(stack) = "join" /\ stack # <<>>
  BY TopIs DEF Join, TopOf
<1>2. /\ {rec', play'} \subseteq {"none", "done"}
      /\ access # "thread" => rec' = "none" /\ play' = "none"
  BY DEF Join, Ended, Modes, Threaded
<1>3. DispOk(disp', access)
  <2>1. DispOk(CancelTimer(disp, "abort"), access)
    BY TimerCancelled DEF Typed
  <2> DEFINE d == CancelTimer(disp, "abort")
  <2>2. disp' = CancelTimer(d, "wake")
    BY DEF Join, BufCancelAbort
  <2>3. DispOk(d, access)
    BY <2>1
  <2> HIDE DEF d
  <2> QED  BY <2>2, <2>3, TimerCancelled
<1> QED  BY <1>1, <1>2, <1>3, Cleared DEF Join

LEMMA CloseKeeps ==
    ASSUME CardInv, CloseDevice \/ Reconfigure
    PROVE  CardInv'
<1> USE DEF CardInv
<1>1. /\ TopOf(stack) \in {"close", "format"} /\ stack # <<>>
      /\ device' \in {device, "closed"} /\ disp' = CancelTimer(disp, "abort")
      /\ Returns /\ BufClose
      /\ UNCHANGED <<access, started, dirs, rec, play, idle, believes, stuck>>
  BY TopIs DEF CloseDevice, Reconfigure, TopOf, BufCancelAbort, threadVars
<1>2. /\ {rec, play} \subseteq {"none", "done"}
      /\ access # "thread" => rec = "none" /\ play = "none"
  BY <1>1 DEF EndNoted, Working, Typed, Modes, Threaded
<1>3. DispOk(disp', access)
  BY <1>1, TimerCancelled DEF Typed
<1> QED  BY <1>1, <1>2, <1>3, Cleared

LEMMA HandlerKeeps ==
    ASSUME CardInv, Handler
    PROVE  CardInv'
    BY ThreadProcessKeeps, ProcProcessKeeps, MmapProcessKeeps, PushKeeps, AfterPushKeeps,
       BufAsyncAbortKeeps, SndHandleAbortKeeps, TellKeeps, WakeupKeeps, SndAsyncStopKeeps,
       JoinKeeps, CloseKeeps
    DEF Handler

-----------------------------------------------------------------------------
(* The client, and the loop.                                               *)

LEMMA Quiet ==
    ASSUME NEW st, Shaped(st), TopOf(st) \in {"loop", "packet", "told"}
    PROVE  ~Reports(st)
<1>1. CASE st = <<>>
  BY <1>1, NoStack
<1>2. CASE st # <<>>
  <2>1. TopOf(st) \in {"packet", "told"}
    BY <1>2 DEF Shaped, TopOf, Frame, Above, Below
  <2> QED  BY <1>2, <2>1, Alone, OneFrame DEF Above, Below, Frame
<1> QED  BY <1>1, <1>2

LEMMA ClientStack ==
    ASSUME Shaped(stack), InClient
    PROVE  TopOf(stack) \in {"loop", "packet", "told"}
    BY TopIs, NoStack DEF InClient

LEMMA ServedOk ==
    ASSUME NEW d, NEW mode, DispOk(d, mode)
    PROVE  DispOk(Served(d), mode)
    BY LoopMoves DEF Served

LEMMA SndOpenKeeps ==
    ASSUME CardInv, SndOpen
    PROVE  CardInv'
<1> USE DEF CardInv
<1>1. /\ device = "closed" /\ device' = "ready" /\ aborted' = (aborted /\ access = "mmap")
      /\ disp' = Served(disp)
      /\ UNCHANGED <<access, started, dirs, rec, play, idle, processing, input, output, underrun,
                     missed, stack, believes, stuck>>
  BY DEF SndOpen, threadVars, queueVars
<1>2. Typed'
  BY <1>1, ServedOk DEF Typed
<1> QED  BY <1>1, <1>2 DEF Modes, EndNoted, Working, UnderrunsKept, Threaded

LEMMA SndAsyncStartKeeps ==
    ASSUME CardInv, NEW ds \in SUBSET {"rec", "play"}, SndAsyncStart(ds)
    PROVE  CardInv'
<1> USE DEF CardInv
<1>1. /\ device # "closed" /\ disp' = Served(disp)
      /\ UNCHANGED <<access, device, aborted, processing, input, output, underrun, missed, stuck>>
  BY DEF SndAsyncStart, queueVars
<1>2. TopOf(stack) \in {"loop", "packet", "told"} /\ ~Reports(stack)
  BY ClientStack, Quiet DEF SndAsyncStart
<1>3. DispOk(disp', access')
  BY <1>1, ServedOk DEF Typed
<1>4. CASE ThreadStart(ds)
  <2>1. /\ access = "thread" /\ started' = TRUE /\ idle' \in BOOLEAN /\ believes' \in BOOLEAN
        /\ dirs' \in SUBSET {"rec", "play"}
        /\ {rec', play'} \subseteq {"begin", "none"}
        /\ \/ stack' = stack /\ believes'
           \/ Calls(<<"stop">>)
    <3>1. PICK done \in {ds, {}, {"rec"} \cap ds} :
            /\ believes' = (done = ds)
            /\ dirs' = IF done = ds THEN ds ELSE {}
            /\ rec' = IF "rec" \in done THEN "begin" ELSE "none"
            /\ play' = IF "play" \in done THEN "begin" ELSE "none"
            /\ IF done = ds THEN UNCHANGED stack ELSE Calls(<<"stop">>)
      BY <1>4 DEF ThreadStart
    <3>2. access = "thread" /\ started' = TRUE /\ idle' = ("play" \in ds)
      BY <1>4 DEF ThreadStart, Threaded
    <3>3. CASE done = ds
      <4>1. believes' /\ stack' = stack /\ dirs' = ds
        BY <3>1, <3>3
      <4>2. {rec', play'} \subseteq {"begin", "none"}
        BY <3>1
      <4> QED  BY <3>1, <3>2, <4>1, <4>2
    <3>4. CASE done # ds
      BY <3>1, <3>2, <3>4
    <3> QED  BY <3>3, <3>4
  <2>2. CASE stack' = stack /\ believes'
    <3>1. Typed'
      BY <1>1, <1>3, <2>1, <2>2 DEF Typed, Alive
    <3> QED
      BY <1>1, <1>2, <2>1, <2>2, <3>1 DEF Modes, EndNoted, Working, UnderrunsKept, Threaded
  <2>3. CASE Calls(<<"stop">>)
    <3>1. stack' = (<<"stop">> \o <<>>) \o stack
      BY <2>3 DEF Calls
    <3>2. Shaped(stack') /\ TopOf(stack') = "stop" /\ ~Reports(stack')
      BY <1>2, <3>1, Stopping
    <3>3. Typed'
      BY <1>1, <1>3, <2>1 DEF Typed, Alive
    <3> QED
      BY <1>1, <2>1, <3>2, <3>3 DEF Modes, EndNoted, Working, UnderrunsKept, Threaded
  <2> QED  BY <2>1, <2>2, <2>3
<1>5. CASE NotifierStart(ds)
  <2>1. /\ access # "thread" /\ started' \in BOOLEAN /\ believes' = started'
        /\ dirs' = IF started' THEN ds ELSE {}
        /\ UNCHANGED <<rec, play, idle, stack>>
    BY <1>5 DEF NotifierStart, Threaded, threadVars
  <2>2. ~started
    BY DEF SndAsyncStart
  <2>3. Typed'
    BY <1>1, <1>3, <2>1 DEF Typed
  <2> QED
    BY <1>1, <1>2, <2>1, <2>2, <2>3
    DEF Modes, EndNoted, Working, UnderrunsKept, Threaded, Alive
<1> QED  BY <1>4, <1>5 DEF SndAsyncStart

LEMMA ClientStopsKeeps ==
    ASSUME CardInv, ClientStops
    PROVE  CardInv'
<1> USE DEF CardInv
<1>1. /\ device # "closed" /\ believes' = FALSE /\ disp' = Served(disp)
      /\ UNCHANGED <<access, device, started, dirs, rec, play, idle, aborted, processing, input,
                     output, underrun, missed, stuck>>
  BY DEF ClientStops, threadVars, queueVars
<1>2. TopOf(stack) \in {"loop", "packet", "told"}
  BY ClientStack DEF ClientStops
<1>3. PICK then \in {<<>>, <<"close">>, <<"format">>} : stack' = (<<"stop">> \o then) \o stack
  BY DEF ClientStops, Calls
<1>4. Shaped(stack') /\ TopOf(stack') = "stop" /\ ~Reports(stack')
  BY <1>2, <1>3, Stopping
<1>5. Typed'
  BY <1>1, ServedOk DEF Typed
<1> QED
  BY <1>1, <1>2, <1>4, <1>5 DEF Modes, EndNoted, Working, UnderrunsKept, Threaded

LEMMA ClientQueuesKeeps ==
    ASSUME CardInv, ClientQueues
    PROVE  CardInv'
<1> USE DEF CardInv
<1>1. /\ started /\ output' = output + 1 /\ output < MaxQueued
      /\ UNCHANGED <<access, device, started, dirs, rec, idle, processing, input, underrun, missed,
                     stack, believes, stuck>>
  BY DEF ClientQueues, Modes
<1>2. output' \in 0 .. MaxQueued /\ output' > 0
  BY <1>1, AlsaAssumption DEF Typed
<1>3. DispOk(Served(disp), access)
  BY ServedOk DEF Typed
<1>4. DispOk(disp', access')
  <2>1. disp' = Served(disp) \/ disp' = BufAbort(Served(disp))
    BY DEF ClientQueues
  <2> DEFINE d == Served(disp)
  <2>2. DispOk(d, access)
    BY <1>3
  <2>3. disp' = d \/ disp' = SetTimer(d, "abort")
    BY <2>1 DEF BufAbort
  <2> HIDE DEF d
  <2> QED  BY <1>1, <2>2, <2>3, TimerSet, AlsaAssumption
<1>5. CASE access = "thread"
  <2>1. play' = (IF idle THEN Signalled ELSE play) /\ aborted' = aborted
    BY <1>5 DEF ClientQueues, Threaded
  <2>2. play' = play \/ (play = "waiting" /\ play' = "woken")
    BY <2>1 DEF Signalled
  <2>3. Typed'
    BY <1>1, <1>2, <1>4, <2>1, <2>2 DEF Typed, Alive
  <2> QED
    BY <1>1, <1>2, <1>5, <2>1, <2>2, <2>3
    DEF Modes, EndNoted, Working, UnderrunsKept, Threaded, Alive
<1>6. CASE access # "thread"
  <2>1. aborted' = TRUE /\ play' = play
    BY <1>6 DEF ClientQueues, Threaded
  <2>2. Typed'
    BY <1>1, <1>2, <1>4, <2>1 DEF Typed
  <2> QED
    BY <1>1, <1>2, <1>6, <2>1, <2>2 DEF Modes, EndNoted, Working, UnderrunsKept, Threaded
<1> QED  BY <1>5, <1>6

LEMMA ClientReturnsKeeps ==
    ASSUME CardInv, ClientReturns
    PROVE  CardInv'
<1> USE DEF CardInv
<1>1. /\ TopOf(stack) \in {"packet", "told"} /\ stack # <<>>
      /\ UNCHANGED <<disp, access, device, started, dirs, rec, play, idle, processing, underrun,
                     missed, believes, stuck>>
  BY TopIs DEF ClientReturns, threadVars, TopOf
<1>2. CASE TopOf(stack) = "packet"
  <2>1. /\ Becomes(<<"push">>)
        /\ input' = IF started THEN 0 ELSE input
        /\ output' = IF processing /\ "play" \in dirs THEN MaxQueued ELSE output
        /\ \E maps \in Maps : aborted' = (aborted \/ (MapFails /\ maps))
    BY <1>2, TopIs DEF ClientReturns
  <2>2. Shaped(stack') /\ TopOf(stack') = "push" /\ ~Reports(stack')
    BY <1>1, <1>2, <2>1, Became DEF Above, Below, Frame
  <2>3. input' \in 0 .. MaxQueued /\ output' \in 0 .. MaxQueued /\ aborted' \in BOOLEAN
    BY <2>1, AlsaAssumption DEF Typed
  <2>4. aborted' => started
    BY <1>2, <2>1 DEF MapFails, EndNoted
  <2>5. play' = "writing" => output' > 0
    BY <1>1, <2>1, AlsaAssumption DEF Working
  <2>6. Typed'
    BY <1>1, <2>3 DEF Typed
  <2> QED  BY <1>1, <1>2, <2>2, <2>4, <2>5, <2>6, StreamKept DEF Modes, UnderrunsKept
<1>3. CASE TopOf(stack) = "told"
  <2>1. Returns /\ UNCHANGED <<input, output, aborted>>
    BY <1>3, TopIs DEF ClientReturns
  <2>2. Shaped(stack') /\ TopOf(stack') = "loop" /\ ~Reports(stack')
    BY <1>1, <1>3, <2>1, Returned DEF Above
  <2>3. Typed'
    BY <1>1, <2>1 DEF Typed
  <2> QED
    BY <1>1, <1>3, <2>1, <2>2, <2>3, StreamKept DEF Modes, EndNoted, Working, UnderrunsKept
<1> QED  BY <1>1, <1>2, <1>3

\* A handler is called from the loop, or none is.
LEMMA LoopKeeps ==
    ASSUME CardInv, Loop
    PROVE  CardInv'
<1> USE DEF CardInv
<1>1. /\ stack = <<>>
      /\ UNCHANGED <<access, device, started, dirs, rec, play, idle, aborted, processing, input,
                     output, underrun, missed, believes, stuck>>
  BY DEF Loop, EndpointSame, threadVars, queueVars, InLoop,
         RunsEarly, RunsTimer, FallsAsleep, PipeWakes, TimerWakes,
         OtherWakes, WakesUp, ReadsSockets, DeviceReady, GoesRound
<1>2. TopOf(stack) = "loop"
  BY <1>1, NoStack
<1> DEFINE RunsHandler(t) ==
        /\ t \in disp.due \cup disp.run
        /\ stack' = <<HandlerOf(t)>>
<1>3. /\ DispOk(disp', access)
      /\ \/ stack' = stack
         \/ stack' = <<"async">> /\ access # "thread" /\ started
         \/ \E t : RunsHandler(t)
  <2>1. CASE RunsEarly
    <3>1. PICK t \in disp.due \cap Immediate :
              disp' = RunEarly(disp, t) /\ stack' = <<HandlerOf(t)>>
      BY <2>1 DEF RunsEarly, First
    <3> QED  BY <3>1, LoopMoves DEF Typed
  <2>2. CASE FallsAsleep \/ ReadsSockets \/ GoesRound
    BY <2>2, LoopMoves DEF FallsAsleep, ReadsSockets, GoesRound, Typed
  <2>3. CASE RunsTimer
    <3>1. PICK t \in disp.run : disp' = Takes(disp, t) /\ stack' = <<HandlerOf(t)>>
      BY <2>3 DEF RunsTimer
    <3> QED  BY <3>1, LoopMoves DEF Typed
  <2>4. CASE PipeWakes \/ TimerWakes \/ OtherWakes
    <3>1. PICK due \in SUBSET disp.due : WakesUp(due)
      BY <2>4 DEF PipeWakes, TimerWakes, OtherWakes, Expired
    <3> DEFINE d == WakeUp(disp)
    <3>2. DispOk(d, access) /\ d.due = disp.due
      <4>1. DispOk(d, access)
        BY LoopMoves DEF Typed
      <4>2. disp \in Dispatcher
        BY DEF Typed, DispOk
      <4>3. d.due = disp.due
        BY <4>2 DEF WakeUp, Dispatcher
      <4> QED  BY <4>1, <4>3
    <3>3. CASE due = {}
      <4>1. disp' = ReadSockets(d) /\ stack' = stack
        BY <3>1, <3>3 DEF WakesUp
      <4> HIDE DEF d
      <4> QED  BY <3>2, <4>1, LoopMoves
    <3>4. CASE due # {}
      <4>1. PICK t \in due : disp' = RunTimers(d, due, t) /\ stack' = <<HandlerOf(t)>>
        BY <3>1, <3>4 DEF WakesUp, First
      <4> HIDE DEF d
      <4> QED  BY <3>2, <4>1, LoopMoves
    <3> QED  BY <3>3, <3>4
  <2>5. CASE DeviceReady
    BY <2>5, LoopMoves DEF DeviceReady, Watched, Threaded, Typed
  <2> QED  BY <2>1, <2>2, <2>3, <2>4, <2>5 DEF Loop
<1>4. Typed'
  BY <1>1, <1>3 DEF Typed
<1>5. CASE stack' = stack
  BY <1>1, <1>2, <1>4, <1>5 DEF Modes, EndNoted, Working, UnderrunsKept, Threaded
<1>6. CASE stack' = <<"async">> /\ access # "thread" /\ started
  <2>1. Shaped(stack') /\ TopOf(stack') = "async" /\ ~Reports(stack')
    BY <1>6, OneFrame DEF Frame
  <2> QED  BY <1>1, <1>2, <1>4, <1>6, <2>1, StreamKept DEF Modes, EndNoted, Working, UnderrunsKept
<1>7. ASSUME NEW t, RunsHandler(t)
      PROVE  CardInv'
  <2>1. t \in {"async", "abort", "wake"} /\ (t = "async" => access = "thread")
    BY <1>7, Fields, AlsaAssumption DEF Typed, DispOk
  <2> DEFINE f == HandlerOf(t)
  <2>2. f \in {"async", "abort", "wakeup"} /\ (f = "async" => access = "thread")
    BY <2>1 DEF HandlerOf
  <2>3. stack' = <<f>>
    BY <1>7
  <2> HIDE DEF f
  <2>4. Shaped(stack') /\ TopOf(stack') = f /\ ~Reports(stack')
    BY <2>2, <2>3, OneFrame DEF Frame
  <2> QED
    BY <1>1, <1>2, <1>4, <2>2, <2>4, StreamKept DEF Modes, EndNoted, Working, UnderrunsKept
<1> QED  BY <1>3, <1>5, <1>6, <1>7

-----------------------------------------------------------------------------
(* The theorem.                                                            *)

LEMMA CardInvInit == ASSUME AlsaInit PROVE CardInv
<1>1. /\ disp \in Dispatcher /\ disp.due = {} /\ disp.run = {}
  BY AlsaAssumption DEF AlsaInit, DispInit, Dispatcher
<1>2. Typed
  <2>1. DispOk(disp, access)
    BY <1>1 DEF DispOk
  <2>2. 0 \in 0 .. MaxQueued
    BY AlsaAssumption
  <2> QED  BY <2>1, <2>2, AlsaAssumption DEF AlsaInit, Typed
<1>3. Shaped(stack) /\ TopOf(stack) = "loop" /\ ~Reports(stack)
  BY NoStack DEF AlsaInit
<1> QED
  BY <1>2, <1>3 DEF AlsaInit, CardInv, Modes, EndNoted, Working, Alive, UnderrunsKept

LEMMA CardStep == ASSUME CardInv, [AlsaNext]_alsaVars PROVE CardInv'
<1>1. CASE Client
  BY <1>1, SndOpenKeeps, ClientStopsKeeps, ClientQueuesKeeps, SndAsyncStartKeeps DEF Client
<1>2. CASE DeviceBreaks
  <2>1. /\ device = "ready" /\ device' = "broken"
        /\ UNCHANGED <<disp, access, started, dirs, rec, play, idle, aborted, processing, input,
                       output, underrun, missed, stack, believes, stuck>>
    BY <1>2 DEF DeviceBreaks, threadVars, queueVars
  <2> QED
    BY <2>1 DEF CardInv, Typed, Modes, EndNoted, Working, UnderrunsKept, Threaded
<1>3. CASE UNCHANGED alsaVars
  <2>1. UNCHANGED <<disp, access, device, started, dirs, rec, play, idle, aborted, processing, input,
                    output, underrun, missed, stack, believes, stuck>>
    BY <1>3 DEF alsaVars, threadVars, queueVars
  <2> QED
    BY <2>1 DEF CardInv, Typed, Modes, EndNoted, Working, UnderrunsKept, Threaded
<1> QED
  BY <1>1, <1>2, <1>3, RecThreadKeeps, PlayThreadKeeps, HandlerKeeps, ClientReturnsKeeps, LoopKeeps
  DEF AlsaNext, Stuck

\* Whoever waits on the stack, the theorem's three parts are there.
LEMMA CardInvSafe == CardInv => Safety
<1> SUFFICES ASSUME CardInv PROVE Safety
  OBVIOUS
<1> USE DEF CardInv
<1>1. ThreadsJoined
  <2> SUFFICES ASSUME {rec, play} \cap Alive # {}
               PROVE  /\ device # "closed"
                      /\ started \/ \E i \in DOMAIN stack : stack[i] = "join"
                      /\ TopOf(stack) # "format"
    BY TopIs DEF ThreadsJoined
  <2>1. device # "closed" /\ (started \/ TopOf(stack) = "join")
    BY DEF Working
  <2>2. TopOf(stack) = "join" => \E i \in DOMAIN stack : stack[i] = "join"
    <3> SUFFICES ASSUME TopOf(stack) = "join"
                 PROVE  \E i \in DOMAIN stack : stack[i] = "join"
      OBVIOUS
    <3>1. stack # <<>>
      BY DEF TopOf
    <3>2. stack \in Seq(Frame) /\ Len(stack) \in Nat /\ Len(stack) > 0 /\ Head(stack) = stack[1]
      BY <3>1 DEF Shaped
    <3>3. 1 \in DOMAIN stack /\ stack[1] = "join"
      BY <3>1, <3>2 DEF TopOf
    <3> QED  BY <3>3
  <2> QED  BY <2>1, <2>2 DEF EndNoted
<1>2. ToldOnce
  <2> SUFFICES ASSUME TopOf(stack) = "tell" PROVE believes
    BY TopIs DEF ToldOnce
  <2>1. stack # <<>>
    BY DEF TopOf
  <2>2. stack \in Seq(Frame) /\ Len(stack) \in Nat /\ Len(stack) > 0 /\ Head(stack) = stack[1]
    BY <2>1 DEF Shaped
  <2>3. 1 \in 1 .. Len(stack) /\ stack[1] = "tell"
    BY <2>1, <2>2 DEF TopOf
  <2> QED  BY <2>3 DEF EndNoted, Reports
<1> QED  BY <1>1, <1>2 DEF Safety

\* Every variable keeps to its type, the dispatcher's among them.
THEOREM CardTypeCorrect ==
    AlsaSpec => []AlsaTypeOK
<1>1. AlsaInit => CardInv
  BY CardInvInit
<1>2. CardInv /\ [AlsaNext]_alsaVars => CardInv'
  BY CardStep
<1>3. CardInv => AlsaTypeOK
  BY DEF CardInv, Typed, DispOk, AlsaTypeOK
<1> QED  BY <1>1, <1>2, <1>3, PTL DEF AlsaSpec

\* In each mode of access, however threads, timers, calls and failures of the
\* device fall: no thread outlives its stream, the client is told of the end of
\* a stream once and only if it did not end it itself, and of every underrun.
THEOREM CardAlwaysSafe ==
    AlsaSpec => []Safety
<1>1. AlsaInit => CardInv
  BY CardInvInit
<1>2. CardInv /\ [AlsaNext]_alsaVars => CardInv'
  BY CardStep
<1> QED  BY <1>1, <1>2, CardInvSafe, PTL DEF AlsaSpec
-----------------------------------------------------------------------------
(***************************************************************************)
(* The samples in the pump (SoundStream).  First extrema of sets.          *)
(***************************************************************************)

LEMMA LeastMember ==
    ASSUME NEW D, IsFiniteSet(D), NEW T, T \subseteq SUBSET D, T # {}
    PROVE  \E s \in T : \A t \in T : t \subseteq s => t = s
  <1>1. \E x \in T : \A y \in T : ~ (<<y, x>> \in StrictSubsetOrdering(D))
    <2>1. IsWellFoundedOn(StrictSubsetOrdering(D), SUBSET D)
      BY FS_StrictSubsetOrderingWellFounded, FS_FiniteSubsetsOfFinite
    <2> QED BY <2>1, WFMin, Zenon
  <1> QED BY <1>1 DEF StrictSubsetOrdering

LEMMA MinInSet ==
    ASSUME NEW S, IsFiniteSet(S), S \subseteq Int, S # {}
    PROVE  Min(S) \in S /\ \A y \in S : Min(S) <= y
  <1> DEFINE HasMin(t) == \E x \in t : \A y \in t : x <= y
             T == {t \in SUBSET S : t # {} /\ ~HasMin(t)}
  <1>1. T = {}
    <2> SUFFICES ASSUME T # {} PROVE FALSE
      OBVIOUS
    <2> DEFINE all == S
    <2>1. IsFiniteSet(all)
      OBVIOUS
    <2>2. PICK t \in T : \A u \in T : u \subseteq t => u = t
      <3>1. T \subseteq SUBSET all
        OBVIOUS
      <3> HIDE DEF HasMin, T, all
      <3> QED BY <2>1, <3>1, LeastMember
    <2>3. PICK x \in t : TRUE
      BY <2>2
    <2>4. t \subseteq Int /\ x \in Int
      BY <2>2, <2>3
    <2>5. CASE t \ {x} = {}
      <3>1. t = {x}
        BY <2>3, <2>5
      <3>2. HasMin(t)
        BY <2>4, <3>1
      <3> QED BY <2>2, <3>2
    <2>6. CASE t \ {x} # {}
      <3>1. (t \ {x}) \notin T
        BY <2>2, <2>3
      <3>2. HasMin(t \ {x})
        <4> HIDE DEF HasMin
        <4> QED BY <2>2, <2>6, <3>1
      <3>3. PICK m \in t \ {x} : \A y \in t \ {x} : m <= y
        BY <3>2
      <3>4. HasMin(t)
        <4>1. CASE m <= x
          <5>1. \A y \in t : m <= y
            BY <3>3, <4>1
          <5> QED BY <3>3, <5>1
        <4>2. CASE ~(m <= x)
          <5>1. \A y \in t : x <= y
            BY <2>4, <3>3, <4>2
          <5> QED BY <2>3, <5>1
        <4> QED BY <4>1, <4>2
      <3> QED BY <2>2, <3>4
    <2> QED BY <2>5, <2>6
  <1>2. PICK x \in S : \A y \in S : x <= y
    BY <1>1
  <1> QED BY <1>2 DEF Min

\* Of two numbers.
LEMMA MaxOfTwo ==
    ASSUME NEW S, NEW a \in Nat, NEW b \in Nat, S \subseteq {a, b}, S # {}
    PROVE  Max(S) \in S /\ \A y \in S : Max(S) >= y
  <1>1. \E x \in S : \A y \in S : x >= y
    <2>1. CASE a \in S /\ b \in S
      <3>1. CASE a >= b
        BY <2>1, <3>1
      <3>2. CASE b >= a
        BY <2>1, <3>2
      <3> QED BY <3>1, <3>2
    <2>2. CASE ~(a \in S /\ b \in S)
      <3>1. S = {a} \/ S = {b}
        BY <2>2
      <3>2. a >= a /\ b >= b
        OBVIOUS
      <3> QED BY <3>1, <3>2
    <2> QED BY <2>1, <2>2
  <1> QED BY <1>1 DEF Max

-----------------------------------------------------------------------------
(* The endpoints and the levels of ConfigureEndpoints.                     *)

Queues == [in : Int, out : Int, under : BOOLEAN]

LEMMA TwoSides ==
    ASSUME NEW e \in Sides
    PROVE  Other(e) \in Sides /\ Other(e) # e /\ Other(Other(e)) = e
           /\ \A x \in Sides : x = e \/ x = Other(e)
  BY DEF Sides, Other

LEMMA PairType ==
    ASSUME NEW p \in Pairs, NEW e \in Sides
    PROVE  /\ p[e] \in Endpoints /\ p.outMin \in Nat /\ p.window \in Nat /\ p.late \in Nat
           /\ p[e].packet \in Nat \ {0} /\ p[e].size \in Nat /\ p[e].content \in Nat
  <1>1. p["bottom"] \in Endpoints /\ p["top"] \in Endpoints
        /\ p.outMin \in Nat /\ p.window \in Nat /\ p.late \in Nat
    BY DEF Pairs
  <1>2. p[e] \in Endpoints
    BY <1>1 DEF Sides
  <1> QED BY <1>1, <1>2 DEF Endpoints

LEMMA MaxPacketDoes ==
    ASSUME NEW p \in Pairs, CardsOf(p) # {}
    PROVE  MaxPacket(p) \in Nat \ {0} /\ \A e \in CardsOf(p) : p[e].packet <= MaxPacket(p)
  <1> DEFINE a == p["bottom"].packet
             b == p["top"].packet
             S == {p[e].packet : e \in CardsOf(p)}
  <1>1. a \in Nat \ {0} /\ b \in Nat \ {0}
    BY PairType DEF Sides
  <1>2. S \subseteq {a, b} /\ S # {}
    BY DEF CardsOf, Sides
  <1>3. MaxPacket(p) = Max(S)
    BY DEF MaxPacket
  <1>4. \A e \in CardsOf(p) : p[e].packet \in S
    OBVIOUS
  <1> HIDE DEF a, b, S
  <1>5. Max(S) \in S /\ \A y \in S : Max(S) >= y
    BY <1>1, <1>2, MaxOfTwo
  <1>6. S \subseteq Nat \ {0}
    BY <1>1, <1>2
  <1>7. ASSUME NEW e \in CardsOf(p) PROVE p[e].packet <= MaxPacket(p)
    BY <1>3, <1>4, <1>5, <1>6
  <1> QED BY <1>3, <1>5, <1>6, <1>7

LEMMA Differ == ASSUME NEW n \in Int, NEW m \in Int
    PROVE  /\ Excess(n, m) \in Nat /\ Excess(n, m) >= n - m
           /\ Least(n, m) \in Int /\ Least(n, m) <= n /\ Least(n, m) <= m
           /\ Least(n, m) = n \/ Least(n, m) = m
           /\ AtLeast(n, m) \in Int /\ AtLeast(n, m) >= n /\ AtLeast(n, m) >= m
           /\ AtLeast(n, m) = n \/ AtLeast(n, m) = m
  BY DEF Excess, Least, AtLeast

LEMMA ConfiguredDoes ==
    ASSUME NEW p \in Pairs, CardsOf(p) # {}, NEW l \in Nat, l # 0
    PROVE  Configured(p, l) \in Nat
  <1> DEFINE m == MaxPacket(p)
  <1>1. m \in Nat \ {0}
    BY MaxPacketDoes
  <1>2. Configured(p, l) = AtLeast(l, 2 * m)
    BY DEF Configured
  <1> HIDE DEF m
  <1> QED BY <1>1, <1>2 DEF AtLeast

\* The levels of the output of a card: the room of its buffer is enough.
LEMMA CardLevels ==
    ASSUME NEW p \in Pairs, Configures(p), NEW e \in CardsOf(p)
    PROVE  /\ OutMin(p, e) \in Nat /\ OutMax(p, e) \in Nat /\ OutMin(p, e) <= OutMax(p, e)
  <1> DEFINE m == MaxPacket(p)
             k == p[e].packet
             size == OutbufSize(p[e])
             wish == IF p.outMin = 0 THEN 2 * MaxPacket(p) ELSE Configured(p, p.outMin)
             low == OutMin(p, e)
             w == IF p.window = 0 THEN OutMin(p, e) ELSE Configured(p, p.window)
             window == AtLeast(w, 2 * MaxPacket(p))
  <1>1. e \in Sides /\ Clocked(p[e])
    BY DEF CardsOf
  <1>2. m \in Nat \ {0} /\ k \in Nat \ {0} /\ k <= m
    BY <1>1, MaxPacketDoes, PairType
  <1>3. size \in Nat /\ (size > 0 => 4 * m <= size)
    <2>1. size = p[e].size
      BY <1>1 DEF OutbufSize, Clocked
    <2>2. size > 0 => 4 * m <= size
      BY DEF Configures
    <2> QED BY <1>1, <2>1, <2>2, PairType
  <1>4. wish \in Nat
    <2>1. p.outMin \in Nat
      BY <1>1, PairType
    <2>2. CASE p.outMin = 0
      BY <1>2, <2>2
    <2>3. CASE p.outMin # 0
      BY <2>1, <2>3, ConfiguredDoes
    <2> QED BY <2>2, <2>3
  <1>5. low = IF size > 0 THEN Least(wish, size - k) ELSE wish
    BY <1>1 DEF OutMin
  <1>6. OutMax(p, e) = IF size > 0 THEN Least(low + window, size) ELSE low + window
    BY <1>1 DEF OutMax
  <1> HIDE DEF m, k, size, wish, low
  <1>7. low \in Nat /\ (size > 0 => low <= size)
    BY <1>2, <1>3, <1>4, <1>5 DEF Least
  <1>8. w \in Nat
    <2>1. p.window \in Nat
      BY <1>1, PairType
    <2>2. CASE p.window = 0
      BY <1>7, <2>2 DEF low
    <2>3. CASE p.window # 0
      BY <2>1, <2>3, ConfiguredDoes
    <2> QED BY <2>2, <2>3
  <1> HIDE DEF w
  <1>9. window \in Nat
    BY <1>2, <1>8 DEF AtLeast, m
  <1> HIDE DEF window
  <1> QED BY <1>3, <1>6, <1>7, <1>9 DEF Least, low

LEMMA ConfigDoes ==
    ASSUME NEW p \in Setups, Configures(p)
    PROVE  LET c == Config(p) IN
           /\ c.flows \in SUBSET Sides /\ c.flows # {} /\ c.packet \in Nat \ {0}
           /\ \A e \in Sides : c.outMin[e] \in Nat /\ c.outMax[e] \in Nat /\ c.inMax[e] \in Nat
           /\ \A e \in CardsOf(p) : c.outMin[e] <= c.outMax[e]
  <1> DEFINE c == Config(p)
  <1>1. p \in Pairs /\ CardsOf(p) # {} /\ FlowsOf(p) # {}
    BY StreamAssumption DEF Configures
  <1>2. /\ c.flows = FlowsOf(p) /\ c.packet = FilterPacket(p)
        /\ \A e \in Sides : /\ c.outMin[e] = OutMin(p, e)
                            /\ c.outMax[e] = OutMax(p, e)
                            /\ c.inMax[e] = (OutMax(p, e) - OutMin(p, "bottom")) % SampNums
    BY DEF Config
  <1> HIDE DEF c
  <1>3. ASSUME NEW e \in Sides PROVE OutMin(p, e) \in Nat /\ OutMax(p, e) \in Nat
    <2>1. CASE e \in CardsOf(p)
      BY <1>1, <2>1, CardLevels
    <2>2. CASE e \notin CardsOf(p)
      <3>1. ~Clocked(p[e])
        BY <2>2 DEF CardsOf
      <3>2. OutMin(p, e) = 0
        BY <3>1 DEF OutMin
      <3> DEFINE size == OutbufSize(p[e])
      <3>3. size \in Nat
        <4>1. size = 0 \/ size = 2 * p[e].size
          BY <3>1 DEF OutbufSize, BytesPerRecord
        <4>2. p[e].size \in Nat
          BY <1>1, PairType
        <4> HIDE DEF size
        <4> QED BY <4>1, <4>2
      <3>4. OutMax(p, e) = IF size > 0 THEN size ELSE SampNums - 1
        BY <3>1 DEF OutMax
      <3> HIDE DEF size
      <3> QED BY <3>2, <3>3, <3>4, StreamAssumption
    <2> QED BY <2>1, <2>2
  <1>4. ASSUME NEW a \in Int PROVE a % SampNums \in Nat
    BY StreamAssumption
  <1>5. "bottom" \in Sides
    BY DEF Sides
  <1>6. \A e \in Sides : OutMax(p, e) - OutMin(p, "bottom") \in Int
    BY <1>3, <1>5
  <1>7. \A e \in Sides : c.inMax[e] \in Nat
    BY <1>2, <1>4, <1>6
  <1>8. c.packet \in Nat \ {0}
    BY <1>2, FilterAssumption
  <1>9. c.flows \in SUBSET Sides /\ c.flows # {}
    BY <1>1, <1>2 DEF FlowsOf
  <1>10. \A e \in CardsOf(p) : c.outMin[e] <= c.outMax[e]
    <2>1. CardsOf(p) \subseteq Sides
      BY DEF CardsOf
    <2> QED BY <1>1, <1>2, <2>1, CardLevels
  <1> QED BY <1>2, <1>3, <1>7, <1>8, <1>9, <1>10 DEF c

-----------------------------------------------------------------------------
(* How many samples are moved: a number, and not a negative one.           *)

LEMMA FourFinite ==
    ASSUME NEW a, NEW b, NEW c, NEW d, NEW S, S \subseteq {a, b, c, d}
    PROVE  IsFiniteSet(S)
  <1>1. IsFiniteSet({})
    BY FS_EmptySet
  <1>2. IsFiniteSet({} \cup {a})
    BY <1>1, FS_AddElement
  <1>3. IsFiniteSet(({} \cup {a}) \cup {b})
    BY <1>2, FS_AddElement
  <1>4. IsFiniteSet((({} \cup {a}) \cup {b}) \cup {c})
    BY <1>3, FS_AddElement
  <1> DEFINE u == ((({} \cup {a}) \cup {b}) \cup {c}) \cup {d}
  <1>5. IsFiniteSet(u)
    BY <1>4, FS_AddElement
  <1>6. S \in SUBSET u
    OBVIOUS
  <1> HIDE DEF u
  <1> QED BY <1>5, <1>6, FS_Subset

LEMMA RoundDownDoes ==
    ASSUME NEW n \in Int, NEW i \in Nat \ {0}
    PROVE  RoundDown(n, i) \in Int /\ (n >= 0 => RoundDown(n, i) >= 0)
  <1> DEFINE k == n \div i
  <1>1. k \in Int /\ (n >= 0 => k >= 0)
    OBVIOUS
  <1>2. RoundDown(n, i) = k * i
    BY DEF RoundDown
  <1> HIDE DEF k
  <1>3. k * i \in Int /\ (k >= 0 => k * i >= 0)
    BY <1>1
  <1> QED BY <1>1, <1>2, <1>3

\* What the invariant says of the levels.
Levels ==
    /\ config.flows \in SUBSET Sides /\ config.flows # {} /\ config.packet \in Nat \ {0}
    /\ \A e \in Sides : /\ config.outMin[e] \in Nat /\ config.outMax[e] \in Nat
                        /\ config.inMax[e] \in Nat
    /\ \A e \in Cards : config.outMin[e] <= config.outMax[e]

LEMMA BoundsDo ==
    ASSUME Levels, NEW q \in [Sides -> Queues], NEW s \in config.flows
    PROVE  /\ InBound(q, s).upper \in Int /\ OutBound(q, s).upper \in Nat
           /\ q[s].in >= 0 => InBound(q, s).upper >= 0
  <1> DEFINE n == q[s].in
             k == q[Other(s)].out
             top == config.outMax[Other(s)]
  <1>1. s \in Sides /\ Other(s) \in Sides
    BY TwoSides DEF Levels
  <1>2. n \in Int /\ k \in Int /\ top \in Nat /\ config.packet \in Nat \ {0}
    BY <1>1 DEF Queues, Levels
  <1>3. InBound(q, s).upper = IF ~HasClock(s) /\ n > 0 THEN AtLeast(n, config.packet) ELSE n
    BY DEF InBound
  <1>4. OutBound(q, s).upper = Excess(top, k)
    BY DEF OutBound
  <1> HIDE DEF n, k, top
  <1>5. Excess(top, k) \in Nat
    BY <1>2 DEF Excess
  <1>6. AtLeast(n, config.packet) \in Int /\ AtLeast(n, config.packet) >= n
    BY <1>2 DEF AtLeast
  <1> QED BY <1>2, <1>3, <1>4, <1>5, <1>6 DEF n

LEMMA AmountsDo ==
    ASSUME Levels, NEW q \in [Sides -> Queues], NEW n \in Amounts(q)
    PROVE  n \in Int /\ ((\A s \in Sides : q[s].in >= 0) => n >= 0)
  <1>1. CASE Spent(q)
    BY <1>1 DEF Amounts
  <1>2. CASE ~Spent(q)
    <2> DEFINE bounds == Bounds(q)
               U == {b.upper : b \in bounds}
               L == {b.lower : b \in bounds}
               i == config.packet
               most == RoundDown(Min(U), i)
               least == RoundUp(Max(L), i)
    <2>1. n = most \/ n \in most .. least
      BY <1>2 DEF Amounts, BestXfer
    <2>2. ASSUME NEW u \in U
          PROVE  \E s \in config.flows : u = InBound(q, s).upper \/ u = OutBound(q, s).upper
      BY DEF Bounds
    <2>3. U # {}
      <3>1. PICK s \in config.flows : TRUE
        BY DEF Levels
      <3>2. InBound(q, s) \in bounds
        BY <3>1 DEF Bounds
      <3> QED BY <3>2
    <2> DEFINE a == InBound(q, "bottom").upper
               b == InBound(q, "top").upper
               c == OutBound(q, "bottom").upper
               d == OutBound(q, "top").upper
    <2>4. U \subseteq {a, b, c, d}
      BY <2>2 DEF Levels, Sides
    <2> HIDE DEF U, L, bounds, a, b, c, d
    <2>5. IsFiniteSet(U)
      BY <2>4, FourFinite
    <2>6. U \subseteq Int
      BY <2>2, BoundsDo
    <2>7. Min(U) \in U
      BY <2>3, <2>5, <2>6, MinInSet
    <2>8. i \in Nat \ {0} /\ Min(U) \in Int
      BY <2>6, <2>7 DEF Levels
    <2>9. most \in Int /\ (Min(U) >= 0 => most >= 0)
      BY <2>8, RoundDownDoes
    <2>10. (\A s \in Sides : q[s].in >= 0) => Min(U) >= 0
      <3> SUFFICES ASSUME \A s \in Sides : q[s].in >= 0 PROVE Min(U) >= 0
        OBVIOUS
      <3>1. PICK s \in config.flows : Min(U) = InBound(q, s).upper \/ Min(U) = OutBound(q, s).upper
        BY <2>2, <2>7
      <3>2. q[s].in >= 0
        BY DEF Levels
      <3> QED BY <3>1, <3>2, BoundsDo
    <2> HIDE DEF most, least
    <2>11. n \in Int /\ n >= most
      BY <2>1, <2>9
    <2> QED BY <2>9, <2>10, <2>11
  <1> QED BY <1>1, <1>2

-----------------------------------------------------------------------------
(* What a call of the pump does to the queues of one side.                 *)

Moves(x, known, n, moved) ==
    LET tossed == Tossed(known, x, n)
        yielded == Yielded(known, x, n)
        accepted == Room(x, OutXfer(known, x, n))
        pad == Padding(moved, x) IN
    /\ moved[x] = Believed(known[x], tossed, yielded, accepted)
    /\ qs'[x] = Believed(moved[x], 0, 0, pad)
    /\ dev'[x] = Settled(x, tossed, yielded, accepted + pad)

LEMMA TransferDoes ==
    ASSUME NEW e \in Sides, NEW known, NEW n, Transfer(e, known, n)
    PROVE  \E moved : /\ \A x \in Sides : Moves(x, known, n, moved)
                      /\ DOMAIN moved = Sides
                      /\ qs' = [x \in Sides |-> qs'[x]]
                      /\ dev' = [x \in Sides |-> dev'[x]]
  <1> DEFINE tossed == [x \in Sides |-> Tossed(known, x, n)]
             yielded == [x \in Sides |-> Yielded(known, x, n)]
             accepted == [x \in Sides |-> Room(x, OutXfer(known, x, n))]
             moved == [x \in Sides |-> Believed(known[x], tossed[x], yielded[x], accepted[x])]
             pad == [x \in Sides |-> Padding(moved, x)]
             added == [x \in Sides |-> accepted[x] + pad[x]]
  <1>1. /\ qs' = [x \in Sides |-> Believed(moved[x], 0, 0, pad[x])]
        /\ dev' = [x \in Sides |-> Settled(x, tossed[x], yielded[x], added[x])]
    BY DEF Transfer
  <1>2. ASSUME NEW x \in Sides
        PROVE  /\ tossed[x] = Tossed(known, x, n) /\ yielded[x] = Yielded(known, x, n)
               /\ accepted[x] = Room(x, OutXfer(known, x, n))
               /\ moved[x] = Believed(known[x], tossed[x], yielded[x], accepted[x])
               /\ pad[x] = Padding(moved, x) /\ added[x] = accepted[x] + pad[x]
    OBVIOUS
  <1>3. DOMAIN moved = Sides
    OBVIOUS
  <1> HIDE DEF tossed, yielded, accepted, moved, pad, added
  <1>4. ASSUME NEW x \in Sides PROVE Moves(x, known, n, moved)
    <2>1. moved[x] = Believed(known[x], Tossed(known, x, n), Yielded(known, x, n),
                              Room(x, OutXfer(known, x, n)))
      BY <1>2
    <2>2. qs'[x] = Believed(moved[x], 0, 0, Padding(moved, x))
      BY <1>1, <1>2
    <2>3. dev'[x] = Settled(x, Tossed(known, x, n), Yielded(known, x, n),
                            Room(x, OutXfer(known, x, n)) + Padding(moved, x))
      BY <1>1, <1>2
    <2> QED BY <2>1, <2>2, <2>3 DEF Moves
  <1> QED BY <1>1, <1>3, <1>4

\* The kinds of numbers in them.
LEMMA MoveTypes ==
    ASSUME Levels, setup \in Pairs, dev \in [Sides -> Queues], NEW known \in [Sides -> Queues],
           NEW n \in Int, NEW x \in Sides
    PROVE  /\ Tossed(known, x, n) \in Nat /\ Yielded(known, x, n) \in Int
           /\ OutXfer(known, x, n) \in Int /\ Room(x, OutXfer(known, x, n)) \in Int
  <1>1. known[x].in \in Int /\ known[x].out \in Int /\ dev[x].in \in Int /\ dev[x].out \in Int
    BY DEF Queues
  <1>2. config.inMax[x] \in Nat /\ config.outMax[x] \in Nat /\ config.packet \in Nat
    BY DEF Levels
  <1>3. Tossed(known, x, n) \in Nat
    BY <1>1, <1>2 DEF Tossed, Excess
  <1>4. InXfer(known, x, n) \in Int
    BY <1>1 DEF InXfer, Least
  <1>5. Yielded(known, x, n) \in Int
    <2>1. Excess(config.packet, dev[x].in) \in Nat
      BY <1>1, <1>2 DEF Excess
    <2> QED BY <1>1, <1>4, <2>1 DEF Yielded, Least
  <1>6. OutXfer(known, x, n) \in Int
    <2>1. Excess(config.outMax[x], known[x].out) \in Nat
      BY <1>1, <1>2 DEF Excess
    <2> QED BY <2>1 DEF OutXfer, Least
  <1>7. setup[x].size \in Nat
    BY PairType
  <1>8. Room(x, OutXfer(known, x, n)) \in Int
    BY <1>1, <1>6, <1>7 DEF Room, Least
  <1> QED BY <1>3, <1>5, <1>6, <1>8

LEMMA BelievedQueues ==
    ASSUME NEW q \in Queues, NEW a \in Int, NEW b \in Int, NEW c \in Int
    PROVE  Believed(q, a, b, c) \in Queues
  <1> DEFINE u == q.under
             i == q.in - a - b
             o == q.out + c
  <1>1. i \in Int /\ o \in Int /\ u \in BOOLEAN
    BY DEF Queues
  <1>2. Believed(q, a, b, c) = [in |-> i, out |-> o, under |-> u]
    BY DEF Believed
  <1> HIDE DEF u, i, o
  <1> QED BY <1>1, <1>2 DEF Queues

LEMMA MovedTypes ==
    ASSUME Levels, setup \in Pairs, dev \in [Sides -> Queues], NEW known \in [Sides -> Queues],
           NEW n \in Int, NEW x \in Sides, NEW moved, Moves(x, known, n, moved)
    PROVE  /\ moved[x].out \in Int /\ Padding(moved, x) \in Nat
           /\ qs'[x] \in Queues /\ dev'[x] \in Queues
  <1> DEFINE tossed == Tossed(known, x, n)
             yielded == Yielded(known, x, n)
             accepted == Room(x, OutXfer(known, x, n))
             pad == Padding(moved, x)
             s == (dev[x].under /\ accepted + pad = 0)
  <1>1. tossed \in Nat /\ yielded \in Int /\ accepted \in Int
    BY MoveTypes
  <1>2. /\ moved[x] = Believed(known[x], tossed, yielded, accepted)
        /\ qs'[x] = Believed(moved[x], 0, 0, pad)
        /\ dev'[x] = Settled(x, tossed, yielded, accepted + pad)
    BY DEF Moves
  <1>3. known[x] \in Queues /\ dev[x] \in Queues /\ config.outMin[x] \in Nat
    BY DEF Levels
  <1>4. s \in BOOLEAN
    OBVIOUS
  <1>5. dev'[x] = [in |-> dev[x].in - tossed - yielded + IF DoesLoop(x) THEN accepted + pad ELSE 0,
                   out |-> IF CountsOutput(x) THEN dev[x].out + (accepted + pad) ELSE 0,
                   under |-> s]
    BY <1>2 DEF Settled
  <1> HIDE DEF tossed, yielded, accepted, s
  <1>6. moved[x] \in Queues
    BY <1>1, <1>2, <1>3, BelievedQueues
  <1>7. moved[x].out \in Int
    BY <1>6 DEF Queues
  <1>8. pad \in Nat
    <2>1. Excess(config.outMin[x], moved[x].out) \in Nat
      BY <1>3, <1>7 DEF Excess
    <2> QED BY <2>1 DEF Padding
  <1> HIDE DEF pad
  <1>9. qs'[x] \in Queues
    BY <1>2, <1>6, <1>8, BelievedQueues
  <1>10. dev'[x] \in Queues
    BY <1>1, <1>3, <1>4, <1>5, <1>8 DEF Queues
  <1> QED BY <1>7, <1>8, <1>9, <1>10 DEF pad

\* A card: the pump knows of all that it moves, and keeps the levels.
LEMMA CardMoves ==
    ASSUME Levels, setup \in Pairs, dev \in [Sides -> Queues], NEW known \in [Sides -> Queues],
           NEW n \in Int, NEW x \in Cards, NEW moved, Moves(x, known, n, moved),
           known[x].in >= 0, dev[x].in >= known[x].in,
           Other(x) \in config.flows => known[x].out <= config.outMax[x]
    PROVE  /\ dev'[x].in - qs'[x].in = dev[x].in - known[x].in
           /\ dev'[x].out - qs'[x].out = dev[x].out - known[x].out
           /\ qs'[x].in >= 0 /\ (x \in config.flows => qs'[x].in <= config.inMax[x])
           /\ Other(x) \in config.flows => qs'[x].out <= config.outMax[x]
           /\ n >= 0 \/ Other(x) \notin config.flows => qs'[x].out >= known[x].out
           /\ Other(x) \in config.flows => \/ qs'[x].out >= config.outMin[x]
                                           \/ RemoveOnExhaust(Other(x)) /\ ~(moved[Other(x)].in > 0)
  <1> DEFINE tossed == Tossed(known, x, n)
             yielded == Yielded(known, x, n)
             accepted == OutXfer(known, x, n)
             pad == Padding(moved, x)
             i == known[x].in
             o == known[x].out
             k == dev[x].in
             l == dev[x].out
             low == config.outMin[x]
             high == config.outMax[x]
             top == config.inMax[x]
             sends == x \in config.flows
             plays == Other(x) \in config.flows
  <1>1. x \in Sides /\ HasClock(x) /\ ~DoesLoop(x) /\ setup[x].kind \in {"card", "voice"}
    BY DEF Cards, CardsOf, HasClock, DoesLoop, Clocked
  <1>2. /\ i \in Int /\ o \in Int /\ k \in Int /\ l \in Int
        /\ low \in Nat /\ high \in Nat /\ top \in Nat /\ low <= high
        /\ i >= 0 /\ k >= i /\ (plays => o <= high)
    BY <1>1 DEF Queues, Levels
  <1>3. Room(x, OutXfer(known, x, n)) = accepted
    BY <1>1 DEF Room
  <1>4. tossed = IF sends /\ n <= i THEN Excess(i - n, top) ELSE 0
    BY <1>1 DEF Tossed
  <1>5. yielded = Least(IF sends THEN Least(n, i) ELSE 0, k)
    BY <1>1 DEF Yielded, InXfer
  <1>6. accepted = IF plays THEN Least(n, Excess(high, o)) ELSE 0
    BY DEF OutXfer
  <1>7. moved[x].out = o + accepted
    BY <1>1, <1>3 DEF Moves, Believed
  <1>8. /\ qs'[x].in = i - tossed - yielded - 0 - 0 /\ qs'[x].out = o + accepted + pad
    BY <1>1, <1>3 DEF Moves, Believed
  <1>9. /\ dev'[x].in = k - tossed - yielded + 0 /\ dev'[x].out = l + (accepted + pad)
    BY <1>1, <1>3 DEF Moves, Settled, CountsOutput
  <1>10. pad = Excess(low, o + accepted) \/ pad = 0
    BY <1>7 DEF Padding
  <1>11. ~plays => pad = 0
    BY DEF Padding
  <1>12. /\ plays
         /\ ~(RemoveOnExhaust(Other(x)) /\ ~(moved[Other(x)].in > 0))
         => pad = Excess(low, o + accepted)
    BY <1>7 DEF Padding
  <1> DEFINE ends == RemoveOnExhaust(Other(x)) /\ ~(moved[Other(x)].in > 0)
  <1> HIDE DEF tossed, yielded, accepted, pad, i, o, k, l, low, high, top, sends, plays, ends
  <1>13. /\ tossed \in Nat /\ yielded \in Int /\ i - tossed - yielded >= 0
         /\ sends => i - tossed - yielded <= top
    <2>1. CASE ~sends
      BY <1>2, <1>4, <1>5, <2>1 DEF Least
    <2>2. CASE sends /\ n <= i
      <3>1. yielded = n
        BY <1>2, <1>5, <2>2 DEF Least
      <3>2. tossed = Excess(i - n, top)
        BY <1>4, <2>2
      <3> QED BY <1>2, <2>2, <3>1, <3>2 DEF Excess
    <2>3. CASE sends /\ ~(n <= i)
      <3>1. yielded = i /\ tossed = 0
        BY <1>2, <1>4, <1>5, <2>3 DEF Least
      <3> QED BY <1>2, <3>1
    <2> QED BY <2>1, <2>2, <2>3
  <1>14. /\ accepted \in Int /\ (plays => o + accepted <= high)
         /\ n >= 0 \/ ~plays => accepted >= 0
    BY <1>2, <1>6 DEF Least, Excess
  <1>15. /\ pad \in Nat /\ (plays => o + accepted + pad <= high)
         /\ plays => o + accepted + pad >= low \/ ends
    <2>1. CASE pad = 0
      <3>1. plays /\ ~ends => 0 = Excess(low, o + accepted)
        BY <1>12, <2>1 DEF ends
      <3> QED BY <1>2, <1>14, <2>1, <3>1 DEF Excess
    <2>2. CASE pad = Excess(low, o + accepted)
      BY <1>2, <1>11, <1>14, <2>2 DEF Excess
    <2> QED BY <1>10, <2>1, <2>2
  <1>16. qs'[x].in = i - tossed - yielded /\ dev'[x].in = k - tossed - yielded
    BY <1>2, <1>8, <1>9, <1>13
  <1>17. dev'[x].in - qs'[x].in = k - i
    BY <1>2, <1>13, <1>16
  <1>18. dev'[x].out - qs'[x].out = l - o
    BY <1>2, <1>8, <1>9, <1>14, <1>15
  <1>19. n >= 0 \/ ~plays => qs'[x].out >= o
    BY <1>2, <1>8, <1>14, <1>15
  <1>20. plays => qs'[x].out <= high /\ (qs'[x].out >= low \/ ends)
    BY <1>8, <1>15
  <1> QED BY <1>13, <1>16, <1>17, <1>18, <1>19, <1>20
          DEF i, o, k, l, low, high, top, sends, plays, ends

\* A file, a buffer or the null endpoint: no more is taken than there is.
LEMMA StaticMoves ==
    ASSUME Levels, setup \in Pairs, dev \in [Sides -> Queues], NEW known \in [Sides -> Queues],
           NEW n \in Int, NEW x \in Sides, ~HasClock(x), ~DoesLoop(x), NEW moved,
           Moves(x, known, n, moved), known[x].in = dev[x].in
    PROVE  dev'[x].in = moved[x].in /\ dev'[x].in \in Nat
  <1> DEFINE i == dev[x].in
             yielded == Yielded(known, x, n)
  <1>1. i \in Int
    BY DEF Queues
  <1>2. Tossed(known, x, n) = 0
    BY DEF Tossed
  <1>3. yielded = Least(IF x \in config.flows THEN Least(n, i) ELSE 0, i)
    BY DEF Yielded, InXfer
  <1>4. moved[x].in = i - 0 - yielded /\ dev'[x].in = i - 0 - yielded + 0
    BY <1>2 DEF Moves, Believed, Settled
  <1> HIDE DEF i, yielded
  <1>5. yielded \in Int /\ yielded <= i
    BY <1>1, <1>3 DEF Least
  <1> QED BY <1>1, <1>4, <1>5

-----------------------------------------------------------------------------
(* The inductive invariant.                                                *)

Passed == [in : Nat, out : Nat, packets : Nat]

\* A pair of endpoints that the pump has accepted, and what is known of them.
Prepared ==
    /\ setup \in Setups /\ Configures(setup) /\ config = Config(setup)
    /\ dev \in [Sides -> Queues] /\ qs \in [Sides -> Queues]
    /\ since \in [Sides -> Passed] /\ \A x \in Sides \ Cards : since[x].packets = 0
    /\ called \subseteq Cards
    /\ \A x \in Sides : DoesLoop(x) \/ dev[x].in >= 0

\* What the pump believes of a card is true up to what the card has done, and the
\* levels are kept in it.
Followed(x) ==
    /\ dev[x].in = qs[x].in + since[x].in /\ qs[x].in >= 0
    /\ dev[x].out = qs[x].out - since[x].out /\ dev[x].out >= 0
    /\ Other(x) \in config.flows => qs[x].out <= config.outMax[x]

Levelled(x) ==
    /\ Other(x) \in config.flows => \/ qs[x].out >= config.outMin[x]
                                    \/ RemoveOnExhaust(Other(x)) /\ dev[Other(x)].in = 0
    /\ x \in config.flows => qs[x].in <= config.inMax[x]

StreamInv ==
    /\ Prepared
    /\ running => /\ \A x \in Cards : Followed(x)
                  /\ \A x \in called : Levelled(x)

LEMMA PreparedLevels ==
    ASSUME Prepared
    PROVE  Levels /\ setup \in Pairs /\ Cards \subseteq Sides
           /\ \A x \in Cards : /\ HasClock(x) /\ ~DoesLoop(x) /\ ~RemoveOnExhaust(x)
                               /\ CountsOutput(x)
  <1>1. Levels
    BY ConfigDoes DEF Prepared, Levels, Cards
  <1>2. setup \in Pairs
    BY StreamAssumption DEF Prepared
  <1>3. ASSUME NEW x \in Cards
        PROVE  x \in Sides /\ HasClock(x) /\ ~DoesLoop(x) /\ ~RemoveOnExhaust(x)
               /\ CountsOutput(x)
    BY <1>3 DEF Cards, CardsOf, HasClock, DoesLoop, RemoveOnExhaust, CountsOutput, Clocked
  <1> QED BY <1>1, <1>2, <1>3

\* The invariant is enough.
LEMMA LevelsFollow ==
    ASSUME StreamInv PROVE LevelsHold
  <1> SUFFICES ASSUME running PROVE LevelsHold
    BY DEF LevelsHold, LevelsKnown, LevelsKept
  <1>1. Prepared /\ (\A x \in Cards : Followed(x)) /\ (\A x \in called : Levelled(x))
    BY DEF StreamInv
  <1>2. Levels /\ Cards \subseteq Sides /\ called \subseteq Cards
    BY <1>1, PreparedLevels DEF Prepared
  <1>3. LevelsKnown
    BY <1>1 DEF LevelsKnown, Followed
  <1>4. ASSUME NEW x \in called
        PROVE  /\ Other(x) \in config.flows =>
                  /\ dev[x].out <= config.outMax[x]
                  /\ \/ dev[x].out + since[x].out >= config.outMin[x]
                     \/ RemoveOnExhaust(Other(x)) /\ dev[Other(x)].in = 0
               /\ x \in config.flows => dev[x].in <= config.inMax[x] + since[x].in
    <2> DEFINE i == dev[x].in
               o == dev[x].out
               qi == qs[x].in
               qo == qs[x].out
               si == since[x].in
               so == since[x].out
               low == config.outMin[x]
               high == config.outMax[x]
               top == config.inMax[x]
               plays == Other(x) \in config.flows
               sends == x \in config.flows
               ends == RemoveOnExhaust(Other(x)) /\ dev[Other(x)].in = 0
    <2>1. i \in Int /\ o \in Int /\ qi \in Int /\ qo \in Int /\ si \in Nat /\ so \in Nat
      <3>1. dev[x] \in Queues /\ qs[x] \in Queues /\ since[x] \in Passed
        BY <1>1, <1>2 DEF Prepared
      <3> QED BY <3>1 DEF Queues, Passed
    <2>2. low \in Nat /\ high \in Nat /\ top \in Nat
      BY <1>2 DEF Levels
    <2>3. /\ i = qi + si /\ o = qo - so /\ (plays => qo <= high)
          /\ (plays => qo >= low \/ ends) /\ (sends => qi <= top)
      BY <1>1, <1>2 DEF Followed, Levelled
    <2> HIDE DEF i, o, qi, qo, si, so, low, high, top, plays, sends, ends
    <2>4. /\ plays => o <= high /\ (o + so >= low \/ ends)
          /\ sends => i <= top + si
      BY <2>1, <2>2, <2>3
    <2> QED BY <2>4 DEF i, o, si, so, low, high, top, plays, sends, ends
  <1>5. LevelsKept
    BY <1>4 DEF LevelsKept
  <1> QED BY <1>3, <1>5 DEF LevelsHold

-----------------------------------------------------------------------------
(* The steps.                                                              *)

LEMMA ReportQueues ==
    ASSUME dev \in [Sides -> Queues], NEW x \in Sides
    PROVE  Report(x) \in Queues /\ Report(x).in = dev[x].in
           /\ (CountsOutput(x) => Report(x).out = dev[x].out)
  <1> DEFINE u == (ReportsUnderrun(x) /\ dev[x].under)
             i == dev[x].in
             o == IF CountsOutput(x) THEN dev[x].out ELSE 0
  <1>1. u \in BOOLEAN /\ i \in Int /\ o \in Int
    BY DEF Queues
  <1>2. Report(x) = [in |-> i, out |-> o, under |-> u]
    BY DEF Report
  <1> HIDE DEF u, i, o
  <1>3. Report(x) \in Queues /\ Report(x).in = i /\ Report(x).out = o
    BY <1>1, <1>2 DEF Queues
  <1> QED BY <1>3 DEF i, o

LEMMA SeenDoes ==
    ASSUME Prepared, NEW e \in Cards
    PROVE  /\ Seen(e) \in [Sides -> Queues]
           /\ \A x \in Sides : IF HasClock(x) /\ x # e THEN Seen(e)[x] = qs[x]
                               ELSE Seen(e)[x] = Report(x)
  <1>1. ASSUME NEW x \in Sides PROVE Report(x) \in Queues /\ qs[x] \in Queues
    BY ReportQueues DEF Prepared
  <1> QED BY <1>1 DEF Seen

LEMMA LoopedDoes ==
    ASSUME NEW q \in [Sides -> Queues], NEW n \in Int
    PROVE  /\ Looped(q, n) \in [Sides -> Queues]
           /\ \A x \in Sides : DoesLoop(x) \/ Looped(q, n)[x] = q[x]
  <1>1. ASSUME NEW x \in Sides PROVE [q[x] EXCEPT !.in = @ + n] \in Queues
    <2> DEFINE u == q[x].under
               i == q[x].in + n
               o == q[x].out
    <2>1. i \in Int /\ o \in Int /\ u \in BOOLEAN
      BY DEF Queues
    <2>2. [q[x] EXCEPT !.in = @ + n] = [in |-> i, out |-> o, under |-> u]
      BY DEF Queues
    <2> HIDE DEF u, i, o
    <2> QED BY <2>1, <2>2 DEF Queues
  <1> QED BY <1>1 DEF Looped

\* What the pump knows of a card when it is called, and how much it moves.
LEMMA KnownDoes ==
    ASSUME StreamInv, running, NEW e \in Cards, NEW n \in Amounts(Looped(Seen(e), Seen(e)[e].in))
    PROVE  /\ n \in Int /\ (n >= 0 \/ DoesLoop(Other(e)))
           /\ Looped(Seen(e), n) \in [Sides -> Queues]
           /\ \A x \in Cards :
                 LET known == Looped(Seen(e), n) IN
                 /\ known[x].in = IF x = e THEN dev[x].in ELSE qs[x].in
                 /\ known[x].out = IF x = e THEN dev[x].out ELSE qs[x].out
           /\ \A x \in Sides :
                 HasClock(x) \/ DoesLoop(x) \/ Looped(Seen(e), n)[x].in = dev[x].in
  <1> DEFINE seen == Seen(e)
             q == Looped(seen, seen[e].in)
             known == Looped(seen, n)
  <1>1. Prepared /\ \A x \in Cards : Followed(x)
    BY DEF StreamInv
  <1>2. /\ Levels /\ Cards \subseteq Sides /\ dev \in [Sides -> Queues]
        /\ \A x \in Cards : HasClock(x) /\ ~DoesLoop(x) /\ CountsOutput(x)
    BY <1>1, PreparedLevels DEF Prepared
  <1>3. /\ seen \in [Sides -> Queues]
        /\ \A x \in Sides : IF HasClock(x) /\ x # e THEN seen[x] = qs[x] ELSE seen[x] = Report(x)
    BY <1>1, SeenDoes
  <1>4. ASSUME NEW x \in Cards
        PROVE  /\ seen[x].in = IF x = e THEN dev[x].in ELSE qs[x].in
               /\ seen[x].out = IF x = e THEN dev[x].out ELSE qs[x].out
    BY <1>2, <1>3, ReportQueues
  <1>5. ASSUME NEW x \in Sides, ~HasClock(x) PROVE seen[x].in = dev[x].in
    BY <1>2, <1>3, <1>5, ReportQueues
  <1>6. ASSUME NEW x \in Sides, HasClock(x) PROVE x \in Cards
    BY <1>6 DEF HasClock, Cards, CardsOf
  <1> HIDE DEF seen
  <1>7. seen[e] \in Queues /\ seen[e].in \in Int
    <2>1. seen[e] \in Queues
      BY <1>2, <1>3
    <2> QED BY <2>1 DEF Queues
  <1>8. q \in [Sides -> Queues] /\ \A x \in Sides : DoesLoop(x) \/ q[x] = seen[x]
    BY <1>3, <1>7, LoopedDoes
  <1> HIDE DEF q
  <1>9. n \in Int /\ ((\A s \in Sides : q[s].in >= 0) => n >= 0)
    <2>1. n \in Amounts(q)
      BY DEF q, seen
    <2> QED BY <1>2, <1>8, <2>1, AmountsDo
  <1>10. known \in [Sides -> Queues] /\ \A x \in Sides : DoesLoop(x) \/ known[x] = seen[x]
    BY <1>3, <1>9, LoopedDoes
  <1>11. n >= 0 \/ DoesLoop(Other(e))
    <2> SUFFICES ASSUME ~DoesLoop(Other(e)) PROVE \A s \in Sides : q[s].in >= 0
      BY <1>9
    <2> SUFFICES ASSUME NEW s \in Sides PROVE q[s].in >= 0
      OBVIOUS
    <2>1. ~DoesLoop(s) /\ q[s] = seen[s]
      BY <1>2, <1>8, TwoSides
    <2>2. dev[s].in >= 0
      BY <1>1, <2>1 DEF Prepared
    <2>3. CASE s \in Cards
      BY <1>1, <1>4, <2>1, <2>2, <2>3 DEF Followed
    <2>4. CASE s \notin Cards
      BY <1>5, <1>6, <2>1, <2>2, <2>4
    <2> QED BY <2>3, <2>4
  <1> HIDE DEF known
  <1>12. \A x \in Cards : /\ known[x].in = IF x = e THEN dev[x].in ELSE qs[x].in
                          /\ known[x].out = IF x = e THEN dev[x].out ELSE qs[x].out
    BY <1>2, <1>4, <1>10
  <1>13. \A x \in Sides : HasClock(x) \/ DoesLoop(x) \/ known[x].in = dev[x].in
    BY <1>5, <1>10
  <1> QED BY <1>9, <1>10, <1>11, <1>12, <1>13 DEF known, seen

\* A card has called, and n samples are moved.
LEMMA ProcessKeeps ==
    ASSUME StreamInv, NEW e \in Sides, Process(e)
    PROVE  StreamInv'
  <1>1. Prepared /\ (\A x \in Cards : Followed(x)) /\ running /\ since[e].packets > 0
    BY DEF StreamInv, Process
  <1>2. /\ Levels /\ setup \in Pairs /\ Cards \subseteq Sides
        /\ \A x \in Cards : HasClock(x) /\ ~DoesLoop(x)
    BY <1>1, PreparedLevels
  <1>3. e \in Cards
    BY <1>1 DEF Prepared
  <1>4. PICK n \in Amounts(Looped(Seen(e), Seen(e)[e].in)) : Transfer(e, Looped(Seen(e), n), n)
    BY DEF Process
  <1> DEFINE known == Looped(Seen(e), n)
  <1>5. /\ n \in Int /\ (n >= 0 \/ DoesLoop(Other(e))) /\ known \in [Sides -> Queues]
        /\ \A x \in Cards : /\ known[x].in = IF x = e THEN dev[x].in ELSE qs[x].in
                            /\ known[x].out = IF x = e THEN dev[x].out ELSE qs[x].out
        /\ \A x \in Sides : HasClock(x) \/ DoesLoop(x) \/ known[x].in = dev[x].in
    BY <1>1, <1>3, KnownDoes
  <1>6. /\ since' = [since EXCEPT ![e] = Nothing] /\ called' = called \cup {e}
        /\ UNCHANGED <<setup, config>>
    BY <1>4 DEF Transfer
  <1>7. Transfer(e, known, n)
    BY <1>4
  <1> HIDE DEF known
  <1>8. PICK moved : /\ \A x \in Sides : Moves(x, known, n, moved)
                     /\ qs' = [x \in Sides |-> qs'[x]] /\ dev' = [x \in Sides |-> dev'[x]]
    BY <1>7, TransferDoes
  <1>9. dev \in [Sides -> Queues] /\ qs \in [Sides -> Queues] /\ since \in [Sides -> Passed]
    BY <1>1 DEF Prepared
  <1>10. ASSUME NEW x \in Sides PROVE qs'[x] \in Queues /\ dev'[x] \in Queues
    BY <1>2, <1>5, <1>8, <1>9, MovedTypes
  <1>11. qs' \in [Sides -> Queues] /\ dev' \in [Sides -> Queues]
    BY <1>8, <1>10
  <1>12. since' \in [Sides -> Passed] /\ \A x \in Sides : since'[x] = IF x = e THEN Nothing ELSE since[x]
    BY <1>6, <1>9 DEF Passed, Nothing
  <1>13. ASSUME NEW x \in Sides, ~HasClock(x), ~DoesLoop(x)
         PROVE  dev'[x].in = moved[x].in /\ dev'[x].in \in Nat
    BY <1>2, <1>5, <1>8, <1>9, <1>13, StaticMoves
  <1>14. ASSUME NEW x \in Cards
         PROVE  /\ dev'[x].in = qs'[x].in + since'[x].in /\ qs'[x].in >= 0
                /\ dev'[x].out = qs'[x].out - since'[x].out /\ dev'[x].out >= 0
                /\ Other(x) \in config.flows => qs'[x].out <= config.outMax[x]
                /\ Other(x) \in config.flows =>
                     \/ qs'[x].out >= config.outMin[x]
                     \/ RemoveOnExhaust(Other(x)) /\ ~(moved[Other(x)].in > 0)
                /\ x \in config.flows => qs'[x].in <= config.inMax[x]
    <2> DEFINE i == dev[x].in
               o == dev[x].out
               qi == qs[x].in
               qo == qs[x].out
               ki == known[x].in
               ko == known[x].out
               si == since[x].in
               so == since[x].out
               i2 == dev'[x].in
               o2 == dev'[x].out
               qi2 == qs'[x].in
               qo2 == qs'[x].out
               plays == Other(x) \in config.flows
    <2>1. x \in Sides
      BY <1>2
    <2>2. /\ i \in Int /\ o \in Int /\ qi \in Int /\ qo \in Int /\ si \in Nat /\ so \in Nat
          /\ i2 \in Int /\ o2 \in Int /\ qi2 \in Int /\ qo2 \in Int
          /\ config.outMin[x] \in Nat /\ config.outMax[x] \in Nat
      BY <1>2, <1>9, <1>10, <2>1 DEF Queues, Passed, Levels
    <2>3. /\ i = qi + si /\ qi >= 0 /\ o = qo - so /\ o >= 0
          /\ (plays => qo <= config.outMax[x])
      BY <1>1 DEF Followed
    <2>4. ki = (IF x = e THEN i ELSE qi) /\ ko = (IF x = e THEN o ELSE qo)
      BY <1>5
    <2>5. ki >= 0 /\ i >= ki /\ (plays => ko <= config.outMax[x])
      <3> HIDE DEF i, o, qi, qo, ki, ko, si, so, plays
      <3> QED BY <2>2, <2>3, <2>4
    <2>6. /\ i2 - qi2 = i - ki /\ o2 - qo2 = o - ko
          /\ qi2 >= 0 /\ (x \in config.flows => qi2 <= config.inMax[x])
          /\ plays => qo2 <= config.outMax[x]
          /\ n >= 0 \/ ~plays => qo2 >= ko
          /\ plays => \/ qo2 >= config.outMin[x]
                      \/ RemoveOnExhaust(Other(x)) /\ ~(moved[Other(x)].in > 0)
      BY <1>2, <1>5, <1>8, <1>9, <2>1, <2>5, CardMoves
    <2>7. since'[x].in = (IF x = e THEN 0 ELSE si) /\ since'[x].out = (IF x = e THEN 0 ELSE so)
      BY <1>12, <2>1 DEF Nothing
    <2>8. n >= 0 \/ (x = e /\ ~RemoveOnExhaust(Other(x)))
      <3>1. CASE n >= 0
        BY <3>1
      <3>2. CASE DoesLoop(Other(e))
        <4>1. Other(e) \notin Cards
          BY <1>2, <3>2
        <4>2. x = e
          BY <1>3, <2>1, <1>2, <4>1, TwoSides
        <4>3. ~RemoveOnExhaust(Other(e))
          BY <3>2 DEF RemoveOnExhaust, DoesLoop
        <4> QED BY <4>2, <4>3
      <3> QED BY <1>5, <3>1, <3>2
    <2> DEFINE si2 == since'[x].in
               so2 == since'[x].out
               ends == RemoveOnExhaust(Other(x)) /\ ~(moved[Other(x)].in > 0)
    <2> HIDE DEF i, o, qi, qo, ki, ko, si, so, i2, o2, qi2, qo2, plays, si2, so2
    <2>9. n >= 0 \/ (x = e /\ (plays => qo2 >= config.outMin[x]))
      <3>1. plays => qo2 >= config.outMin[x] \/ RemoveOnExhaust(Other(x))
        BY <2>6
      <3> QED BY <2>8, <3>1
    <2> HIDE DEF ends
    <2>10. i2 = qi2 + si2 /\ o2 = qo2 - so2
      <3>1. i2 - qi2 = si2
        BY <2>2, <2>3, <2>4, <2>6, <2>7 DEF si2
      <3>2. qo2 - o2 = so2
        BY <2>2, <2>3, <2>4, <2>6, <2>7 DEF so2
      <3>3. si2 \in Int /\ so2 \in Int
        BY <2>2, <2>7 DEF si2, so2
      <3> QED BY <2>2, <3>1, <3>2, <3>3
    <2>11. o2 >= 0
      <3>1. CASE n >= 0 \/ ~plays
        BY <2>2, <2>3, <2>4, <2>6, <3>1
      <3>2. CASE plays /\ ~(n >= 0)
        BY <2>2, <2>3, <2>4, <2>6, <2>9, <3>2
      <3> QED BY <3>1, <3>2
    <2> QED BY <2>6, <2>10, <2>11 DEF i2, o2, qi2, qo2, si2, so2, plays, ends
  <1>15. Cards' = Cards /\ \A x \in Sides : (DoesLoop(x))' = DoesLoop(x)
                                         /\ (RemoveOnExhaust(x))' = RemoveOnExhaust(x)
    BY <1>6 DEF Cards, DoesLoop, RemoveOnExhaust
  <1>16. \A x \in Cards : Followed(x)' /\ Levelled(x)'
    <2> SUFFICES ASSUME NEW x \in Cards PROVE Followed(x)' /\ Levelled(x)'
      OBVIOUS
    <2>1. Followed(x)'
      BY <1>6, <1>14 DEF Followed
    <2>2. Other(x) \in Sides
      BY <1>2, TwoSides
    <2>3. RemoveOnExhaust(Other(x)) => ~HasClock(Other(x)) /\ ~DoesLoop(Other(x))
      BY DEF RemoveOnExhaust, HasClock, DoesLoop, Clocked
    <2>4. RemoveOnExhaust(Other(x)) /\ ~(moved[Other(x)].in > 0) => dev'[Other(x)].in = 0
      <3> DEFINE m == dev'[Other(x)].in
      <3> SUFFICES ASSUME RemoveOnExhaust(Other(x)), ~(moved[Other(x)].in > 0) PROVE m = 0
        OBVIOUS
      <3>1. m \in Nat /\ ~(m > 0)
        BY <1>13, <2>2, <2>3
      <3> HIDE DEF m
      <3> QED BY <3>1
    <2>5. Levelled(x)'
      BY <1>6, <1>14, <1>15, <2>2, <2>4 DEF Levelled
    <2> QED BY <2>1, <2>5
  <1>17. Prepared'
    <2>1. (setup \in Setups /\ Configures(setup) /\ config = Config(setup))'
      BY <1>1, <1>6 DEF Prepared
    <2>2. \A x \in Sides \ Cards : since'[x].packets = 0
      BY <1>1, <1>12 DEF Prepared, Nothing
    <2>3. called' \subseteq Cards
      BY <1>1, <1>3, <1>6 DEF Prepared
    <2>4. ASSUME NEW x \in Sides PROVE DoesLoop(x) \/ dev'[x].in >= 0
      <3>1. CASE HasClock(x)
        <4>1. x \in Cards
          BY <3>1 DEF HasClock, Cards, CardsOf
        <4>2. dev'[x].in = qs'[x].in + since'[x].in /\ qs'[x].in >= 0
          BY <1>14, <4>1
        <4>3. qs'[x].in \in Int /\ since'[x].in \in Nat
          BY <1>10, <1>12 DEF Queues, Passed
        <4> QED BY <4>2, <4>3
      <3>2. CASE ~HasClock(x)
        BY <1>13, <3>2
      <3> QED BY <3>1, <3>2
    <2> QED BY <1>11, <1>12, <1>15, <2>1, <2>2, <2>3, <2>4 DEF Prepared
  <1>18. called' \subseteq Cards'
    BY <1>17 DEF Prepared
  <1> QED BY <1>15, <1>16, <1>17, <1>18 DEF StreamInv

\* A card moves a packet of its own.
LEMMA ClockKeeps ==
    ASSUME StreamInv, NEW e \in Sides, Clock(e)
    PROVE  StreamInv'
  <1> DEFINE p == setup[e].packet
             in == IF e \in config.flows THEN p ELSE 0
             out == IF Other(e) \in config.flows THEN Least(p, dev[e].out) ELSE 0
             u == (dev[e].under \/ UnderrunAfter(e))
  <1>1. /\ Prepared /\ (\A x \in Cards : Followed(x)) /\ (\A x \in called : Levelled(x))
        /\ running /\ HasClock(e)
    BY DEF StreamInv, Clock
  <1>2. Levels /\ setup \in Pairs /\ Cards \subseteq Sides /\ e \in Cards
    <2>1. e \in Cards
      BY <1>1 DEF HasClock, Cards, CardsOf
    <2> QED BY <1>1, <2>1, PreparedLevels
  <1>3. /\ dev' = [dev EXCEPT ![e] = [in |-> dev[e].in + in, out |-> dev[e].out - out,
                                      under |-> u]]
        /\ since' = [since EXCEPT ![e] = [in |-> since[e].in + in, out |-> since[e].out + out,
                                          packets |-> since[e].packets + 1]]
        /\ UNCHANGED <<setup, config, running, qs, called>>
    BY DEF Clock
  <1>4. /\ dev \in [Sides -> Queues] /\ qs \in [Sides -> Queues] /\ since \in [Sides -> Passed]
        /\ called \subseteq Cards
    BY <1>1 DEF Prepared
  <1>5. p \in Nat
    BY <1>2, PairType
  <1>6. u \in BOOLEAN
    OBVIOUS
  <1>7. dev[e].in \in Int /\ dev[e].out \in Int /\ dev[e].out >= 0 /\ dev[e].in >= 0
        /\ since[e].in \in Nat /\ since[e].out \in Nat /\ since[e].packets \in Nat
    <2>1. dev[e] \in Queues /\ since[e] \in Passed
      BY <1>4
    <2>2. dev[e].out >= 0 /\ dev[e].in >= 0
      <3>1. ~DoesLoop(e)
        BY <1>1, <1>2, PreparedLevels
      <3> QED BY <1>1, <1>2, <3>1 DEF Followed, Prepared
    <2> QED BY <2>1, <2>2 DEF Queues, Passed
  <1> HIDE DEF p
  <1>8. in \in Nat /\ out \in Nat /\ out <= dev[e].out
    BY <1>5, <1>7 DEF Least
  <1> HIDE DEF in, out, u
  <1> DEFINE d == [in |-> dev[e].in + in, out |-> dev[e].out - out, under |-> u]
             s == [in |-> since[e].in + in, out |-> since[e].out + out,
                   packets |-> since[e].packets + 1]
  <1>9. d \in Queues /\ s \in Passed
    BY <1>6, <1>7, <1>8 DEF Queues, Passed
  <1>10. /\ d.in = dev[e].in + in /\ d.out = dev[e].out - out
         /\ s.in = since[e].in + in /\ s.out = since[e].out + out
    OBVIOUS
  <1> HIDE DEF d, s
  <1>11. /\ dev' \in [Sides -> Queues] /\ since' \in [Sides -> Passed]
         /\ \A x \in Sides : /\ dev'[x] = IF x = e THEN d ELSE dev[x]
                             /\ since'[x] = IF x = e THEN s ELSE since[x]
    BY <1>3, <1>4, <1>9 DEF d, s
  <1>12. Cards' = Cards /\ \A x \in Sides : (DoesLoop(x))' = DoesLoop(x)
                                         /\ (RemoveOnExhaust(x))' = RemoveOnExhaust(x)
    BY <1>3 DEF Cards, DoesLoop, RemoveOnExhaust
  <1>13. Prepared'
    <2>1. (setup \in Setups /\ Configures(setup) /\ config = Config(setup))'
      BY <1>1, <1>3 DEF Prepared
    <2>2. \A x \in Sides \ Cards : since'[x].packets = 0
      BY <1>1, <1>2, <1>11 DEF Prepared
    <2>3. ASSUME NEW x \in Sides PROVE DoesLoop(x) \/ dev'[x].in >= 0
      <3>1. d.in >= 0
        BY <1>7, <1>8, <1>10
      <3> QED BY <1>1, <1>11, <3>1 DEF Prepared
    <2> QED BY <1>3, <1>4, <1>11, <1>12, <2>1, <2>2, <2>3 DEF Prepared
  <1>14. ASSUME NEW x \in Cards PROVE Followed(x)'
    <2>1. CASE x = e
      <3> DEFINE qi == qs[e].in
                 qo == qs[e].out
                 di == d.in
                 do == d.out
                 si == s.in
                 so == s.out
      <3>1. qi \in Int /\ qo \in Int
        BY <1>2, <1>4 DEF Queues
      <3>2. /\ dev[e].in = qi + since[e].in /\ qi >= 0 /\ dev[e].out = qo - since[e].out
            /\ Other(e) \in config.flows => qo <= config.outMax[e]
        BY <1>1, <1>2 DEF Followed
      <3> HIDE DEF qi, qo
      <3>3. di = qi + si /\ do = qo - so /\ do >= 0
        BY <1>7, <1>8, <1>10, <3>1, <3>2
      <3>4. dev'[e] = d /\ since'[e] = s
        BY <1>11
      <3> QED BY <1>3, <2>1, <3>2, <3>3, <3>4 DEF Followed, qi, qo
    <2>2. CASE x # e
      <3>1. dev'[x] = dev[x] /\ since'[x] = since[x]
        BY <1>2, <1>11, <2>2
      <3> QED BY <1>1, <1>3, <3>1 DEF Followed
    <2> QED BY <2>1, <2>2
  <1>15. ASSUME NEW x \in called PROVE Levelled(x)'
    <2>1. x \in Sides /\ Other(x) \in Sides
      BY <1>2, <1>4, TwoSides
    <2>2. RemoveOnExhaust(Other(x)) => dev'[Other(x)] = dev[Other(x)]
      <3>1. RemoveOnExhaust(Other(x)) => Other(x) # e
        BY <1>1, <1>2, PreparedLevels
      <3> QED BY <1>11, <2>1, <3>1
    <2>3. Levelled(x)
      BY <1>1
    <2> QED BY <1>3, <1>12, <2>1, <2>2, <2>3 DEF Levelled
  <1> QED BY <1>3, <1>12, <1>13, <1>14, <1>15 DEF StreamInv

\* Endpoints that have just been opened.
LEMMA OpenedQueues ==
    ASSUME NEW p \in Pairs
    PROVE  /\ Opened(p) \in [Sides -> Queues]
           /\ \A x \in Sides : Opened(p)[x].in >= 0 /\ Opened(p)[x].out = 0
  <1>1. ASSUME NEW x \in Sides
        PROVE  LET q == [Silent EXCEPT !.in = p[x].content] IN
               q \in Queues /\ q.in >= 0 /\ q.out = 0
    <2> DEFINE c == p[x].content
    <2>1. c \in Nat
      BY PairType
    <2>2. [Silent EXCEPT !.in = c] = [in |-> c, out |-> 0, under |-> FALSE]
      <3>1. Silent \in Queues /\ Silent.out = 0 /\ Silent.under = FALSE
        BY DEF Silent, Queues
      <3> HIDE DEF c
      <3>2. [Silent EXCEPT !.in = c] = [in |-> c, out |-> Silent.out, under |-> Silent.under]
        BY <3>1 DEF Queues
      <3> QED BY <3>1, <3>2
    <2> HIDE DEF c
    <2>3. [in |-> c, out |-> 0, under |-> FALSE] \in Queues
      BY <2>1 DEF Queues
    <2> QED BY <2>1, <2>2, <2>3 DEF c
  <1> QED BY <1>1 DEF Opened

LEMMA NothingPassed == Nothing \in Passed /\ Nothing.in = 0 /\ Nothing.out = 0 /\ Nothing.packets = 0
  BY DEF Nothing, Passed

LEMMA StartKeeps ==
    ASSUME Start
    PROVE  StreamInv'
  <1>1. /\ setup' \in Setups /\ dev' = Opened(setup') /\ Configures(setup')
        /\ config' = Config(setup') /\ qs' = [x \in Sides |-> Report(x)']
        /\ since' = [x \in Sides |-> Nothing] /\ called' = {}
    BY DEF Start
  <1>2. setup' \in Pairs
    BY <1>1, StreamAssumption
  <1>3. /\ dev' \in [Sides -> Queues]
        /\ \A x \in Sides : dev'[x].in >= 0 /\ dev'[x].out = 0
    BY <1>1, <1>2, OpenedQueues
  <1>4. ASSUME NEW x \in Sides
        PROVE  /\ (Report(x))' \in Queues /\ (Report(x))'.in = dev'[x].in
               /\ (Report(x))'.out = 0
    <2> DEFINE u == (ReportsUnderrun(x))' /\ dev'[x].under
               i == dev'[x].in
    <2>1. u \in BOOLEAN /\ i \in Int
      BY <1>3 DEF Queues
    <2>2. (Report(x))' = [in |-> i, out |-> 0, under |-> u]
      BY <1>3 DEF Report
    <2> HIDE DEF u, i
    <2>3. [in |-> i, out |-> 0, under |-> u] \in Queues
      BY <2>1 DEF Queues
    <2> QED BY <2>2, <2>3 DEF i
  <1>5. qs' \in [Sides -> Queues] /\ \A x \in Sides : qs'[x].in = dev'[x].in /\ qs'[x].out = 0
    BY <1>1, <1>4
  <1>6. /\ since' \in [Sides -> Passed]
        /\ \A x \in Sides : since'[x].in = 0 /\ since'[x].out = 0 /\ since'[x].packets = 0
    BY <1>1, NothingPassed
  <1>7. Prepared'
    BY <1>1, <1>3, <1>5, <1>6 DEF Prepared
  <1>8. Levels' /\ Cards' \subseteq Sides
    <2>1. Levels'
      BY <1>1, ConfigDoes DEF Levels, Cards
    <2> QED BY <2>1 DEF Cards, CardsOf
  <1>9. ASSUME NEW x \in Cards' PROVE Followed(x)'
    <2>1. x \in Sides /\ dev'[x].in \in Int
      BY <1>3, <1>8 DEF Queues
    <2>2. dev'[x].in = qs'[x].in + since'[x].in /\ dev'[x].out = qs'[x].out - since'[x].out
      BY <1>3, <1>5, <1>6, <2>1
    <2>3. 0 <= config'.outMax[x]
      BY <1>8, <2>1 DEF Levels
    <2> QED BY <1>3, <1>5, <2>1, <2>2, <2>3 DEF Followed
  <1> QED BY <1>1, <1>7, <1>9 DEF StreamInv

\* However late a card calls, and however many samples are moved: the pump knows
\* what is in the queues of the cards, and keeps them between their levels
\* (LevelsHold; AsyncProcess and BestXfer).
THEOREM LevelsAlwaysHold == StreamSpec => []LevelsHold
  <1>1. StreamInit => StreamInv
    <2> SUFFICES ASSUME StreamInit PROVE StreamInv
      OBVIOUS
    <2>1. setup \in Pairs
      BY StreamAssumption DEF StreamInit
    <2>2. /\ dev \in [Sides -> Queues] /\ \A x \in Sides : dev[x].in >= 0
      BY <2>1, OpenedQueues DEF StreamInit
    <2>3. Silent \in Queues
      BY DEF Silent, Queues
    <2>4. since \in [Sides -> Passed] /\ \A x \in Sides : since[x].packets = 0
      BY NothingPassed DEF StreamInit
    <2>5. Prepared /\ ~running
      BY <2>2, <2>3, <2>4 DEF StreamInit, Prepared
    <2> QED BY <2>5 DEF StreamInv
  <1>2. StreamInv /\ [StreamNext]_streamVars => StreamInv'
    <2> SUFFICES ASSUME StreamInv, [StreamNext]_streamVars PROVE StreamInv'
      OBVIOUS
    <2>1. CASE Start
      BY <2>1, StartKeeps
    <2>2. ASSUME NEW e \in Sides, Clock(e) PROVE StreamInv'
      BY <2>2, ClockKeeps
    <2>3. ASSUME NEW e \in Sides, Process(e) PROVE StreamInv'
      BY <2>3, ProcessKeeps
    <2>4. CASE UNCHANGED streamVars
      BY <2>4 DEF streamVars, StreamInv, Prepared, Followed, Levelled, Cards, DoesLoop,
                  RemoveOnExhaust
    <2> QED BY <2>1, <2>2, <2>3, <2>4 DEF StreamNext
  <1>3. StreamInv => LevelsHold
    BY LevelsFollow
  <1> QED BY <1>1, <1>2, <1>3, PTL DEF StreamSpec
=============================================================================
