----------------------------- MODULE PacketSeq ------------------------------
(***************************************************************************)
(* The buffer of an endpoint (PacketSeq in libhfp/soundio-buf.h): a list   *)
(* of packets, which one side fills and the other drains.  Each gets a     *)
(* pointer into the buffer, gives up the lock while it reads or writes     *)
(* there, and says afterwards how far it has come: the threads of the ALSA *)
(* endpoint on one side and the pump, in the main thread, on the other.    *)
(*                                                                         *)
(* Packets that are not in the list are kept for use again, so a pointer   *)
(* into one that was released is into one that may be somewhere else.      *)
(***************************************************************************)
EXTENDS Integers

CONSTANTS
    Size,       \* samples in a packet
    MaxFilled   \* samples that are put in, a bound

ASSUME SizeAssumption == Size \in Nat \ {0} /\ MaxFilled \in Nat

VARIABLES
    npackets,   \* m_npackets
    headStart,  \* m_head_start
    tailEnd,    \* m_tail_end
    released,   \* packets that have left the list since it was cleared
    filled,     \* samples that were put in since
    filling,    \* samples that the one side may put where its pointer is
    writer,     \* the place in the buffer it points to
    drained,    \* samples that were taken out
    draining,   \* samples that the other side may take where its pointer is
    reader      \* the place it points to

seqVars == <<npackets, headStart, tailEnd, released>>
fillVars == <<filled, filling, writer>>
drainVars == <<drained, draining, reader>>
vars == <<seqVars, fillVars, drainVars>>

TypeOK ==
    /\ npackets \in Nat /\ released \in Nat
    /\ filled \in Nat /\ filling \in Nat /\ writer \in Nat
    /\ drained \in Nat /\ draining \in Nat /\ reader \in Nat
    /\ headStart \in 0 .. Size - 1
    /\ tailEnd \in 0 .. Size

Init ==
    /\ npackets = 0 /\ headStart = 0 /\ tailEnd = 0 /\ released = 0
    /\ filled = 0 /\ filling = 0 /\ writer = 0
    /\ drained = 0 /\ draining = 0 /\ reader = 0

-----------------------------------------------------------------------------
(* Places are numbered from the first packet of the list on, those of the  *)
(* packets that have left it included.                                     *)

\* Where the next sample is taken from, and where it is put.
ReadPlace == released * Size + headStart
WritePlace ==
    IF npackets = 0 THEN released * Size ELSE (released + npackets - 1) * Size + tailEnd

\* The packets between the first and the last are full.
TotalFill ==
    CASE npackets = 0 -> 0
      [] npackets = 1 -> tailEnd - headStart
      [] OTHER -> (npackets - 2) * Size + tailEnd + (Size - headStart)

\* Mutant: the only packet is taken for a full one.
PeeksTooFar == IF npackets = 0 THEN 0 ELSE Size - headStart

\* The samples that Peek finds in one piece.
Peeked ==
    CASE npackets = 0 -> 0
      [] npackets = 1 -> tailEnd - headStart
      [] OTHER -> Size - headStart

-----------------------------------------------------------------------------
(* The side that fills the buffer.                                         *)

\* A packet is added when there is none or the last is full.
GetUnfilled ==
    /\ IF npackets = 0 \/ tailEnd = Size
       THEN /\ npackets' = npackets + 1
            /\ tailEnd' = IF npackets = 0 THEN tailEnd ELSE 0
       ELSE UNCHANGED <<npackets, tailEnd>>
    /\ filling' \in 1 .. Size - tailEnd'
    /\ writer' = (released + npackets' - 1) * Size + tailEnd'
    /\ UNCHANGED <<headStart, released, filled, drainVars>>

PutUnfilled ==
    /\ filling > 0
    /\ \E n \in 0 .. filling :
        /\ filled + n <= MaxFilled
        /\ tailEnd' = tailEnd + n
        /\ filled' = filled + n
    /\ filling' = 0
    /\ UNCHANGED <<npackets, headStart, released, writer, drainVars>>

-----------------------------------------------------------------------------
(* The side that drains it.                                                *)

Peek ==
    /\ draining' \in 1 .. Peeked
    /\ reader' = ReadPlace
    /\ UNCHANGED <<seqVars, fillVars, drained>>

\* Mutant: a packet is released as soon as nothing is left in it.
ReleasesEmptied(n) ==
    /\ \E k \in 0 .. npackets, start \in 0 .. Size - 1 :
        /\ headStart + n = k * Size + start
        /\ IF npackets = 1 /\ headStart + n = tailEnd
           THEN npackets' = 0 /\ released' = released + 1 /\ headStart' = 0 /\ tailEnd' = 0
           ELSE /\ npackets' = npackets - k /\ released' = released + k
                /\ headStart' = start /\ UNCHANGED tailEnd
    /\ drained' = drained + n /\ draining' = 0
    /\ UNCHANGED <<reader, fillVars>>

\* Packets are released when their last place was read.  m_tail_end is set back
\* only where the list was of one packet.
Dequeue(n) ==
    /\ \E k \in 0 .. npackets, start \in 0 .. Size - 1 :
        /\ headStart + n = k * Size + start
        /\ npackets' = npackets - k
        /\ released' = released + k
        /\ headStart' = start
        /\ tailEnd' = IF npackets = 1 /\ k = 1 THEN 0 ELSE tailEnd
    /\ drained' = drained + n /\ draining' = 0
    /\ UNCHANGED <<reader, fillVars>>

\* What was read is dequeued, or a part of it.
DequeueRead == draining > 0 /\ \E n \in 0 .. draining : Dequeue(n)

\* The pump tosses what is too much of the input and keeps some.
Toss == \E n \in 1 .. TotalFill - 1 : Dequeue(n)

-----------------------------------------------------------------------------

\* BufClose, when no thread is left that uses the buffer.
Clear ==
    /\ npackets' = 0 /\ headStart' = 0 /\ tailEnd' = 0 /\ released' = 0
    /\ filled' = 0 /\ filling' = 0 /\ writer' = 0
    /\ drained' = 0 /\ draining' = 0 /\ reader' = 0

Next == GetUnfilled \/ PutUnfilled \/ Peek \/ DequeueRead \/ Toss \/ Clear

Spec == Init /\ [][Next]_vars

-----------------------------------------------------------------------------
(* Properties.                                                             *)

\* A list with no packet is as GetUnfilled asserts.
EmptyIsClean == npackets = 0 => headStart = 0 /\ tailEnd = 0

\* Each sample is put at the place of its number and taken from there, and
\* TotalFill is what lies between the two.
PlacesKept == WritePlace = filled /\ ReadPlace = drained /\ TotalFill = filled - drained

\* While one side uses its pointer the other does not release the packet it
\* points into, nor move what it is to write or read.
PointersKept ==
    /\ filling > 0 =>
        npackets > 0 /\ writer = WritePlace /\ filling <= Size - tailEnd
    /\ draining > 0 =>
        reader = ReadPlace /\ draining <= Peeked

\* The three together: what either side does between two uses of the lock is
\* safe, and no assertion of PacketSeq fails.
BufferSafe == EmptyIsClean /\ PlacesKept /\ PointersKept

\* The buffer implements SampleFifo.
Fifo == INSTANCE SampleFifo
FifoSpec == Fifo!Spec
=============================================================================
