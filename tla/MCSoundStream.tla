--------------------------- MODULE MCSoundStream ---------------------------
(* SoundStream with pairs of endpoints of each kind.                       *)
EXTENDS SoundStream

Endpoint(kind, packet, size, content, source, sink) ==
    [kind |-> kind, packet |-> packet, size |-> size, content |-> content,
     source |-> source, sink |-> sink, tolerant |-> FALSE]

Card(packet, size) == Endpoint("card", packet, size, 0, TRUE, TRUE)
Voice(packet) == [Card(packet, 0) EXCEPT !.kind = "voice", !.tolerant = TRUE]
File(content) == Endpoint("file", 2, 0, content, TRUE, FALSE)
Membuf(size, content) == Endpoint("membuf", 2, size, content, content > 0, size > 0)
Loopback == Endpoint("loop", 2, 0, 0, TRUE, TRUE)
NullEndpoint == Endpoint("null", 2, 0, 0, TRUE, TRUE)

Pair(b, t, outMin, window) ==
    [bottom |-> b, top |-> t, outMin |-> outMin, window |-> window, late |-> 1]

\* The calls come so late that a card may have nothing left to play.
Late(p) == [p EXCEPT !.late = 3]

MCSetups ==
    {Pair(Voice(2), Card(2, 0), 0, 0), Pair(Voice(2), Card(2, 0), 8, 0),
     Pair(Card(2, 0), Card(4, 16), 0, 0), Pair(Card(2, 0), Card(4, 0), 12, 12),
     Pair(Card(2, 16), Loopback, 0, 0), Pair(NullEndpoint, Card(2, 0), 0, 0),
     Pair(Card(2, 0), File(3), 0, 0), Pair(Card(2, 0), File(9), 0, 0),
     Pair(Card(2, 0), Membuf(5, 0), 0, 0), Pair(Membuf(5, 9), Card(2, 0), 6, 0),
     Pair(Voice(2), Membuf(0, 7), 0, 0),
     Late(Pair(Card(2, 0), File(9), 0, 0)), Late(Pair(Voice(2), Card(2, 0), 0, 0)),
     Late(Pair(Card(2, 16), Loopback, 0, 0))}
=============================================================================
