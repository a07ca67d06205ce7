-------------------------- MODULE HfpCommandsProofs --------------------------
(***************************************************************************)
(* Every pending object is called exactly once, commands are sent one at a *)
(* time and in order, and a deleted command is only used after a           *)
(* disconnection: for any pending objects, any number of commands and      *)
(* callbacks nested to any depth.                                          *)
(***************************************************************************)
EXTENDS HfpCommands, FiniteSetTheorems, SequenceTheorems, TLAPS

Frame == {"client", "complete", "use", "delete", "settle", "abort", "quiet", "hangup"}

\* The frames of __Disconnect, and those that use the first command.
Aborts == {"abort", "quiet", "hangup"}
Users == {"complete", "use", "delete"}

\* There is a frame of F on st.
Has(st, F) == \E k \in 1 .. Len(st) : st[k] \in F

\* A frame of G is on top of every frame of U: it will be popped first.
Guarded(st, U, G) ==
    \A k \in 1 .. Len(st) : st[k] \in U => \E j \in 1 .. k - 1 : st[j] \in G

\* Nobody uses the first command after it was deleted, nor after HfpConsume,
\* which are not called while clients are told of the audio.
Lasts == Users \cup {"hangup"}
Ordered(st) ==
    \A k \in 1 .. Len(st) : \A j \in 1 .. k - 1 :
        st[j] \in {"delete", "settle"} => st[k] \notin Lasts

\* A disconnection is under way; the first command will be deleted; the first command
\* will be used again.
Aborting(st) == Has(st, Aborts)
Answering(st) == Has(st, {"delete"})
Using(st) == Has(st, Users)

\* The queue is being emptied; clients are being told of the audio.
Emptying(st) == Has(st, {"abort", "quiet"})
Reasoned(st) == Has(st, {"abort"})
Telling(st) == Has(st, {"hangup"})

\* Before it is deleted, the first command will call its client; before it is
\* used, a disconnection will be made.
WillComplete(st) == Guarded(st, {"delete"}, {"complete"} \cup Aborts)
WillAbort(st) == Guarded(st, Users, Aborts)

\* The pending objects w are those of the commands q, each of one command.
Tracks(q, w) ==
    /\ \A p \in Pend : p \in w <=> \E i \in 1 .. Len(q) : q[i].pend = p
    /\ \A i, j \in 1 .. Len(q) :
          q[i].pend = q[j].pend /\ q[i].pend \in Pend => i = j

\* The command that is going to be deleted has called its client, or there is
\* none after a disconnection.
CompletedFirst ==
    \/ queue # <<>> /\ queue[1].pend = NoPend
    \/ rfcomm # "Connected"
    \/ WillComplete(stack)

\* The command that is going to be used has not been deleted, unless by a
\* disconnection, made or still to be made.
StillThere ==
    \/ queue # <<>> \/ rfcomm # "Connected"
    \/ WillAbort(stack)

\* The device has the first command, or its answer is being processed.
Idle == queue = <<>> /\ wire = <<>>
Sent == queue # <<>> /\ timer /\ wire = <<queue[1].kind>> /\ ~Outlived

\* Or the first command has outlived its connection and only its timer runs.
Left == queue # <<>> /\ timer /\ wire = <<>> /\ Outlived

WireFollows ==
    \/ Aborting(stack)
    \/ Answering(stack) /\ wire = <<>>
    \/ ~Answering(stack) /\ (Idle \/ Sent \/ Left)

Timed ==
    /\ queue = <<>> => ~timer
    /\ queue # <<>> => timer \/ Emptying(stack)

\* No command is being answered while clients are told of the audio, because
\* a disconnection with a reason under an answer is one of the handshake; what
\* they queue then are commands of clients.
Late ==
    /\ Reasoned(stack) /\ Answering(stack) => conn # "Connected"
    /\ Telling(stack) => ~Answering(stack)
    /\ Telling(stack) => \A i \in 1 .. Len(queue) : queue[i].kind \in ClientKind
    /\ Answering(stack) => ~Outlived

Running ==
    /\ Tracks(queue, waiting)
    /\ Timed
    /\ Late
    /\ Ordered(stack)
    /\ CompletedFirst
    /\ StillThere
    /\ WireFollows

IInv ==
    /\ TypeOK
    /\ HandshakeIsExclusive
    /\ OnlyDisconnectionFaults
    /\ rfcomm # "Connected" => conn \in {"Disconnected", "RfcommConnecting"}
    /\ fault = "none" => Running

-----------------------------------------------------------------------------
(* Frames.                                                                 *)

LEMMA Length ==
    ASSUME NEW S, NEW st \in Seq(S)
    PROVE  /\ Len(st) \in Nat
           /\ st = <<>> <=> Len(st) = 0
           /\ st # <<>> => /\ Tail(st) \in Seq(S)
                          /\ Head(st) = st[1] /\ Head(st) \in S
                          /\ Len(Tail(st)) = Len(st) - 1
                          /\ \A i \in 1 .. Len(st) - 1 : Tail(st)[i] = st[i + 1]
    OBVIOUS

LEMMA Concatenation ==
    ASSUME NEW S, NEW st \in Seq(S), NEW f \in S
    PROVE  LET n == <<f>> \o st IN
           /\ n \in Seq(S) /\ Len(n) = Len(st) + 1 /\ n[1] = f
           /\ \A i \in 1 .. Len(st) : n[i + 1] = st[i]
           /\ Head(n) = f /\ Tail(n) = st /\ n # <<>>
    OBVIOUS

\* The empty stack.
LEMMA NoFrames ==
    /\ \A F : ~Has(<<>>, F)
    /\ \A U, G : Guarded(<<>>, U, G)
    /\ Ordered(<<>>)
    BY DEF Has, Guarded, Ordered

\* A frame on top of st.
LEMMA OneMore ==
    ASSUME NEW st \in Seq(Frame), NEW f \in Frame
    PROVE  LET n == <<f>> \o st IN
           /\ n \in Seq(Frame)
           /\ \A F : Has(n, F) <=> f \in F \/ Has(st, F)
           /\ \A U, G : Guarded(n, U, G) <=> f \notin U /\ (f \in G \/ Guarded(st, U, G))
           /\ Ordered(n) <=> Ordered(st) /\ (f \in {"delete", "settle"} => ~Has(st, Lasts))
<1> DEFINE n == <<f>> \o st
<1>1. /\ n \in Seq(Frame) /\ Len(n) = Len(st) + 1 /\ n[1] = f /\ Len(st) \in Nat
      /\ \A i \in 1 .. Len(st) : n[i + 1] = st[i]
  BY Concatenation, Length
<1> HIDE DEF n
<1>2. /\ 1 \in 1 .. Len(n)
      /\ \A i \in 1 .. Len(st) : i + 1 \in 1 .. Len(n)
      /\ \A k \in 1 .. Len(n) : k = 1 \/ (k - 1 \in 1 .. Len(st) /\ n[k] = st[k - 1])
  <2>1. \A k \in 1 .. Len(n) : k # 1 => k - 1 \in 1 .. Len(st) /\ k = (k - 1) + 1
    BY <1>1
  <2> QED  BY <1>1, <2>1
<1>3. ASSUME NEW F PROVE Has(n, F) <=> f \in F \/ Has(st, F)
  BY <1>1, <1>2 DEF Has
<1>4. ASSUME NEW U, NEW G
      PROVE  Guarded(n, U, G) <=> f \notin U /\ (f \in G \/ Guarded(st, U, G))
  <2>1. ASSUME Guarded(n, U, G) PROVE f \notin U
    BY <1>1, <1>2, <2>1 DEF Guarded
  <2>2. ASSUME Guarded(n, U, G), f \notin G PROVE Guarded(st, U, G)
    <3> SUFFICES ASSUME NEW k \in 1 .. Len(st), st[k] \in U
                 PROVE  \E j \in 1 .. k - 1 : st[j] \in G
      BY DEF Guarded
    <3>1. k + 1 \in 1 .. Len(n) /\ n[k + 1] \in U
      BY <1>1, <1>2
    <3>2. PICK j \in 1 .. k : n[j] \in G
      BY <2>2, <3>1 DEF Guarded
    <3>3. j # 1 /\ j - 1 \in 1 .. k - 1 /\ j \in 1 .. Len(n)
      BY <2>2, <3>2, <1>1
    <3> QED  BY <3>2, <3>3, <1>2
  <2>3. ASSUME f \notin U, f \in G PROVE Guarded(n, U, G)
    <3> SUFFICES ASSUME NEW k \in 1 .. Len(n), n[k] \in U
                 PROVE  \E j \in 1 .. k - 1 : n[j] \in G
      BY DEF Guarded
    <3>1. 1 \in 1 .. k - 1
      BY <2>3, <1>1
    <3> QED  BY <2>3, <3>1, <1>1
  <2>4. ASSUME f \notin U, Guarded(st, U, G) PROVE Guarded(n, U, G)
    <3> SUFFICES ASSUME NEW k \in 1 .. Len(n), n[k] \in U
                 PROVE  \E j \in 1 .. k - 1 : n[j] \in G
      BY DEF Guarded
    <3>1. k - 1 \in 1 .. Len(st) /\ st[k - 1] \in U
      BY <2>4, <1>1, <1>2
    <3>2. PICK j \in 1 .. (k - 1) - 1 : st[j] \in G
      BY <2>4, <3>1 DEF Guarded
    <3>3. j + 1 \in 1 .. k - 1 /\ n[j + 1] = st[j]
      BY <3>1, <3>2, <1>1
    <3> QED  BY <3>2, <3>3
  <2> QED  BY <2>1, <2>2, <2>3, <2>4
<1>5. Ordered(n) <=> Ordered(st) /\ (f \in {"delete", "settle"} => ~Has(st, Lasts))
  <2>1. ASSUME Ordered(n) PROVE Ordered(st)
    <3> SUFFICES ASSUME NEW k \in 1 .. Len(st), NEW j \in 1 .. k - 1,
                        st[j] \in {"delete", "settle"}
                 PROVE  st[k] \notin Lasts
      BY DEF Ordered
    <3>1. /\ k + 1 \in 1 .. Len(n) /\ j + 1 \in 1 .. (k + 1) - 1
          /\ n[k + 1] = st[k] /\ n[j + 1] = st[j]
      BY <1>1
    <3> QED  BY <2>1, <3>1 DEF Ordered
  <2>2. ASSUME Ordered(n), f \in {"delete", "settle"} PROVE ~Has(st, Lasts)
    <3> SUFFICES ASSUME NEW k \in 1 .. Len(st) PROVE st[k] \notin Lasts
      BY DEF Has
    <3>1. k + 1 \in 1 .. Len(n) /\ 1 \in 1 .. (k + 1) - 1 /\ n[k + 1] = st[k]
      BY <1>1
    <3> QED  BY <2>2, <3>1, <1>1 DEF Ordered
  <2>3. ASSUME Ordered(st), f \in {"delete", "settle"} => ~Has(st, Lasts)
        PROVE  Ordered(n)
    <3> SUFFICES ASSUME NEW k \in 1 .. Len(n), NEW j \in 1 .. k - 1,
                        n[j] \in {"delete", "settle"}
                 PROVE  n[k] \notin Lasts
      BY DEF Ordered
    <3>1. k - 1 \in 1 .. Len(st) /\ n[k] = st[k - 1]
      BY <1>1, <1>2
    <3>2. CASE j = 1
      BY <2>3, <3>1, <3>2, <1>1 DEF Has
    <3>3. CASE j # 1
      <4>1. j - 1 \in 1 .. (k - 1) - 1 /\ n[j] = st[j - 1]
        BY <3>3, <1>1, <1>2
      <4> QED  BY <2>3, <3>1, <4>1 DEF Ordered
    <3> QED  BY <3>2, <3>3
  <2> QED  BY <2>1, <2>2, <2>3
<1> QED  BY <1>1, <1>3, <1>4, <1>5 DEF n

\* The frame on top of st is taken off.
LEMMA OneLess ==
    ASSUME NEW st \in Seq(Frame), st # <<>>,
           NEW f, f = Head(st), NEW n, n = Tail(st)
    PROVE  /\ n \in Seq(Frame) /\ f \in Frame
           /\ \A F : Has(st, F) <=> f \in F \/ Has(n, F)
           /\ \A U, G : Guarded(st, U, G) <=> f \notin U /\ (f \in G \/ Guarded(n, U, G))
           /\ Ordered(st) <=> Ordered(n) /\ (f \in {"delete", "settle"} => ~Has(n, Lasts))
<1>1. n \in Seq(Frame) /\ f \in Frame
  BY Length
<1> DEFINE m == <<f>> \o n
<1>2. st = m
  OBVIOUS
<1>3. /\ \A F : Has(m, F) <=> f \in F \/ Has(n, F)
      /\ \A U, G : Guarded(m, U, G) <=> f \notin U /\ (f \in G \/ Guarded(n, U, G))
      /\ Ordered(m) <=> Ordered(n) /\ (f \in {"delete", "settle"} => ~Has(n, Lasts))
  BY <1>1, OneMore
<1> HIDE DEF m
<1> QED  BY <1>1, <1>2, <1>3

-----------------------------------------------------------------------------
(* Commands and their pending objects.                                     *)

\* The commands n are some of the commands q, in their order.
Within(n, q) ==
    \E g \in [1 .. Len(n) -> 1 .. Len(q)] :
        /\ \A i, j \in 1 .. Len(n) : i < j => g[i] < g[j]
        /\ \A i \in 1 .. Len(n) : n[i].kind = q[g[i]].kind

LEMMA SameWithin ==
    ASSUME NEW q \in Seq(Command), NEW n \in Seq(Command), Len(n) = Len(q),
           \A i \in 1 .. Len(q) : n[i].kind = q[i].kind
    PROVE  Within(n, q)
<1> DEFINE g == [i \in 1 .. Len(n) |-> i]
<1>1. /\ g \in [1 .. Len(n) -> 1 .. Len(q)]
      /\ \A i, j \in 1 .. Len(n) : i < j => g[i] < g[j]
      /\ \A i \in 1 .. Len(n) : n[i].kind = q[g[i]].kind
  OBVIOUS
<1> HIDE DEF g
<1> QED  BY <1>1 DEF Within

LEMMA TailWithin ==
    ASSUME NEW q \in Seq(Command), q # <<>>
    PROVE  Within(Tail(q), q)
<1>1. /\ Len(q) \in Nat /\ Tail(q) \in Seq(Command) /\ Len(Tail(q)) = Len(q) - 1
      /\ \A i \in 1 .. Len(q) - 1 : Tail(q)[i] = q[i + 1]
  BY Length
<1> DEFINE n == Tail(q)
           g == [i \in 1 .. Len(n) |-> i + 1]
<1> HIDE DEF n
<1>2. /\ g \in [1 .. Len(n) -> 1 .. Len(q)]
      /\ \A i, j \in 1 .. Len(n) : i < j => g[i] < g[j]
      /\ \A i \in 1 .. Len(n) : n[i].kind = q[g[i]].kind
  BY <1>1 DEF n
<1> HIDE DEF g
<1>3. Within(n, q)
  BY <1>2 DEF Within
<1> QED  BY <1>3 DEF n

\* While the connection stays as it is, some of the commands of a queue in
\* order are in order, and none has outlived a connection if none had.
LEMMA Exclusive ==
    ASSUME queue \in Seq(Command), queue' \in Seq(Command), Within(queue', queue),
           HandshakeIsExclusive, conn' = conn, rfcomm' = rfcomm
    PROVE  /\ HandshakeIsExclusive'
           /\ ~Outlived => ~Outlived'
           /\ \A K : (\A i \in 1 .. Len(queue) : queue[i].kind \in K)
                    => \A i \in 1 .. Len(queue') : queue'[i].kind \in K
<1>1. PICK g \in [1 .. Len(queue') -> 1 .. Len(queue)] :
        /\ \A i, j \in 1 .. Len(queue') : i < j => g[i] < g[j]
        /\ \A i \in 1 .. Len(queue') : queue'[i].kind = queue[g[i]].kind
  BY DEF Within
<1>2. /\ Len(queue) \in Nat /\ Len(queue') \in Nat
      /\ queue' # <<>> => 1 \in 1 .. Len(queue') /\ Head(queue') = queue'[1] /\ queue # <<>>
      /\ \A i \in 1 .. Len(queue') : g[i] \in 1 .. Len(queue)
  <2>1. Len(queue) \in Nat /\ Len(queue') \in Nat
    OBVIOUS
  <2>2. \A i \in 1 .. Len(queue') : g[i] \in 1 .. Len(queue)
    OBVIOUS
  <2>3. queue' # <<>> => 1 \in 1 .. Len(queue') /\ Head(queue') = queue'[1]
    OBVIOUS
  <2>4. queue # <<>> \/ 1 .. Len(queue) = {}
    OBVIOUS
  <2> QED  BY <2>1, <2>2, <2>3, <2>4
<1>3. \A k \in ClientKind : k \notin Handshake
  BY DEF ClientKind, Handshake
<1>4. \A j \in 1 .. Len(queue') : \A i \in 1 .. j - 1 :
        queue'[i].kind \in Handshake => queue'[j].kind \in Handshake
  <2> TAKE j \in 1 .. Len(queue')
  <2> TAKE i \in 1 .. j - 1
  <2>1. i \in 1 .. Len(queue') /\ i < j
    BY <1>2
  <2>2. g[i] \in 1 .. g[j] - 1 /\ g[j] \in 1 .. Len(queue)
    BY <1>1, <1>2, <2>1
  <2> QED  BY <1>1, <2>1, <2>2 DEF HandshakeIsExclusive
<1>5. ASSUME Outlived' PROVE Outlived
  <2>1. queue # <<>> /\ 1 \in 1 .. Len(queue') /\ Head(queue') = queue'[1]
    BY <1>2, <1>5 DEF Outlived
  <2>2. CASE rfcomm # "Connected"
    BY <2>1, <2>2 DEF Outlived
  <2>3. CASE rfcomm = "Connected"
    <3>1. conn = "Handshaking" /\ queue[g[1]].kind \in ClientKind
      BY <1>1, <1>5, <2>1, <2>3 DEF Outlived
    <3> QED  BY <1>2, <1>3, <2>1, <3>1 DEF HandshakeIsExclusive
  <2> QED  BY <2>2, <2>3
<1>6. ASSUME NEW i \in 1 .. Len(queue'), queue'[i].kind \in ClientKind, Outlived
      PROVE  conn' = "Connected" \/ Outlived'
  <2>1. 1 \in 1 .. Len(queue') /\ Head(queue') = queue'[1] /\ queue' # <<>>
    BY <1>2
  <2>2. CASE rfcomm # "Connected"
    BY <2>1, <2>2 DEF Outlived
  <2>3. CASE rfcomm = "Connected"
    <3>1. queue'[1].kind \notin Handshake
      <4>1. i = 1 \/ 1 \in 1 .. i - 1
        BY <1>2
      <4> QED  BY <4>1, <1>3, <1>4, <1>6
    <3>2. conn = "Handshaking"
      BY <1>6, <2>3 DEF Outlived
    <3>3. queue'[1].kind \in ClientKind
      BY <1>1, <1>2, <2>1, <3>1, <3>2 DEF HandshakeIsExclusive
    <3> QED  BY <2>1, <2>3, <3>2, <3>3 DEF Outlived
  <2> QED  BY <2>2, <2>3
<1>7. ASSUME NEW i \in 1 .. Len(queue')
      PROVE  \/ queue'[i].kind \in Handshake /\ conn' = "Handshaking"
             \/ queue'[i].kind \notin Handshake /\ conn' = "Connected"
             \/ queue'[i].kind \in ClientKind /\ Outlived'
  <2>1. \/ queue'[i].kind \in Handshake /\ conn = "Handshaking"
        \/ queue'[i].kind \notin Handshake /\ conn = "Connected"
        \/ queue'[i].kind \in ClientKind /\ Outlived
    BY <1>1, <1>2 DEF HandshakeIsExclusive
  <2> QED  BY <2>1, <1>3, <1>6
<1>8. HandshakeIsExclusive'
  BY <1>4, <1>7 DEF HandshakeIsExclusive
<1> QED  BY <1>1, <1>2, <1>5, <1>8

\* Commands with the same pending objects.
LEMMA SamePendings ==
    ASSUME NEW q \in Seq(Command), NEW n \in Seq(Command), NEW w, Tracks(q, w),
           Len(n) = Len(q), \A i \in 1 .. Len(q) : n[i].pend = q[i].pend
    PROVE  Tracks(n, w)
    BY DEF Tracks

\* The first command goes.
LEMMA TailTracks ==
    ASSUME NEW q \in Seq(Command), q # <<>>, NEW w \in SUBSET Pend, Tracks(q, w)
    PROVE  Tail(q) \in Seq(Command) /\ Tracks(Tail(q), w \ {Head(q).pend})
<1>1. /\ Len(q) \in Nat /\ Len(q) # 0 /\ Head(q) = q[1]
      /\ Tail(q) \in Seq(Command) /\ Len(Tail(q)) = Len(q) - 1
      /\ \A i \in 1 .. Len(q) - 1 : Tail(q)[i] = q[i + 1]
  BY Length
<1> DEFINE n == Tail(q)
<1> HIDE DEF n
<1>2. ASSUME NEW p \in Pend
      PROVE  p \in w \ {q[1].pend} <=> \E i \in 1 .. Len(n) : n[i].pend = p
  <2>1. ASSUME p \in w, p # q[1].pend PROVE \E i \in 1 .. Len(n) : n[i].pend = p
    <3>1. PICK i \in 1 .. Len(q) : q[i].pend = p
      BY <2>1 DEF Tracks
    <3>2. i # 1 /\ i - 1 \in 1 .. Len(n) /\ n[i - 1] = q[i]
      BY <2>1, <3>1, <1>1 DEF n
    <3> QED  BY <3>1, <3>2
  <2>2. ASSUME NEW i \in 1 .. Len(n), n[i].pend = p PROVE p \in w /\ p # q[1].pend
    <3>1. 1 \in 1 .. Len(q) /\ i + 1 \in 1 .. Len(q) /\ q[i + 1].pend = p /\ i + 1 # 1
      BY <2>2, <1>1 DEF n
    <3> QED  BY <3>1 DEF Tracks
  <2> QED  BY <2>1, <2>2
<1>3. ASSUME NEW i \in 1 .. Len(n), NEW j \in 1 .. Len(n),
             n[i].pend = n[j].pend, n[i].pend \in Pend
      PROVE  i = j
  <2>1. /\ i + 1 \in 1 .. Len(q) /\ j + 1 \in 1 .. Len(q)
        /\ n[i] = q[i + 1] /\ n[j] = q[j + 1]
    BY <1>1 DEF n
  <2> QED  BY <2>1, <1>3 DEF Tracks
<1> QED  BY <1>1, <1>2, <1>3 DEF Tracks, n

\* The first command calls its client.
LEMMA CompletedTracks ==
    ASSUME NEW q \in Seq(Command), q # <<>>, NEW w \in SUBSET Pend, Tracks(q, w)
    PROVE  LET n == [q EXCEPT ![1].pend = NoPend] IN
           /\ n \in Seq(Command) /\ Len(n) = Len(q) /\ n # <<>>
           /\ n[1].pend = NoPend /\ n[1].kind = q[1].kind
           /\ \A i \in 2 .. Len(q) : n[i] = q[i]
           /\ Tracks(n, w \ {q[1].pend})
<1> DEFINE n == [q EXCEPT ![1].pend = NoPend]
<1>1. Len(q) \in Nat /\ Len(q) # 0 /\ q[1] \in Command
  BY Length
<1>2. [q[1] EXCEPT !.pend = NoPend] \in Command
  BY <1>1 DEF Command
<1>3. n \in Seq(Command) /\ Len(n) = Len(q) /\ n # <<>>
  BY <1>1, <1>2
<1>4. n[1].pend = NoPend /\ n[1].kind = q[1].kind
  BY <1>1 DEF Command
<1>5. \A i \in 2 .. Len(q) : n[i] = q[i]
  BY <1>1
<1> HIDE DEF n
<1>6. ASSUME NEW p \in Pend
      PROVE  p \in w \ {q[1].pend} <=> \E i \in 1 .. Len(n) : n[i].pend = p
  <2>1. ASSUME p \in w, p # q[1].pend PROVE \E i \in 1 .. Len(n) : n[i].pend = p
    <3>1. PICK i \in 1 .. Len(q) : q[i].pend = p
      BY <2>1 DEF Tracks
    <3>2. i \in 2 .. Len(q) /\ i \in 1 .. Len(n)
      BY <2>1, <3>1, <1>1, <1>3
    <3> QED  BY <3>1, <3>2, <1>5
  <2>2. ASSUME NEW i \in 1 .. Len(n), n[i].pend = p PROVE p \in w /\ p # q[1].pend
    <3>1. i # 1
      BY <2>2, <1>4, CommandsAssumption
    <3>2. i \in 2 .. Len(q) /\ i \in 1 .. Len(q) /\ 1 \in 1 .. Len(q)
      BY <3>1, <1>1, <1>3
    <3>3. q[i].pend = p
      BY <2>2, <3>2, <1>5
    <3> QED  BY <3>1, <3>2, <3>3 DEF Tracks
  <2> QED  BY <2>1, <2>2
<1>7. ASSUME NEW i \in 1 .. Len(n), NEW j \in 1 .. Len(n),
             n[i].pend = n[j].pend, n[i].pend \in Pend
      PROVE  i = j
  <2>1. i # 1 /\ j # 1
    BY <1>7, <1>4, CommandsAssumption
  <2>2. i \in 2 .. Len(q) /\ j \in 2 .. Len(q) /\ i \in 1 .. Len(q) /\ j \in 1 .. Len(q)
    BY <2>1, <1>1, <1>3
  <2> QED  BY <2>2, <1>5, <1>7 DEF Tracks
<1> QED  BY <1>3, <1>4, <1>5, <1>6, <1>7 DEF Tracks, n

\* A command of the session is queued.
LEMMA InternalTracks ==
    ASSUME NEW q \in Seq(Command), NEW w \in SUBSET Pend, Tracks(q, w), NEW kind \in Kind
    PROVE  /\ Append(q, Internal(kind)) \in Seq(Command)
           /\ Tracks(Append(q, Internal(kind)), w)
<1> DEFINE n == Append(q, Internal(kind))
<1>1. Internal(kind) \in Command /\ Internal(kind).pend = NoPend
  BY DEF Internal, Command
<1>2. /\ n \in Seq(Command) /\ Len(n) = Len(q) + 1 /\ Len(q) \in Nat
      /\ \A i \in 1 .. Len(q) : n[i] = q[i]
      /\ n[Len(q) + 1] = Internal(kind)
  BY <1>1
<1> HIDE DEF n
<1>3. \A i \in 1 .. Len(n) : n[i].pend \in Pend => i \in 1 .. Len(q)
  BY <1>1, <1>2, CommandsAssumption
<1>4. \A i \in 1 .. Len(q) : i \in 1 .. Len(n)
  BY <1>2
<1> QED  BY <1>2, <1>3, <1>4 DEF Tracks, n

\* Commands of the session are queued.
LEMMA JoinedTracks ==
    ASSUME NEW q \in Seq(Command), NEW w \in SUBSET Pend, Tracks(q, w),
           NEW o \in Seq(Command), \A i \in 1 .. Len(o) : o[i].pend = NoPend
    PROVE  LET n == q \o o IN
           /\ n \in Seq(Command) /\ Len(n) = Len(q) + Len(o)
           /\ \A i \in 1 .. Len(q) : n[i] = q[i]
           /\ \A i \in 1 .. Len(n) : ~(i <= Len(q)) =>
                 i - Len(q) \in 1 .. Len(o) /\ n[i] = o[i - Len(q)]
           /\ Tracks(n, w)
<1> DEFINE n == q \o o
<1>1. Len(q) \in Nat /\ Len(o) \in Nat
  OBVIOUS
<1>2. n \in Seq(Command) /\ Len(n) = Len(q) + Len(o)
  BY ConcatProperties, Zenon
<1>3. \A i \in 1 .. Len(q) + Len(o) : n[i] = IF i <= Len(q) THEN q[i] ELSE o[i - Len(q)]
  BY ConcatProperties, Zenon
<1> HIDE DEF n
<1>4. \A i \in 1 .. Len(q) : n[i] = q[i] /\ i \in 1 .. Len(n)
  BY <1>1, <1>2, <1>3
<1>5. \A i \in 1 .. Len(n) : ~(i <= Len(q)) =>
        i - Len(q) \in 1 .. Len(o) /\ n[i] = o[i - Len(q)]
  BY <1>1, <1>2, <1>3
<1>6. \A i \in 1 .. Len(n) : n[i].pend \in Pend => i \in 1 .. Len(q) /\ n[i] = q[i]
  <2> TAKE i \in 1 .. Len(n)
  <2>1. CASE i <= Len(q)
    <3>1. i \in 1 .. Len(q)
      BY <2>1, <1>1, <1>2
    <3> QED  BY <3>1, <1>4
  <2>2. CASE ~(i <= Len(q))
    BY <2>2, <1>5, CommandsAssumption
  <2> QED  BY <2>1, <2>2
<1>7. Tracks(n, w)
  BY <1>4, <1>6 DEF Tracks
<1> QED  BY <1>2, <1>4, <1>5, <1>7 DEF n

\* A command of a client is queued.
LEMMA IssuedTracks ==
    ASSUME NEW q \in Seq(Command), NEW w \in SUBSET Pend, Tracks(q, w),
           NEW c \in Command, c.pend \in Pend \ w
    PROVE  Append(q, c) \in Seq(Command) /\ Tracks(Append(q, c), w \cup {c.pend})
<1> DEFINE n == Append(q, c)
<1>1. /\ n \in Seq(Command) /\ Len(n) = Len(q) + 1 /\ Len(q) \in Nat
      /\ \A i \in 1 .. Len(q) : n[i] = q[i]
      /\ n[Len(q) + 1] = c
  OBVIOUS
<1> HIDE DEF n
<1>2. /\ \A i \in 1 .. Len(n) : i = Len(q) + 1 \/ i \in 1 .. Len(q)
      /\ \A i \in 1 .. Len(q) : i \in 1 .. Len(n) /\ i # Len(q) + 1
      /\ Len(q) + 1 \in 1 .. Len(n)
  BY <1>1
<1>3. \A i \in 1 .. Len(q) : q[i].pend # c.pend
  BY DEF Tracks
<1>4. \A p \in Pend : p \in w \cup {c.pend} <=> \E i \in 1 .. Len(n) : n[i].pend = p
  BY <1>1, <1>2 DEF Tracks
<1>5. ASSUME NEW i \in 1 .. Len(n), NEW j \in 1 .. Len(n),
             n[i].pend = n[j].pend, n[i].pend \in Pend
      PROVE  i = j
  BY <1>1, <1>2, <1>3, <1>5 DEF Tracks
<1> QED  BY <1>1, <1>4, <1>5 DEF Tracks, n

\* A command that is not the first is taken out of the queue.
LEMMA CancelledTracks ==
    ASSUME NEW q \in Seq(Command), NEW w \in SUBSET Pend, Tracks(q, w),
           NEW x \in 2 .. Len(q), q[x].pend \in Pend
    PROVE  LET n == SubSeq(q, 1, x - 1) \o SubSeq(q, x + 1, Len(q)) IN
           /\ n \in Seq(Command) /\ Tracks(n, w \ {q[x].pend})
           /\ n # <<>> /\ n[1] = q[1]
           /\ Within(n, q)
<1> DEFINE a == SubSeq(q, 1, x - 1)
           b == SubSeq(q, x + 1, Len(q))
           n == a \o b
<1>1. /\ Len(q) \in Nat /\ x \in Nat /\ 2 <= x /\ x <= Len(q)
  OBVIOUS
<1>2. /\ a \in Seq(Command) /\ Len(a) = x - 1
      /\ \A i \in 1 .. x - 1 : a[i] = q[i]
  BY <1>1
<1>3. /\ b \in Seq(Command) /\ Len(b) = Len(q) - x
      /\ \A i \in 1 .. Len(q) - x : b[i] = q[i + x]
  BY <1>1
<1> HIDE DEF a, b
<1>4. /\ n \in Seq(Command) /\ Len(n) = Len(q) - 1
      /\ \A i \in 1 .. x - 1 : n[i] = q[i]
      /\ \A i \in x .. Len(q) - 1 : n[i] = q[i + 1]
  <2>1. n \in Seq(Command) /\ Len(n) = Len(a) + Len(b)
    BY <1>2, <1>3, ConcatProperties, Zenon
  <2>2. \A i \in 1 .. Len(a) + Len(b) : n[i] = IF i <= Len(a) THEN a[i] ELSE b[i - Len(a)]
    BY <1>2, <1>3, ConcatProperties, Zenon
  <2> HIDE DEF n
  <2>3. Len(n) = Len(q) - 1
    BY <2>1, <1>1, <1>2, <1>3
  <2>4. ASSUME NEW i \in 1 .. x - 1 PROVE n[i] = q[i]
    <3>1. i \in 1 .. Len(n) /\ i <= Len(a)
      BY <2>3, <1>1, <1>2
    <3> QED  BY <3>1, <2>1, <2>2, <1>2
  <2>5. ASSUME NEW i \in x .. Len(q) - 1 PROVE n[i] = q[i + 1]
    <3>1. /\ i \in 1 .. Len(n) /\ ~(i <= Len(a))
          /\ i - Len(a) \in 1 .. Len(q) - x /\ (i - Len(a)) + x = i + 1
      BY <2>3, <1>1, <1>2
    <3> QED  BY <3>1, <2>1, <2>2, <1>3
  <2> QED  BY <2>1, <2>3, <2>4, <2>5
<1> HIDE DEF n
\* The place in q of the command at place i of n.
<1> DEFINE old(i) == IF i < x THEN i ELSE i + 1
<1>5. \A i \in 1 .. Len(n) : old(i) \in 1 .. Len(q) /\ n[i] = q[old(i)] /\ old(i) # x
  BY <1>1, <1>4
<1>6. \A i, j \in 1 .. Len(n) : old(i) = old(j) => i = j
  BY <1>1, <1>4
<1>7. \A k \in 1 .. Len(q) : k # x => \E i \in 1 .. Len(n) : old(i) = k
  <2> TAKE k \in 1 .. Len(q)
  <2> HAVE k # x
  <2>1. CASE k < x
    <3>1. k \in 1 .. Len(n) /\ old(k) = k
      BY <2>1, <1>1, <1>4
    <3> QED  BY <3>1
  <2>2. CASE k > x
    <3>1. k - 1 \in 1 .. Len(n) /\ old(k - 1) = k
      BY <2>2, <1>1, <1>4
    <3> QED  BY <3>1
  <2> QED  BY <2>1, <2>2, <1>1
<1> HIDE DEF old
<1>8. ASSUME NEW p \in Pend
      PROVE  p \in w \ {q[x].pend} <=> \E i \in 1 .. Len(n) : n[i].pend = p
  <2>1. ASSUME p \in w, p # q[x].pend PROVE \E i \in 1 .. Len(n) : n[i].pend = p
    <3>1. PICK k \in 1 .. Len(q) : q[k].pend = p
      BY <2>1 DEF Tracks
    <3>2. PICK i \in 1 .. Len(n) : old(i) = k
      BY <2>1, <3>1, <1>7
    <3> QED  BY <3>1, <3>2, <1>5
  <2>2. ASSUME NEW i \in 1 .. Len(n), n[i].pend = p PROVE p \in w /\ p # q[x].pend
    <3>1. old(i) \in 1 .. Len(q) /\ q[old(i)].pend = p /\ old(i) # x
      BY <2>2, <1>5
    <3>2. x \in 1 .. Len(q)
      BY <1>1
    <3> QED  BY <3>1, <3>2 DEF Tracks
  <2> QED  BY <2>1, <2>2
<1>9. ASSUME NEW i \in 1 .. Len(n), NEW j \in 1 .. Len(n),
             n[i].pend = n[j].pend, n[i].pend \in Pend
      PROVE  i = j
  <2>1. /\ old(i) \in 1 .. Len(q) /\ old(j) \in 1 .. Len(q)
        /\ q[old(i)].pend = q[old(j)].pend /\ q[old(i)].pend \in Pend
    BY <1>5, <1>9
  <2>2. old(i) = old(j)
    BY <2>1 DEF Tracks
  <2> QED  BY <2>2, <1>6
<1>10. n # <<>> /\ n[1] = q[1]
  BY <1>1, <1>4
<1>11. Tracks(n, w \ {q[x].pend})
  BY <1>8, <1>9 DEF Tracks
<1>12. Within(n, q)
  <2>1. \A i, j \in 1 .. Len(n) : i < j => old(i) < old(j)
    BY <1>1, <1>4 DEF old
  <2> DEFINE g == [i \in 1 .. Len(n) |-> old(i)]
  <2>2. g \in [1 .. Len(n) -> 1 .. Len(q)] /\ \A i \in 1 .. Len(n) : g[i] = old(i)
    BY <1>5
  <2> HIDE DEF g
  <2>3. /\ \A i, j \in 1 .. Len(n) : i < j => g[i] < g[j]
        /\ \A i \in 1 .. Len(n) : n[i].kind = q[g[i]].kind
    BY <2>1, <2>2, <1>5
  <2> QED  BY <2>2, <2>3 DEF Within
<1> QED  BY <1>4, <1>10, <1>11, <1>12 DEF n, a, b

\* The client deletes a pending object.
LEMMA ForgottenTracks ==
    ASSUME NEW q \in Seq(Command), NEW w \in SUBSET Pend, Tracks(q, w), NEW p \in Pend
    PROVE  LET n == [i \in 1 .. Len(q) |->
                        IF q[i].pend = p THEN Internal(q[i].kind) ELSE q[i]] IN
           /\ n \in Seq(Command) /\ Len(n) = Len(q) /\ Tracks(n, w \ {p})
           /\ \A i \in 1 .. Len(q) : /\ n[i].kind = q[i].kind
                                     /\ n[i].pend \in {q[i].pend, NoPend}
<1> DEFINE n == [i \in 1 .. Len(q) |->
                    IF q[i].pend = p THEN Internal(q[i].kind) ELSE q[i]]
<1>1. Len(q) \in Nat /\ \A i \in 1 .. Len(q) : q[i] \in Command
  OBVIOUS
<1>2. \A i \in 1 .. Len(q) : /\ Internal(q[i].kind) \in Command
                             /\ Internal(q[i].kind).kind = q[i].kind
                             /\ Internal(q[i].kind).pend = NoPend
  BY <1>1 DEF Internal, Command
<1>3. n \in [1 .. Len(q) -> Command]
  BY <1>1, <1>2
<1>4. n \in Seq(Command) /\ Len(n) = Len(q)
  BY <1>1, <1>3
<1>5. \A i \in 1 .. Len(q) : /\ n[i].kind = q[i].kind
                             /\ n[i].pend = IF q[i].pend = p THEN NoPend ELSE q[i].pend
  BY <1>2
<1> HIDE DEF n
<1>6. NoPend \notin Pend
  BY CommandsAssumption
<1>7. Tracks(n, w \ {p})
  BY <1>4, <1>5, <1>6 DEF Tracks
<1> QED  BY <1>4, <1>5, <1>7 DEF n

\* Commands of the session alone.
LEMMA InternalsTrack ==
    ASSUME NEW q \in Seq(Command), \A i \in 1 .. Len(q) : q[i].pend = NoPend
    PROVE  Tracks(q, {})
    BY CommandsAssumption DEF Tracks

\* When there are no commands, nobody waits.
LEMMA NobodyWaits ==
    ASSUME NEW w \in SUBSET Pend, Tracks(<<>>, w)
    PROVE  w = {}
<1>1. \A p \in Pend : p \notin w
  BY DEF Tracks
<1> QED  BY <1>1

\* A pending object is in one command or in none.
LEMMA TracksOnce ==
    ASSUME NEW p \in Pend, Tracks(queue, waiting)
    PROVE  Cardinality(Carries(p)) = IF p \in waiting THEN 1 ELSE 0
<1>1. CASE p \in waiting
  <2>1. PICK i \in 1 .. Len(queue) : queue[i].pend = p
    BY <1>1 DEF Tracks
  <2>2. Carries(p) = {i}
    BY <2>1 DEF Tracks, Carries
  <2> QED  BY <1>1, <2>2, FS_Singleton
<1>2. CASE p \notin waiting
  <2>1. Carries(p) = {}
    BY <1>2 DEF Tracks, Carries
  <2> QED  BY <1>2, <2>1, FS_EmptySet
<1> QED  BY <1>1, <1>2

-----------------------------------------------------------------------------
(* The stack, in the words of the invariant.                               *)

\* What a frame f on top of st makes of it.
Above(f, st, n) ==
    /\ Aborting(n) <=> f \in {"abort", "quiet", "hangup"} \/ Aborting(st)
    /\ Emptying(n) <=> f \in {"abort", "quiet"} \/ Emptying(st)
    /\ Reasoned(n) <=> f = "abort" \/ Reasoned(st)
    /\ Telling(n) <=> f = "hangup" \/ Telling(st)
    /\ Answering(n) <=> f = "delete" \/ Answering(st)
    /\ Using(n) <=> f \in {"complete", "use", "delete"} \/ Using(st)
    /\ WillComplete(n) <=>
          f # "delete" /\ (f \in {"complete", "abort", "quiet", "hangup"} \/ WillComplete(st))
    /\ WillAbort(n) <=>
          /\ f \notin {"complete", "use", "delete"}
          /\ f \in {"abort", "quiet", "hangup"} \/ WillAbort(st)
    /\ Ordered(n) <=>
          Ordered(st) /\ (f \in {"delete", "settle"} => ~Using(st) /\ ~Telling(st))

LEMMA Push ==
    ASSUME NEW st \in Seq(Frame), NEW f \in Frame
    PROVE  <<f>> \o st \in Seq(Frame) /\ Above(f, st, <<f>> \o st)
<1> DEFINE n == <<f>> \o st
<1>1. /\ n \in Seq(Frame)
      /\ \A F : Has(n, F) <=> f \in F \/ Has(st, F)
      /\ \A U, G : Guarded(n, U, G) <=> f \notin U /\ (f \in G \/ Guarded(st, U, G))
      /\ Ordered(n) <=> Ordered(st) /\ (f \in {"delete", "settle"} => ~Has(st, Lasts))
  BY OneMore
<1> HIDE DEF n
<1>2. Aborting(n) <=> f \in Aborts \/ Aborting(st)
  BY <1>1 DEF Aborting
<1>3. Answering(n) <=> f \in {"delete"} \/ Answering(st)
  BY <1>1 DEF Answering
<1>4. Using(n) <=> f \in Users \/ Using(st)
  BY <1>1 DEF Using
<1>5. WillComplete(n) <=>
        f \notin {"delete"} /\ (f \in {"complete"} \cup Aborts \/ WillComplete(st))
  BY <1>1 DEF WillComplete
<1>6. WillAbort(n) <=> f \notin Users /\ (f \in Aborts \/ WillAbort(st))
  BY <1>1 DEF WillAbort
<1>7. Ordered(n) <=>
        Ordered(st) /\ (f \in {"delete", "settle"} => ~Using(st) /\ ~Telling(st))
  <2>1. Has(st, Lasts) <=> Using(st) \/ Telling(st)
    BY DEF Has, Using, Telling, Lasts
  <2> QED  BY <1>1, <2>1
<1>8. /\ Emptying(n) <=> f \in {"abort", "quiet"} \/ Emptying(st)
      /\ Reasoned(n) <=> f \in {"abort"} \/ Reasoned(st)
      /\ Telling(n) <=> f \in {"hangup"} \/ Telling(st)
  BY <1>1 DEF Emptying, Reasoned, Telling
<1>9. Above(f, st, n)
  BY <1>2, <1>3, <1>4, <1>5, <1>6, <1>7, <1>8 DEF Above, Aborts, Users
<1> QED  BY <1>1, <1>9 DEF n

LEMMA Pop ==
    ASSUME NEW st \in Seq(Frame), st # <<>>
    PROVE  Tail(st) \in Seq(Frame) /\ Above(Head(st), Tail(st), st)
<1> DEFINE f == Head(st)
           n == Tail(st)
           m == <<f>> \o n
<1>1. n \in Seq(Frame) /\ f \in Frame
  BY Length
<1>2. m = st
  OBVIOUS
<1> HIDE DEF f, n
<1>3. Above(f, n, m)
  BY <1>1, Push
<1> HIDE DEF m
<1>4. Above(f, n, st)
  BY <1>2, <1>3
<1> QED  BY <1>1, <1>4 DEF f, n

LEMMA Empty ==
    /\ <<>> \in Seq(Frame) /\ Ordered(<<>>)
    /\ ~Aborting(<<>>) /\ ~Answering(<<>>) /\ ~Using(<<>>)
    /\ ~Emptying(<<>>) /\ ~Reasoned(<<>>) /\ ~Telling(<<>>)
    /\ WillComplete(<<>>) /\ WillAbort(<<>>)
    BY NoFrames
    DEF Aborting, Answering, Using, Emptying, Reasoned, Telling, WillComplete, WillAbort

\* What the handlers of the event loop put on the empty stack.
LEMMA Handled ==
    /\ \A st \in {<<"delete", "settle">>, <<"client", "delete", "settle">>} :
          /\ st \in Seq(Frame) /\ Ordered(st) /\ Answering(st)
          /\ ~Reasoned(st) /\ ~Telling(st)
    /\ LET st == <<"client", "complete", "delete", "settle">> IN
          /\ st \in Seq(Frame) /\ Ordered(st) /\ Answering(st) /\ WillComplete(st)
          /\ ~Reasoned(st) /\ ~Telling(st)
    /\ \A st \in {<<"abort", "delete", "settle">>, <<"abort", "use", "settle">>,
                  <<"abort", "abort">>, <<"abort">>} :
          /\ st \in Seq(Frame) /\ Ordered(st) /\ Aborting(st) /\ WillComplete(st)
          /\ WillAbort(st) /\ Emptying(st) /\ ~Telling(st)
    /\ \A st \in {<<"abort", "use", "settle">>, <<"abort", "abort">>, <<"abort">>} :
          ~Answering(st)
    /\ \A st \in {<<"client">>, <<"client", "use">>} :
          /\ st \in Seq(Frame) /\ Ordered(st) /\ ~Answering(st) /\ WillComplete(st)
          /\ ~Reasoned(st) /\ ~Telling(st)
    /\ WillAbort(<<"client">>)
<1>1. ASSUME NEW c \in Frame
      PROVE  <<c>> \in Seq(Frame) /\ Above(c, <<>>, <<c>>)
  <2>1. <<c>> \in Seq(Frame) /\ <<c>> # <<>> /\ Head(<<c>>) = c /\ Tail(<<c>>) = <<>>
    OBVIOUS
  <2> QED  BY <2>1, Pop
<1>2. ASSUME NEW c \in Frame, NEW d \in Frame
      PROVE  <<c, d>> \in Seq(Frame) /\ Above(c, <<d>>, <<c, d>>)
  <2>1. <<c, d>> \in Seq(Frame) /\ <<c, d>> # <<>> /\ Head(<<c, d>>) = c /\ Tail(<<c, d>>) = <<d>>
    OBVIOUS
  <2> QED  BY <2>1, Pop
<1>3. ASSUME NEW c \in Frame, NEW d \in Frame, NEW e \in Frame
      PROVE  <<c, d, e>> \in Seq(Frame) /\ Above(c, <<d, e>>, <<c, d, e>>)
  <2>1. /\ <<c, d, e>> \in Seq(Frame) /\ <<c, d, e>> # <<>>
        /\ Head(<<c, d, e>>) = c /\ Tail(<<c, d, e>>) = <<d, e>>
    OBVIOUS
  <2> QED  BY <2>1, Pop
<1>4. ASSUME NEW b \in Frame, NEW c \in Frame, NEW d \in Frame, NEW e \in Frame
      PROVE  <<b, c, d, e>> \in Seq(Frame) /\ Above(b, <<c, d, e>>, <<b, c, d, e>>)
  <2>1. /\ <<b, c, d, e>> \in Seq(Frame) /\ <<b, c, d, e>> # <<>>
        /\ Head(<<b, c, d, e>>) = b /\ Tail(<<b, c, d, e>>) = <<c, d, e>>
    OBVIOUS
  <2> QED  BY <2>1, Pop
<1>5. /\ "client" \in Frame /\ "complete" \in Frame /\ "use" \in Frame /\ "delete" \in Frame
      /\ "settle" \in Frame /\ "abort" \in Frame
  BY DEF Frame
<1>6. /\ Ordered(<<"settle">>) /\ ~Using(<<"settle">>) /\ ~Telling(<<"settle">>)
      /\ ~Answering(<<"settle">>) /\ ~Reasoned(<<"settle">>)
      /\ WillComplete(<<"settle">>) /\ WillAbort(<<"settle">>)
  BY <1>1, <1>5, Empty DEF Above
<1>7. LET st == <<"delete", "settle">> IN
         st \in Seq(Frame) /\ Ordered(st) /\ Answering(st) /\ ~Reasoned(st) /\ ~Telling(st)
  BY <1>2, <1>5, <1>6 DEF Above
<1>8. LET st == <<"client", "delete", "settle">> IN
         st \in Seq(Frame) /\ Ordered(st) /\ Answering(st) /\ ~Reasoned(st) /\ ~Telling(st)
  BY <1>3, <1>5, <1>7 DEF Above
<1>9. LET st == <<"client", "complete", "delete", "settle">> IN
         /\ st \in Seq(Frame) /\ Ordered(st) /\ Answering(st) /\ WillComplete(st)
         /\ ~Reasoned(st) /\ ~Telling(st)
  <2>1. LET st == <<"complete", "delete", "settle">> IN
           Ordered(st) /\ Answering(st) /\ WillComplete(st) /\ ~Reasoned(st) /\ ~Telling(st)
    BY <1>3, <1>5, <1>7 DEF Above
  <2> QED  BY <2>1, <1>4, <1>5 DEF Above
<1>10. LET st == <<"abort", "delete", "settle">> IN
         /\ st \in Seq(Frame) /\ Ordered(st) /\ Aborting(st) /\ WillComplete(st)
         /\ WillAbort(st) /\ Emptying(st) /\ ~Telling(st)
  BY <1>3, <1>5, <1>7 DEF Above
<1>11. LET st == <<"abort", "use", "settle">> IN
         /\ st \in Seq(Frame) /\ Ordered(st) /\ Aborting(st) /\ WillComplete(st)
         /\ WillAbort(st) /\ Emptying(st) /\ ~Telling(st) /\ ~Answering(st)
  <2>1. LET st == <<"use", "settle">> IN Ordered(st) /\ ~Telling(st) /\ ~Answering(st)
    BY <1>2, <1>5, <1>6 DEF Above
  <2> QED  BY <2>1, <1>3, <1>5 DEF Above
<1>12. LET st == <<"abort">> IN
         /\ st \in Seq(Frame) /\ Ordered(st) /\ Aborting(st) /\ WillComplete(st)
         /\ WillAbort(st) /\ Emptying(st) /\ ~Telling(st) /\ ~Answering(st)
  BY <1>1, <1>5, Empty DEF Above
<1>13. LET st == <<"abort", "abort">> IN
         /\ st \in Seq(Frame) /\ Ordered(st) /\ Aborting(st) /\ WillComplete(st)
         /\ WillAbort(st) /\ Emptying(st) /\ ~Telling(st) /\ ~Answering(st)
  BY <1>2, <1>5, <1>12 DEF Above
<1>14. LET st == <<"client">> IN
         /\ st \in Seq(Frame) /\ Ordered(st) /\ ~Answering(st) /\ WillComplete(st)
         /\ WillAbort(st) /\ ~Reasoned(st) /\ ~Telling(st)
  BY <1>1, <1>5, Empty DEF Above
<1>15. LET st == <<"client", "use">> IN
         /\ st \in Seq(Frame) /\ Ordered(st) /\ ~Answering(st) /\ WillComplete(st)
         /\ ~Reasoned(st) /\ ~Telling(st)
  <2>1. LET st == <<"use">> IN
           Ordered(st) /\ ~Answering(st) /\ WillComplete(st) /\ ~Reasoned(st) /\ ~Telling(st)
    BY <1>1, <1>5, Empty DEF Above
  <2> QED  BY <2>1, <1>2, <1>5 DEF Above
<1> QED  BY <1>7, <1>8, <1>9, <1>10, <1>11, <1>12, <1>13, <1>14, <1>15

\* A callback on top of st makes no difference to the invariant.
Alike(st, n) ==
    /\ Aborting(n) <=> Aborting(st)
    /\ Answering(n) <=> Answering(st)
    /\ Emptying(n) <=> Emptying(st)
    /\ Reasoned(n) <=> Reasoned(st)
    /\ Telling(n) <=> Telling(st)
    /\ WillComplete(n) <=> WillComplete(st)
    /\ WillAbort(n) <=> WillAbort(st)
    /\ Ordered(n) <=> Ordered(st)

LEMMA ClientAlike ==
    ASSUME NEW st \in Seq(Frame)
    PROVE  <<"client">> \o st \in Seq(Frame) /\ Alike(st, <<"client">> \o st)
<1>1. "client" \in Frame
  BY DEF Frame
<1> QED  BY <1>1, Push DEF Above, Alike

LEMMA CalledAlike ==
    ASSUME NEW st \in Seq(Frame), NEW c
    PROVE  Called(c) \o st \in Seq(Frame) /\ Alike(st, Called(c) \o st)
<1>1. CASE c.pend = NoPend
  <2>1. Called(c) \o st = st
    BY <1>1 DEF Called
  <2> QED  BY <2>1 DEF Alike
<1>2. CASE c.pend # NoPend
  BY <1>2, ClientAlike DEF Called
<1> QED  BY <1>1, <1>2

-----------------------------------------------------------------------------
(* Every action keeps the invariant.                                       *)

\* What the event loop finds when it may handle an event.
LEMMA LoopState ==
    ASSUME IInv, fault = "none", InLoop
    PROVE  (Idle /\ ~timer) \/ Sent \/ Left
    BY Empty DEF IInv, Running, Timed, WireFollows, InLoop, Idle

LEMMA ConnectStep ==
    ASSUME IInv, fault = "none", Connect
    PROVE  IInv'
<1>1. TypeOK'
  BY DEF IInv, TypeOK, Connect
<1>2. /\ rfcomm # "Connected" /\ rfcomm' # "Connected"
      /\ conn = "Disconnected" /\ conn' = "RfcommConnecting"
      /\ UNCHANGED <<queue, wire, timer, waiting, stack, fault>>
  BY DEF Connect
<1>3. Outlived' <=> Outlived
  BY <1>2 DEF Outlived
<1>4. Running'
  BY <1>2, <1>3
  DEF IInv, Running, Timed, Late, CompletedFirst, StillThere, WireFollows, Idle, Sent, Left
<1>5. HandshakeIsExclusive' /\ OnlyDisconnectionFaults'
  BY <1>2, <1>3 DEF IInv, HandshakeIsExclusive, OnlyDisconnectionFaults
<1> QED  BY <1>1, <1>2, <1>4, <1>5 DEF IInv

LEMMA DisconnectStep ==
    ASSUME IInv, fault = "none", Disconnect
    PROVE  IInv'
<1>1. stack \in Seq(Frame) /\ "quiet" \in Frame
  BY DEF IInv, TypeOK, Frame
<1>2. stack' \in Seq(Frame) /\ Above("quiet", stack, stack')
  BY <1>1, Push DEF Disconnect
<1>3. TypeOK'
  BY <1>2 DEF IInv, TypeOK, Disconnect, Frame
<1>4. Outlived' <=> Outlived
  BY DEF Disconnect, Outlived
<1>5. Running'
  BY <1>2, <1>4
  DEF Disconnect, IInv, Running, Timed, Late, Above, CompletedFirst, StillThere, WireFollows
<1> QED  BY <1>3, <1>4, <1>5 DEF Disconnect, IInv, HandshakeIsExclusive, OnlyDisconnectionFaults

\* The queue after a command was added.
LEMMA Added ==
    ASSUME NEW q \in Seq(Command), NEW c \in Command
    PROVE  LET n == Append(q, c) IN
           /\ n \in Seq(Command) /\ n # <<>> /\ Len(n) = Len(q) + 1
           /\ \A i \in 1 .. Len(n) : n[i] = c \/ (i \in 1 .. Len(q) /\ n[i] = q[i])
           /\ q # <<>> => n[1] = q[1]
           /\ q = <<>> => n[1] = c
           /\ Head(n) = n[1] /\ n[1] \in Command
<1> DEFINE n == Append(q, c)
<1>1. /\ n \in Seq(Command) /\ Len(n) = Len(q) + 1 /\ Len(q) \in Nat
      /\ \A i \in 1 .. Len(q) : n[i] = q[i]
      /\ n[Len(q) + 1] = c
  OBVIOUS
<1> HIDE DEF n
<1>2. n # <<>> /\ Head(n) = n[1] /\ n[1] \in Command
  BY <1>1
<1>3. \A i \in 1 .. Len(n) : n[i] = c \/ (i \in 1 .. Len(q) /\ n[i] = q[i])
  <2>1. \A i \in 1 .. Len(n) : i = Len(q) + 1 \/ i \in 1 .. Len(q)
    BY <1>1
  <2> QED  BY <2>1, <1>1
<1>4. q # <<>> => n[1] = q[1]
  <2>1. q # <<>> => 1 \in 1 .. Len(q)
    BY <1>1
  <2> QED  BY <2>1, <1>1
<1>5. q = <<>> => n[1] = c
  <2>1. q = <<>> => Len(q) + 1 = 1
    OBVIOUS
  <2> QED  BY <2>1, <1>1
<1> QED  BY <1>1, <1>2, <1>3, <1>4, <1>5 DEF n

LEMMA IssueStep ==
    ASSUME IInv, fault = "none", NEW p \in Pend, NEW kind \in ClientKind, IssueCommand(p, kind)
    PROVE  IInv'
<1> DEFINE c == [kind |-> kind, pend |-> p]
<1>1. c \in Command /\ c.pend = p /\ c.kind \notin Handshake
  BY DEF Command, Kind, ClientKind, Handshake
<1>2. queue \in Seq(Command) /\ queue' = Append(queue, c) /\ waiting \in SUBSET Pend
  BY DEF IInv, TypeOK, IssueCommand
<1> HIDE DEF c
<1>3. /\ queue' \in Seq(Command) /\ queue' # <<>> /\ Head(queue') = queue'[1]
      /\ \A i \in 1 .. Len(queue') : queue'[i] = c \/ (i \in 1 .. Len(queue) /\ queue'[i] = queue[i])
      /\ queue # <<>> => queue'[1] = queue[1]
      /\ queue'[1] \in Command
  BY <1>1, <1>2, Added
<1>4. TypeOK'
  <2>1. queue'[1].kind \in Kind
    BY <1>3 DEF Command
  <2>2. wire' \in Seq(Kind) /\ timer' \in BOOLEAN
    <3>1. wire \in Seq(Kind) /\ timer \in BOOLEAN
      BY DEF IInv, TypeOK
    <3>2. wire' = wire \/ wire' = Append(wire, queue'[1].kind)
      BY <1>3 DEF IssueCommand, Send
    <3>3. timer' = timer \/ timer' = TRUE
      BY DEF IssueCommand, Send
    <3>4. wire' \in Seq(Kind)
      BY <2>1, <3>1, <3>2
    <3> QED  BY <3>1, <3>3, <3>4
  <2>3. waiting' \subseteq Pend /\ fault' \in {"none", "Unregistered"}
    BY <1>2 DEF IssueCommand
  <2> QED  BY <1>3, <2>2, <2>3 DEF IInv, TypeOK, IssueCommand
<1>5. /\ rfcomm = "Connected" /\ rfcomm' = rfcomm /\ conn = "Connected" /\ conn' = conn
      /\ ~Outlived /\ ~Outlived'
  BY DEF IssueCommand, Outlived
<1>6. HandshakeIsExclusive' /\ OnlyDisconnectionFaults'
  <2>1. \A i \in 1 .. Len(queue') : queue'[i].kind \notin Handshake
    BY <1>1, <1>3, <1>5 DEF IInv, HandshakeIsExclusive
  <2>2. \A j \in 1 .. Len(queue') : \A i \in 1 .. j - 1 : i \in 1 .. Len(queue')
    BY <1>3
  <2> QED  BY <2>1, <2>2, <1>5 DEF IInv, HandshakeIsExclusive, OnlyDisconnectionFaults, IssueCommand
<1>7. ASSUME fault' = "none" PROVE Running'
  <2>1. waiting' = waiting \cup {p} /\ p \notin waiting
    BY <1>7 DEF IssueCommand
  <2>2. Tracks(queue', waiting')
    BY <2>1, <1>1, <1>2, IssuedTracks DEF IInv, Running
  <2>3. rfcomm = "Connected" /\ rfcomm' = rfcomm /\ stack' = stack
    BY DEF IssueCommand
  <2>7. Late'
    <3>1. c.kind \in ClientKind
      BY DEF c
    <3> QED  BY <3>1, <2>3, <1>3, <1>5 DEF IInv, Running, Late
  <2>8. Timed'
    <3>1. queue = <<>> => timer' = TRUE
      BY <1>7 DEF IssueCommand, SendsNow, Send
    <3>2. queue # <<>> => timer' = timer
      BY DEF IssueCommand, SendsNow
    <3> QED  BY <3>1, <3>2, <2>3, <1>3 DEF IInv, Running, Timed
  <2>4. Ordered(stack') /\ StillThere'
    BY <2>3, <1>3 DEF IInv, Running, StillThere
  <2>5. CompletedFirst'
    <3>1. CASE queue # <<>>
      BY <3>1, <2>3, <1>3 DEF IInv, Running, CompletedFirst
    <3>2. CASE WillComplete(stack)
      BY <3>2, <2>3 DEF CompletedFirst
    <3>3. CASE queue = <<>> /\ ~WillComplete(stack)
      BY <3>3, <2>3 DEF IInv, Running, CompletedFirst
    <3> QED  BY <3>1, <3>2, <3>3
  <2>6. WireFollows'
    <3>1. CASE queue = <<>>
      <4>1. wire' = Append(wire, queue'[1].kind) /\ timer' = TRUE
        BY <3>1, <1>7, <1>3 DEF IssueCommand, SendsNow, Send
      <4>2. CASE Answering(stack) /\ ~Aborting(stack)
        <5>1. WillAbort(stack)
          BY <3>1, <2>3 DEF IInv, Running, StillThere
        <5>2. Using(stack)
          BY <4>2 DEF Answering, Using, Has, Users
        <5> QED  BY <5>1, <5>2, <4>2 DEF WillAbort, Guarded, Using, Has, Aborting
      <4>3. CASE Aborting(stack)
        BY <4>3, <2>3 DEF WireFollows
      <4>4. CASE ~Answering(stack) /\ ~Aborting(stack)
        <5>1. wire = <<>>
          BY <4>4, <3>1 DEF IInv, Running, WireFollows, Idle, Sent, Left
        <5>2. wire' = <<queue'[1].kind>>
          BY <4>1, <5>1
        <5> QED  BY <4>1, <5>2, <4>4, <2>3, <1>3, <1>5 DEF WireFollows, Sent
      <4> QED  BY <4>2, <4>3, <4>4
    <3>2. CASE queue # <<>>
      <4>1. wire' = wire /\ timer' = timer
        BY <3>2 DEF IssueCommand, SendsNow
      <4> QED  BY <4>1, <3>2, <2>3, <1>3, <1>5
               DEF IInv, Running, WireFollows, Idle, Sent, Left
    <3> QED  BY <3>1, <3>2
  <2> QED  BY <2>2, <2>4, <2>5, <2>6, <2>7, <2>8, <1>3 DEF Running
<1> QED  BY <1>4, <1>5, <1>6, <1>7 DEF IInv

LEMMA CancelStep ==
    ASSUME IInv, fault = "none", NEW p \in Pend, Cancel(p)
    PROVE  IInv'
<1>1. queue \in Seq(Command) /\ waiting \in SUBSET Pend /\ stack \in Seq(Frame)
  BY DEF IInv, TypeOK, Frame
<1>2. PICK x \in 2 .. Len(queue) :
        /\ queue[x].pend = p
        /\ queue' = SubSeq(queue, 1, x - 1) \o SubSeq(queue, x + 1, Len(queue))
  BY DEF Cancel, Cancellable
<1>3. Tracks(queue, waiting)
  BY DEF IInv, Running
<1>4. /\ queue' \in Seq(Command) /\ Tracks(queue', waiting \ {p})
      /\ queue' # <<>> /\ queue'[1] = queue[1]
      /\ Within(queue', queue)
  BY <1>1, <1>2, <1>3, CancelledTracks
<1>5. stack' \in Seq(Frame) /\ Alike(stack, stack')
  BY <1>1, ClientAlike DEF Cancel
<1>6. TypeOK'
  BY <1>4, <1>5 DEF IInv, TypeOK, Cancel, Frame
<1>7. /\ HandshakeIsExclusive'
      /\ (\A i \in 1 .. Len(queue) : queue[i].kind \in ClientKind)
         => \A i \in 1 .. Len(queue') : queue'[i].kind \in ClientKind
  BY <1>1, <1>4, Exclusive DEF IInv, Cancel
<1>8. queue # <<>>
  BY <1>2, <1>1
<1>9. Outlived' <=> Outlived
  <2>1. Head(queue) = queue[1] /\ Head(queue') = queue'[1]
    BY <1>1, <1>4, <1>8
  <2> QED  BY <2>1, <1>4, <1>8 DEF Outlived, Cancel
<1>10. Running'
  <2>1. CompletedFirst' /\ StillThere' /\ WireFollows'
    BY <1>4, <1>5, <1>8, <1>9
    DEF IInv, Running, Alike, CompletedFirst, StillThere, WireFollows, Idle, Sent, Left, Cancel
  <2>2. Timed' /\ Late'
    BY <1>4, <1>5, <1>7, <1>8, <1>9 DEF IInv, Running, Alike, Timed, Late, Cancel
  <2> QED  BY <2>1, <2>2, <1>4, <1>5 DEF IInv, Running, Alike, Cancel
<1> QED  BY <1>6, <1>7, <1>10 DEF IInv, OnlyDisconnectionFaults, Cancel

LEMMA ForgetStep ==
    ASSUME IInv, fault = "none", NEW p \in Pend, Forget(p)
    PROVE  IInv'
<1>1. queue \in Seq(Command) /\ waiting \in SUBSET Pend
  BY DEF IInv, TypeOK
<1>2. Tracks(queue, waiting)
  BY DEF IInv, Running
<1>3. /\ queue' \in Seq(Command) /\ Len(queue') = Len(queue) /\ Tracks(queue', waiting')
      /\ \A i \in 1 .. Len(queue) : /\ queue'[i].kind = queue[i].kind
                                   /\ queue'[i].pend \in {queue[i].pend, NoPend}
  BY <1>1, <1>2, ForgottenTracks, ZenonT(30) DEF Forget
<1>4. (queue = <<>> <=> queue' = <<>>) /\ (queue # <<>> => 1 \in 1 .. Len(queue))
  BY <1>1, <1>3
<1>5. TypeOK'
  BY <1>3 DEF IInv, TypeOK, Forget
<1>6. /\ HandshakeIsExclusive'
      /\ (\A i \in 1 .. Len(queue) : queue[i].kind \in ClientKind)
         => \A i \in 1 .. Len(queue') : queue'[i].kind \in ClientKind
  BY <1>1, <1>3, SameWithin, Exclusive DEF IInv, Forget
<1>7. Outlived' <=> Outlived
  <2>1. queue # <<>> => Head(queue) = queue[1] /\ Head(queue') = queue'[1]
    BY <1>1, <1>3, <1>4
  <2> QED  BY <2>1, <1>3, <1>4 DEF Outlived, Forget
<1>8. CompletedFirst' /\ StillThere' /\ WireFollows'
  BY <1>3, <1>4, <1>7
  DEF IInv, Running, CompletedFirst, StillThere, WireFollows, Idle, Sent, Left, Forget
<1>9. Running'
  BY <1>3, <1>4, <1>6, <1>7, <1>8 DEF IInv, Running, Timed, Late, Forget
<1> QED  BY <1>5, <1>6, <1>9 DEF IInv, OnlyDisconnectionFaults, Forget

LEMMA ReturnStep ==
    ASSUME IInv, fault = "none", ClientReturns
    PROVE  IInv'
<1>1. stack \in Seq(Frame) /\ stack # <<>> /\ Head(stack) = "client" /\ stack' = Tail(stack)
  BY DEF IInv, TypeOK, Frame, ClientReturns, Top, Return
<1>2. stack' \in Seq(Frame) /\ Above("client", stack', stack)
  BY <1>1, Pop
<1>3. TypeOK'
  BY <1>2 DEF IInv, TypeOK, Frame, ClientReturns
<1>4. Outlived' <=> Outlived
  BY DEF Outlived, ClientReturns
<1>5. Running'
  BY <1>2, <1>4
  DEF IInv, Running, Timed, Late, Above, CompletedFirst, StillThere, WireFollows, Idle, Sent,
      Left, ClientReturns
<1> QED  BY <1>3, <1>4, <1>5
         DEF IInv, HandshakeIsExclusive, OnlyDisconnectionFaults, ClientReturns

LEMMA ReconnectStep ==
    ASSUME IInv, fault = "none", AutoReconnect
    PROVE  IInv'
<1>1. /\ rfcomm # "Connected" /\ rfcomm' # "Connected"
      /\ conn = "Disconnected" /\ conn' = "RfcommConnecting"
      /\ UNCHANGED <<queue, wire, timer, waiting, fault>>
      /\ stack' = <<"client">>
  BY DEF AutoReconnect
<1>2. /\ stack' \in Seq(Frame) /\ Ordered(stack') /\ ~Answering(stack')
      /\ WillComplete(stack') /\ WillAbort(stack') /\ ~Telling(stack')
  BY <1>1, Handled
<1>3. TypeOK'
  BY <1>2 DEF IInv, TypeOK, Frame, AutoReconnect
<1>4. (Idle /\ ~timer) \/ Left
  BY LoopState, <1>1 DEF AutoReconnect, Sent, Outlived
<1>5. Outlived' <=> Outlived
  BY <1>1 DEF Outlived
<1>6. Running'
  BY <1>1, <1>2, <1>4, <1>5
  DEF IInv, Running, Timed, Late, CompletedFirst, StillThere, WireFollows, Idle, Left
<1>7. HandshakeIsExclusive' /\ OnlyDisconnectionFaults'
  BY <1>1, <1>5 DEF IInv, HandshakeIsExclusive, OnlyDisconnectionFaults
<1> QED  BY <1>1, <1>3, <1>6, <1>7 DEF IInv

LEMMA LostStep ==
    ASSUME IInv, fault = "none", ConnectionLost \/ CommandTimeout
    PROVE  IInv'
<1>1. stack' = <<"abort">> /\ UNCHANGED <<conn, rfcomm, queue, wire, waiting, fault>>
  BY DEF ConnectionLost, CommandTimeout
<1>2. timer' = timer \/ timer' = FALSE
  BY DEF ConnectionLost, CommandTimeout
<1>3. /\ stack' \in Seq(Frame) /\ Ordered(stack') /\ Aborting(stack')
      /\ WillComplete(stack') /\ WillAbort(stack')
      /\ Emptying(stack') /\ ~Telling(stack') /\ ~Answering(stack')
  BY <1>1, Handled
<1>4. TypeOK'
  <2>1. timer' \in BOOLEAN
    BY <1>2 DEF IInv, TypeOK
  <2> QED  BY <1>1, <1>3, <2>1 DEF IInv, TypeOK, Frame
<1>5. Running'
  <2>1. queue' = <<>> => ~timer'
    BY <1>1, <1>2 DEF IInv, Running, Timed
  <2> QED  BY <1>1, <1>3, <2>1
           DEF IInv, Running, Timed, Late, CompletedFirst, StillThere, WireFollows
<1>6. Outlived' <=> Outlived
  BY <1>1 DEF Outlived
<1> QED  BY <1>1, <1>4, <1>5, <1>6 DEF IInv, HandshakeIsExclusive, OnlyDisconnectionFaults

LEMMA Tabulated ==
    ASSUME NEW S, NEW n \in Nat, NEW f \in [1 .. n -> S]
    PROVE  f \in Seq(S) /\ Len(f) = n
    OBVIOUS

LEMMA OpeningCommands ==
    /\ Opening \in Seq(Command) /\ Len(Opening) = 5
    /\ \A i \in 1 .. 5 : Opening[i].pend = NoPend /\ Opening[i].kind \in Handshake
<1> DEFINE kinds == <<"BRSF", "CIND=?", "CMER", "CLIP", "CCWA">>
<1>1. \A kind \in Handshake : /\ Internal(kind) \in Command /\ Internal(kind).pend = NoPend
                              /\ Internal(kind).kind = kind
  BY DEF Internal, Command, Kind
<1>2. \A i \in 1 .. 5 : kinds[i] \in Handshake
  BY DEF Handshake
<1>3. Opening = [i \in 1 .. 5 |-> Internal(kinds[i])]
  BY DEF Opening
<1> HIDE DEF kinds
<1>4. \A i \in 1 .. 5 : /\ Opening[i] \in Command /\ Opening[i].pend = NoPend
                        /\ Opening[i].kind \in Handshake
  BY <1>1, <1>2, <1>3
<1>5. Opening \in [1 .. 5 -> Command]
  BY <1>3, <1>4
<1> QED  BY <1>4, <1>5, Tabulated

LEMMA HandshakeStep ==
    ASSUME IInv, fault = "none", HfpHandshake
    PROVE  IInv'
<1>1. /\ queue \in Seq(Command) /\ waiting \in SUBSET Pend /\ Tracks(queue, waiting)
      /\ stack = <<>> /\ rfcomm # "Connected"
      /\ conn' = "Handshaking" /\ rfcomm' = "Connected" /\ UNCHANGED <<waiting, fault>>
  BY DEF IInv, TypeOK, Running, HfpHandshake, InLoop
<1>2. (Idle /\ ~timer) \/ Left
  BY <1>1, LoopState DEF HfpHandshake, Sent, Outlived
<1>3. \A i \in 1 .. Len(queue) : queue[i].kind \in ClientKind
  BY <1>1 DEF IInv, HandshakeIsExclusive
<1>4. \A kind \in Handshake : kind \notin ClientKind /\ kind \in Kind
  BY DEF ClientKind, Handshake, Kind
<1> DEFINE all == queue \o Opening
           sends == /\ queue' = all
                    /\ IF SendsNow THEN Send(queue') ELSE UNCHANGED <<wire, timer>>
                    /\ stack' = IF rfcomm = "Connecting" THEN stack ELSE <<"client">>
           fails == /\ SendsNow
                    /\ queue' = <<Internal("BRSF")>>
                    /\ stack' = <<"abort", "abort">>
                    /\ UNCHANGED <<wire, timer>>
<1>5. sends \/ fails
  BY DEF HfpHandshake
<1>6. CASE sends
  <2>1. /\ all \in Seq(Command) /\ Len(all) = Len(queue) + 5
        /\ \A i \in 1 .. Len(queue) : all[i] = queue[i]
        /\ \A i \in 1 .. Len(all) : ~(i <= Len(queue)) =>
              i - Len(queue) \in 1 .. 5 /\ all[i] = Opening[i - Len(queue)]
        /\ Tracks(all, waiting)
    <3>1. /\ Opening \in Seq(Command) /\ Len(Opening) = 5
          /\ \A i \in 1 .. Len(Opening) : Opening[i].pend = NoPend
      BY OpeningCommands
    <3>2. /\ all \in Seq(Command) /\ Len(all) = Len(queue) + Len(Opening)
          /\ \A i \in 1 .. Len(queue) : all[i] = queue[i]
          /\ \A i \in 1 .. Len(all) : ~(i <= Len(queue)) =>
                i - Len(queue) \in 1 .. Len(Opening) /\ all[i] = Opening[i - Len(queue)]
          /\ Tracks(all, waiting)
      BY <1>1, <3>1, JoinedTracks, Zenon
    <3> HIDE DEF all
    <3> QED  BY <3>1, <3>2
  <2>2. queue' = all
    BY <1>6
  <2> HIDE DEF all
  <2>3. /\ Len(queue) \in Nat /\ queue' # <<>> /\ 1 \in 1 .. Len(queue')
        /\ Head(queue') = queue'[1] /\ queue'[1] \in Command
    BY <1>1, <2>1, <2>2
  <2>4. \A i \in 1 .. Len(queue') : IF i <= Len(queue) THEN queue'[i].kind \in ClientKind
                                                       ELSE queue'[i].kind \in Handshake
    <3> TAKE i \in 1 .. Len(queue')
    <3>1. CASE i <= Len(queue)
      <4>1. i \in 1 .. Len(queue)
        BY <3>1, <2>1, <2>2, <2>3
      <4> QED  BY <4>1, <3>1, <1>3, <2>1, <2>2
    <3>2. CASE ~(i <= Len(queue))
      BY <3>2, <2>1, <2>2, OpeningCommands
    <3> QED  BY <3>1, <3>2
  <2>5. queue = <<>> <=> ~(1 <= Len(queue))
    BY <1>1, <2>3
  <2>6. Outlived' <=> queue # <<>>
    BY <1>1, <1>4, <2>3, <2>4, <2>5 DEF Outlived
  <2>7. HandshakeIsExclusive'
    <3>1. \A i \in 1 .. Len(queue') : i <= Len(queue) => queue # <<>>
      BY <1>1, <2>3
    <3>2. \A i \in 1 .. Len(queue') : \/ queue'[i].kind \in Handshake /\ conn' = "Handshaking"
                                      \/ queue'[i].kind \in ClientKind /\ Outlived'
      BY <1>1, <2>4, <2>6, <3>1
    <3>3. \A j \in 1 .. Len(queue') : \A i \in 1 .. j - 1 :
            queue'[i].kind \in Handshake => queue'[j].kind \in Handshake
      <4> TAKE j \in 1 .. Len(queue')
      <4> TAKE i \in 1 .. j - 1
      <4>1. i \in 1 .. Len(queue') /\ (~(i <= Len(queue)) => ~(j <= Len(queue)))
        BY <2>1, <2>2, <2>3
      <4> QED  BY <4>1, <2>4, <1>4
    <3> QED  BY <3>2, <3>3 DEF HandshakeIsExclusive
  <2>8. \/ queue = <<>> /\ wire' = <<queue'[1].kind>> /\ timer' = TRUE
        \/ queue # <<>> /\ wire' = <<>> /\ timer' = TRUE
    <3>1. CASE queue = <<>>
      <4>1. wire = <<>>
        BY <3>1, <1>2 DEF Idle, Left
      <4>2. wire' = Append(wire, queue'[1].kind) /\ timer' = TRUE
        BY <3>1, <1>6, <2>3 DEF SendsNow, Send
      <4> QED  BY <3>1, <4>1, <4>2
    <3>2. CASE queue # <<>>
      <4>1. wire = <<>> /\ timer = TRUE
        BY <3>2, <1>2 DEF Idle, Left, IInv, TypeOK
      <4>2. UNCHANGED <<wire, timer>>
        BY <3>2, <1>6 DEF SendsNow
      <4> QED  BY <3>2, <4>1, <4>2
    <3> QED  BY <3>1, <3>2
  <2>9. stack' = <<>> \/ stack' = <<"client">>
    BY <1>1, <1>6
  <2>10. /\ stack' \in Seq(Frame) /\ Ordered(stack') /\ ~Answering(stack')
         /\ ~Telling(stack') /\ WillComplete(stack')
    BY <2>9, Handled, Empty
  <2>11. TypeOK'
    <3>1. queue'[1].kind \in Kind
      BY <2>3 DEF Command
    <3>2. <<>> \in Seq(Kind) /\ <<queue'[1].kind>> \in Seq(Kind)
      BY <3>1
    <3> QED  BY <1>1, <2>1, <2>2, <2>8, <2>10, <3>2 DEF IInv, TypeOK, Frame
  <2>12. Running'
    BY <1>1, <2>1, <2>2, <2>3, <2>6, <2>8, <2>10
    DEF Running, Timed, Late, CompletedFirst, StillThere, WireFollows, Sent, Left
  <2> QED  BY <1>1, <2>7, <2>11, <2>12 DEF IInv, OnlyDisconnectionFaults
<1>7. CASE fails
  <2>1. "BRSF" \in Handshake
    BY DEF Handshake
  <2>2. /\ Internal("BRSF") \in Command /\ Internal("BRSF").pend = NoPend
        /\ Internal("BRSF").kind = "BRSF"
    BY <1>4, <2>1 DEF Internal, Command
  <2>3. /\ queue' \in Seq(Command) /\ queue' # <<>> /\ Len(queue') = 1
        /\ \A i \in 1 .. Len(queue') : queue'[i].pend = NoPend /\ queue'[i].kind = "BRSF"
        /\ Head(queue').kind = "BRSF"
    BY <1>7, <2>2
  <2>4. /\ stack' \in Seq(Frame) /\ Ordered(stack') /\ Aborting(stack')
        /\ WillComplete(stack') /\ WillAbort(stack')
        /\ Emptying(stack') /\ ~Telling(stack') /\ ~Answering(stack')
    BY <1>7, Handled
  <2>5. Tracks(queue', waiting')
    <3>1. queue = <<>>
      BY <1>7 DEF SendsNow
    <3>2. Tracks(<<>>, waiting)
      BY <1>1, <3>1
    <3>3. waiting = {}
      BY <1>1, <3>2, NobodyWaits
    <3> QED  BY <1>1, <2>3, <3>3, InternalsTrack
  <2>6. TypeOK'
    BY <1>1, <1>7, <2>3, <2>4 DEF IInv, TypeOK, Frame
  <2>7. Running'
    BY <2>3, <2>4, <2>5 DEF Running, Timed, Late, CompletedFirst, StillThere, WireFollows
  <2>8. HandshakeIsExclusive'
    BY <1>1, <2>1, <2>3 DEF HandshakeIsExclusive
  <2> QED  BY <1>1, <2>6, <2>7, <2>8 DEF IInv, OnlyDisconnectionFaults
<1> QED  BY <1>5, <1>6, <1>7

\* What is known when a line of the device is processed.
LEMMA AnswerState ==
    ASSUME IInv, fault = "none", Answerable
    PROVE  /\ queue \in Seq(Command) /\ queue # <<>> /\ Head(queue) = queue[1]
           /\ 1 \in 1 .. Len(queue) /\ queue[1] \in Command
           /\ waiting \in SUBSET Pend /\ Tracks(queue, waiting)
           /\ timer /\ wire = <<queue[1].kind>> /\ Tail(wire) = <<>>
           /\ stack = <<>> /\ rfcomm = "Connected" /\ ~Outlived
           /\ \A i \in 1 .. Len(queue) :
                 queue[i].kind \in Handshake <=> conn = "Handshaking"
<1>1. queue \in Seq(Command) /\ queue # <<>> /\ waiting \in SUBSET Pend /\ stack = <<>>
  BY DEF IInv, TypeOK, Answerable, InLoop
<1>2. Head(queue) = queue[1] /\ 1 \in 1 .. Len(queue) /\ queue[1] \in Command
  BY <1>1
<1>3. Sent
  BY <1>1, LoopState DEF Answerable, Idle, Left
<1>4. wire = <<queue[1].kind>> /\ timer
  BY <1>3 DEF Sent
<1>5. Tail(wire) = <<>>
  BY <1>4
<1>6. ~Outlived /\ rfcomm = "Connected"
  BY <1>3 DEF Sent, Answerable
<1>7. \A i \in 1 .. Len(queue) : queue[i].kind \in Handshake <=> conn = "Handshaking"
  BY <1>6 DEF IInv, HandshakeIsExclusive
<1> QED  BY <1>1, <1>2, <1>4, <1>5, <1>6, <1>7 DEF IInv, Running

\* The first command completes, and CHLD may be queued behind it.
LEMMA AnswerStep ==
    ASSUME IInv, fault = "none", Answer \/ RefuseCops
    PROVE  IInv'
<1>1. Answerable
  BY DEF Answer, RefuseCops
<1>2. /\ queue \in Seq(Command) /\ queue # <<>> /\ Head(queue) = queue[1]
      /\ 1 \in 1 .. Len(queue) /\ queue[1] \in Command
      /\ waiting \in SUBSET Pend /\ Tracks(queue, waiting)
      /\ timer /\ wire = <<queue[1].kind>> /\ Tail(wire) = <<>>
      /\ stack = <<>> /\ rfcomm = "Connected" /\ ~Outlived
      /\ \A i \in 1 .. Len(queue) : queue[i].kind \in Handshake <=> conn = "Handshaking"
  BY <1>1, AnswerState
<1>3. /\ wire' = <<>> /\ waiting' = waiting \ {queue[1].pend}
      /\ stack' = Called(queue[1]) \o <<"delete", "settle">>
      /\ UNCHANGED <<conn, rfcomm, timer, fault>>
      /\ \/ queue' = Completed
         \/ queue[1].kind = "BRSF" /\ queue' = Append(Completed, Internal("CHLD"))
  BY <1>2 DEF Answer, RefuseCops
<1>4. /\ Completed \in Seq(Command) /\ Len(Completed) = Len(queue) /\ Completed # <<>>
      /\ Completed[1].pend = NoPend /\ Completed[1].kind = queue[1].kind
      /\ \A i \in 2 .. Len(queue) : Completed[i] = queue[i]
      /\ Tracks(Completed, waiting')
  BY <1>2, <1>3, CompletedTracks DEF Completed
<1>5. Internal("CHLD") \in Command /\ Internal("CHLD").kind = "CHLD" /\ "CHLD" \in Kind
  BY DEF Internal, Command, Kind, Handshake
<1>6. waiting' \in SUBSET Pend
  BY <1>2, <1>3
<1>7. /\ queue' \in Seq(Command) /\ queue' # <<>> /\ queue'[1].pend = NoPend
      /\ Tracks(queue', waiting')
  <2>1. CASE queue' = Completed
    BY <2>1, <1>4
  <2>2. CASE queue' = Append(Completed, Internal("CHLD"))
    BY <2>2, <1>4, <1>5, <1>6, Added, InternalTracks
  <2> QED  BY <1>3, <2>1, <2>2
<1>8. stack' \in Seq(Frame) /\ Ordered(stack') /\ Answering(stack')
      /\ ~Reasoned(stack') /\ ~Telling(stack')
  BY <1>3, Handled, CalledAlike DEF Alike
<1>9. TypeOK'
  BY <1>3, <1>6, <1>7, <1>8 DEF IInv, TypeOK, Frame
<1>10. /\ \A i \in 1 .. Len(queue') : queue'[i].kind \in Handshake <=> conn = "Handshaking"
       /\ Head(queue').kind = queue[1].kind
  <2>1. \A i \in 1 .. Len(Completed) : i \in 1 .. Len(queue) /\ Completed[i].kind = queue[i].kind
    <3>1. \A i \in 1 .. Len(queue) : i = 1 \/ i \in 2 .. Len(queue)
      BY <1>2
    <3> QED  BY <3>1, <1>4
  <2>2. CASE queue' = Completed
    <3>1. Head(queue') = Completed[1]
      BY <2>2, <1>4
    <3> QED  BY <2>1, <2>2, <3>1, <1>2, <1>4
  <2>3. CASE queue[1].kind = "BRSF" /\ queue' = Append(Completed, Internal("CHLD"))
    <3>1. /\ \A i \in 1 .. Len(queue') : queue'[i].kind = "CHLD"
                                        \/ (i \in 1 .. Len(Completed) /\ queue'[i] = Completed[i])
          /\ Head(queue') = Completed[1]
      BY <2>3, <1>4, <1>5, Added
    <3>2. conn = "Handshaking"
      BY <2>3, <1>2 DEF Handshake
    <3> QED  BY <3>1, <3>2, <2>1, <1>2, <1>4 DEF Handshake
  <2> QED  BY <1>3, <2>2, <2>3
<1>11. ~Outlived' /\ HandshakeIsExclusive'
  <2>1. conn = "Handshaking" \/ conn = "Connected"
    BY <1>2 DEF IInv, HandshakeIsExclusive
  <2>2. \A i \in 1 .. Len(queue') : \A k \in 1 .. i - 1 : k \in 1 .. Len(queue')
    BY <1>7
  <2>3. queue[1].kind \notin ClientKind \/ conn = "Connected"
    BY <1>2, <2>1 DEF ClientKind, Handshake
  <2> QED  BY <1>2, <1>3, <1>10, <2>1, <2>2, <2>3 DEF Outlived, HandshakeIsExclusive
<1>12. Running'
  BY <1>2, <1>3, <1>7, <1>8, <1>11
  DEF Running, Timed, Late, CompletedFirst, StillThere, WireFollows
<1>13. OnlyDisconnectionFaults' /\ rfcomm' = "Connected"
  BY <1>2, <1>3 DEF IInv, OnlyDisconnectionFaults
<1> QED  BY <1>9, <1>11, <1>12, <1>13 DEF IInv

LEMMA EventStep ==
    ASSUME IInv, fault = "none", AnswerWithEvent \/ RefuseCmer \/ Indicators
    PROVE  IInv'
<1>1. Answerable
  BY DEF AnswerWithEvent, RefuseCmer, Indicators
<1>2. /\ queue # <<>> /\ timer /\ wire = <<queue[1].kind>> /\ Tail(wire) = <<>>
      /\ queue[1].kind \in Kind /\ ~Outlived
  BY <1>1, AnswerState DEF Command
<1>3. UNCHANGED <<conn, rfcomm, queue, timer, waiting, fault>>
  BY DEF AnswerWithEvent, RefuseCmer, Indicators
<1>4. \/ wire' = <<>> /\ stack' = <<"client", "complete", "delete", "settle">>
      \/ wire' = <<>> /\ stack' = <<"abort", "delete", "settle">> /\ conn # "Connected"
      \/ wire' = wire /\ stack' = <<"client", "use">>
  <2>1. RefuseCmer => conn # "Connected"
    <3>1. RefuseCmer => queue[1].kind \in Handshake
      BY <1>1, AnswerState DEF RefuseCmer, Handshake
    <3> QED  BY <1>1, <3>1, AnswerState
  <2> QED  BY <1>2, <2>1 DEF AnswerWithEvent, RefuseCmer, Indicators
<1>5. /\ stack' \in Seq(Frame) /\ Ordered(stack') /\ WillComplete(stack')
      /\ ~Telling(stack') /\ (Reasoned(stack') => conn # "Connected")
      /\ \/ Aborting(stack')
         \/ Answering(stack') /\ wire' = <<>>
         \/ ~Answering(stack') /\ wire' = wire
  BY <1>4, Handled
<1>6. TypeOK'
  <2>1. wire' \in Seq(Kind)
    <3>1. wire \in Seq(Kind)
      BY DEF IInv, TypeOK
    <3>2. wire' = <<>> \/ wire' = wire
      BY <1>4
    <3>3. <<>> \in Seq(Kind)
      OBVIOUS
    <3> QED  BY <3>1, <3>2, <3>3, Zenon
  <2> QED  BY <2>1, <1>3, <1>5 DEF IInv, TypeOK, Frame
<1>7. Running'
  <2>1. ~Outlived'
    BY <1>2, <1>3 DEF Outlived
  <2> QED  BY <1>2, <1>3, <1>5, <2>1
           DEF IInv, Running, Timed, Late, CompletedFirst, StillThere, WireFollows, Sent
<1>8. Outlived' <=> Outlived
  BY <1>3 DEF Outlived
<1> QED  BY <1>3, <1>6, <1>7, <1>8 DEF IInv, HandshakeIsExclusive, OnlyDisconnectionFaults

\* The second stage of COPS.
LEMMA CopsStep ==
    ASSUME IInv, fault = "none", AnswerCops
    PROVE  IInv'
<1>1. /\ queue \in Seq(Command) /\ queue # <<>> /\ Head(queue) = queue[1]
      /\ 1 \in 1 .. Len(queue) /\ queue[1] \in Command
      /\ waiting \in SUBSET Pend /\ Tracks(queue, waiting)
      /\ timer /\ wire = <<queue[1].kind>> /\ Tail(wire) = <<>>
      /\ stack = <<>> /\ rfcomm = "Connected" /\ ~Outlived
      /\ \A i \in 1 .. Len(queue) : queue[i].kind \in Handshake <=> conn = "Handshaking"
  BY AnswerState DEF AnswerCops
<1>2. queue' = [queue EXCEPT ![1].kind = "COPS?"] /\ queue[1].kind = "COPS"
  BY <1>1 DEF AnswerCops
<1>3. "COPS?" \in Kind /\ "COPS?" \notin Handshake /\ "COPS" \notin Handshake
  BY DEF Kind, Handshake
<1>4. [queue[1] EXCEPT !.kind = "COPS?"] \in Command
  BY <1>1, <1>3 DEF Command
<1>5. queue' \in Seq(Command) /\ Len(queue') = Len(queue) /\ queue' # <<>>
  BY <1>1, <1>2, <1>4
<1>6. queue'[1].kind = "COPS?" /\ queue'[1].pend = queue[1].pend
  BY <1>1, <1>2 DEF Command
<1>7. \A i \in 1 .. Len(queue) : i # 1 => queue'[i] = queue[i]
  BY <1>1, <1>2
<1>8. Tracks(queue', waiting)
  BY <1>1, <1>5, <1>6, <1>7, SamePendings
<1>9. HandshakeIsExclusive' /\ ~Outlived'
  <2>1. conn = "Connected" /\ UNCHANGED <<conn, rfcomm>>
    BY <1>1, <1>2, <1>3 DEF AnswerCops, IInv, HandshakeIsExclusive
  <2>2. \A i \in 1 .. Len(queue') : queue'[i].kind \notin Handshake
    BY <1>1, <1>3, <1>5, <1>6, <1>7, <2>1
  <2>3. \A j \in 1 .. Len(queue') : \A i \in 1 .. j - 1 : i \in 1 .. Len(queue')
    BY <1>5
  <2> QED  BY <1>1, <2>1, <2>2, <2>3 DEF HandshakeIsExclusive, Outlived
<1>10. CASE wire' = Append(Tail(wire), "COPS?") /\ UNCHANGED stack
  <2>1. wire' = <<queue'[1].kind>> /\ wire' \in Seq(Kind)
    BY <1>1, <1>3, <1>6, <1>10
  <2>2. TypeOK'
    BY <1>5, <2>1, <1>10 DEF IInv, TypeOK, AnswerCops
  <2>3. Running'
    BY <1>1, <1>5, <1>8, <1>9, <1>10, <2>1, Empty
    DEF Running, Timed, Late, CompletedFirst, StillThere, WireFollows, Sent, AnswerCops
  <2> QED  BY <1>1, <1>9, <2>2, <2>3 DEF IInv, OnlyDisconnectionFaults, AnswerCops
<1>11. CASE wire' = Tail(wire) /\ stack' = <<"abort", "use", "settle">>
  <2>1. /\ stack' \in Seq(Frame) /\ Ordered(stack') /\ Aborting(stack')
        /\ WillComplete(stack') /\ WillAbort(stack')
        /\ Emptying(stack') /\ ~Telling(stack') /\ ~Answering(stack')
    BY <1>11, Handled
  <2>2. TypeOK'
    BY <1>1, <1>5, <1>11, <2>1 DEF IInv, TypeOK, AnswerCops, Frame
  <2>3. Running'
    BY <1>1, <1>5, <1>8, <1>9, <2>1
    DEF Running, Timed, Late, CompletedFirst, StillThere, WireFollows, AnswerCops
  <2> QED  BY <1>1, <1>9, <2>2, <2>3 DEF IInv, OnlyDisconnectionFaults, AnswerCops
<1> QED  BY <1>10, <1>11 DEF AnswerCops

\* What is known of the frame on top.
LEMMA TopState ==
    ASSUME IInv, NEW do, Top(do)
    PROVE  /\ stack \in Seq(Frame) /\ stack # <<>>
           /\ Tail(stack) \in Seq(Frame) /\ Above(do, Tail(stack), stack)
           /\ queue \in Seq(Command) /\ waiting \in SUBSET Pend
<1>1. stack \in Seq(Frame) /\ stack # <<>> /\ Head(stack) = do
  BY DEF IInv, TypeOK, Frame, Top
<1> QED  BY <1>1, Pop DEF IInv, TypeOK

LEMMA UsedStep ==
    ASSUME IInv, fault = "none", UseStep
    PROVE  IInv'
<1>1. Tail(stack) \in Seq(Frame) /\ Above("use", Tail(stack), stack) /\ stack' = Tail(stack)
  BY TopState DEF UseStep, Return
<1>2. UNCHANGED <<conn, rfcomm, queue, wire, timer, waiting>>
  BY DEF UseStep
<1>3. TypeOK'
  BY <1>1, <1>2 DEF IInv, TypeOK, Frame, UseStep
<1>4. ~WillAbort(stack)
  BY <1>1 DEF Above
<1>5. OnlyDisconnectionFaults'
  BY <1>2, <1>4 DEF IInv, Running, StillThere, OnlyDisconnectionFaults, UseStep
<1>6. Outlived' <=> Outlived
  BY <1>2 DEF Outlived
<1>7. Running'
  <2>1. StillThere'
    BY <1>2, <1>4 DEF IInv, Running, StillThere
  <2> QED  BY <1>1, <1>2, <1>6, <2>1
           DEF IInv, Running, Timed, Late, Above, CompletedFirst, WireFollows, Idle, Sent, Left
<1> QED  BY <1>2, <1>3, <1>5, <1>6, <1>7 DEF IInv, HandshakeIsExclusive

LEMMA CompletionStep ==
    ASSUME IInv, fault = "none", CompleteStep
    PROVE  IInv'
<1>1. /\ Tail(stack) \in Seq(Frame) /\ Above("complete", Tail(stack), stack)
      /\ queue \in Seq(Command) /\ waiting \in SUBSET Pend
  BY TopState DEF CompleteStep
<1>2. UNCHANGED <<conn, rfcomm, wire, timer>>
  BY DEF CompleteStep
<1>3. CASE queue = <<>>
  <2>1. stack' = Tail(stack) /\ UNCHANGED <<queue, waiting>> /\ fault' = "UseAfterDelete"
    BY <1>3 DEF CompleteStep, Return
  <2>2. TypeOK'
    BY <1>1, <1>2, <2>1 DEF IInv, TypeOK, Frame
  <2>3. ~WillAbort(stack)
    BY <1>1 DEF Above
  <2>4. OnlyDisconnectionFaults'
    BY <1>2, <1>3, <2>3 DEF IInv, Running, StillThere, OnlyDisconnectionFaults
  <2>5. Outlived' <=> Outlived
    BY <1>2, <2>1 DEF Outlived
  <2> QED  BY <1>2, <2>1, <2>2, <2>4, <2>5 DEF IInv, HandshakeIsExclusive
<1>4. CASE queue # <<>>
  <2>1. /\ queue' = Completed /\ waiting' = waiting \ {queue[1].pend} /\ fault' = fault
        /\ stack' = Called(Head(queue)) \o Tail(stack)
    BY <1>1, <1>4 DEF CompleteStep
  <2>2. Tracks(queue, waiting)
    BY DEF IInv, Running
  <2>3. /\ queue' \in Seq(Command) /\ Len(queue') = Len(queue) /\ queue' # <<>>
        /\ queue'[1].pend = NoPend /\ queue'[1].kind = queue[1].kind
        /\ \A i \in 2 .. Len(queue) : queue'[i] = queue[i]
        /\ Tracks(queue', waiting')
    BY <1>1, <1>4, <2>1, <2>2, CompletedTracks DEF Completed
  <2>4. stack' \in Seq(Frame) /\ Alike(Tail(stack), stack')
    BY <1>1, <2>1, CalledAlike
  <2>5. TypeOK'
    BY <1>1, <1>2, <2>1, <2>3, <2>4 DEF IInv, TypeOK, Frame
  <2>6. /\ HandshakeIsExclusive'
        /\ (\A i \in 1 .. Len(queue) : queue[i].kind \in ClientKind)
           => \A i \in 1 .. Len(queue') : queue'[i].kind \in ClientKind
    <3>1. \A i \in 1 .. Len(queue) : queue'[i].kind = queue[i].kind
      <4>1. \A i \in 1 .. Len(queue) : i = 1 \/ i \in 2 .. Len(queue)
        BY <1>1
      <4> QED  BY <4>1, <2>3
    <3>2. Within(queue', queue)
      BY <3>1, <1>1, <2>3, SameWithin
    <3> QED  BY <3>2, <1>1, <1>2, <2>3, Exclusive DEF IInv
  <2>7. Outlived' <=> Outlived
    <3>1. Head(queue) = queue[1] /\ Head(queue') = queue'[1]
      BY <1>1, <1>4, <2>3
    <3> QED  BY <3>1, <1>2, <1>4, <2>3 DEF Outlived
  <2>8. WireFollows' /\ Timed' /\ Late'
    <3>1. /\ Aborting(stack') <=> Aborting(stack)
          /\ Answering(stack') <=> Answering(stack)
          /\ Emptying(stack') <=> Emptying(stack)
          /\ Reasoned(stack') <=> Reasoned(stack)
          /\ Telling(stack') <=> Telling(stack)
      BY <1>1, <2>4 DEF Above, Alike
    <3>2. WireFollows'
      BY <3>1, <1>2, <1>4, <2>3, <2>7 DEF IInv, Running, WireFollows, Idle, Sent, Left
    <3>3. Timed' /\ Late'
      BY <3>1, <1>2, <1>4, <2>3, <2>6, <2>7 DEF IInv, Running, Timed, Late
    <3> QED  BY <3>2, <3>3
  <2>9. Running'
    BY <1>1, <1>2, <2>3, <2>4, <2>8
    DEF IInv, Running, Above, Alike, CompletedFirst, StillThere
  <2> QED  BY <1>2, <1>4, <2>1, <2>5, <2>6, <2>9 DEF IInv, OnlyDisconnectionFaults
<1> QED  BY <1>3, <1>4

LEMMA DeleteStep ==
    ASSUME IInv, fault = "none", DeleteFirstCommand
    PROVE  IInv'
<1>1. /\ Tail(stack) \in Seq(Frame) /\ Above("delete", Tail(stack), stack)
      /\ queue \in Seq(Command) /\ waiting \in SUBSET Pend
  BY TopState DEF DeleteFirstCommand
<1>2. UNCHANGED <<conn, rfcomm, waiting>>
  BY DEF DeleteFirstCommand
<1>3. /\ ~WillComplete(stack) /\ ~WillAbort(stack) /\ Answering(stack)
      /\ Ordered(Tail(stack)) /\ ~Using(Tail(stack)) /\ ~Telling(Tail(stack))
  BY <1>1 DEF Above, IInv, Running
<1>4. ~Answering(Tail(stack)) /\ WillComplete(Tail(stack)) /\ WillAbort(Tail(stack))
  BY <1>3 DEF Using, Answering, WillComplete, WillAbort, Has, Guarded, Users
<1>5. CASE queue = <<>>
  <2>1. stack' = Tail(stack) /\ UNCHANGED <<queue, wire, timer>> /\ fault' = "DeleteFirstCommand"
    BY <1>5 DEF DeleteFirstCommand, Return
  <2>2. TypeOK'
    BY <1>1, <1>2, <2>1 DEF IInv, TypeOK, Frame
  <2>3. OnlyDisconnectionFaults'
    BY <1>2, <1>3, <1>5 DEF IInv, Running, StillThere, OnlyDisconnectionFaults
  <2>4. Outlived' <=> Outlived
    BY <1>2, <2>1 DEF Outlived
  <2> QED  BY <1>2, <2>1, <2>2, <2>3, <2>4 DEF IInv, HandshakeIsExclusive
<1>6. CASE queue # <<>>
  <2>1. queue' = Tail(queue) /\ fault' = fault
    BY <1>6 DEF DeleteFirstCommand
  <2>2. /\ Len(queue) \in Nat /\ queue' \in Seq(Command) /\ Len(queue') = Len(queue) - 1
        /\ Head(queue) = queue[1]
        /\ \A i \in 1 .. Len(queue) - 1 : queue'[i] = queue[i + 1]
    BY <1>1, <1>6, <2>1, Length
  <2>3. rfcomm = "Connected" /\ ~Outlived
    BY <1>3, <1>6 DEF IInv, Running, Late, Outlived
  <2>4. queue[1].pend = NoPend
    BY <1>3, <2>3 DEF IInv, Running, CompletedFirst
  <2>5. Tracks(queue', waiting')
    <3>1. Tracks(queue', waiting \ {NoPend})
      BY <1>1, <1>6, <2>1, <2>2, <2>4, TailTracks DEF IInv, Running
    <3>2. waiting \ {NoPend} = waiting
      BY <1>1, CommandsAssumption
    <3> QED  BY <3>1, <3>2, <1>2
  <2>6. HandshakeIsExclusive' /\ ~Outlived'
    <3>1. Within(queue', queue)
      BY <1>1, <1>6, <2>1, TailWithin
    <3> QED  BY <3>1, <1>1, <1>2, <2>2, <2>3, Exclusive DEF IInv
  <2>7. OnlyDisconnectionFaults' /\ rfcomm' = "Connected"
    BY <1>2, <2>1, <2>3 DEF IInv, OnlyDisconnectionFaults
  <2>8. Aborting(stack) \/ wire = <<>>
    BY <1>3 DEF IInv, Running, WireFollows
  <2>9. Aborting(stack) <=> Aborting(Tail(stack))
    BY <1>1 DEF Above
  <2>10. CASE queue' = <<>> /\ timer' = FALSE /\ Return /\ UNCHANGED wire
    <3>1. stack' = Tail(stack)
      BY <2>10 DEF Return
    <3>2. TypeOK'
      BY <1>1, <1>2, <2>1, <2>2, <2>10, <3>1 DEF IInv, TypeOK, Frame
    <3>3. Running'
      BY <1>2, <1>3, <1>4, <2>5, <2>6, <2>8, <2>9, <2>10, <3>1
      DEF Running, Timed, Late, CompletedFirst, StillThere, WireFollows, Idle
    <3> QED  BY <2>6, <2>7, <3>2, <3>3 DEF IInv
  <2>11. CASE queue' # <<>> /\ Send(queue') /\ Return
    <3>1. stack' = Tail(stack)
      BY <2>11 DEF Return
    <3>2. Head(queue') = queue'[1] /\ queue'[1] \in Command
      BY <2>2, <2>11
    <3>3. wire' = Append(wire, queue'[1].kind) /\ timer' = TRUE /\ queue'[1].kind \in Kind
      BY <2>11, <3>2 DEF Send, Command
    <3>4. wire' \in Seq(Kind)
      BY <3>3 DEF IInv, TypeOK
    <3>5. wire = <<>> => wire' = <<queue'[1].kind>>
      BY <3>3
    <3>6. TypeOK'
      BY <1>1, <1>2, <2>1, <2>2, <3>1, <3>3, <3>4 DEF IInv, TypeOK, Frame
    <3>7. Running'
      BY <1>2, <1>3, <1>4, <2>5, <2>6, <2>8, <2>9, <2>11, <3>1, <3>3, <3>5
      DEF Running, Timed, Late, CompletedFirst, StillThere, WireFollows, Sent
    <3> QED  BY <2>6, <2>7, <3>6, <3>7 DEF IInv
  <2>12. CASE /\ queue' # <<>> /\ timer' = FALSE /\ UNCHANGED wire
              /\ stack' = <<"abort">> \o Tail(stack)
    <3>1. stack' \in Seq(Frame) /\ Above("abort", Tail(stack), stack')
      BY <1>1, <2>12, Push DEF Frame
    <3>2. /\ Aborting(stack') /\ WillComplete(stack') /\ WillAbort(stack') /\ Ordered(stack')
          /\ Emptying(stack') /\ ~Telling(stack') /\ ~Answering(stack')
      BY <1>3, <1>4, <3>1 DEF Above
    <3>3. TypeOK'
      BY <1>2, <2>1, <2>2, <2>12, <3>1 DEF IInv, TypeOK, Frame
    <3>4. Running'
      BY <2>5, <2>12, <3>2 DEF Running, Timed, Late, CompletedFirst, StillThere, WireFollows
    <3> QED  BY <2>6, <2>7, <3>3, <3>4 DEF IInv
  <2> QED  BY <1>6, <2>10, <2>11, <2>12 DEF DeleteFirstCommand
<1> QED  BY <1>5, <1>6

LEMMA SettledStep ==
    ASSUME IInv, fault = "none", SettleStep
    PROVE  IInv'
<1>1. /\ Tail(stack) \in Seq(Frame) /\ Above("settle", Tail(stack), stack)
      /\ queue \in Seq(Command) /\ waiting \in SUBSET Pend
  BY TopState DEF SettleStep
<1>2. UNCHANGED <<rfcomm, waiting, fault>>
  BY DEF SettleStep
<1>3. Ordered(Tail(stack)) /\ ~Using(Tail(stack)) /\ ~Telling(Tail(stack))
  BY <1>1 DEF Above, IInv, Running
<1>4. ~Answering(Tail(stack)) /\ WillComplete(Tail(stack)) /\ WillAbort(Tail(stack))
  BY <1>3 DEF Using, Answering, WillComplete, WillAbort, Has, Guarded, Users
<1>5. ~Answering(stack) /\ (Aborting(stack) <=> Aborting(Tail(stack)))
      /\ (Emptying(stack) <=> Emptying(Tail(stack)))
  BY <1>1, <1>4 DEF Above
<1> DEFINE over == rfcomm = "Connected" /\ conn = "Handshaking" /\ HandshakeOver
           c == Internal("CIND?")
<1>6. CASE ~over
  <2>1. stack' = Tail(stack) /\ UNCHANGED <<conn, queue, wire, timer>>
    BY <1>6 DEF SettleStep, Return
  <2>2. TypeOK'
    BY <1>1, <1>2, <2>1 DEF IInv, TypeOK, Frame
  <2>3. Outlived' <=> Outlived
    BY <1>2, <2>1 DEF Outlived
  <2>4. Running'
    BY <1>2, <1>3, <1>4, <1>5, <2>1, <2>3
    DEF IInv, Running, Timed, Late, CompletedFirst, StillThere, WireFollows, Idle, Sent, Left
  <2> QED  BY <1>2, <2>1, <2>2, <2>3, <2>4 DEF IInv, HandshakeIsExclusive, OnlyDisconnectionFaults
<1>7. CASE over
  <2>1. queue = <<>> /\ rfcomm = "Connected" /\ conn' = "Connected" /\ queue' = Append(queue, c)
    BY <1>7 DEF SettleStep, HandshakeOver
  <2>2. c \in Command /\ c.pend = NoPend /\ c.kind = "CIND?" /\ "CIND?" \in Kind
    BY DEF Internal, Command, Kind
  <2>3. Tracks(queue', waiting')
    <3>1. Tracks(queue, waiting) /\ "CIND?" \in Kind
      BY <2>2 DEF IInv, Running
    <3> QED  BY <3>1, <1>1, <1>2, <2>1, InternalTracks
  <2> HIDE DEF c
  <2>4. /\ queue' \in Seq(Command) /\ queue' # <<>> /\ queue'[1] = c /\ Head(queue') = c
        /\ \A i \in 1 .. Len(queue') : queue'[i] = c
    <3>1. Len(queue) = 0
      BY <2>1
    <3> QED  BY <3>1, <1>1, <2>1, <2>2, Added
  <2>5. HandshakeIsExclusive' /\ ~Outlived'
    <3>1. \A j \in 1 .. Len(queue') : \A i \in 1 .. j - 1 : i \in 1 .. Len(queue')
      BY <2>4
    <3> QED  BY <1>2, <2>1, <2>2, <2>4, <3>1 DEF HandshakeIsExclusive, Handshake, Outlived
  <2>6. OnlyDisconnectionFaults' /\ rfcomm' = "Connected"
    BY <1>2, <2>1 DEF IInv, OnlyDisconnectionFaults
  <2>7. Aborting(stack) \/ wire = <<>>
    BY <1>5, <2>1 DEF IInv, Running, WireFollows, Idle, Sent, Left
  <2>8. CASE Send(queue') /\ stack' = <<"client">> \o Tail(stack)
    <3>1. stack' \in Seq(Frame) /\ Alike(Tail(stack), stack')
      BY <1>1, <2>8, ClientAlike
    <3>2. wire' = Append(wire, "CIND?") /\ timer' = TRUE
      BY <2>2, <2>4, <2>8 DEF Send
    <3>3. wire' \in Seq(Kind)
      BY <2>2, <3>2 DEF IInv, TypeOK
    <3>4. wire = <<>> => wire' = <<"CIND?">>
      BY <3>2
    <3>5. TypeOK'
      BY <1>2, <2>1, <2>4, <3>1, <3>2, <3>3 DEF IInv, TypeOK, Frame
    <3>6. Running'
      BY <1>3, <1>4, <1>5, <2>2, <2>3, <2>4, <2>5, <2>7, <3>1, <3>2, <3>4
      DEF Running, Timed, Late, Alike, CompletedFirst, StillThere, WireFollows, Sent
    <3> QED  BY <2>5, <2>6, <3>5, <3>6 DEF IInv
  <2>9. CASE stack' = <<"abort", "abort">> \o Tail(stack) /\ UNCHANGED <<wire, timer>>
    <3> DEFINE st == <<"abort">> \o Tail(stack)
    <3>1. st \in Seq(Frame) /\ Above("abort", Tail(stack), st)
      BY <1>1, Push DEF Frame
    <3>2. stack' \in Seq(Frame) /\ stack' # <<>> /\ Head(stack') = "abort" /\ Tail(stack') = st
      <4>1. "abort" \in Frame
        BY DEF Frame
      <4> QED  BY <4>1, <1>1, <2>9
    <3> HIDE DEF st
    <3>3. Above("abort", st, stack')
      BY <3>2, Pop
    <3>4. /\ Aborting(stack') /\ WillComplete(stack') /\ WillAbort(stack') /\ Ordered(stack')
          /\ Emptying(stack') /\ ~Telling(stack') /\ ~Answering(stack')
      BY <1>3, <1>4, <3>1, <3>3 DEF Above
    <3>5. TypeOK'
      BY <1>2, <2>1, <2>4, <2>9, <3>2 DEF IInv, TypeOK, Frame
    <3>6. Running'
      BY <2>3, <2>4, <3>4 DEF Running, Timed, Late, CompletedFirst, StillThere, WireFollows
    <3> QED  BY <2>5, <2>6, <3>5, <3>6 DEF IInv
  <2> QED  BY <1>7, <2>8, <2>9 DEF SettleStep
<1> QED  BY <1>6, <1>7

LEMMA AbortingStep ==
    ASSUME IInv, fault = "none", AbortStep
    PROVE  IInv'
<1>1. PICK do \in {"abort", "quiet"} : Top(do)
  BY DEF AbortStep
<1>2. /\ stack \in Seq(Frame) /\ Above(do, Tail(stack), stack)
      /\ queue \in Seq(Command) /\ waiting \in SUBSET Pend
  BY <1>1, TopState
<1>3. Aborting(stack) /\ WillComplete(stack) /\ WillAbort(stack) /\ Emptying(stack)
  BY <1>1, <1>2 DEF Above
<1>4. /\ queue # <<>> /\ queue' = Tail(queue) /\ timer' = FALSE
      /\ waiting' = waiting \ {Head(queue).pend}
      /\ stack' = Called(Head(queue)) \o stack
      /\ UNCHANGED <<conn, rfcomm, wire, fault>>
  BY DEF AbortStep
<1>5. queue' \in Seq(Command) /\ Tracks(queue', waiting')
  BY <1>2, <1>4, TailTracks DEF IInv, Running
<1>6. stack' \in Seq(Frame) /\ Alike(stack, stack')
  BY <1>2, <1>4, CalledAlike
<1>7. TypeOK'
  BY <1>2, <1>4, <1>5, <1>6 DEF IInv, TypeOK, Frame
<1>8. /\ HandshakeIsExclusive'
      /\ ~Outlived => ~Outlived'
      /\ (\A i \in 1 .. Len(queue) : queue[i].kind \in ClientKind)
         => \A i \in 1 .. Len(queue') : queue'[i].kind \in ClientKind
  <2>1. Within(queue', queue)
    BY <1>2, <1>4, TailWithin
  <2> QED  BY <2>1, <1>2, <1>4, <1>5, Exclusive DEF IInv
<1>9. Timed' /\ Late'
  BY <1>3, <1>4, <1>6, <1>8 DEF IInv, Running, Alike, Timed, Late
<1>10. Running'
  BY <1>3, <1>4, <1>5, <1>6, <1>9
  DEF IInv, Running, Alike, CompletedFirst, StillThere, WireFollows
<1> QED  BY <1>4, <1>7, <1>8, <1>10 DEF IInv, OnlyDisconnectionFaults

LEMMA AudioStep ==
    ASSUME IInv, fault = "none", AudioEnds
    PROVE  IInv'
<1> DEFINE st == <<"hangup">> \o Tail(stack)
<1>1. /\ Tail(stack) \in Seq(Frame) /\ Above("abort", Tail(stack), stack)
      /\ queue \in Seq(Command)
  BY TopState DEF AudioEnds
<1>2. /\ queue = <<>> /\ conn = "Connected" /\ stack' = <<"client">> \o st
      /\ UNCHANGED <<conn, rfcomm, queue, wire, timer, waiting, fault>>
  <2>1. <<"client", "hangup">> \o Tail(stack) = <<"client">> \o (<<"hangup">> \o Tail(stack))
    BY <1>1
  <2> QED  BY <2>1 DEF AudioEnds
<1>3. st \in Seq(Frame) /\ Above("hangup", Tail(stack), st)
  BY <1>1, Push DEF Frame
<1> HIDE DEF st
<1>4. stack' \in Seq(Frame) /\ Alike(st, stack')
  BY <1>2, <1>3, ClientAlike
<1>5. /\ ~Answering(stack') /\ Aborting(stack') /\ WillComplete(stack') /\ WillAbort(stack')
      /\ Ordered(stack')
  <2>1. ~Answering(stack)
    BY <1>1, <1>2 DEF IInv, Running, Late, Above
  <2> QED  BY <2>1, <1>1, <1>3, <1>4 DEF IInv, Running, Above, Alike
<1>6. TypeOK'
  BY <1>2, <1>4 DEF IInv, TypeOK, Frame
<1>7. Outlived' <=> Outlived
  BY <1>2 DEF Outlived
<1>8. Running'
  <2>1. 1 .. Len(queue) = {}
    BY <1>2
  <2>2. Late' /\ Timed'
    BY <1>2, <1>5, <2>1 DEF IInv, Running, Late, Timed
  <2> QED  BY <1>2, <1>5, <2>2
           DEF IInv, Running, CompletedFirst, StillThere, WireFollows
<1> QED  BY <1>2, <1>6, <1>7, <1>8 DEF IInv, HandshakeIsExclusive, OnlyDisconnectionFaults

LEMMA AbortedStep ==
    ASSUME IInv, fault = "none", AbortDone
    PROVE  IInv'
<1>1. PICK do \in {"abort", "quiet", "hangup"} : Top(do) /\ (do # "hangup" => queue = <<>>)
  BY DEF AbortDone
<1>2. /\ Tail(stack) \in Seq(Frame) /\ Above(do, Tail(stack), stack)
      /\ queue \in Seq(Command) /\ waiting \in SUBSET Pend
  BY <1>1, TopState
<1>3. /\ conn' = "Disconnected" /\ rfcomm' = "Disconnected" /\ wire' = <<>>
      /\ \/ stack' = <<"client">> \o Tail(stack)
         \/ stack' = <<>> \o Tail(stack)
      /\ UNCHANGED <<queue, timer, waiting, fault>>
  BY DEF AbortDone, Aborted
<1>4. stack' \in Seq(Frame) /\ Alike(Tail(stack), stack')
  <2>1. <<>> \o Tail(stack) = Tail(stack)
    BY <1>2
  <2> QED  BY <1>2, <1>3, <2>1, ClientAlike DEF Alike
<1>5. Ordered(stack')
  BY <1>2, <1>4 DEF Above, Alike, IInv, Running
<1>6. <<>> \in Seq(Kind)
  OBVIOUS
<1>7. TypeOK'
  BY <1>3, <1>4, <1>6 DEF IInv, TypeOK, Frame
<1>8. \A i \in 1 .. Len(queue) : queue[i].kind \in ClientKind
  <2>1. CASE queue = <<>>
    BY <2>1
  <2>2. CASE do = "hangup"
    BY <2>2, <1>2 DEF Above, IInv, Running, Late
  <2> QED  BY <1>1, <2>1, <2>2
<1>9. Outlived' <=> queue # <<>>
  BY <1>3 DEF Outlived
<1>10. HandshakeIsExclusive'
  <2>1. \A k \in ClientKind : k \notin Handshake
    BY DEF ClientKind, Handshake
  <2>2. \A j \in 1 .. Len(queue) : queue # <<>> /\ \A i \in 1 .. j - 1 : i \in 1 .. Len(queue)
    BY <1>2
  <2> QED  BY <1>3, <1>8, <1>9, <2>1, <2>2 DEF HandshakeIsExclusive
<1>11. Late'
  <2>1. Answering(stack') => queue = <<>>
    BY <1>1, <1>2, <1>4 DEF Above, Alike, IInv, Running, Late
  <2>2. Telling(stack') => ~Answering(stack')
    BY <1>2, <1>4 DEF Above, Alike, IInv, Running, Late
  <2> QED  BY <1>3, <1>8, <1>9, <2>1, <2>2 DEF Late
<1>12. Timed' /\ (queue # <<>> => timer \/ Aborting(stack'))
  <2>1. do = "hangup" => (Emptying(stack) <=> Emptying(stack'))
    BY <1>2, <1>4 DEF Above, Alike
  <2>2. Emptying(stack') => Aborting(stack')
    BY DEF Emptying, Aborting, Has, Aborts
  <2> QED  BY <1>1, <1>3, <2>1, <2>2 DEF IInv, Running, Timed
<1>13. WireFollows'
  <2>1. CASE queue = <<>>
    BY <2>1, <1>3 DEF WireFollows, Idle
  <2>2. CASE queue # <<>>
    <3>1. ~Answering(stack')
      BY <2>2, <1>1, <1>2, <1>4 DEF Above, Alike, IInv, Running, Late
    <3> QED  BY <2>2, <3>1, <1>3, <1>9, <1>12 DEF WireFollows, Left
  <2> QED  BY <2>1, <2>2
<1>14. Running'
  BY <1>3, <1>5, <1>11, <1>12, <1>13 DEF IInv, Running, CompletedFirst, StillThere
<1> QED  BY <1>3, <1>7, <1>10, <1>14 DEF IInv, OnlyDisconnectionFaults

LEMMA Inductive ==
    ASSUME IInv, [Next]_vars
    PROVE  IInv'
<1>1. CASE UNCHANGED vars
  BY <1>1
  DEF vars, IInv, TypeOK, HandshakeIsExclusive, OnlyDisconnectionFaults, Running,
      Timed, Late, CompletedFirst, StillThere, WireFollows, Idle, Sent, Left, Outlived
<1>2. CASE Next
  <2>1. fault = "none"
    BY <1>2 DEF Next
  <2>2. CASE Client
    BY <2>1, <2>2, ConnectStep, DisconnectStep, CancelStep, ForgetStep, IssueStep DEF Client
  <2>3. CASE AutoReconnect \/ HfpHandshake \/ ConnectionLost \/ CommandTimeout
    BY <2>1, <2>3, ReconnectStep, HandshakeStep, LostStep
  <2>4. CASE Reply \/ Indicators
    BY <2>1, <2>4, AnswerStep, EventStep, CopsStep DEF Reply
  <2>5. CASE Unwind
    BY <2>1, <2>5, ReturnStep, UsedStep, CompletionStep, DeleteStep, SettledStep,
       AbortingStep, AudioStep, AbortedStep DEF Unwind
  <2> QED  BY <1>2, <2>2, <2>3, <2>4, <2>5 DEF Next
<1> QED  BY <1>1, <1>2

LEMMA Initial ==
    ASSUME Init
    PROVE  IInv
<1>1. /\ queue = <<>> /\ wire = <<>> /\ timer = FALSE /\ waiting = {} /\ stack = <<>>
      /\ fault = "none" /\ rfcomm = "Disconnected" /\ conn = "Disconnected"
  BY DEF Init
<1>2. TypeOK
  <2>1. \A S : <<>> \in Seq(S)
    OBVIOUS
  <2>2. stack \in Seq(Frame)
    BY <1>1, <2>1
  <2>3. wire \in Seq(Kind) /\ queue \in Seq(Command)
    BY <1>1, <2>1
  <2> QED  BY <1>1, <2>2, <2>3 DEF TypeOK, Frame
<1>3. Tracks(<<>>, {})
  BY DEF Tracks
<1>4. Running
  BY <1>1, <1>3, Empty
  DEF Running, Timed, Late, CompletedFirst, StillThere, WireFollows, Idle, Outlived
<1> QED  BY <1>1, <1>2, <1>4 DEF IInv, HandshakeIsExclusive, OnlyDisconnectionFaults

-----------------------------------------------------------------------------
(* The theorems.                                                           *)

\* All together, from which the rest follows.
THEOREM Invariance == Spec => []IInv
<1>1. Init => IInv
  BY Initial
<1>2. IInv /\ [Next]_vars => IInv'
  BY Inductive
<1> QED  BY <1>1, <1>2, PTL DEF Spec

\* The variables keep their types.
THEOREM TypeCorrect == Spec => []TypeOK
<1>1. IInv => TypeOK
  BY DEF IInv
<1> QED  BY <1>1, Invariance, PTL

\* Every pending object that hfp.h promises to call is called exactly once:
\* until then one command carries it, afterwards none (CompletePending,
\* ~AtCommand, CancelCommand).
THEOREM AlwaysCalledOnce == Spec => []CalledExactlyOnce
<1>1. IInv => CalledExactlyOnce
  BY TracksOnce DEF IInv, Running, CalledExactlyOnce
<1> QED  BY <1>1, Invariance, PTL

\* One command is with the device at a time, the first of the queue, and its
\* timer is set; those of the handshake and those of clients never mix, but for
\* commands that outlive the connection they were issued on, which are with no
\* device and stand in front of those of the next handshake until their timer
\* expires (AddCommand, StartCommand, DeleteFirstCommand, HfpHandshakeDone,
\* __Disconnect).
THEOREM AlwaysInOrder == Spec => []OrderKept
<1>1. IInv => FirstIsSent
  <2> SUFFICES ASSUME IInv, InLoop, fault = "none"
               PROVE  IF queue = <<>> THEN wire = <<>> /\ ~timer
                      ELSE timer /\ wire = IF Outlived THEN <<>> ELSE <<Head(queue).kind>>
    BY DEF FirstIsSent
  <2>1. (Idle /\ ~timer) \/ Sent \/ Left
    BY LoopState
  <2>2. queue \in Seq(Command)
    BY DEF IInv, TypeOK
  <2>3. queue # <<>> => Head(queue) = queue[1]
    BY <2>2
  <2> QED  BY <2>1, <2>3 DEF Idle, Sent, Left
<1>2. IInv => OrderKept
  BY <1>1 DEF IInv, OrderKept
<1> QED  BY <1>2, Invariance, PTL

\* A deleted command is used, or the queue found empty, after a disconnection
\* made while the command was being answered, and never otherwise
\* (DeleteFirstCommand, __Disconnect).
THEOREM FaultsNeedDisconnection == Spec => []OnlyDisconnectionFaults
<1>1. IInv => OnlyDisconnectionFaults
  BY DEF IInv
<1> QED  BY <1>1, Invariance, PTL
=============================================================================
