--------------------------- MODULE BtSessionsProofs ---------------------------
(***************************************************************************)
(* References are counted, the dead are buried, and whatever waits has its *)
(* timer: for any number of sessions, any number of references that        *)
(* clients hold, and callbacks nested to any depth, whatever the clients   *)
(* call from them.                                                         *)
(***************************************************************************)
EXTENDS BtSessions, FiniteSetTheorems, SequenceTheorems, TLAPS

\* The properties of the stack st that the invariant is about: whether a
\* function is under way, whether s is about to be deleted, and how many Put()s
\* are owed to s.
On(st, do) == \E i \in 1 .. Len(st) : st[i].do = do
Mourned(st, s) == \E i \in 1 .. Len(st) : st[i] = Call("destroy", {s})
Puts(st, s) == Cardinality({i \in 1 .. Len(st) : st[i] = Call("put", {s})})

\* These frames are about one session.
Formed(f) ==
    f.do \in {"put", "again", "destroy"} => \E s \in Session : f.who = {s}

\* After SdpShutdown, one of the two functions that call __Stop goes on.
Stoppers == {"sweep", "stopped"}
Resumes(st) == st # <<>> /\ st[1].do \in Stoppers

Shaped(st) ==
    \A i \in 1 .. Len(st) :
        /\ Formed(st[i])
        /\ st[i].do = "drain" => i < Len(st) /\ st[i + 1].do \in Stoppers

\* What is owed to s: the references that are held, and will be released.
Due(s) ==
    held[s] + One(state[s] # "Disconnected") + One(autoreconnect[s]) + Puts(stack, s)

\* The references of s are those that are due, it is on the list of the dead iff
\* it exists without them and is not being deleted, and a session that is being
\* deleted has none.
Counted(s) ==
    /\ refs[s] = Due(s)
    /\ dead[s] <=> exists[s] /\ refs[s] = 0 /\ ~Mourned(stack, s)
    /\ ~exists[s] => refs[s] = 0
    /\ Mourned(stack, s) => refs[s] = 0

References == \A s \in Session : Counted(s)

\* The timer of the hub is set for a cleanup, unless Timeout is at it already,
\* and for a restart, unless a function is under way that will see to it.
HubTimer ==
    /\ ~(restartSet /\ cleanupSet)
    /\ \A s \in Session : dead[s] => cleanupSet
    /\ cleanupSet => hubArmed \/ On(stack, "timeout")
    /\ autorestart /\ ~started =>
          hubArmed \/ On(stack, "timeout") \/ On(stack, "stopped") \/ On(stack, "drain")

\* A stopped hub has no lookup but those that SdpShutdown has still to reset.
Drained ==
    \A s \in Session :
        state[s] = "SdpLookupChannel" => started \/ On(stack, "drain")

IInv ==
    /\ TypeOK
    /\ Shaped(stack)
    /\ References
    /\ WaitingIsTimed
    /\ HubTimer
    /\ Drained

-----------------------------------------------------------------------------
(* Stacks.                                                                 *)

LEMMA Length ==
    ASSUME NEW S, NEW st \in Seq(S)
    PROVE  /\ Len(st) \in Nat
           /\ st = <<>> <=> Len(st) = 0
           /\ \A i \in 1 .. Len(st) : st[i] \in S
           /\ st # <<>> => /\ Tail(st) \in Seq(S)
                          /\ Head(st) = st[1] /\ Head(st) \in S
                          /\ Len(Tail(st)) = Len(st) - 1
                          /\ \A i \in 1 .. Len(st) - 1 : Tail(st)[i] = st[i + 1]
    OBVIOUS

LEMMA Concatenation ==
    ASSUME NEW S, NEW st \in Seq(S), NEW f \in S
    PROVE  LET n == <<f>> \o st IN
           /\ n \in Seq(S) /\ Len(n) = Len(st) + 1 /\ n[1] = f
           /\ \A i \in 1 .. Len(st) : n[i + 1] = st[i]
           /\ Head(n) = f /\ Tail(n) = st /\ n # <<>>
    OBVIOUS

\* A set of numbers, and the same moved by one, with 1 or without.
LEMMA Moved ==
    ASSUME NEW m \in Nat, NEW A \in SUBSET (1 .. m), NEW first \in BOOLEAN,
           NEW B, B = {i + 1 : i \in A} \cup (IF first THEN {1} ELSE {})
    PROVE  Cardinality(A) \in Nat /\ Cardinality(B) = Cardinality(A) + One(first)
<1> DEFINE C == {i + 1 : i \in A}
<1>1. IsFiniteSet(A)
  <2>1. IsFiniteSet(1 .. m)
    BY FS_Interval
  <2> QED  BY <2>1, FS_Subset
<1>2. ExistsBijection(A, C)
  <2> DEFINE g == [i \in A |-> i + 1]
  <2>1. g \in [A -> C] /\ \A a, b \in A : g[a] = g[b] => a = b
    OBVIOUS
  <2>2. \A c \in C : \E a \in A : g[a] = c
    OBVIOUS
  <2>3. g \in Bijection(A, C)
    BY <2>1, <2>2 DEF Bijection, Injection, Surjection, IsInjective
  <2> QED  BY <2>3 DEF ExistsBijection
<1>3. IsFiniteSet(C) /\ Cardinality(C) = Cardinality(A) /\ 1 \notin C
  BY <1>1, <1>2, FS_Bijection
<1>4. Cardinality(A) \in Nat
  BY <1>1, FS_CardinalityType
<1> HIDE DEF C
<1>5. B = C \cup (IF first THEN {1} ELSE {})
  BY DEF C
<1>6. CASE first
  <2>1. Cardinality(C \cup {1}) = Cardinality(C) + 1
    BY <1>3, FS_AddElement
  <2> QED  BY <2>1, <1>3, <1>4, <1>5, <1>6 DEF One
<1>7. CASE ~first
  BY <1>3, <1>4, <1>5, <1>7 DEF One
<1> QED  BY <1>6, <1>7

\* What a frame f on top of st makes of it.
Above(f, st, n) ==
    /\ n \in Seq(Frame)
    /\ \A do : On(n, do) <=> f.do = do \/ On(st, do)
    /\ \A s : Mourned(n, s) <=> (f.do = "destroy" /\ f.who = {s}) \/ Mourned(st, s)
    /\ \A s : Puts(st, s) \in Nat /\ Puts(n, s) = Puts(st, s) + One(f.do = "put" /\ f.who = {s})
    /\ Shaped(n) <=> Shaped(st) /\ Formed(f) /\ (f.do = "drain" => Resumes(st))

LEMMA Frames ==
    ASSUME NEW f \in Frame
    PROVE  \A do, s : f = Call(do, {s}) <=> f.do = do /\ f.who = {s}
    BY DEF Frame, Call

LEMMA Push ==
    ASSUME NEW st \in Seq(Frame), NEW f \in Frame
    PROVE  Above(f, st, <<f>> \o st)
<1> DEFINE n == <<f>> \o st
<1>1. /\ n \in Seq(Frame) /\ Len(n) = Len(st) + 1 /\ n[1] = f /\ Len(st) \in Nat
      /\ \A i \in 1 .. Len(st) : n[i + 1] = st[i]
      /\ st = <<>> <=> Len(st) = 0
  BY Concatenation, Length
<1> HIDE DEF n
<1>2. /\ 1 \in 1 .. Len(n)
      /\ \A i \in 1 .. Len(st) : i + 1 \in 1 .. Len(n)
      /\ \A k \in 1 .. Len(n) : k = 1 \/ (k - 1 \in 1 .. Len(st) /\ n[k] = st[k - 1])
  <2>1. \A k \in 1 .. Len(n) : k # 1 => k - 1 \in 1 .. Len(st) /\ k = (k - 1) + 1
    BY <1>1
  <2> QED  BY <1>1, <2>1
<1>3. ASSUME NEW do PROVE On(n, do) <=> f.do = do \/ On(st, do)
  BY <1>1, <1>2, SMTT(30) DEF On
<1>4. ASSUME NEW s
      PROVE  Mourned(n, s) <=> (f.do = "destroy" /\ f.who = {s}) \/ Mourned(st, s)
  <2>1. f = Call("destroy", {s}) <=> f.do = "destroy" /\ f.who = {s}
    BY Frames
  <2> QED  BY <1>1, <1>2, <2>1, ZenonT(30) DEF Mourned
<1>5. ASSUME NEW s
      PROVE  Puts(st, s) \in Nat /\ Puts(n, s) = Puts(st, s) + One(f.do = "put" /\ f.who = {s})
  <2> DEFINE c == Call("put", {s})
             A == {i \in 1 .. Len(st) : st[i] = c}
             B == {i \in 1 .. Len(n) : n[i] = c}
             first == f = c
  <2>1. first <=> f.do = "put" /\ f.who = {s}
    BY Frames
  <2> HIDE DEF c
  <2>2. A \in SUBSET (1 .. Len(st)) /\ first \in BOOLEAN
    OBVIOUS
  <2>3. B = {i + 1 : i \in A} \cup (IF first THEN {1} ELSE {})
    <3>1. ASSUME NEW k \in B PROVE k \in {i + 1 : i \in A} \/ (first /\ k = 1)
      <4>1. CASE k = 1
        BY <4>1, <1>1
      <4>2. CASE k # 1
        <5>1. k - 1 \in A /\ k = (k - 1) + 1
          BY <4>2, <1>1, <1>2
        <5> QED  BY <5>1
      <4> QED  BY <4>1, <4>2
    <3>2. ASSUME NEW i \in A PROVE i + 1 \in B
      BY <1>1, <1>2
    <3>3. first => 1 \in B
      BY <1>1, <1>2
    <3> QED  BY <3>1, <3>2, <3>3
  <2>4. Cardinality(A) \in Nat /\ Cardinality(B) = Cardinality(A) + One(first)
    <3> HIDE DEF A, B, first
    <3> QED  BY <2>2, <2>3, <1>1, Moved
  <2> QED  BY <2>1, <2>4 DEF Puts, c, One
<1>6. Shaped(n) <=> Shaped(st) /\ Formed(f) /\ (f.do = "drain" => Resumes(st))
  <2>1. ASSUME Shaped(n) PROVE Shaped(st)
    <3> SUFFICES ASSUME NEW i \in 1 .. Len(st)
                 PROVE  /\ Formed(st[i])
                        /\ st[i].do = "drain" => i < Len(st) /\ st[i + 1].do \in Stoppers
      BY DEF Shaped
    <3>1. /\ Formed(n[i + 1])
          /\ n[i + 1].do = "drain" => i + 1 < Len(n) /\ n[(i + 1) + 1].do \in Stoppers
      BY <2>1, <1>2 DEF Shaped
    <3>2. i < Len(st) => i + 1 \in 1 .. Len(st)
      BY <1>1
    <3> QED  BY <3>1, <3>2, <1>1
  <2>2. ASSUME Shaped(n) PROVE Formed(f) /\ (f.do = "drain" => Resumes(st))
    <3>1. Formed(f) /\ (f.do = "drain" => 1 < Len(n) /\ n[1 + 1].do \in Stoppers)
      BY <2>2, <1>1, <1>2 DEF Shaped
    <3>2. 1 < Len(n) => 1 \in 1 .. Len(st) /\ st # <<>>
      BY <1>1
    <3> QED  BY <3>1, <3>2, <1>1 DEF Resumes
  <2>3. ASSUME Shaped(st), Formed(f), f.do = "drain" => Resumes(st)
        PROVE  Shaped(n)
    <3> SUFFICES ASSUME NEW k \in 1 .. Len(n)
                 PROVE  /\ Formed(n[k])
                        /\ n[k].do = "drain" => k < Len(n) /\ n[k + 1].do \in Stoppers
      BY DEF Shaped
    <3>1. CASE k = 1
      <4>1. Resumes(st) => 1 < Len(n) /\ n[1 + 1] = st[1]
        BY <1>1 DEF Resumes
      <4> QED  BY <2>3, <3>1, <4>1, <1>1 DEF Resumes
    <3>2. CASE k # 1
      <4>1. k - 1 \in 1 .. Len(st) /\ n[k] = st[k - 1]
        BY <3>2, <1>2
      <4>2. /\ Formed(st[k - 1])
            /\ st[k - 1].do = "drain" => k - 1 < Len(st) /\ st[(k - 1) + 1].do \in Stoppers
        BY <2>3, <4>1 DEF Shaped
      <4>3. k - 1 < Len(st) => k \in 1 .. Len(st) /\ k < Len(n) /\ (k - 1) + 1 = k
        BY <1>1, <4>1
      <4> QED  BY <4>1, <4>2, <4>3, <1>1
    <3> QED  BY <3>1, <3>2
  <2> QED  BY <2>1, <2>2, <2>3
<1>7. Above(f, st, n)
  BY <1>1, <1>3, <1>4, <1>5, <1>6 DEF Above
<1> QED  BY <1>7 DEF n

LEMMA Pop ==
    ASSUME NEW st \in Seq(Frame), st # <<>>
    PROVE  Tail(st) \in Seq(Frame) /\ Head(st) \in Frame /\ Above(Head(st), Tail(st), st)
<1> DEFINE f == Head(st)
           n == Tail(st)
           m == <<f>> \o n
<1>1. n \in Seq(Frame) /\ f \in Frame
  BY Length
<1>2. m = st
  OBVIOUS
<1> HIDE DEF f, n
<1>3. Above(f, n, m)
  BY <1>1, Push
<1> HIDE DEF m
<1>4. Above(f, n, st)
  BY <1>2, <1>3
<1> QED  BY <1>1, <1>4 DEF f, n

LEMMA Empty ==
    /\ <<>> \in Seq(Frame) /\ Shaped(<<>>) /\ ~Resumes(<<>>)
    /\ \A do : ~On(<<>>, do)
    /\ \A s : ~Mourned(<<>>, s) /\ Puts(<<>>, s) = 0
<1>1. \A s : {i \in 1 .. Len(<<>>) : <<>>[i] = Call("put", {s})} = {}
  OBVIOUS
<1>2. \A s : Puts(<<>>, s) = 0
  BY <1>1, FS_EmptySet DEF Puts
<1> QED  BY <1>2 DEF On, Mourned, Shaped, Resumes

\* The functions under way that the invariant asks for.
Lasting == {"retry", "timeout", "stopped", "drain"}

\* The stack n is like st, but for callbacks and the Put()s that are owed.
Kept(st, n) ==
    /\ n \in Seq(Frame) /\ Shaped(n)
    /\ \A do \in Lasting : On(n, do) <=> On(st, do)
    /\ \A s \in Session : Mourned(n, s) <=> Mourned(st, s)

\* A frame that owes nothing is put on top of st, or taken off.
LEMMA PushKept ==
    ASSUME NEW st \in Seq(Frame), Shaped(st), NEW f \in Frame, Formed(f),
           f.do \notin Lasting \cup {"put", "destroy"}
    PROVE  Kept(st, <<f>> \o st) /\ \A s : Puts(<<f>> \o st, s) = Puts(st, s)
<1> DEFINE n == <<f>> \o st
<1>1. Above(f, st, n)
  BY Push
<1> HIDE DEF n
<1>2. Kept(st, n) /\ \A s : Puts(n, s) = Puts(st, s)
  BY <1>1 DEF Above, Kept, Lasting, One
<1> QED  BY <1>2 DEF n

LEMMA PopKept ==
    ASSUME NEW st \in Seq(Frame), Shaped(st), st # <<>>,
           Head(st).do \notin Lasting \cup {"put", "destroy"}
    PROVE  Kept(st, Tail(st)) /\ \A s : Puts(Tail(st), s) = Puts(st, s)
<1>1. Above(Head(st), Tail(st), st) /\ Tail(st) \in Seq(Frame)
  BY Pop
<1> QED  BY <1>1 DEF Above, Kept, Lasting, One

LEMMA Calls ==
    ASSUME NEW do \in {"client", "put", "again", "retry", "drain", "stopped", "sweep",
                       "timeout", "destroy"},
           NEW who \in SUBSET Session
    PROVE  /\ Call(do, who) \in Frame /\ Call(do, who).do = do /\ Call(do, who).who = who
           /\ \A s \in Session : who = {s} => Formed(Call(do, who))
           /\ do \notin {"put", "again", "destroy"} => Formed(Call(do, who))
    BY DEF Call, Frame, Formed

\* A session is disconnected: its client is told, and its reference owed.
LEMMA NotifiedKept ==
    ASSUME NEW s \in Session, NEW st \in Seq(Frame), Shaped(st)
    PROVE  /\ Kept(st, Notified(s) \o st)
           /\ \A t \in Session : Puts(Notified(s) \o st, t) = Puts(st, t) + One(t = s)
<1> DEFINE c == Call("client", {s})
           p == Call("put", {s})
           m == <<p>> \o st
           n == <<c>> \o m
<1>1. /\ c \in Frame /\ p \in Frame /\ Formed(c) /\ Formed(p)
      /\ c.do = "client" /\ p.do = "put" /\ p.who = {s}
  BY Calls
<1>2. Notified(s) \o st = n
  BY <1>1 DEF Notified
<1> HIDE DEF c, p
<1>3. Above(p, st, m)
  BY <1>1, Push
<1> HIDE DEF m
<1>4. m \in Seq(Frame) /\ Above(c, m, n)
  BY <1>1, <1>3, Push DEF Above
<1> HIDE DEF n
<1>5. \A t \in Session : p.who = {t} <=> t = s
  BY <1>1
<1>6. Kept(st, n)
  BY <1>1, <1>3, <1>4 DEF Above, Kept, Lasting
<1>7. ASSUME NEW t \in Session PROVE Puts(n, t) = Puts(st, t) + One(t = s)
  <2>1. Puts(n, t) = Puts(m, t) + One(FALSE)
    BY <1>1, <1>4 DEF Above, One
  <2>2. Puts(m, t) = Puts(st, t) + One(t = s) /\ Puts(st, t) \in Nat
    BY <1>1, <1>3, <1>5 DEF Above, One
  <2> QED  BY <2>1, <2>2 DEF One
<1> QED  BY <1>2, <1>6, <1>7

-----------------------------------------------------------------------------
(* References.                                                             *)

LEMMA DueType ==
    ASSUME IInv, NEW s \in Session
    PROVE  Due(s) \in Nat /\ Puts(stack, s) \in Nat
<1>1. Puts(stack, s) \in Nat
  <2>1. CASE stack = <<>>
    BY <2>1, Empty
  <2>2. CASE stack # <<>>
    <3>1. stack \in Seq(Frame)
      BY DEF IInv, TypeOK
    <3>2. Above(Head(stack), Tail(stack), stack)
      BY <2>2, <3>1, Pop
    <3> QED  BY <3>2 DEF Above, One
  <2> QED  BY <2>1, <2>2
<1> QED  BY <1>1 DEF Due, One, IInv, TypeOK

LEMMA RefsKept ==
    ASSUME IInv, UNCHANGED refVars,
           \A s \in Session : Due(s)' = Due(s) /\ (Mourned(stack, s)' <=> Mourned(stack, s))
    PROVE  References'
    BY DEF IInv, References, Counted, refVars

LEMMA RefsGot ==
    ASSUME IInv, NEW s \in Session, Get(s), ~Mourned(stack, s),
           \A t \in Session : /\ Due(t)' = Due(t) + One(t = s)
                              /\ Mourned(stack, t)' <=> Mourned(stack, t)
    PROVE  References'
<1> SUFFICES ASSUME NEW t \in Session PROVE Counted(t)'
  BY DEF References
<1>1. Counted(t) /\ Due(t) \in Nat
  BY DueType DEF IInv, References
<1>2. /\ refs'[t] = refs[t] + One(t = s)
      /\ exists'[t] <=> exists[t] \/ t = s
      /\ dead'[t] <=> dead[t] /\ t # s
  BY <1>1 DEF Get, IInv, TypeOK, One
<1> QED  BY <1>1, <1>2 DEF Counted, One

LEMMA RefsGotTwice ==
    ASSUME IInv, NEW s \in Session, GetTwice(s), ~Mourned(stack, s),
           \A t \in Session : /\ Due(t)' = Due(t) + 2 * One(t = s)
                              /\ Mourned(stack, t)' <=> Mourned(stack, t)
    PROVE  References'
<1> SUFFICES ASSUME NEW t \in Session PROVE Counted(t)'
  BY DEF References
<1>1. Counted(t) /\ Due(t) \in Nat
  BY DueType DEF IInv, References
<1>2. /\ refs'[t] = refs[t] + 2 * One(t = s)
      /\ exists'[t] <=> exists[t] \/ t = s
      /\ dead'[t] <=> dead[t] /\ t # s
  BY <1>1 DEF GetTwice, IInv, TypeOK, One
<1> QED  BY <1>1, <1>2 DEF Counted, One

LEMMA RefsPut ==
    ASSUME IInv, NEW s \in Session, Put(s), Due(s) > 0,
           \A t \in Session : /\ Due(t)' = Due(t) - One(t = s)
                              /\ Mourned(stack, t)' <=> Mourned(stack, t)
    PROVE  References' /\ refs' \in [Session -> Nat] /\ dead' \in [Session -> BOOLEAN]
<1>1. ASSUME NEW t \in Session PROVE Counted(t)'
  <2>1. Counted(t) /\ Due(t) \in Nat
    BY DueType DEF IInv, References
  <2>2. /\ refs'[t] = refs[t] - One(t = s)
        /\ exists' = exists
        /\ dead'[t] <=> dead[t] \/ (t = s /\ refs[t] = 1)
    BY <2>1 DEF Put, IInv, TypeOK, One
  <2>3. t = s => refs[t] > 0
    BY <2>1 DEF Counted
  <2> QED  BY <2>1, <2>2, <2>3 DEF Counted, One
<1>2. refs[s] > 0 /\ refs[s] - 1 \in Nat
  <2>1. refs[s] = Due(s) /\ Due(s) \in Nat
    BY DueType DEF IInv, References, Counted
  <2> QED  BY <2>1
<1>3. refs' \in [Session -> Nat]
  BY <1>2 DEF Put, IInv, TypeOK
<1>4. dead' \in [Session -> BOOLEAN]
  BY DEF Put, IInv, TypeOK
<1> QED  BY <1>1, <1>3, <1>4 DEF References

-----------------------------------------------------------------------------
(* Timers.                                                                 *)

\* The functions under way that see to the timer of the hub.
SameHub ==
    /\ On(stack, "timeout")' <=> On(stack, "timeout")
    /\ On(stack, "stopped")' <=> On(stack, "stopped")
    /\ On(stack, "drain")' <=> On(stack, "drain")

LEMMA HubKept ==
    ASSUME IInv, UNCHANGED <<hubVars, timerVars>>, SameHub,
           \A s \in Session : dead'[s] => dead[s]
    PROVE  HubTimer'
    BY DEF IInv, HubTimer, SameHub, hubVars, timerVars

LEMMA HubPut ==
    ASSUME IInv, UNCHANGED <<started, autorestart>>, SameHub, NEW s \in Session, Put(s)
    PROVE  HubTimer' /\ {restartSet', cleanupSet', hubArmed'} \subseteq BOOLEAN
<1>1. CASE refs[s] = 1
  BY <1>1 DEF IInv, TypeOK, HubTimer, SameHub, Put, DeadObject
<1>2. CASE refs[s] # 1
  BY <1>2 DEF IInv, TypeOK, HubTimer, SameHub, timerVars, Put
<1> QED  BY <1>1, <1>2

LEMMA DrainedKept ==
    ASSUME IInv, UNCHANGED started, On(stack, "drain")' <=> On(stack, "drain"),
           \A s \in Session :
              state'[s] = "SdpLookupChannel" => started \/ state[s] = "SdpLookupChannel"
    PROVE  Drained'
    BY DEF IInv, Drained

\* No session enters or leaves the state Disconnected.
LEMMA WaitingKept ==
    ASSUME IInv, UNCHANGED <<svc, listVars, autoreconnect, fault>>,
           On(stack, "retry")' <=> On(stack, "retry"),
           \A s \in Session :
              /\ state'[s] = "Disconnected" <=> state[s] = "Disconnected"
              /\ opTimer'[s] <=> state'[s] \in {"SdpLookupChannel", "Connecting"}
    PROVE  WaitingIsTimed'
    BY DEF IInv, WaitingIsTimed, OnStack, On, listVars

\* s enters the state Disconnected, or is to be reconnected from now on.
LEMMA WaitingAdded ==
    ASSUME IInv, UNCHANGED <<svc, fault>>,
           On(stack, "retry")' <=> On(stack, "retry"),
           NEW s \in Session, list[s] = "none",
           NEW where \in Lists, AddAutoReconnect(s, where),
           \A t \in Session \ {s} :
              /\ state'[t] = state[t] /\ opTimer'[t] = opTimer[t]
              /\ autoreconnect'[t] = autoreconnect[t],
           autoreconnect'[s], state'[s] = "Disconnected", ~opTimer'[s]
    PROVE  WaitingIsTimed' /\ list' \in [Session -> Lists \cup {"none", "retry"}]
           /\ armed' \in [Lists -> BOOLEAN]
<1>1. /\ \A t \in Session : list'[t] = IF t = s THEN where ELSE list[t]
      /\ armed' = [armed EXCEPT ![where] = @ \/ svc]
      /\ list' = [list EXCEPT ![s] = where]
  BY DEF IInv, TypeOK, AddAutoReconnect
<1>2. \A w \in Lists : armed'[w] <=> armed[w] \/ (w = where /\ svc)
  BY <1>1 DEF IInv, TypeOK
<1>3. where \notin {"none", "retry"}
  BY DEF Lists
<1>4. ASSUME NEW t \in Session
      PROVE  /\ list'[t] # "none" <=> autoreconnect'[t] /\ state'[t] = "Disconnected"
             /\ list'[t] = "retry" => OnStack("retry")'
             /\ opTimer'[t] <=> state'[t] \in {"SdpLookupChannel", "Connecting"}
  BY <1>1, <1>3 DEF IInv, WaitingIsTimed, OnStack, On
<1>5. ASSUME fault = "none", NEW w \in Lists
      PROVE  /\ armed'[w] => svc /\ \E t \in Session : list'[t] = w
             /\ (svc /\ \E t \in Session : list'[t] = w) =>
                   armed'[w] \/ (w = "delayed" /\ OnStack("retry")')
  <2>1. w # "none"
    BY DEF Lists
  <2>2. CASE w = where
    BY <1>1, <1>2, <1>5, <2>2 DEF IInv, WaitingIsTimed
  <2>3. CASE w # where
    <3>1. \A t \in Session : list'[t] = w <=> list[t] = w
      BY <1>1, <2>1, <2>3
    <3>2. armed'[w] <=> armed[w]
      BY <1>2, <2>3
    <3> QED  BY <1>5, <2>3, <3>1, <3>2 DEF IInv, WaitingIsTimed, OnStack, On
  <2> QED  BY <2>2, <2>3
<1> QED  BY <1>1, <1>4, <1>5 DEF WaitingIsTimed, IInv, TypeOK

LEMMA WaitingDropped ==
    ASSUME IInv, fault = "none", UNCHANGED <<svc, autoreconnect, fault>>,
           On(stack, "retry")' <=> On(stack, "retry"),
           NEW s \in Session, state[s] # "Disconnected", Drop(s)
    PROVE  WaitingIsTimed' /\ list' \in [Session -> Lists \cup {"none", "retry"}]
           /\ armed' \in [Lists -> BOOLEAN]
<1>1. list[s] = "none"
  BY DEF IInv, WaitingIsTimed
<1>2. CASE autoreconnect[s]
  <2>1. AddAutoReconnect(s, "delayed") /\ "delayed" \in Lists
    BY <1>2 DEF Drop, Relist, Lists
  <2>2. /\ \A t \in Session \ {s} :
              /\ state'[t] = state[t] /\ opTimer'[t] = opTimer[t]
              /\ autoreconnect'[t] = autoreconnect[t]
        /\ autoreconnect'[s] /\ state'[s] = "Disconnected" /\ ~opTimer'[s]
    BY <1>2 DEF IInv, TypeOK, Drop, MoveTo
  <2> QED  BY <1>1, <2>1, <2>2, WaitingAdded
<1>3. CASE ~autoreconnect[s]
  <2>1. UNCHANGED listVars
    BY <1>3 DEF Drop, Relist
  <2>2. ASSUME NEW t \in Session
        PROVE  /\ list'[t] # "none" <=> autoreconnect'[t] /\ state'[t] = "Disconnected"
               /\ list'[t] = "retry" => OnStack("retry")'
               /\ opTimer'[t] <=> state'[t] \in {"SdpLookupChannel", "Connecting"}
    BY <1>3, <2>1 DEF IInv, TypeOK, WaitingIsTimed, OnStack, On, Drop, MoveTo, listVars
  <2> QED  BY <2>1, <2>2 DEF IInv, TypeOK, WaitingIsTimed, OnStack, On, listVars
<1> QED  BY <1>2, <1>3

\* s leaves the state Disconnected, or is not to be reconnected any more.
LEMMA WaitingUnlisted ==
    ASSUME IInv, UNCHANGED <<svc, fault>>,
           On(stack, "retry")' <=> On(stack, "retry"),
           NEW s \in Session, state[s] = "Disconnected", Unlist(s),
           \A t \in Session \ {s} :
              /\ state'[t] = state[t] /\ opTimer'[t] = opTimer[t]
              /\ autoreconnect'[t] = autoreconnect[t],
           opTimer'[s] <=> state'[s] \in {"SdpLookupChannel", "Connecting"},
           ~(autoreconnect'[s] /\ state'[s] = "Disconnected")
    PROVE  WaitingIsTimed' /\ list' \in [Session -> Lists \cup {"none", "retry"}]
           /\ armed' \in [Lists -> BOOLEAN]
<1>1. CASE autoreconnect[s]
  <2>1. RemoveAutoReconnect(s)
    BY <1>1 DEF Unlist
  <2>2. /\ \A t \in Session : list'[t] = IF t = s THEN "none" ELSE list[t]
        /\ \A w \in Lists : armed'[w] <=> armed[w] /\ \E t \in Session \ {s} : list[t] = w
    BY <2>1 DEF IInv, TypeOK, RemoveAutoReconnect
  <2>3. ASSUME NEW t \in Session
        PROVE  /\ list'[t] # "none" <=> autoreconnect'[t] /\ state'[t] = "Disconnected"
               /\ list'[t] = "retry" => OnStack("retry")'
               /\ opTimer'[t] <=> state'[t] \in {"SdpLookupChannel", "Connecting"}
    BY <2>2 DEF IInv, WaitingIsTimed, OnStack, On
  <2>4. ASSUME fault = "none", NEW w \in Lists
        PROVE  /\ armed'[w] => svc /\ \E t \in Session : list'[t] = w
               /\ (svc /\ \E t \in Session : list'[t] = w) =>
                     armed'[w] \/ (w = "delayed" /\ OnStack("retry")')
    <3>1. \A t \in Session : list'[t] = w => t # s /\ list[t] = w
      BY <2>2 DEF Lists
    <3> QED  BY <2>2, <2>4, <3>1 DEF IInv, WaitingIsTimed, OnStack, On
  <2> QED  BY <2>1, <2>3, <2>4 DEF WaitingIsTimed, RemoveAutoReconnect, IInv, TypeOK
<1>2. CASE ~autoreconnect[s]
  <2>1. UNCHANGED listVars
    BY <1>2 DEF Unlist
  <2>2. ASSUME NEW t \in Session
        PROVE  /\ list'[t] # "none" <=> autoreconnect'[t] /\ state'[t] = "Disconnected"
               /\ list'[t] = "retry" => OnStack("retry")'
               /\ opTimer'[t] <=> state'[t] \in {"SdpLookupChannel", "Connecting"}
    BY <1>2, <2>1 DEF IInv, TypeOK, WaitingIsTimed, OnStack, On, listVars
  <2> QED  BY <2>1, <2>2 DEF IInv, TypeOK, WaitingIsTimed, OnStack, On, listVars
<1> QED  BY <1>1, <1>2

-----------------------------------------------------------------------------
(* Calls of the client.                                                    *)

LEMMA SameStack ==
    ASSUME UNCHANGED stack
    PROVE  /\ SameHub
           /\ On(stack, "retry")' <=> On(stack, "retry")
           /\ Shaped(stack) => Shaped(stack)'
           /\ \A s : /\ Mourned(stack, s)' <=> Mourned(stack, s)
                     /\ Puts(stack, s)' = Puts(stack, s)
    BY DEF SameHub, On, Shaped, Mourned, Puts, Formed

LEMMA GetSessionStep ==
    ASSUME IInv, fault = "none", NEW s \in Session, GetSession(s)
    PROVE  IInv'
<1> USE DEF GetSession
<1>1. UNCHANGED <<hubVars, timerVars, svc, listVars, connVars, autoreconnect, stack, fault>>
  OBVIOUS
<1>2. TypeOK'
  BY <1>1, SessionsAssumption
     DEF IInv, TypeOK, Get, hubVars, timerVars, listVars, connVars
<1>3. References'
  <2>1. ASSUME NEW t \in Session
        PROVE  /\ Due(t)' = Due(t) + One(t = s)
               /\ Mourned(stack, t)' <=> Mourned(stack, t)
    <3>1. Puts(stack, t)' = Puts(stack, t) /\ (Mourned(stack, t)' <=> Mourned(stack, t))
      BY <1>1, SameStack
    <3>2. Puts(stack, t) \in Nat
      BY DueType
    <3>3. held'[t] = held[t] + One(t = s) /\ held[t] \in Nat
      BY SessionsAssumption DEF IInv, TypeOK, One
    <3> QED  BY <1>1, <3>1, <3>2, <3>3 DEF Due, One, connVars
  <2>2. ~Mourned(stack, s)
    BY DEF Doomed, Mourned
  <2> QED  BY <2>1, <2>2, RefsGot
<1>4. WaitingIsTimed'
  BY <1>1, SameStack, WaitingKept DEF connVars, IInv, WaitingIsTimed
<1>5. HubTimer'
  <2>1. \A t \in Session : dead'[t] => dead[t]
    BY DEF Get, IInv, TypeOK
  <2> QED  BY <1>1, <2>1, SameStack, HubKept
<1>6. Drained'
  BY <1>1, SameStack, DrainedKept DEF connVars, hubVars, SameHub
<1> QED  BY <1>1, <1>2, <1>3, <1>4, <1>5, <1>6, SameStack DEF IInv

LEMMA PutSessionStep ==
    ASSUME IInv, fault = "none", NEW s \in Session, PutSession(s)
    PROVE  IInv'
<1> USE DEF PutSession
<1>1. UNCHANGED <<hubVars, svc, listVars, connVars, autoreconnect, stack, fault>>
  OBVIOUS
<1>2. References' /\ refs' \in [Session -> Nat] /\ dead' \in [Session -> BOOLEAN]
  <2>1. ASSUME NEW t \in Session
        PROVE  /\ Due(t)' = Due(t) - One(t = s)
               /\ Mourned(stack, t)' <=> Mourned(stack, t)
               /\ t = s => Due(t) > 0
    <3>1. Puts(stack, t)' = Puts(stack, t) /\ (Mourned(stack, t)' <=> Mourned(stack, t))
      BY <1>1, SameStack
    <3>2. Puts(stack, t) \in Nat
      BY DueType
    <3>3. held'[t] = held[t] - One(t = s) /\ held[t] \in Nat /\ (t = s => held[t] > 0)
      BY SessionsAssumption DEF IInv, TypeOK, One
    <3> QED  BY <1>1, <3>1, <3>2, <3>3 DEF Due, One, connVars
  <2> QED  BY <2>1, RefsPut
<1>3. HubTimer' /\ {restartSet', cleanupSet', hubArmed'} \subseteq BOOLEAN
  BY <1>1, SameStack, HubPut DEF hubVars
<1>4. TypeOK'
  BY <1>1, <1>2, <1>3, SessionsAssumption
     DEF IInv, TypeOK, Put, hubVars, listVars, connVars
<1>5. WaitingIsTimed'
  BY <1>1, SameStack, WaitingKept DEF connVars, IInv, WaitingIsTimed
<1>6. Drained'
  BY <1>1, SameStack, DrainedKept DEF connVars, hubVars, SameHub
<1> QED  BY <1>1, <1>2, <1>3, <1>4, <1>5, <1>6, SameStack DEF IInv

LEMMA ConnectStep ==
    ASSUME IInv, fault = "none", NEW s \in Session, Connect(s)
    PROVE  IInv'
<1> USE DEF Connect, StartLookup
<1>1. UNCHANGED <<hubVars, timerVars, svc, autoreconnect, held, stack, fault>>
  OBVIOUS
<1>2. /\ state' = [state EXCEPT ![s] = "SdpLookupChannel"]
      /\ opTimer' = [opTimer EXCEPT ![s] = TRUE]
  BY DEF MoveTo
<1>3. References'
  <2>1. ASSUME NEW t \in Session
        PROVE  /\ Due(t)' = Due(t) + One(t = s)
               /\ Mourned(stack, t)' <=> Mourned(stack, t)
    <3>1. Puts(stack, t)' = Puts(stack, t) /\ (Mourned(stack, t)' <=> Mourned(stack, t))
      BY <1>1, SameStack
    <3>2. Puts(stack, t) \in Nat /\ held[t] \in Nat
      BY DueType DEF IInv, TypeOK
    <3>3. state'[t] = IF t = s THEN "SdpLookupChannel" ELSE state[t]
      BY <1>2 DEF IInv, TypeOK
    <3> QED  BY <1>1, <3>1, <3>2, <3>3 DEF Due, One
  <2>2. ~Mourned(stack, s)
    BY DEF Doomed, Mourned
  <2> QED  BY <2>1, <2>2, RefsGot
<1>4. /\ WaitingIsTimed' /\ list' \in [Session -> Lists \cup {"none", "retry"}]
      /\ armed' \in [Lists -> BOOLEAN]
  <2>1. /\ \A t \in Session \ {s} :
              /\ state'[t] = state[t] /\ opTimer'[t] = opTimer[t]
              /\ autoreconnect'[t] = autoreconnect[t]
        /\ state'[s] = "SdpLookupChannel" /\ opTimer'[s]
    BY <1>1, <1>2 DEF IInv, TypeOK
  <2> QED  BY <1>1, <2>1, SameStack, WaitingUnlisted
<1>5. TypeOK'
  <2>1. /\ exists' \in [Session -> BOOLEAN] /\ dead' \in [Session -> BOOLEAN]
        /\ refs' \in [Session -> Nat]
    BY DEF IInv, TypeOK, Get
  <2>2. /\ state' \in [Session -> {"Disconnected", "SdpLookupChannel", "Connecting", "Connected"}]
        /\ opTimer' \in [Session -> BOOLEAN]
    BY <1>2 DEF IInv, TypeOK
  <2> HIDE DEF Connect
  <2> QED  BY <1>1, <1>4, <2>1, <2>2 DEF IInv, TypeOK, hubVars, timerVars
<1>6. HubTimer'
  <2>1. \A t \in Session : dead'[t] => dead[t]
    BY DEF Get, IInv, TypeOK
  <2> QED  BY <1>1, <2>1, SameStack, HubKept
<1>7. Drained'
  <2>1. started
    OBVIOUS
  <2> QED  BY <1>1, <2>1, SameStack, DrainedKept DEF hubVars, SameHub
<1> QED  BY <1>1, <1>3, <1>4, <1>5, <1>6, <1>7, SameStack DEF IInv

LEMMA DisconnectStep ==
    ASSUME IInv, fault = "none", NEW s \in Session, Disconnect(s)
    PROVE  IInv'
<1> USE DEF Disconnect
<1>1. /\ UNCHANGED <<started, hci, autorestart, svc, autoreconnect, held, stack, fault>>
      /\ aborted' \in BOOLEAN
  BY DEF SdpCancel, IInv, TypeOK
<1>2. /\ state' = [state EXCEPT ![s] = "Disconnected"]
      /\ opTimer' = [opTimer EXCEPT ![s] = FALSE]
  BY DEF Drop, MoveTo
<1>3. References' /\ refs' \in [Session -> Nat] /\ dead' \in [Session -> BOOLEAN]
  <2>1. ASSUME NEW t \in Session
        PROVE  /\ Due(t)' = Due(t) - One(t = s)
               /\ Mourned(stack, t)' <=> Mourned(stack, t)
               /\ t = s => Due(t) > 0
    <3>1. Puts(stack, t)' = Puts(stack, t) /\ (Mourned(stack, t)' <=> Mourned(stack, t))
      BY <1>1, SameStack
    <3>2. Puts(stack, t) \in Nat /\ held[t] \in Nat
      BY DueType DEF IInv, TypeOK
    <3>3. state'[t] = IF t = s THEN "Disconnected" ELSE state[t]
      BY <1>2 DEF IInv, TypeOK
    <3> QED  BY <1>1, <3>1, <3>2, <3>3 DEF Due, One
  <2> QED  BY <2>1, RefsPut
<1>4. HubTimer' /\ {restartSet', cleanupSet', hubArmed'} \subseteq BOOLEAN
  BY <1>1, SameStack, HubPut
<1>5. /\ WaitingIsTimed' /\ list' \in [Session -> Lists \cup {"none", "retry"}]
      /\ armed' \in [Lists -> BOOLEAN]
  BY <1>1, SameStack, WaitingDropped
<1>6. TypeOK'
  <2>1. exists' = exists
    BY DEF Put
  <2>2. /\ state' \in [Session -> {"Disconnected", "SdpLookupChannel", "Connecting", "Connected"}]
        /\ opTimer' \in [Session -> BOOLEAN]
    BY <1>2 DEF IInv, TypeOK
  <2> HIDE DEF Disconnect
  <2> QED  BY <1>1, <1>3, <1>4, <1>5, <2>1, <2>2 DEF IInv, TypeOK
<1>7. Drained'
  <2>1. \A t \in Session :
           state'[t] = "SdpLookupChannel" => started \/ state[t] = "SdpLookupChannel"
    BY <1>2 DEF IInv, TypeOK
  <2> QED  BY <1>1, <2>1, SameStack, DrainedKept DEF SameHub
<1> QED  BY <1>1, <1>3, <1>4, <1>5, <1>6, <1>7, SameStack DEF IInv

LEMMA GotTypes ==
    ASSUME IInv, NEW s \in Session, Get(s) \/ GetTwice(s)
    PROVE  /\ exists' \in [Session -> BOOLEAN] /\ dead' \in [Session -> BOOLEAN]
           /\ refs' \in [Session -> Nat]
           /\ \A t \in Session : dead'[t] => dead[t]
<1>1. CASE Get(s)
  BY <1>1 DEF IInv, TypeOK, Get
<1>2. CASE GetTwice(s)
  BY <1>2 DEF IInv, TypeOK, GetTwice
<1> QED  BY <1>1, <1>2

State == {"Disconnected", "SdpLookupChannel", "Connecting", "Connected"}

LEMMA MovedTypes ==
    ASSUME IInv, NEW s \in Session, NEW st \in State, NEW timed \in BOOLEAN,
           MoveTo(s, st, timed)
    PROVE  /\ state' \in [Session -> State] /\ opTimer' \in [Session -> BOOLEAN]
           /\ \A t \in Session : /\ state'[t] = IF t = s THEN st ELSE state[t]
                                 /\ opTimer'[t] = IF t = s THEN timed ELSE opTimer[t]
    BY DEF IInv, TypeOK, MoveTo, State

LEMMA EnableStep ==
    ASSUME IInv, fault = "none", NEW s \in Session, EnableAutoReconnect(s)
    PROVE  IInv'
<1> USE DEF EnableAutoReconnect
<1>1. /\ UNCHANGED <<hubVars, timerVars, svc, connVars, held, stack, fault>>
      /\ autoreconnect' = [autoreconnect EXCEPT ![s] = TRUE] /\ ~autoreconnect[s]
      /\ Get(s)
  OBVIOUS
<1>2. /\ autoreconnect' \in [Session -> BOOLEAN]
      /\ \A t \in Session : autoreconnect'[t] = (t = s \/ autoreconnect[t])
  BY <1>1 DEF IInv, TypeOK
<1>3. References'
  <2>1. ASSUME NEW t \in Session
        PROVE  /\ Due(t)' = Due(t) + One(t = s)
               /\ Mourned(stack, t)' <=> Mourned(stack, t)
    <3>1. Puts(stack, t)' = Puts(stack, t) /\ (Mourned(stack, t)' <=> Mourned(stack, t))
      BY <1>1, SameStack
    <3>2. Puts(stack, t) \in Nat /\ held[t] \in Nat
      BY DueType DEF IInv, TypeOK
    <3> QED  BY <1>1, <1>2, <3>1, <3>2 DEF Due, One, connVars
  <2>2. ~Mourned(stack, s)
    BY DEF Doomed, Mourned
  <2> QED  BY <2>1, <2>2, RefsGot
<1>4. /\ WaitingIsTimed' /\ list' \in [Session -> Lists \cup {"none", "retry"}]
      /\ armed' \in [Lists -> BOOLEAN]
  <2>1. list[s] = "none" /\ (opTimer[s] <=> state[s] \in {"SdpLookupChannel", "Connecting"})
    BY DEF IInv, WaitingIsTimed
  <2>2. CASE state[s] = "Disconnected"
    <3>1. AddAutoReconnect(s, "now") /\ "now" \in Lists
      BY <2>2 DEF Lists
    <3>2. /\ \A t \in Session \ {s} :
                /\ state'[t] = state[t] /\ opTimer'[t] = opTimer[t]
                /\ autoreconnect'[t] = autoreconnect[t]
          /\ autoreconnect'[s] /\ state'[s] = "Disconnected" /\ ~opTimer'[s]
      BY <1>1, <1>2, <2>1, <2>2 DEF connVars
    <3> HIDE DEF EnableAutoReconnect
    <3> QED  BY <1>1, <2>1, <3>1, <3>2, SameStack, WaitingAdded
  <2>3. CASE state[s] # "Disconnected"
    <3>1. UNCHANGED listVars
      BY <2>3
    <3> QED  BY <1>1, <1>2, <2>3, <3>1
             DEF IInv, TypeOK, WaitingIsTimed, OnStack, listVars, connVars
  <2> QED  BY <2>2, <2>3
<1>5. TypeOK'
  <2> HIDE DEF EnableAutoReconnect
  <2> QED  BY <1>1, <1>2, <1>4, GotTypes DEF IInv, TypeOK, hubVars, timerVars, connVars
<1>6. HubTimer'
  BY <1>1, GotTypes, SameStack, HubKept
<1>7. Drained'
  BY <1>1, SameStack, DrainedKept DEF hubVars, SameHub, connVars
<1> QED  BY <1>1, <1>3, <1>4, <1>5, <1>6, <1>7, SameStack DEF IInv

LEMMA DisableStep ==
    ASSUME IInv, fault = "none", NEW s \in Session, DisableAutoReconnect(s)
    PROVE  IInv'
<1> USE DEF DisableAutoReconnect
<1>1. /\ UNCHANGED <<hubVars, svc, connVars, held, stack, fault>>
      /\ autoreconnect' = [autoreconnect EXCEPT ![s] = FALSE] /\ autoreconnect[s]
      /\ Put(s)
  OBVIOUS
<1>2. /\ autoreconnect' \in [Session -> BOOLEAN]
      /\ \A t \in Session : autoreconnect'[t] = (t # s /\ autoreconnect[t])
  BY <1>1, ZenonT(30) DEF IInv, TypeOK
<1>3. References' /\ refs' \in [Session -> Nat] /\ dead' \in [Session -> BOOLEAN]
  <2>1. ASSUME NEW t \in Session
        PROVE  /\ Due(t)' = Due(t) - One(t = s)
               /\ Mourned(stack, t)' <=> Mourned(stack, t)
               /\ t = s => Due(t) > 0
    <3>1. Puts(stack, t)' = Puts(stack, t) /\ (Mourned(stack, t)' <=> Mourned(stack, t))
      BY <1>1, SameStack
    <3>2. Puts(stack, t) \in Nat /\ held[t] \in Nat
      BY DueType DEF IInv, TypeOK
    <3> QED  BY <1>1, <1>2, <3>1, <3>2 DEF Due, One, connVars
  <2> QED  BY <1>1, <2>1, RefsPut
<1>4. HubTimer' /\ {restartSet', cleanupSet', hubArmed'} \subseteq BOOLEAN
  BY <1>1, SameStack, HubPut DEF hubVars
<1>5. /\ WaitingIsTimed' /\ list' \in [Session -> Lists \cup {"none", "retry"}]
      /\ armed' \in [Lists -> BOOLEAN]
  <2>1. CASE state[s] = "Disconnected"
    <3>1. Unlist(s)
      BY <1>1, <2>1 DEF Unlist
    <3>2. /\ \A t \in Session \ {s} :
                /\ state'[t] = state[t] /\ opTimer'[t] = opTimer[t]
                /\ autoreconnect'[t] = autoreconnect[t]
          /\ ~(autoreconnect'[s] /\ state'[s] = "Disconnected")
          /\ opTimer'[s] <=> state'[s] \in {"SdpLookupChannel", "Connecting"}
      BY <1>1, <1>2, <2>1 DEF connVars, IInv, WaitingIsTimed
    <3> HIDE DEF DisableAutoReconnect
    <3> QED  BY <1>1, <2>1, <3>1, <3>2, SameStack, WaitingUnlisted
  <2>2. CASE state[s] # "Disconnected"
    <3>1. UNCHANGED listVars
      BY <2>2
    <3> QED  BY <1>1, <1>2, <2>2, <3>1
             DEF IInv, TypeOK, WaitingIsTimed, OnStack, listVars, connVars
  <2> QED  BY <2>1, <2>2
<1>6. TypeOK'
  <2>1. exists' = exists
    BY <1>1 DEF Put
  <2> HIDE DEF DisableAutoReconnect
  <2> QED  BY <1>1, <1>2, <1>3, <1>4, <1>5, <2>1 DEF IInv, TypeOK, hubVars, connVars
<1>7. Drained'
  BY <1>1, SameStack, DrainedKept DEF hubVars, SameHub, connVars
<1> QED  BY <1>1, <1>3, <1>4, <1>5, <1>6, <1>7, SameStack DEF IInv

LEMMA TwoFrames ==
    ASSUME NEW st \in Seq(Frame), NEW a \in Frame, NEW b \in Frame
    PROVE  <<a, b>> \o st = <<a>> \o (<<b>> \o st) /\ <<b>> \o st \in Seq(Frame)
           /\ <<a, b>> = <<a>> \o <<b>> /\ <<b>> = <<b>> \o <<>> /\ <<b>> \in Seq(Frame)
<1>1. <<a>> \in Seq(Frame) /\ <<b>> \in Seq(Frame) /\ <<a, b>> \in Seq(Frame)
  OBVIOUS
<1>2. <<a, b>> = <<a>> \o <<b>>
  <2>1. /\ <<a>> \o <<b>> \in Seq(Frame) /\ Len(<<a>> \o <<b>>) = 2
        /\ (<<a>> \o <<b>>)[1] = a /\ (<<a>> \o <<b>>)[2] = b
    BY <1>1
  <2>2. \A i \in 1 .. 2 : i = 1 \/ i = 2
    OBVIOUS
  <2> DEFINE u == <<a>> \o <<b>>
             v == <<a, b>>
  <2>3. Len(v) = 2 /\ v[1] = a /\ v[2] = b
    OBVIOUS
  <2> HIDE DEF u, v
  <2>4. \A i \in 1 .. Len(v) : v[i] = u[i]
    BY <2>1, <2>2, <2>3 DEF u
  <2>5. v = u
    BY <1>1, <2>1, <2>3, <2>4, SeqEqual DEF u, v
  <2> QED  BY <2>5 DEF u, v
<1>3. <<b>> = <<b>> \o <<>>
  BY <1>1, ConcatEmptySeq
<1>4. (<<a>> \o <<b>>) \o st = <<a>> \o (<<b>> \o st)
  BY <1>1, ConcatAssociative
<1>5. <<b>> \o st \in Seq(Frame)
  BY <1>1, ConcatProperties
<1> QED  BY <1>1, <1>2, <1>3, <1>4, <1>5

\* The service is started: each list that is not empty gets its timer.
LEMMA WaitingStarted ==
    ASSUME IInv, Start, UNCHANGED <<connVars, autoreconnect, fault>>,
           On(stack, "retry")' <=> On(stack, "retry")
    PROVE  /\ WaitingIsTimed' /\ armed' \in [Lists -> BOOLEAN]
           /\ UNCHANGED <<autorestart, aborted, list>> /\ started' /\ hci' /\ svc'
           /\ {started', hci', svc'} \subseteq BOOLEAN
    BY DEF IInv, TypeOK, WaitingIsTimed, OnStack, On, Start, connVars

\* It is stopped, and they are deleted.
LEMMA WaitingStopped ==
    ASSUME IInv, StopService, UNCHANGED <<connVars, autoreconnect, fault>>,
           On(stack, "retry")' <=> On(stack, "retry")
    PROVE  /\ WaitingIsTimed' /\ armed' \in [Lists -> BOOLEAN]
           /\ UNCHANGED <<hci, autorestart, list>> /\ ~started' /\ ~svc'
           /\ {started', svc', aborted'} \subseteq BOOLEAN
    BY DEF IInv, TypeOK, WaitingIsTimed, OnStack, On, StopService, connVars

LEMMA HubStartStep ==
    ASSUME IInv, fault = "none", HubStart
    PROVE  IInv'
<1>1. UNCHANGED <<timerVars, connVars, autoreconnect, refVars, held, stack>>
  BY DEF HubStart
<1>2. References'
  <2>1. \A t \in Session : Due(t)' = Due(t) /\ (Mourned(stack, t)' <=> Mourned(stack, t))
    BY <1>1, SameStack DEF Due, connVars
  <2> QED  BY <1>1, <2>1, RefsKept
<1>3. CASE fault' = "SdpCreateThread" /\ UNCHANGED <<hubVars, svc, listVars>>
  <2>1. TypeOK'
    BY <1>1, <1>3 DEF IInv, TypeOK, hubVars, timerVars, listVars, connVars, refVars
  <2>2. WaitingIsTimed'
    BY <1>1, <1>3 DEF IInv, WaitingIsTimed, OnStack, listVars, connVars
  <2>3. HubTimer'
    BY <1>1, <1>3, SameStack, HubKept DEF refVars
  <2>4. Drained'
    BY <1>1, <1>3, SameStack, DrainedKept DEF hubVars, connVars, SameHub
  <2> QED  BY <1>1, <1>2, <2>1, <2>2, <2>3, <2>4, SameStack DEF IInv
<1>4. CASE Start /\ UNCHANGED fault
  <2>1. /\ WaitingIsTimed' /\ armed' \in [Lists -> BOOLEAN]
        /\ UNCHANGED <<autorestart, aborted, list>> /\ started' /\ hci' /\ svc'
        /\ {started', hci', svc'} \subseteq BOOLEAN
    BY <1>1, <1>4, SameStack, WaitingStarted
  <2>2. TypeOK'
    BY <1>1, <1>4, <2>1 DEF IInv, TypeOK, timerVars, connVars, refVars
  <2>3. HubTimer'
    BY <1>1, <2>1, SameStack DEF IInv, HubTimer, SameHub, timerVars, refVars
  <2>4. Drained'
    BY <2>1 DEF Drained
  <2> QED  BY <1>1, <1>2, <2>1, <2>2, <2>3, <2>4, SameStack DEF IInv
<1> QED  BY <1>3, <1>4 DEF HubStart

\* __Stop begins: its end, e, and the drain are put on the stack.
LEMMA StoppingStep ==
    ASSUME IInv, fault = "none", StopService,
           NEW e \in Frame, Formed(e), e.do \in Stoppers,
           stack' = <<Call("drain", {}), e>> \o stack,
           UNCHANGED <<timerVars, connVars, autoreconnect, refVars, held, fault>>
    PROVE  IInv'
<1> DEFINE d == Call("drain", {})
           m == <<e>> \o stack
<1>1. /\ UNCHANGED <<timerVars, connVars, autoreconnect, refVars, held, fault>>
      /\ StopService /\ stack' = <<d, e>> \o stack
  OBVIOUS
<1>2. /\ d \in Frame /\ e \in Frame /\ Formed(d) /\ Formed(e)
      /\ d.do = "drain" /\ e.do \in {"stopped", "sweep"}
  BY Calls DEF Stoppers
<1>3. stack \in Seq(Frame) /\ Shaped(stack)
  BY DEF IInv, TypeOK
<1> HIDE DEF d
<1>4. stack' = <<d>> \o m /\ m \in Seq(Frame) /\ m[1] = e /\ m # <<>>
  <2>1. stack' = <<d>> \o m
    BY <1>1, <1>2, <1>3, TwoFrames DEF m
  <2>2. m \in Seq(Frame) /\ m[1] = e /\ m # <<>>
    BY <1>2, <1>3, Concatenation DEF m
  <2> QED  BY <2>1, <2>2
<1>5. Above(e, stack, m)
  BY <1>2, <1>3, Push
<1> HIDE DEF m
<1>6. Above(d, m, stack')
  BY <1>2, <1>4, Push
<1>7. /\ stack' \in Seq(Frame) /\ Shaped(stack)'
      /\ On(stack, "retry")' <=> On(stack, "retry")
      /\ On(stack, "timeout")' <=> On(stack, "timeout")
      /\ On(stack, "drain")'
  <2>1. Resumes(m)
    BY <1>2, <1>4 DEF Resumes, Stoppers
  <2>2. Shaped(m)
    BY <1>2, <1>3, <1>5 DEF Above
  <2>3. stack' \in Seq(Frame) /\ Shaped(stack')
    BY <1>2, <1>6, <2>1, <2>2 DEF Above
  <2>4. \A do : On(stack', do) <=> do \in {"drain", e.do} \/ On(stack, do)
    BY <1>2, <1>5, <1>6 DEF Above
  <2>5. Shaped(stack)' <=> Shaped(stack')
    BY DEF Shaped, Formed
  <2>6. \A do : On(stack, do)' <=> On(stack', do)
    BY DEF On
  <2> QED  BY <1>2, <2>3, <2>4, <2>5, <2>6
<1>8. \A t \in Session :
         /\ Puts(stack, t)' = Puts(stack, t)
         /\ Mourned(stack, t)' <=> Mourned(stack, t)
  <2>1. ASSUME NEW t \in Session
        PROVE  Puts(stack', t) = Puts(stack, t) /\ (Mourned(stack', t) <=> Mourned(stack, t))
    <3>1. Puts(stack', t) = Puts(m, t) + 0 /\ (Mourned(stack', t) <=> Mourned(m, t))
      BY <1>2, <1>6 DEF Above, One
    <3>2. /\ Puts(m, t) = Puts(stack, t) + 0 /\ Puts(stack, t) \in Nat
          /\ Mourned(m, t) <=> Mourned(stack, t)
      BY <1>2, <1>5 DEF Above, One
    <3> QED  BY <3>1, <3>2
  <2> QED  BY <2>1 DEF Puts, Mourned
<1>9. References'
  BY <1>1, <1>8, RefsKept DEF Due, connVars
<1>10. /\ WaitingIsTimed' /\ armed' \in [Lists -> BOOLEAN]
       /\ UNCHANGED <<hci, autorestart, list>> /\ ~started' /\ ~svc'
       /\ {started', svc', aborted'} \subseteq BOOLEAN
  BY <1>1, <1>7, WaitingStopped
<1>11. TypeOK'
  BY <1>1, <1>7, <1>10 DEF IInv, TypeOK, timerVars, connVars, refVars
<1>12. HubTimer'
  BY <1>1, <1>7 DEF IInv, HubTimer, timerVars, refVars
<1>13. Drained'
  BY <1>7 DEF Drained
<1> QED  BY <1>7, <1>9, <1>10, <1>11, <1>12, <1>13 DEF IInv

LEMMA HubStopStep ==
    ASSUME IInv, fault = "none", HubStop
    PROVE  IInv'
<1> DEFINE e == Call("stopped", {})
<1>1. e \in Frame /\ Formed(e) /\ e.do \in Stoppers
  BY Calls DEF Stoppers
<1>2. /\ UNCHANGED <<timerVars, connVars, autoreconnect, refVars, held, fault>>
      /\ StopService /\ stack' = <<Call("drain", {}), e>> \o stack
  BY DEF HubStop
<1> QED  BY <1>1, <1>2, StoppingStep

LEMMA InvoluntaryStopStep ==
    ASSUME IInv, fault = "none", InvoluntaryStop
    PROVE  IInv'
<1> DEFINE d == Call("drain", {})
           e == Call("sweep", Session)
<1>1. /\ d \in Frame /\ e \in Frame /\ Formed(e) /\ e.do \in Stoppers
  BY Calls DEF Stoppers
<1>2. /\ UNCHANGED <<timerVars, connVars, autoreconnect, refVars, held, fault>>
      /\ StopService /\ stack = <<>> /\ stack' = <<d, e>>
  BY DEF InvoluntaryStop, InLoop
<1>3. <<d, e>> \o <<>> = <<d, e>>
  <2> HIDE DEF d, e
  <2>1. <<d, e>> \in Seq(Frame)
    BY <1>1
  <2> QED  BY <2>1, ConcatEmptySeq
<1> HIDE DEF e
<1>4. stack' = <<d, e>> \o stack
  BY <1>2, <1>3
<1> QED  BY <1>1, <1>2, <1>4, StoppingStep

LEMMA SetAutoRestartStep ==
    ASSUME IInv, fault = "none", SetAutoRestart
    PROVE  IInv'
<1>1. UNCHANGED <<started, hci, aborted, cleanupSet, svc, listVars, connVars, autoreconnect,
                  refVars, held, stack, fault>>
  BY DEF SetAutoRestart
<1>2. /\ autorestart' = ~autorestart
      /\ restartSet' = (restartSet \/ (~autorestart /\ ~cleanupSet /\ ~started))
      /\ hubArmed' = (hubArmed \/ (~autorestart /\ ~cleanupSet /\ ~started))
  BY DEF SetAutoRestart
<1>3. TypeOK'
  BY <1>1, <1>2 DEF IInv, TypeOK, listVars, connVars, refVars
<1>4. References'
  BY <1>1, SameStack, RefsKept DEF Due, connVars
<1>5. WaitingIsTimed'
  BY <1>1, SameStack, WaitingKept DEF connVars, IInv, WaitingIsTimed
<1>6. HubTimer'
  BY <1>1, <1>2, SameStack DEF IInv, HubTimer, SameHub, refVars
<1>7. Drained'
  BY <1>1, SameStack, DrainedKept DEF connVars, SameHub
<1> QED  BY <1>1, <1>3, <1>4, <1>5, <1>6, <1>7, SameStack DEF IInv

-----------------------------------------------------------------------------
(* Disconnections.                                                         *)

LEMMA LikeStack ==
    ASSUME Kept(stack, stack')
    PROVE  /\ stack' \in Seq(Frame) /\ Shaped(stack)' /\ SameHub
           /\ On(stack, "retry")' <=> On(stack, "retry")
           /\ \A s \in Session : Mourned(stack, s)' <=> Mourned(stack, s)
           /\ \A s : Puts(stack, s)' = Puts(stack', s)
<1>1. /\ Shaped(stack)' <=> Shaped(stack')
      /\ \A do : On(stack, do)' <=> On(stack', do)
      /\ \A s : Mourned(stack, s)' <=> Mourned(stack', s)
      /\ \A s : Puts(stack, s)' = Puts(stack', s)
  BY DEF Shaped, Formed, On, Mourned, Puts
<1> QED  BY <1>1 DEF Kept, Lasting, SameHub

\* The stack n is like st, and the same Put()s are owed.
Alike(st, n) == Kept(st, n) /\ \A s \in Session : Puts(n, s) = Puts(st, s)

LEMMA AlikeSelf ==
    ASSUME NEW st \in Seq(Frame), Shaped(st)
    PROVE  Alike(st, st)
    BY DEF Alike, Kept

\* __Disconnect, whatever its caller has still to do.
LEMMA DisconnectedStep ==
    ASSUME IInv, fault = "none", NEW s \in Session, state[s] # "Disconnected",
           NEW rest, Alike(stack, rest), DisconnectThen(s, rest)
    PROVE  IInv'
<1>1. /\ UNCHANGED <<hubVars, timerVars, svc, autoreconnect, refVars, held, fault>>
      /\ Drop(s) /\ stack' = Notified(s) \o rest
  BY DEF DisconnectThen
<1>2. rest \in Seq(Frame) /\ Shaped(rest)
  BY DEF Alike, Kept
<1>3. /\ Kept(rest, stack')
      /\ \A t \in Session : Puts(stack', t) = Puts(rest, t) + One(t = s)
  BY <1>1, <1>2, NotifiedKept
<1>4. Kept(stack, stack')
  BY <1>3 DEF Kept, Alike
<1>5. /\ stack' \in Seq(Frame) /\ Shaped(stack)' /\ SameHub
      /\ On(stack, "retry")' <=> On(stack, "retry")
      /\ \A t \in Session : /\ Mourned(stack, t)' <=> Mourned(stack, t)
                            /\ Puts(stack, t)' = Puts(stack, t) + One(t = s)
  <2>1. \A t \in Session : Puts(stack', t) = Puts(stack, t) + One(t = s)
    BY <1>3 DEF Alike
  <2> QED  BY <1>4, <2>1, LikeStack
<1>6. /\ state' \in [Session -> State] /\ opTimer' \in [Session -> BOOLEAN]
      /\ \A t \in Session : state'[t] = IF t = s THEN "Disconnected" ELSE state[t]
  BY <1>1, MovedTypes DEF Drop, State
<1>7. References'
  <2>1. ASSUME NEW t \in Session PROVE Due(t)' = Due(t)
    <3>1. Puts(stack, t) \in Nat /\ held[t] \in Nat
      BY DueType DEF IInv, TypeOK
    <3> QED  BY <1>1, <1>5, <1>6, <3>1 DEF Due, One
  <2> QED  BY <1>1, <1>5, <2>1, RefsKept
<1>8. /\ WaitingIsTimed' /\ list' \in [Session -> Lists \cup {"none", "retry"}]
      /\ armed' \in [Lists -> BOOLEAN]
  BY <1>1, <1>5, WaitingDropped
<1>9. TypeOK'
  BY <1>1, <1>5, <1>6, <1>8 DEF IInv, TypeOK, State, hubVars, timerVars, refVars
<1>10. HubTimer'
  BY <1>1, <1>5, HubKept DEF refVars
<1>11. Drained'
  <2>1. \A t \in Session :
           state'[t] = "SdpLookupChannel" => started \/ state[t] = "SdpLookupChannel"
    BY <1>6
  <2> QED  BY <1>1, <1>5, <2>1, DrainedKept DEF hubVars, SameHub
<1> QED  BY <1>5, <1>7, <1>8, <1>9, <1>10, <1>11 DEF IInv

\* An event that disconnects a session.
LEMMA LostStep ==
    ASSUME IInv, fault = "none", NEW s \in Session,
           \/ LookupFailed(s) \/ ConnectFailed(s) \/ ConnectionLost(s)
           \/ OperationTimeout(s)
    PROVE  IInv'
<1>1. stack = <<>> /\ state[s] # "Disconnected" /\ DisconnectThen(s, <<>>)
  BY DEF LookupFailed, ConnectFailed, ConnectionLost, OperationTimeout, InLoop, IInv,
         WaitingIsTimed
<1>2. Alike(stack, <<>>)
  BY <1>1, Empty, AlikeSelf
<1> QED  BY <1>1, <1>2, DisconnectedStep

LEMMA HandshakeUnsentStep ==
    ASSUME IInv, fault = "none", NEW s \in Session, HandshakeUnsent(s)
    PROVE  IInv'
<1> DEFINE a == Call("again", {s})
<1>1. stack = <<>> /\ state[s] # "Disconnected" /\ DisconnectThen(s, <<a>>)
  BY DEF HandshakeUnsent, InLoop
<1>2. a \in Frame /\ Formed(a) /\ a.do = "again"
  BY Calls
<1> HIDE DEF a
<1>3. <<a>> = <<a>> \o <<>>
  BY <1>2, TwoFrames, Empty
<1>4. Kept(<<>>, <<a>>) /\ \A t : Puts(<<a>>, t) = Puts(<<>>, t)
  BY <1>2, <1>3, Empty, PushKept DEF Lasting
<1>5. Alike(stack, <<a>>)
  BY <1>1, <1>4 DEF Alike
<1> QED  BY <1>1, <1>5, DisconnectedStep

LEMMA DrainStepStep ==
    ASSUME IInv, fault = "none", NEW s \in Session, DrainStep(s)
    PROVE  IInv'
<1>1. state[s] # "Disconnected" /\ DisconnectThen(s, stack)
  BY DEF DrainStep
<1>2. Alike(stack, stack)
  BY AlikeSelf DEF IInv, TypeOK
<1> QED  BY <1>1, <1>2, DisconnectedStep

\* A frame is taken off the stack, and nothing else changes.
LEMMA ReturnedStep ==
    ASSUME IInv, fault = "none", Alike(stack, stack'),
           UNCHANGED <<hubVars, timerVars, svc, listVars, connVars, autoreconnect,
                       refVars, held, fault>>
    PROVE  IInv'
<1>1. /\ stack' \in Seq(Frame) /\ Shaped(stack)' /\ SameHub
      /\ On(stack, "retry")' <=> On(stack, "retry")
      /\ \A t \in Session : /\ Mourned(stack, t)' <=> Mourned(stack, t)
                            /\ Puts(stack, t)' = Puts(stack, t)
  BY LikeStack DEF Alike
<1>2. TypeOK'
  BY <1>1 DEF IInv, TypeOK, hubVars, timerVars, listVars, connVars, refVars
<1>3. References'
  BY <1>1, RefsKept DEF Due, connVars
<1>4. WaitingIsTimed'
  BY <1>1, WaitingKept DEF connVars, IInv, WaitingIsTimed
<1>5. HubTimer'
  BY <1>1, HubKept DEF refVars
<1>6. Drained'
  BY <1>1, DrainedKept DEF hubVars, connVars, SameHub
<1> QED  BY <1>1, <1>2, <1>3, <1>4, <1>5, <1>6 DEF IInv

LEMMA PopAlike ==
    ASSUME IInv, stack # <<>>, Head(stack).do \notin Lasting \cup {"put", "destroy"}
    PROVE  Alike(stack, Tail(stack)) /\ Head(stack) \in Frame
<1>1. stack \in Seq(Frame) /\ Shaped(stack)
  BY DEF IInv, TypeOK
<1> QED  BY <1>1, PopKept, Pop DEF Alike

LEMMA ClientReturnsStep ==
    ASSUME IInv, fault = "none", ClientReturns
    PROVE  IInv'
<1>1. stack # <<>> /\ Head(stack).do = "client" /\ stack' = Tail(stack)
  BY DEF ClientReturns, Top
<1>2. Alike(stack, stack')
  BY <1>1, PopAlike DEF Lasting
<1> QED  BY <1>2, ReturnedStep DEF ClientReturns

LEMMA AgainStepStep ==
    ASSUME IInv, fault = "none", AgainStep
    PROVE  IInv'
<1>1. stack # <<>> /\ Head(stack).do = "again"
  BY DEF AgainStep, Top
<1>2. Alike(stack, Tail(stack)) /\ Head(stack) \in Frame
  BY <1>1, PopAlike DEF Lasting
<1>3. PICK s \in Head(stack).who :
         IF state[s] # "Disconnected"
         THEN DisconnectThen(s, Tail(stack))
         ELSE Return /\ UNCHANGED <<hubVars, timerVars, svc, listVars, connVars,
                                    autoreconnect, refVars, held, fault>>
  BY DEF AgainStep
<1>4. s \in Session
  BY <1>2 DEF Frame
<1>5. CASE state[s] # "Disconnected"
  BY <1>2, <1>3, <1>4, <1>5, DisconnectedStep
<1>6. CASE state[s] = "Disconnected"
  BY <1>2, <1>3, <1>6, ReturnedStep DEF Return
<1> QED  BY <1>5, <1>6

LEMMA SweepStepStep ==
    ASSUME IInv, fault = "none", NEW s \in Session, SweepStep(s)
    PROVE  IInv'
<1> DEFINE w == Call("sweep", Head(stack).who \ {s})
           t == Tail(stack)
           rest == <<w>> \o t
<1>1. stack # <<>> /\ Head(stack).do = "sweep"
  BY DEF SweepStep, Top
<1>2. Alike(stack, t) /\ Head(stack) \in Frame
  BY <1>1, PopAlike DEF Lasting
<1>3. w \in Frame /\ Formed(w) /\ w.do = "sweep"
  <2>1. Head(stack).who \ {s} \in SUBSET Session
    BY <1>2 DEF Frame
  <2> QED  BY <2>1, Calls
<1>4. IF state[s] # "Disconnected"
      THEN DisconnectThen(s, rest)
      ELSE stack' = rest /\ UNCHANGED <<hubVars, timerVars, svc, listVars, connVars,
                                        autoreconnect, refVars, held, fault>>
  BY DEF SweepStep
<1> HIDE DEF w, t
<1>5. Kept(t, rest) /\ \A u : Puts(rest, u) = Puts(t, u)
  BY <1>2, <1>3, PushKept DEF Lasting, Alike, Kept
<1>6. Alike(stack, rest)
  BY <1>2, <1>5 DEF Alike, Kept
<1> HIDE DEF rest
<1>7. CASE state[s] # "Disconnected"
  BY <1>4, <1>6, <1>7, DisconnectedStep
<1>8. CASE state[s] = "Disconnected"
  BY <1>4, <1>6, <1>8, ReturnedStep
<1> QED  BY <1>7, <1>8

LEMMA SweepDoneStep ==
    ASSUME IInv, fault = "none", SweepDone
    PROVE  IInv'
<1> DEFINE c == Call("client", {})
           t == Tail(stack)
           n == <<c>> \o t
<1>1. /\ stack # <<>> /\ Head(stack).do = "sweep"
      /\ UNCHANGED <<hubVars, timerVars, svc, listVars, connVars, autoreconnect, refVars,
                     held, fault>>
      /\ stack' = t \/ stack' = n
  BY DEF SweepDone, Top, Return
<1>2. Alike(stack, t)
  BY <1>1, PopAlike DEF Lasting
<1>3. c \in Frame /\ Formed(c) /\ c.do = "client"
  BY Calls
<1> HIDE DEF c, t
<1>4. Kept(t, n) /\ \A u : Puts(n, u) = Puts(t, u)
  BY <1>2, <1>3, PushKept DEF Lasting, Alike, Kept
<1>5. Alike(stack, n)
  BY <1>2, <1>4 DEF Alike, Kept
<1> HIDE DEF n
<1> QED  BY <1>1, <1>2, <1>5, ReturnedStep

-----------------------------------------------------------------------------
(* Connections.                                                            *)

\* A session goes on to the next state of its connection.
LEMMA ProgressStep ==
    ASSUME IInv, fault = "none", NEW s \in Session, state[s] # "Disconnected",
           NEW st \in {"Connecting", "Connected"}, MoveTo(s, st, st = "Connecting"),
           UNCHANGED <<hubVars, timerVars, svc, listVars, autoreconnect, refVars, held,
                       stack, fault>>
    PROVE  IInv'
<1>1. /\ state' \in [Session -> State] /\ opTimer' \in [Session -> BOOLEAN]
      /\ \A t \in Session : /\ state'[t] = IF t = s THEN st ELSE state[t]
                            /\ opTimer'[t] = IF t = s THEN st = "Connecting" ELSE opTimer[t]
  <2>1. CASE st = "Connecting"
    <3>1. (st = "Connecting") = TRUE
      BY <2>1
    <3>2. MoveTo(s, st, TRUE)
      BY <3>1 DEF MoveTo
    <3>3. st \in State /\ TRUE \in BOOLEAN
      BY DEF State
    <3>4. /\ state' \in [Session -> State] /\ opTimer' \in [Session -> BOOLEAN]
          /\ \A t \in Session : /\ state'[t] = IF t = s THEN st ELSE state[t]
                                /\ opTimer'[t] = IF t = s THEN TRUE ELSE opTimer[t]
      BY <3>2, <3>3, MovedTypes
    <3> QED  BY <3>1, <3>4
  <2>2. CASE st = "Connected"
    <3>1. MoveTo(s, "Connected", FALSE)
      BY <2>2 DEF MoveTo
    <3> QED  BY <2>2, <3>1, MovedTypes, ZenonT(30) DEF State
  <2> QED  BY <2>1, <2>2
<1>2. TypeOK'
  BY <1>1 DEF IInv, TypeOK, State, hubVars, timerVars, listVars, refVars
<1>3. References'
  BY <1>1, SameStack, RefsKept DEF Due
<1>4. WaitingIsTimed'
  <2>1. \A t \in Session :
           /\ state'[t] = "Disconnected" <=> state[t] = "Disconnected"
           /\ opTimer'[t] <=> state'[t] \in {"SdpLookupChannel", "Connecting"}
    BY <1>1 DEF IInv, WaitingIsTimed
  <2> QED  BY <2>1, SameStack, WaitingKept
<1>5. HubTimer'
  BY SameStack, HubKept DEF refVars
<1>6. Drained'
  BY <1>1, SameStack, DrainedKept DEF hubVars, SameHub
<1> QED  BY <1>2, <1>3, <1>4, <1>5, <1>6, SameStack DEF IInv

LEMMA LookupAnsweredStep ==
    ASSUME IInv, fault = "none", NEW s \in Session, LookupAnswered(s)
    PROVE  IInv'
<1>1. PICK st \in {"Connecting", "Connected"} : MoveTo(s, st, st = "Connecting")
  BY DEF LookupAnswered
<1>2. /\ state[s] # "Disconnected"
      /\ UNCHANGED <<hubVars, timerVars, svc, listVars, autoreconnect, refVars, held,
                     stack, fault>>
  BY DEF LookupAnswered
<1> QED  BY <1>1, <1>2, ProgressStep

LEMMA ConnectNotifyStep ==
    ASSUME IInv, fault = "none", NEW s \in Session, ConnectNotify(s)
    PROVE  IInv'
<1>1. /\ state[s] # "Disconnected" /\ MoveTo(s, "Connected", "Connected" = "Connecting")
      /\ UNCHANGED <<hubVars, timerVars, svc, listVars, autoreconnect, refVars, held,
                     stack, fault>>
  BY DEF ConnectNotify
<1> QED  BY <1>1, ProgressStep

\* One Put() is owed to s, and nothing else.
LEMMA OwedOnce ==
    ASSUME NEW s \in Session,
           NEW n \in {<<Call("put", {s})>>, <<Call("again", {s}), Call("put", {s})>>}
    PROVE  Kept(<<>>, n) /\ \A t \in Session : Puts(n, t) = One(t = s)
<1> DEFINE p == Call("put", {s})
           a == Call("again", {s})
           m == <<p>>
           k == <<a>> \o m
<1>1. /\ p \in Frame /\ a \in Frame /\ Formed(p) /\ Formed(a)
      /\ p.do = "put" /\ p.who = {s} /\ a.do = "again"
  BY Calls
<1>2. n = <<p>> \/ n = <<a, p>>
  OBVIOUS
<1> HIDE DEF p, a
<1>3. m = <<p>> \o <<>> /\ k = <<a, p>> /\ m \in Seq(Frame)
  <2>1. <<>> \in Seq(Frame)
    BY Empty
  <2>2. /\ <<a, p>> = <<a>> \o <<p>> /\ <<p>> = <<p>> \o <<>>
        /\ <<p>> \in Seq(Frame)
    BY <1>1, <2>1, TwoFrames
  <2> QED  BY <2>2
<1>4. n = m \/ n = k
  BY <1>2, <1>3
<1>5. Above(p, <<>>, m)
  BY <1>1, <1>3, Empty, Push
<1> HIDE DEF m
<1>6. Kept(<<>>, m) /\ \A t \in Session : Puts(m, t) = One(t = s)
  <2>1. \A t \in Session : p.who = {t} <=> t = s
    BY <1>1
  <2>2. Kept(<<>>, m)
    BY <1>1, <1>5, Empty DEF Above, Kept, Lasting
  <2>3. ASSUME NEW t \in Session PROVE Puts(m, t) = One(t = s)
    <3>1. Puts(m, t) = 0 + One(p.do = "put" /\ p.who = {t})
      BY <1>5, Empty DEF Above
    <3> QED  BY <1>1, <2>1, <3>1 DEF One
  <2> QED  BY <2>2, <2>3
<1>7. Kept(m, k) /\ \A t \in Session : Puts(k, t) = Puts(m, t)
  BY <1>1, <1>6, PushKept DEF Kept, Lasting
<1> HIDE DEF k
<1>8. Kept(<<>>, k) /\ \A t \in Session : Puts(k, t) = One(t = s)
  BY <1>6, <1>7 DEF Kept
<1> QED  BY <1>4, <1>6, <1>8

LEMMA LookupWastedStep ==
    ASSUME IInv, fault = "none", NEW s \in Session, LookupWasted(s)
    PROVE  IInv'
<1> DEFINE rest == <<Call("put", {s})>>
<1>1. /\ UNCHANGED <<hubVars, timerVars, svc, autoreconnect, held, fault>>
      /\ state[s] # "Disconnected" /\ stack = <<>>
      /\ Drop(s) /\ Get(s) /\ stack' = Notified(s) \o rest
  <2>1. state[s] = "SdpLookupChannel"
    BY DEF LookupWasted
  <2> QED  BY <2>1 DEF LookupWasted, InLoop
<1>2. Kept(<<>>, rest) /\ \A t \in Session : Puts(rest, t) = One(t = s)
  BY OwedOnce
<1> HIDE DEF rest
<1>3. /\ Kept(rest, stack')
      /\ \A t \in Session : Puts(stack', t) = Puts(rest, t) + One(t = s)
  BY <1>1, <1>2, NotifiedKept DEF Kept
<1>4. Kept(stack, stack')
  BY <1>1, <1>2, <1>3 DEF Kept
<1>5. /\ stack' \in Seq(Frame) /\ Shaped(stack)' /\ SameHub
      /\ On(stack, "retry")' <=> On(stack, "retry")
      /\ \A t \in Session : /\ Mourned(stack, t)' <=> Mourned(stack, t)
                            /\ Puts(stack, t)' = Puts(stack, t) + 2 * One(t = s)
  <2>1. \A t \in Session : Puts(stack', t) = 2 * One(t = s) /\ Puts(stack, t) = 0
    BY <1>1, <1>2, <1>3, Empty DEF One
  <2> QED  BY <1>4, <2>1, LikeStack DEF One
<1>6. /\ state' \in [Session -> State] /\ opTimer' \in [Session -> BOOLEAN]
      /\ \A t \in Session : state'[t] = IF t = s THEN "Disconnected" ELSE state[t]
  BY <1>1, MovedTypes DEF Drop, State
<1>7. References'
  <2>1. ASSUME NEW t \in Session PROVE Due(t)' = Due(t) + One(t = s)
    <3>1. Puts(stack, t) \in Nat /\ held[t] \in Nat
      BY DueType DEF IInv, TypeOK
    <3>2. CASE t = s
      <4>1. /\ state'[t] = "Disconnected" /\ state[t] # "Disconnected" /\ held' = held
            /\ autoreconnect' = autoreconnect
            /\ Puts(stack, t)' = Puts(stack, t) + 2
        BY <1>1, <1>5, <1>6, <3>2 DEF One
      <4>2. /\ Due(t)' = held[t] + 0 + One(autoreconnect[t]) + (Puts(stack, t) + 2)
            /\ Due(t) = held[t] + 1 + One(autoreconnect[t]) + Puts(stack, t)
        BY <4>1 DEF Due, One
      <4> QED  BY <3>1, <3>2, <4>2 DEF One
    <3>3. CASE t # s
      BY <1>1, <1>5, <1>6, <3>1, <3>3 DEF Due, One
    <3> QED  BY <3>2, <3>3
  <2>2. ~Mourned(stack, s)
    BY <1>1, Empty
  <2> QED  BY <1>1, <1>5, <2>1, <2>2, RefsGot
<1>8. /\ WaitingIsTimed' /\ list' \in [Session -> Lists \cup {"none", "retry"}]
      /\ armed' \in [Lists -> BOOLEAN]
  BY <1>1, <1>5, WaitingDropped
<1>9. TypeOK'
  <2>1. /\ exists' \in [Session -> BOOLEAN] /\ dead' \in [Session -> BOOLEAN]
        /\ refs' \in [Session -> Nat]
    BY <1>1, GotTypes
  <2> QED  BY <1>1, <1>5, <1>6, <1>8, <2>1 DEF IInv, TypeOK, State, hubVars, timerVars
<1>10. HubTimer'
  BY <1>1, <1>5, HubKept, GotTypes
<1>11. Drained'
  <2>1. \A t \in Session :
           state'[t] = "SdpLookupChannel" => started \/ state[t] = "SdpLookupChannel"
    BY <1>6
  <2> QED  BY <1>1, <1>5, <2>1, DrainedKept DEF hubVars, SameHub
<1> QED  BY <1>5, <1>7, <1>8, <1>9, <1>10, <1>11 DEF IInv

LEMMA ListenStep ==
    ASSUME IInv, fault = "none", NEW s \in Session, Listen(s)
    PROVE  IInv'
<1>1. /\ UNCHANGED <<hubVars, timerVars, svc, autoreconnect, held, opTimer, fault>>
      /\ state[s] = "Disconnected" /\ stack = <<>>
      /\ state' = [state EXCEPT ![s] = "Connected"] /\ Unlist(s)
      /\ GetTwice(s) /\ stack' = Notified(s)
  BY DEF Listen, Accept, InLoop
<1>2. /\ Kept(stack, stack')
      /\ \A t \in Session : Puts(stack', t) = Puts(stack, t) + One(t = s)
  <2>1. Notified(s) \o <<>> = Notified(s)
    <3>1. Call("client", {s}) \in Frame /\ Call("put", {s}) \in Frame
      BY Calls
    <3>2. Notified(s) \in Seq(Frame)
      BY <3>1 DEF Notified
    <3> QED  BY <3>2, ConcatEmptySeq
  <2>2. /\ Kept(<<>>, Notified(s) \o <<>>)
        /\ \A t \in Session : Puts(Notified(s) \o <<>>, t) = Puts(<<>>, t) + One(t = s)
    BY Empty, NotifiedKept
  <2> QED  BY <1>1, <2>1, <2>2
<1>3. /\ stack' \in Seq(Frame) /\ Shaped(stack)' /\ SameHub
      /\ On(stack, "retry")' <=> On(stack, "retry")
      /\ \A t \in Session : /\ Mourned(stack, t)' <=> Mourned(stack, t)
                            /\ Puts(stack, t)' = Puts(stack, t) + One(t = s)
  BY <1>2, LikeStack
<1>4. /\ state' \in [Session -> State]
      /\ \A t \in Session : state'[t] = IF t = s THEN "Connected" ELSE state[t]
  BY <1>1 DEF IInv, TypeOK, State
<1>5. References'
  <2>1. ASSUME NEW t \in Session PROVE Due(t)' = Due(t) + 2 * One(t = s)
    <3>1. Puts(stack, t) \in Nat /\ held[t] \in Nat
      BY DueType DEF IInv, TypeOK
    <3>2. CASE t = s
      BY <1>1, <1>3, <1>4, <3>1, <3>2 DEF Due, One
    <3>3. CASE t # s
      BY <1>1, <1>3, <1>4, <3>1, <3>3 DEF Due, One
    <3> QED  BY <3>2, <3>3
  <2>2. ~Mourned(stack, s)
    BY <1>1, Empty
  <2> QED  BY <1>1, <1>3, <2>1, <2>2, RefsGotTwice
<1>6. /\ WaitingIsTimed' /\ list' \in [Session -> Lists \cup {"none", "retry"}]
      /\ armed' \in [Lists -> BOOLEAN]
  <2>1. /\ \A t \in Session \ {s} :
              /\ state'[t] = state[t] /\ opTimer'[t] = opTimer[t]
              /\ autoreconnect'[t] = autoreconnect[t]
        /\ state'[s] = "Connected" /\ ~opTimer'[s]
    BY <1>1, <1>4 DEF IInv, WaitingIsTimed
  <2> QED  BY <1>1, <1>3, <2>1, WaitingUnlisted
<1>7. TypeOK'
  <2>1. /\ exists' \in [Session -> BOOLEAN] /\ dead' \in [Session -> BOOLEAN]
        /\ refs' \in [Session -> Nat]
    BY <1>1, GotTypes
  <2> QED  BY <1>1, <1>3, <1>4, <1>6, <2>1 DEF IInv, TypeOK, State, hubVars, timerVars
<1>8. HubTimer'
  BY <1>1, <1>3, HubKept, GotTypes
<1>9. Drained'
  <2>1. \A t \in Session :
           state'[t] = "SdpLookupChannel" => started \/ state[t] = "SdpLookupChannel"
    BY <1>4
  <2> QED  BY <1>1, <1>3, <2>1, DrainedKept DEF hubVars, SameHub
<1> QED  BY <1>3, <1>5, <1>6, <1>7, <1>8, <1>9 DEF IInv

-----------------------------------------------------------------------------
(* What is still to do.                                                    *)

\* A frame is taken off the stack.
LEMMA Popped ==
    ASSUME IInv, stack # <<>>, stack' = Tail(stack)
    PROVE  /\ Head(stack) \in Frame /\ Formed(Head(stack))
           /\ stack' \in Seq(Frame) /\ Shaped(stack)'
           /\ \A do : On(stack, do) <=> Head(stack).do = do \/ On(stack, do)'
           /\ \A s : Mourned(stack, s) <=>
                        (Head(stack).do = "destroy" /\ Head(stack).who = {s})
                        \/ Mourned(stack, s)'
           /\ \A s : /\ Puts(stack, s)' \in Nat
                    /\ Puts(stack, s) = Puts(stack, s)'
                           + One(Head(stack).do = "put" /\ Head(stack).who = {s})
           /\ Head(stack).do = "drain" => Resumes(stack')
<1>1. stack \in Seq(Frame) /\ Shaped(stack)
  BY DEF IInv, TypeOK
<1>2. Head(stack) \in Frame /\ stack' \in Seq(Frame) /\ Above(Head(stack), stack', stack)
  BY <1>1, Pop
<1>3. /\ Shaped(stack)' <=> Shaped(stack')
      /\ \A do : On(stack, do)' <=> On(stack', do)
      /\ \A s : Mourned(stack, s)' <=> Mourned(stack', s)
      /\ \A s : Puts(stack, s)' = Puts(stack', s)
  BY DEF Shaped, Formed, On, Mourned, Puts
<1> QED  BY <1>1, <1>2, <1>3 DEF Above

LEMMA PutStepStep ==
    ASSUME IInv, fault = "none", PutStep
    PROVE  IInv'
<1>1. /\ stack # <<>> /\ Head(stack).do = "put" /\ stack' = Tail(stack)
      /\ UNCHANGED <<hubVars, svc, listVars, connVars, autoreconnect, held, fault>>
  BY DEF PutStep, Top, Return
<1>2. PICK s \in Session : Head(stack).who = {s} /\ Put(s)
  <2>1. Head(stack).do = "put" /\ Formed(Head(stack))
    BY <1>1, Popped
  <2>2. PICK s \in Session : Head(stack).who = {s}
    BY <2>1 DEF Formed
  <2> QED  BY <2>2 DEF PutStep
<1>3. /\ stack' \in Seq(Frame) /\ Shaped(stack)' /\ SameHub
      /\ On(stack, "retry")' <=> On(stack, "retry")
  BY <1>1, Popped DEF SameHub
<1>4. ASSUME NEW t \in Session
      PROVE  /\ Due(t)' = Due(t) - One(t = s)
             /\ Mourned(stack, t)' <=> Mourned(stack, t)
             /\ t = s => Due(t) > 0
  <2>1. /\ Puts(stack, t)' \in Nat
        /\ Puts(stack, t) = Puts(stack, t)' + One(t = s)
        /\ Mourned(stack, t)' <=> Mourned(stack, t)
    <3>1. t = s <=> Head(stack).do = "put" /\ Head(stack).who = {t}
      BY <1>1, <1>2
    <3> QED  BY <1>1, <3>1, Popped DEF One
  <2>2. held[t] \in Nat
    BY DEF IInv, TypeOK
  <2> QED  BY <1>1, <2>1, <2>2, SMTT(30) DEF Due, One, connVars
<1>5. References' /\ refs' \in [Session -> Nat] /\ dead' \in [Session -> BOOLEAN]
  BY <1>2, <1>4, RefsPut
<1>6. HubTimer' /\ {restartSet', cleanupSet', hubArmed'} \subseteq BOOLEAN
  BY <1>1, <1>2, <1>3, HubPut DEF hubVars
<1>7. TypeOK'
  <2>1. exists' = exists
    BY <1>2 DEF Put
  <2> QED  BY <1>1, <1>3, <1>5, <1>6, <2>1 DEF IInv, TypeOK, hubVars, listVars, connVars
<1>8. WaitingIsTimed'
  BY <1>1, <1>3, WaitingKept DEF connVars, IInv, WaitingIsTimed
<1>9. Drained'
  BY <1>1, <1>3, DrainedKept DEF connVars, hubVars, SameHub
<1> QED  BY <1>3, <1>5, <1>6, <1>7, <1>8, <1>9 DEF IInv

LEMMA RetryRefusedStep ==
    ASSUME IInv, fault = "none", NEW s \in Session, RetryRefused(s)
    PROVE  IInv'
<1>1. /\ list[s] = "retry" /\ list' = [list EXCEPT ![s] = "delayed"]
      /\ stack # <<>> /\ Head(stack).do = "retry"
      /\ UNCHANGED <<hubVars, timerVars, svc, armed, connVars, autoreconnect, refVars,
                     held, stack, fault>>
  BY DEF RetryRefused, Top
<1>2. TypeOK'
  BY <1>1 DEF IInv, TypeOK, hubVars, timerVars, connVars, refVars, Lists
<1>3. References'
  BY <1>1, SameStack, RefsKept DEF Due, connVars
<1>4. WaitingIsTimed'
  <2>1. OnStack("retry")' /\ OnStack("retry")
    BY <1>1 DEF IInv, WaitingIsTimed, OnStack
  <2>2. \A t \in Session : list'[t] = IF t = s THEN "delayed" ELSE list[t]
    BY <1>1 DEF IInv, TypeOK
  <2>3. ASSUME NEW w \in Lists
        PROVE  /\ armed'[w] => svc' /\ \E t \in Session : list'[t] = w
               /\ (svc' /\ \E t \in Session : list'[t] = w) =>
                     armed'[w] \/ w = "delayed"
    BY <1>1, <2>2 DEF IInv, WaitingIsTimed, Lists
  <2> QED  BY <1>1, <2>1, <2>2, <2>3 DEF IInv, WaitingIsTimed, connVars
<1>5. HubTimer'
  BY <1>1, SameStack, HubKept DEF refVars
<1>6. Drained'
  BY <1>1, SameStack, DrainedKept DEF connVars, hubVars, SameHub
<1> QED  BY <1>1, <1>2, <1>3, <1>4, <1>5, <1>6, SameStack DEF IInv

LEMMA RetryDoneStep ==
    ASSUME IInv, fault = "none", RetryDone
    PROVE  IInv'
<1>1. /\ stack # <<>> /\ Head(stack).do = "retry" /\ stack' = Tail(stack)
      /\ \A s \in Session : list[s] # "retry"
      /\ UNCHANGED <<hubVars, timerVars, svc, list, connVars, autoreconnect, refVars, held>>
      /\ Rearm
  BY DEF RetryDone, Top, Return
<1>2. /\ stack' \in Seq(Frame) /\ Shaped(stack)' /\ SameHub
      /\ \A s \in Session : /\ Mourned(stack, s)' <=> Mourned(stack, s)
                            /\ Puts(stack, s)' = Puts(stack, s)
  BY <1>1, Popped DEF SameHub, One
<1>3. /\ armed' \in [Lists -> BOOLEAN]
      /\ fault' \in {"none", "AutoReconnectTimeout", "SdpCreateThread"}
      /\ \A w \in Lists : armed'[w] => armed[w] \/ (w = "delayed" /\ svc /\ \E s \in Session : list[s] = w)
      /\ \A w \in Lists : armed[w] => armed'[w]
      /\ fault' = "none" /\ svc /\ (\E s \in Session : list[s] = "delayed") => armed'["delayed"]
  <2>1. armed \in [Lists -> BOOLEAN] /\ "delayed" \in Lists
    BY DEF IInv, TypeOK, Lists
  <2>2. CASE UNCHANGED <<armed, fault>>
             /\ ~((\E s \in Session : list[s] = "delayed") /\ ~armed["delayed"])
    BY <2>1, <2>2
  <2>3. CASE fault' = "AutoReconnectTimeout" /\ UNCHANGED armed
    BY <2>1, <2>3
  <2>4. CASE /\ svc /\ (\E s \in Session : list[s] = "delayed") /\ UNCHANGED fault
             /\ armed' = [armed EXCEPT !["delayed"] = TRUE]
    BY <2>1, <2>4
  <2> QED  BY <1>1, <2>2, <2>3, <2>4 DEF Rearm
<1>4. TypeOK'
  BY <1>1, <1>2, <1>3 DEF IInv, TypeOK, hubVars, timerVars, connVars, refVars
<1>5. References'
  BY <1>1, <1>2, RefsKept DEF Due, connVars
<1>6. WaitingIsTimed'
  <2>1. ASSUME NEW s \in Session
        PROVE  /\ list'[s] # "none" <=> autoreconnect'[s] /\ state'[s] = "Disconnected"
               /\ list'[s] = "retry" => OnStack("retry")'
               /\ opTimer'[s] <=> state'[s] \in {"SdpLookupChannel", "Connecting"}
    BY <1>1 DEF IInv, WaitingIsTimed, connVars
  <2>2. ASSUME fault' = "none", NEW w \in Lists
        PROVE  /\ armed'[w] => svc' /\ \E t \in Session : list'[t] = w
               /\ (svc' /\ \E t \in Session : list'[t] = w) => armed'[w]
    BY <1>1, <1>3, <2>2 DEF IInv, WaitingIsTimed
  <2> QED  BY <2>1, <2>2 DEF WaitingIsTimed
<1>7. HubTimer'
  BY <1>1, <1>2, HubKept DEF refVars
<1>8. Drained'
  BY <1>1, <1>2, DrainedKept DEF connVars, hubVars, SameHub
<1> QED  BY <1>2, <1>4, <1>5, <1>6, <1>7, <1>8 DEF IInv

LEMMA RetryStepStep ==
    ASSUME IInv, fault = "none", NEW s \in Session, RetryStep(s)
    PROVE  IInv'
<1> DEFINE c == Call("client", {s})
<1>1. /\ list[s] = "retry" /\ started
      /\ MoveTo(s, "SdpLookupChannel", TRUE) /\ Get(s)
      /\ RemoveAutoReconnect(s)
      /\ stack' = <<c>> \o stack
      /\ UNCHANGED <<hubVars, timerVars, svc, autoreconnect, held, fault>>
  BY DEF RetryStep
<1>2. state[s] = "Disconnected" /\ autoreconnect[s]
  BY <1>1 DEF IInv, WaitingIsTimed
<1>3. c \in Frame /\ Formed(c) /\ c.do = "client"
  BY Calls
<1>4. stack \in Seq(Frame) /\ Shaped(stack)
  BY DEF IInv, TypeOK
<1> HIDE DEF c
<1>5. Kept(stack, stack') /\ \A t : Puts(stack', t) = Puts(stack, t)
  BY <1>1, <1>3, <1>4, PushKept DEF Lasting
<1>6. /\ stack' \in Seq(Frame) /\ Shaped(stack)' /\ SameHub
      /\ On(stack, "retry")' <=> On(stack, "retry")
      /\ \A t \in Session : /\ Mourned(stack, t)' <=> Mourned(stack, t)
                            /\ Puts(stack, t)' = Puts(stack, t)
  BY <1>5, LikeStack
<1>7. /\ state' \in [Session -> State] /\ opTimer' \in [Session -> BOOLEAN]
      /\ \A t \in Session : /\ state'[t] = IF t = s THEN "SdpLookupChannel" ELSE state[t]
                            /\ opTimer'[t] = IF t = s THEN TRUE ELSE opTimer[t]
  BY <1>1, MovedTypes DEF State
<1>8. References'
  <2>1. ASSUME NEW t \in Session
        PROVE  Due(t)' = Due(t) + One(t = s) /\ (t = s => Due(t) > 0)
    <3>1. Puts(stack, t) \in Nat /\ held[t] \in Nat
      BY DueType DEF IInv, TypeOK
    <3>2. Puts(stack, t)' = Puts(stack, t) /\ UNCHANGED <<held, autoreconnect>>
      BY <1>1, <1>6
    <3>3. CASE t = s
      <4>1. state'[t] # "Disconnected" /\ state[t] = "Disconnected" /\ autoreconnect[t]
        BY <1>2, <1>7, <3>3
      <4>2. /\ Due(t)' = held[t] + 1 + 1 + Puts(stack, t)
            /\ Due(t) = held[t] + 0 + 1 + Puts(stack, t)
        BY <3>2, <4>1 DEF Due, One
      <4> QED  BY <3>1, <3>3, <4>2 DEF One
    <3>4. CASE t # s
      <4>1. state'[t] = state[t]
        BY <1>7, <3>4
      <4>2. Due(t)' = Due(t) /\ Due(t) \in Nat
        BY <3>2, <4>1, DueType DEF Due
      <4> QED  BY <3>4, <4>2 DEF One
    <3> QED  BY <3>3, <3>4
  <2>2. ~Mourned(stack, s)
    BY <2>1 DEF IInv, References, Counted
  <2> QED  BY <1>1, <1>6, <2>1, <2>2, RefsGot
<1>9. /\ WaitingIsTimed' /\ list' \in [Session -> Lists \cup {"none", "retry"}]
      /\ armed' \in [Lists -> BOOLEAN]
  <2>1. Unlist(s)
    BY <1>1, <1>2 DEF Unlist
  <2>2. /\ \A t \in Session \ {s} :
              /\ state'[t] = state[t] /\ opTimer'[t] = opTimer[t]
              /\ autoreconnect'[t] = autoreconnect[t]
        /\ state'[s] = "SdpLookupChannel" /\ opTimer'[s]
    BY <1>1, <1>7
  <2> QED  BY <1>1, <1>2, <1>6, <2>1, <2>2, WaitingUnlisted
<1>10. TypeOK'
  <2>1. /\ exists' \in [Session -> BOOLEAN] /\ dead' \in [Session -> BOOLEAN]
        /\ refs' \in [Session -> Nat]
    BY <1>1, GotTypes
  <2> QED  BY <1>1, <1>6, <1>7, <1>9, <2>1 DEF IInv, TypeOK, State, hubVars, timerVars
<1>11. HubTimer'
  BY <1>1, <1>6, HubKept, GotTypes
<1>12. Drained'
  BY <1>1, <1>6, DrainedKept DEF hubVars, SameHub
<1> QED  BY <1>6, <1>8, <1>9, <1>10, <1>11, <1>12 DEF IInv

\* A frame is taken off the stack that owes nothing, and the sessions are as
\* they were.
LEMMA DoneStep ==
    ASSUME IInv, stack # <<>>, Head(stack).do \in {"drain", "stopped", "timeout"},
           stack' = Tail(stack),
           UNCHANGED <<svc, listVars, connVars, autoreconnect, refVars, held, fault>>
    PROVE  References' /\ WaitingIsTimed'
<1>1. \A s \in Session : /\ Mourned(stack, s)' <=> Mourned(stack, s)
                         /\ Puts(stack, s)' = Puts(stack, s)
  BY Popped DEF One
<1>2. On(stack, "retry")' <=> On(stack, "retry")
  BY Popped
<1>3. References'
  BY <1>1, RefsKept DEF Due, connVars
<1>4. WaitingIsTimed'
  BY <1>2, WaitingKept DEF connVars, IInv, WaitingIsTimed
<1> QED  BY <1>3, <1>4

LEMMA DrainDoneStep ==
    ASSUME IInv, fault = "none", DrainDone
    PROVE  IInv'
<1>1. /\ stack # <<>> /\ Head(stack).do = "drain" /\ stack' = Tail(stack)
      /\ \A s \in Session : state[s] # "SdpLookupChannel"
      /\ hci' = FALSE
      /\ IF Len(stack) > 1 /\ stack[2].do = "sweep" THEN ArmRestart
                                                    ELSE UNCHANGED timerVars
      /\ UNCHANGED <<started, autorestart, aborted, svc, listVars, connVars, autoreconnect,
                     refVars, held, fault>>
  BY DEF DrainDone, Top, Return
<1>2. stack' \in Seq(Frame) /\ Shaped(stack)' /\ Resumes(stack')
  BY <1>1, Popped
<1>3. \A do : On(stack, do) <=> do = "drain" \/ On(stack, do)'
  BY <1>1, Popped
<1>4. References' /\ WaitingIsTimed'
  BY <1>1, DoneStep
<1>5. /\ Len(stack) > 1 /\ stack[2] = stack'[1] /\ stack' # <<>>
      /\ 1 \in 1 .. Len(stack')
  <2>1. stack \in Seq(Frame) /\ stack' # <<>>
    BY <1>2 DEF IInv, TypeOK, Resumes
  <2>2. /\ Len(stack') = Len(stack) - 1 /\ Len(stack') \in Nat /\ Len(stack') # 0
        /\ Len(stack) \in Nat
        /\ \A i \in 1 .. Len(stack) - 1 : stack'[i] = stack[i + 1]
    BY <1>1, <1>2, <2>1, Length
  <2> QED  BY <2>1, <2>2
<1>6. HubTimer' /\ {restartSet', cleanupSet', hubArmed'} \subseteq BOOLEAN
  <2>1. On(stack, "timeout") <=> On(stack, "timeout")'
    BY <1>3
  <2>2. dead' = dead
    BY <1>1 DEF refVars
  <2>3. CASE stack[2].do = "sweep"
    <3>1. ArmRestart
      BY <1>1, <1>5, <2>3
    <3> QED  BY <1>1, <2>1, <2>2, <3>1 DEF ArmRestart, IInv, TypeOK, HubTimer
  <2>4. CASE stack[2].do # "sweep"
    <3>1. UNCHANGED timerVars
      BY <1>1, <2>4
    <3>2. stack'[1].do = "stopped"
      BY <1>2, <1>5, <2>4 DEF Resumes, Stoppers
    <3>3. On(stack, "stopped")'
      BY <1>5, <3>2 DEF On
    <3> QED  BY <1>1, <2>1, <2>2, <3>1, <3>3 DEF IInv, TypeOK, HubTimer, timerVars
  <2> QED  BY <2>3, <2>4
<1>7. TypeOK'
  BY <1>1, <1>2, <1>6 DEF IInv, TypeOK, listVars, connVars, refVars
<1>8. Drained'
  BY <1>1 DEF Drained, connVars
<1> QED  BY <1>2, <1>4, <1>6, <1>7, <1>8 DEF IInv

LEMMA StopDoneStep ==
    ASSUME IInv, fault = "none", StopDone
    PROVE  IInv'
<1>1. /\ stack # <<>> /\ Head(stack).do = "stopped" /\ stack' = Tail(stack)
      /\ autorestart' = FALSE
      /\ restartSet' = (restartSet /\ ~autorestart)
      /\ hubArmed' = (hubArmed /\ ~(autorestart /\ restartSet))
      /\ UNCHANGED <<started, hci, aborted, cleanupSet, svc, listVars, connVars, autoreconnect,
                     refVars, held, fault>>
  BY DEF StopDone, Top, Return
<1>2. stack' \in Seq(Frame) /\ Shaped(stack)'
  BY <1>1, Popped
<1>3. \A do : On(stack, do) <=> do = "stopped" \/ On(stack, do)'
  BY <1>1, Popped
<1>4. References' /\ WaitingIsTimed'
  BY <1>1, DoneStep
<1>5. HubTimer'
  <2>1. (On(stack, "timeout") <=> On(stack, "timeout")') /\ dead' = dead
    BY <1>1, <1>3 DEF refVars
  <2> QED  BY <1>1, <2>1 DEF IInv, TypeOK, HubTimer
<1>6. TypeOK'
  BY <1>1, <1>2 DEF IInv, TypeOK, listVars, connVars, refVars
<1>7. Drained'
  BY <1>1, <1>3, DrainedKept DEF connVars
<1> QED  BY <1>2, <1>4, <1>5, <1>6, <1>7 DEF IInv

LEMMA TimeoutDoneStep ==
    ASSUME IInv, fault = "none", TimeoutDone
    PROVE  IInv'
<1>1. /\ stack # <<>> /\ Head(stack).do = "timeout" /\ stack' = Tail(stack)
      /\ \A s \in Session : ~dead[s]
      /\ cleanupSet' = FALSE
      /\ restartSet' = (restartSet \/ (~started /\ autorestart))
      /\ hubArmed' = (hubArmed \/ (~started /\ autorestart))
      /\ UNCHANGED <<hubVars, svc, listVars, connVars, autoreconnect, refVars, held, fault>>
  BY DEF TimeoutDone, Top, Return
<1>2. stack' \in Seq(Frame) /\ Shaped(stack)'
  BY <1>1, Popped
<1>3. \A do : On(stack, do) <=> do = "timeout" \/ On(stack, do)'
  BY <1>1, Popped
<1>4. References' /\ WaitingIsTimed'
  BY <1>1, DoneStep
<1>5. HubTimer'
  BY <1>1 DEF HubTimer, hubVars, refVars
<1>6. TypeOK'
  BY <1>1, <1>2 DEF IInv, TypeOK, hubVars, listVars, connVars, refVars
<1>7. Drained'
  BY <1>1, <1>3, DrainedKept DEF connVars, hubVars
<1> QED  BY <1>2, <1>4, <1>5, <1>6, <1>7 DEF IInv

LEMMA BuryStepStep ==
    ASSUME IInv, fault = "none", NEW s \in Session, BuryStep(s)
    PROVE  IInv'
<1> DEFINE c == Call("client", {s})
           d == Call("destroy", {s})
           m == <<d>> \o stack
<1>1. /\ dead[s] /\ dead' = [dead EXCEPT ![s] = FALSE]
      /\ stack' = <<c, d>> \o stack
      /\ UNCHANGED <<hubVars, timerVars, svc, listVars, connVars, autoreconnect, exists,
                     refs, held, fault>>
  BY DEF BuryStep
<1>2. /\ c \in Frame /\ d \in Frame /\ Formed(c) /\ Formed(d)
      /\ c.do = "client" /\ d.do = "destroy" /\ d.who = {s}
  BY Calls
<1>3. stack \in Seq(Frame) /\ Shaped(stack)
  BY DEF IInv, TypeOK
<1> HIDE DEF c, d
<1>4. stack' = <<c>> \o m /\ m \in Seq(Frame)
  BY <1>1, <1>2, <1>3, TwoFrames
<1>5. Above(d, stack, m)
  BY <1>2, <1>3, Push
<1> HIDE DEF m
<1>6. Above(c, m, stack')
  BY <1>2, <1>4, Push
<1>7. stack' \in Seq(Frame) /\ Shaped(stack')
  BY <1>2, <1>3, <1>5, <1>6 DEF Above
<1>8. \A do \in Lasting : On(stack', do) <=> On(stack, do)
  BY <1>2, <1>5, <1>6 DEF Above, Lasting
<1>9. ASSUME NEW t \in Session
      PROVE  /\ Mourned(stack', t) <=> t = s \/ Mourned(stack, t)
             /\ Puts(stack', t) = Puts(stack, t)
  <2>1. /\ Mourned(stack', t) <=> Mourned(m, t)
        /\ Puts(stack', t) = Puts(m, t) + 0
    BY <1>2, <1>6 DEF Above, One
  <2>2. /\ Mourned(m, t) <=> t = s \/ Mourned(stack, t)
        /\ Puts(m, t) = Puts(stack, t) + 0 /\ Puts(stack, t) \in Nat
    BY <1>2, <1>5 DEF Above, One
  <2> QED  BY <2>1, <2>2
<1>10. /\ Shaped(stack)' /\ SameHub
       /\ On(stack, "retry")' <=> On(stack, "retry")
       /\ \A t \in Session : /\ Mourned(stack, t)' <=> t = s \/ Mourned(stack, t)
                             /\ Puts(stack, t)' = Puts(stack, t)
  <2>1. /\ Shaped(stack)' <=> Shaped(stack')
        /\ \A do : On(stack, do)' <=> On(stack', do)
        /\ \A t : Mourned(stack, t)' <=> Mourned(stack', t)
        /\ \A t : Puts(stack, t)' = Puts(stack', t)
    BY DEF Shaped, Formed, On, Mourned, Puts
  <2> QED  BY <1>7, <1>8, <1>9, <2>1 DEF SameHub, Lasting
<1>11. dead' \in [Session -> BOOLEAN] /\ \A t \in Session : dead'[t] <=> dead[t] /\ t # s
  BY <1>1 DEF IInv, TypeOK
<1>12. References'
  <2> SUFFICES ASSUME NEW t \in Session PROVE Counted(t)'
    BY DEF References
  <2>1. Due(t)' = Due(t)
    BY <1>1, <1>10 DEF Due, connVars
  <2>2. Counted(t)
    BY DEF IInv, References
  <2> QED  BY <1>1, <1>10, <1>11, <2>1, <2>2 DEF Counted
<1>13. TypeOK'
  BY <1>1, <1>7, <1>11 DEF IInv, TypeOK, hubVars, timerVars, listVars, connVars
<1>14. WaitingIsTimed'
  BY <1>1, <1>10, WaitingKept DEF connVars, IInv, WaitingIsTimed
<1>15. HubTimer'
  BY <1>1, <1>10, <1>11, HubKept
<1>16. Drained'
  BY <1>1, <1>10, DrainedKept DEF connVars, hubVars, SameHub
<1> QED  BY <1>10, <1>12, <1>13, <1>14, <1>15, <1>16 DEF IInv

LEMMA DestroyStepStep ==
    ASSUME IInv, fault = "none", DestroyStep
    PROVE  IInv'
<1>1. /\ stack # <<>> /\ Head(stack).do = "destroy" /\ stack' = Tail(stack)
      /\ UNCHANGED <<hubVars, timerVars, svc, listVars, connVars, autoreconnect, refs,
                     dead, held, fault>>
  BY DEF DestroyStep, Top, Return
<1>2. PICK s \in Session :
         Head(stack).who = {s} /\ exists' = [exists EXCEPT ![s] = FALSE]
  <2>1. PICK s \in Session : Head(stack).who = {s}
    BY <1>1, Popped DEF Formed
  <2> QED  BY <2>1 DEF DestroyStep
<1>3. /\ stack' \in Seq(Frame) /\ Shaped(stack)' /\ SameHub
      /\ On(stack, "retry")' <=> On(stack, "retry")
  BY <1>1, Popped DEF SameHub
<1>4. ASSUME NEW t \in Session
      PROVE  /\ Puts(stack, t)' = Puts(stack, t)
             /\ Mourned(stack, t) <=> t = s \/ Mourned(stack, t)'
  <2>1. Head(stack).who = {t} <=> t = s
    BY <1>2
  <2>2. /\ Puts(stack, t)' \in Nat /\ Puts(stack, t) = Puts(stack, t)' + 0
        /\ Mourned(stack, t) <=> Head(stack).who = {t} \/ Mourned(stack, t)'
    BY <1>1, Popped DEF One
  <2> QED  BY <2>1, <2>2
<1>5. exists' \in [Session -> BOOLEAN] /\ \A t \in Session : exists'[t] <=> exists[t] /\ t # s
  BY <1>2 DEF IInv, TypeOK
<1>6. References'
  <2> SUFFICES ASSUME NEW t \in Session PROVE Counted(t)'
    BY DEF References
  <2>1. Due(t)' = Due(t)
    BY <1>1, <1>4 DEF Due, connVars
  <2>2. Counted(t)
    BY DEF IInv, References
  <2> QED  BY <1>1, <1>4, <1>5, <2>1, <2>2 DEF Counted
<1>7. TypeOK'
  BY <1>1, <1>3, <1>5 DEF IInv, TypeOK, hubVars, timerVars, listVars, connVars
<1>8. WaitingIsTimed'
  BY <1>1, <1>3, WaitingKept DEF connVars, IInv, WaitingIsTimed
<1>9. HubTimer'
  BY <1>1, <1>3, HubKept
<1>10. Drained'
  BY <1>1, <1>3, DrainedKept DEF connVars, hubVars, SameHub
<1> QED  BY <1>3, <1>6, <1>7, <1>8, <1>9, <1>10 DEF IInv

-----------------------------------------------------------------------------
(* The timers expire.                                                      *)

\* The event loop calls.
LEMMA Idle ==
    ASSUME stack = <<>>
    PROVE  /\ stack \in Seq(Frame) /\ Shaped(stack)
           /\ \A do : ~On(stack, do)
           /\ \A s : ~Mourned(stack, s) /\ Puts(stack, s) = 0
           /\ \A f \in Frame : <<f>> = <<f>> \o stack
<1>1. \A f \in Frame : <<f>> = <<f>> \o <<>>
  BY TwoFrames, Empty
<1> QED  BY <1>1, Empty

LEMMA AutoReconnectTimeoutStep ==
    ASSUME IInv, fault = "none", NEW w \in Lists, AutoReconnectTimeout(w)
    PROVE  IInv'
<1> DEFINE r == Call("retry", {})
<1>1. /\ stack = <<>> /\ armed[w]
      /\ armed' = [armed EXCEPT ![w] = FALSE]
      /\ list' = [s \in Session |-> IF list[s] = w THEN "retry" ELSE list[s]]
      /\ stack' = <<r>>
      /\ UNCHANGED <<hubVars, timerVars, svc, connVars, autoreconnect, refVars, held, fault>>
  BY DEF AutoReconnectTimeout, InLoop
<1>2. r \in Frame /\ Formed(r) /\ r.do = "retry"
  BY Calls
<1> HIDE DEF r
<1>3. Above(r, stack, stack')
  <2>1. stack \in Seq(Frame) /\ <<r>> = <<r>> \o stack
    BY <1>1, <1>2, Idle
  <2> QED  BY <1>1, <1>2, <2>1, Push
<1>4. stack' \in Seq(Frame) /\ Shaped(stack') /\ \A do : On(stack', do) <=> do = "retry"
  <2>1. Shaped(stack) /\ \A do : ~On(stack, do)
    BY <1>1, Idle
  <2> QED  BY <1>2, <1>3, <2>1 DEF Above
<1>5. ASSUME NEW t \in Session
      PROVE  Puts(stack', t) = Puts(stack, t) /\ (Mourned(stack', t) <=> Mourned(stack, t))
  BY <1>2, <1>3 DEF Above, One
<1>6. /\ Shaped(stack)' /\ SameHub /\ On(stack, "retry")'
      /\ \A t \in Session : /\ Mourned(stack, t)' <=> Mourned(stack, t)
                            /\ Puts(stack, t)' = Puts(stack, t)
  <2>1. /\ Shaped(stack)' <=> Shaped(stack')
        /\ \A do : On(stack, do)' <=> On(stack', do)
        /\ \A t : Mourned(stack, t)' <=> Mourned(stack', t)
        /\ \A t : Puts(stack, t)' = Puts(stack', t)
    BY DEF Shaped, Formed, On, Mourned, Puts
  <2>2. \A do : ~On(stack, do)
    BY <1>1, Idle
  <2> QED  BY <1>4, <1>5, <2>1, <2>2 DEF SameHub
<1>7. References'
  BY <1>1, <1>6, RefsKept DEF Due, connVars
<1>8. w \notin {"none", "retry"}
  BY DEF Lists
<1>9. /\ armed' \in [Lists -> BOOLEAN] /\ list' \in [Session -> Lists \cup {"none", "retry"}]
      /\ \A t \in Session : list'[t] = IF list[t] = w THEN "retry" ELSE list[t]
      /\ \A v \in Lists : armed'[v] <=> armed[v] /\ v # w
  BY <1>1 DEF IInv, TypeOK
<1>10. TypeOK'
  BY <1>1, <1>4, <1>9 DEF IInv, TypeOK, hubVars, timerVars, connVars, refVars
<1>11. WaitingIsTimed'
  <2>1. ASSUME NEW t \in Session
        PROVE  /\ list'[t] # "none" <=> autoreconnect'[t] /\ state'[t] = "Disconnected"
               /\ list'[t] = "retry" => OnStack("retry")'
               /\ opTimer'[t] <=> state'[t] \in {"SdpLookupChannel", "Connecting"}
    BY <1>1, <1>6, <1>8, <1>9 DEF IInv, WaitingIsTimed, OnStack, On, connVars
  <2>2. ASSUME NEW v \in Lists
        PROVE  /\ armed'[v] => svc' /\ \E t \in Session : list'[t] = v
               /\ (svc' /\ \E t \in Session : list'[t] = v) => armed'[v]
    <3>1. v \notin {"none", "retry"}
      BY DEF Lists
    <3>2. ~OnStack("retry")
      BY <1>1, Idle DEF OnStack, On
    <3>3. v # w => \A t \in Session : list'[t] = v <=> list[t] = v
      BY <1>9, <3>1
    <3>4. v = w => \A t \in Session : list'[t] # v
      BY <1>9, <3>1
    <3> QED  BY <1>1, <1>9, <3>2, <3>3, <3>4 DEF IInv, WaitingIsTimed
  <2> QED  BY <2>1, <2>2 DEF WaitingIsTimed
<1>12. HubTimer'
  BY <1>1, <1>6, HubKept DEF refVars
<1>13. Drained'
  BY <1>1, <1>6, DrainedKept DEF connVars, hubVars, SameHub
<1> QED  BY <1>6, <1>7, <1>10, <1>11, <1>12, <1>13 DEF IInv

LEMMA HubTimeoutStep ==
    ASSUME IInv, fault = "none", HubTimeout
    PROVE  IInv'
<1> DEFINE c == Call("client", {})
           d == Call("timeout", {})
           m == <<d>>
<1>1. /\ stack = <<>> /\ hubArmed' = FALSE /\ restartSet' = FALSE /\ UNCHANGED cleanupSet
      /\ UNCHANGED <<connVars, autoreconnect, refVars, held>>
      /\ \/ Start /\ stack' = <<c, d>> /\ UNCHANGED fault
         \/ /\ UNCHANGED <<hubVars, svc, listVars>> /\ stack' = m
            /\ fault' \in {fault, "SdpCreateThread"}
  BY DEF HubTimeout, InLoop
<1>2. /\ c \in Frame /\ d \in Frame /\ Formed(c) /\ Formed(d)
      /\ c.do = "client" /\ d.do = "timeout"
  BY Calls
<1> HIDE DEF c, d
<1>3. Above(d, stack, m) /\ <<c, d>> = <<c>> \o m
  <2>1. stack \in Seq(Frame) /\ m = <<d>> \o stack
    BY <1>1, <1>2, Idle
  <2>2. <<c, d>> = <<c>> \o m
    <3>1. <<c, d>> = <<c>> \o <<d>> /\ <<d>> = <<d>> \o <<>>
      BY <1>2, TwoFrames, Empty, SMTT(30)
    <3> QED  BY <3>1
  <2> HIDE DEF m
  <2> QED  BY <1>2, <2>1, <2>2, Push
<1> HIDE DEF m
<1>4. Shaped(stack) /\ \A do : ~On(stack, do)
  BY <1>1, Idle
<1>5. /\ m \in Seq(Frame) /\ Shaped(m) /\ \A do : On(m, do) <=> do = "timeout"
      /\ \A t : Puts(m, t) = Puts(stack, t) /\ (Mourned(m, t) <=> Mourned(stack, t))
  <2>1. ASSUME NEW t PROVE Puts(m, t) = Puts(stack, t) /\ (Mourned(m, t) <=> Mourned(stack, t))
    BY <1>2, <1>3 DEF Above, One
  <2>2. m \in Seq(Frame) /\ Shaped(m) /\ \A do : On(m, do) <=> do = "timeout"
    BY <1>2, <1>3, <1>4 DEF Above
  <2> QED  BY <2>1, <2>2
<1>6. /\ stack' \in Seq(Frame) /\ Shaped(stack') /\ \A do \in Lasting : On(stack', do) <=> On(m, do)
      /\ \A t \in Session : Puts(stack', t) = Puts(m, t) /\ (Mourned(stack', t) <=> Mourned(m, t))
  <2>1. CASE stack' = m
    BY <1>5, <2>1
  <2>2. CASE stack' = <<c>> \o m
    BY <1>2, <1>5, <2>2, PushKept DEF Kept, Lasting
  <2> QED  BY <1>1, <1>3, <2>1, <2>2
<1>7. /\ Shaped(stack)' /\ On(stack, "timeout")'
      /\ On(stack, "retry")' <=> On(stack, "retry")
      /\ On(stack, "drain")' <=> On(stack, "drain")
      /\ \A t \in Session : /\ Mourned(stack, t)' <=> Mourned(stack, t)
                            /\ Puts(stack, t)' = Puts(stack, t)
  <2>1. /\ Shaped(stack)' <=> Shaped(stack')
        /\ \A do : On(stack, do)' <=> On(stack', do)
        /\ \A t : Mourned(stack, t)' <=> Mourned(stack', t)
        /\ \A t : Puts(stack, t)' = Puts(stack', t)
    BY DEF Shaped, Formed, On, Mourned, Puts
  <2> QED  BY <1>4, <1>5, <1>6, <2>1 DEF Lasting
<1>8. References'
  BY <1>1, <1>7, RefsKept DEF Due, connVars
<1>9. HubTimer'
  BY <1>1, <1>7 DEF IInv, HubTimer, refVars
<1>10. CASE Start /\ UNCHANGED fault
  <2>1. /\ WaitingIsTimed' /\ armed' \in [Lists -> BOOLEAN]
        /\ UNCHANGED <<autorestart, aborted, list>> /\ started' /\ hci' /\ svc'
        /\ {started', hci', svc'} \subseteq BOOLEAN
    BY <1>1, <1>7, <1>10, WaitingStarted
  <2>2. TypeOK'
    BY <1>1, <1>6, <2>1 DEF IInv, TypeOK, connVars, refVars
  <2>3. Drained'
    BY <2>1 DEF Drained
  <2> QED  BY <1>7, <1>8, <1>9, <2>1, <2>2, <2>3 DEF IInv
<1>11. CASE UNCHANGED <<hubVars, svc, listVars>> /\ fault' \in {fault, "SdpCreateThread"}
  <2>1. TypeOK'
    BY <1>1, <1>6, <1>11 DEF IInv, TypeOK, hubVars, listVars, connVars, refVars
  <2>2. WaitingIsTimed'
    BY <1>1, <1>7, <1>11 DEF listVars, connVars, IInv, WaitingIsTimed, OnStack, On
  <2>3. Drained'
    BY <1>1, <1>7, <1>11, DrainedKept DEF connVars, hubVars
  <2> QED  BY <1>7, <1>8, <1>9, <2>1, <2>2, <2>3 DEF IInv
<1> QED  BY <1>1, <1>10, <1>11

-----------------------------------------------------------------------------
(* An accepted connection whose handshake fails.                           *)

LEMMA ListenUnsentStep ==
    ASSUME IInv, fault = "none", NEW s \in Session, ListenUnsent(s)
    PROVE  IInv'
<1> DEFINE rest == <<Call("again", {s}), Call("put", {s})>>
<1>1. /\ UNCHANGED <<hubVars, timerVars, svc, connVars, autoreconnect, held, fault>>
      /\ state[s] = "Disconnected" /\ stack = <<>> /\ svc
      /\ GetTwice(s) /\ stack' = Notified(s) \o rest
  BY DEF ListenUnsent, InLoop
<1>2. Kept(<<>>, rest) /\ \A t \in Session : Puts(rest, t) = One(t = s)
  BY OwedOnce
<1> HIDE DEF rest
<1>3. /\ Kept(rest, stack')
      /\ \A t \in Session : Puts(stack', t) = Puts(rest, t) + One(t = s)
  BY <1>1, <1>2, NotifiedKept DEF Kept
<1>4. Kept(stack, stack')
  BY <1>1, <1>2, <1>3 DEF Kept
<1>5. /\ stack' \in Seq(Frame) /\ Shaped(stack)' /\ SameHub
      /\ On(stack, "retry")' <=> On(stack, "retry")
      /\ \A t \in Session : /\ Mourned(stack, t)' <=> Mourned(stack, t)
                            /\ Puts(stack, t)' = Puts(stack, t) + 2 * One(t = s)
  <2>1. \A t \in Session : Puts(stack', t) = 2 * One(t = s) /\ Puts(stack, t) = 0
    BY <1>1, <1>2, <1>3, Empty DEF One
  <2> QED  BY <1>4, <2>1, LikeStack DEF One
<1>6. References'
  <2>1. ASSUME NEW t \in Session PROVE Due(t)' = Due(t) + 2 * One(t = s)
    <3>1. Puts(stack, t) \in Nat /\ held[t] \in Nat
      BY DueType DEF IInv, TypeOK
    <3> QED  BY <1>1, <1>5, <3>1, SMTT(30) DEF Due, One, connVars
  <2>2. ~Mourned(stack, s)
    BY <1>1, Idle
  <2> QED  BY <1>1, <1>5, <2>1, <2>2, RefsGotTwice
<1>7. /\ WaitingIsTimed' /\ list' \in [Session -> Lists \cup {"none", "retry"}]
      /\ armed' \in [Lists -> BOOLEAN]
  <2>1. CASE ~autoreconnect[s]
    <3>1. UNCHANGED listVars
      BY <2>1 DEF ListenUnsent
    <3>2. WaitingIsTimed'
      BY <1>1, <1>5, <3>1, WaitingKept DEF connVars, IInv, WaitingIsTimed
    <3> QED  BY <3>1, <3>2 DEF listVars, IInv, TypeOK
  <2>2. CASE autoreconnect[s]
    <3>1. /\ list' = [list EXCEPT ![s] = "delayed"]
          /\ armed' = [w \in Lists |-> w = "delayed" \/
                          (armed[w] /\ \E t \in Session \ {s} : list[t] = w)]
      BY <2>2 DEF ListenUnsent
    <3>2. /\ list' \in [Session -> Lists \cup {"none", "retry"}]
          /\ armed' \in [Lists -> BOOLEAN]
          /\ \A t \in Session : list'[t] = IF t = s THEN "delayed" ELSE list[t]
          /\ \A w \in Lists : armed'[w] <=> w = "delayed" \/
                          (armed[w] /\ \E t \in Session \ {s} : list[t] = w)
      BY <3>1 DEF IInv, TypeOK, Lists
    <3>3. ~OnStack("retry")
      BY <1>1, Idle DEF OnStack, On
    <3>4. ASSUME NEW t \in Session
          PROVE  /\ list'[t] # "none" <=> autoreconnect'[t] /\ state'[t] = "Disconnected"
                 /\ list'[t] # "retry"
                 /\ opTimer'[t] <=> state'[t] \in {"SdpLookupChannel", "Connecting"}
      BY <1>1, <2>2, <3>2, <3>3 DEF IInv, WaitingIsTimed, connVars
    <3>5. ASSUME NEW w \in Lists
          PROVE  /\ armed'[w] => svc' /\ \E t \in Session : list'[t] = w
                 /\ (svc' /\ \E t \in Session : list'[t] = w) => armed'[w]
      <4>1. CASE w = "delayed"
        BY <1>1, <3>2, <4>1
      <4>2. CASE w # "delayed"
        <5>1. (\E t \in Session : list'[t] = w) <=> \E t \in Session \ {s} : list[t] = w
          BY <3>2, <4>2
        <5>2. armed'[w] <=> armed[w] /\ \E t \in Session \ {s} : list[t] = w
          BY <3>2, <4>2
        <5> QED  BY <1>1, <3>3, <5>1, <5>2 DEF IInv, WaitingIsTimed
      <4> QED  BY <4>1, <4>2
    <3>6. WaitingIsTimed'
      BY <3>4, <3>5 DEF WaitingIsTimed
    <3> QED  BY <3>2, <3>6
  <2> QED  BY <2>1, <2>2
<1>8. TypeOK'
  <2>1. /\ exists' \in [Session -> BOOLEAN] /\ dead' \in [Session -> BOOLEAN]
        /\ refs' \in [Session -> Nat]
    BY <1>1, GotTypes
  <2> QED  BY <1>1, <1>5, <1>7, <2>1 DEF IInv, TypeOK, hubVars, timerVars, connVars
<1>9. HubTimer'
  BY <1>1, <1>5, HubKept, GotTypes
<1>10. Drained'
  BY <1>1, <1>5, DrainedKept DEF hubVars, SameHub, connVars
<1> QED  BY <1>5, <1>6, <1>7, <1>8, <1>9, <1>10 DEF IInv

-----------------------------------------------------------------------------
(* The invariant.                                                          *)

LEMMA Initial ==
    ASSUME Init
    PROVE  IInv
<1>1. stack = <<>>
  BY DEF Init
<1>2. TypeOK
  <2>1. stack \in Seq(Frame)
    BY <1>1, Idle
  <2>2. held \in [Session -> 0 .. MaxHeld]
    BY SessionsAssumption DEF Init
  <2>3. /\ armed \in [Lists -> BOOLEAN] /\ list \in [Session -> Lists \cup {"none", "retry"}]
        /\ state \in [Session -> State] /\ refs \in [Session -> Nat]
    BY DEF Init, State
  <2>4. {autoreconnect, opTimer, exists, dead} \subseteq [Session -> BOOLEAN]
    BY DEF Init
  <2> QED  BY <2>1, <2>2, <2>3, <2>4 DEF Init, TypeOK, State
<1>3. Shaped(stack)
  BY <1>1, Idle
<1>4. References
  <2>1. \A s \in Session : Puts(stack, s) = 0 /\ ~Mourned(stack, s)
    BY <1>1, Idle
  <2> QED  BY <2>1 DEF Init, References, Counted, Due, One
<1>5. WaitingIsTimed
  BY DEF Init, WaitingIsTimed, Lists
<1>6. HubTimer
  BY DEF Init, HubTimer
<1>7. Drained
  BY DEF Init, Drained
<1> QED  BY <1>2, <1>3, <1>4, <1>5, <1>6, <1>7 DEF IInv

LEMMA Inductive ==
    ASSUME IInv, [Next]_vars
    PROVE  IInv'
<1>1. CASE UNCHANGED vars
  <2>1. /\ UNCHANGED <<hubVars, timerVars, svc, listVars, connVars, autoreconnect,
                       refVars, held, fault>>
        /\ UNCHANGED stack
    BY <1>1 DEF vars
  <2>2. TypeOK'
    BY <2>1 DEF IInv, TypeOK, hubVars, timerVars, listVars, connVars, refVars
  <2>3. References'
    BY <2>1, SameStack, RefsKept DEF Due, connVars
  <2>4. WaitingIsTimed'
    BY <2>1, SameStack, WaitingKept DEF connVars, IInv, WaitingIsTimed
  <2>5. HubTimer'
    BY <2>1, SameStack, HubKept DEF refVars
  <2>6. Drained'
    BY <2>1, SameStack, DrainedKept DEF hubVars, connVars, SameHub
  <2> QED  BY <2>1, <2>2, <2>3, <2>4, <2>5, <2>6, SameStack DEF IInv
<1>2. CASE fault = "none" /\ Client
  <2>1. ASSUME NEW s \in Session,
               \/ GetSession(s) \/ PutSession(s) \/ Connect(s) \/ Disconnect(s)
               \/ EnableAutoReconnect(s) \/ DisableAutoReconnect(s)
        PROVE  IInv'
    BY <1>2, <2>1, GetSessionStep, PutSessionStep, ConnectStep, DisconnectStep, EnableStep,
       DisableStep
  <2>2. CASE HubStart \/ HubStop \/ SetAutoRestart
    BY <1>2, <2>2, HubStartStep, HubStopStep, SetAutoRestartStep
  <2> QED  BY <1>2, <2>1, <2>2 DEF Client
<1>3. CASE fault = "none" /\ Event
  <2>1. ASSUME NEW s \in Session,
               \/ LookupAnswered(s) \/ LookupWasted(s) \/ LookupFailed(s)
               \/ ConnectNotify(s) \/ ConnectFailed(s) \/ HandshakeUnsent(s)
               \/ ConnectionLost(s) \/ OperationTimeout(s)
               \/ Listen(s) \/ ListenUnsent(s)
        PROVE  IInv'
    BY <1>3, <2>1, LookupAnsweredStep, LookupWastedStep, LostStep, ConnectNotifyStep,
       HandshakeUnsentStep, ListenStep, ListenUnsentStep
  <2>2. CASE InvoluntaryStop
    BY <1>3, <2>2, InvoluntaryStopStep
  <2> QED  BY <1>3, <2>1, <2>2 DEF Event
<1>4. CASE fault = "none" /\ TimerEvent
  BY <1>4, HubTimeoutStep, AutoReconnectTimeoutStep DEF TimerEvent
<1>5. CASE fault = "none" /\ Unwind
  <2>1. ASSUME NEW s \in Session,
               \/ RetryStep(s) \/ RetryRefused(s) \/ DrainStep(s)
               \/ SweepStep(s) \/ BuryStep(s)
        PROVE  IInv'
    BY <1>5, <2>1, RetryStepStep, RetryRefusedStep, DrainStepStep, SweepStepStep,
       BuryStepStep
  <2>2. CASE \/ ClientReturns \/ PutStep \/ AgainStep \/ RetryDone \/ DrainDone
             \/ StopDone \/ SweepDone \/ DestroyStep \/ TimeoutDone
    BY <1>5, <2>2, ClientReturnsStep, PutStepStep, AgainStepStep, RetryDoneStep,
       DrainDoneStep, StopDoneStep, SweepDoneStep, DestroyStepStep, TimeoutDoneStep
  <2> QED  BY <1>5, <2>1, <2>2 DEF Unwind
<1> QED  BY <1>1, <1>2, <1>3, <1>4, <1>5 DEF Next

\* Every reachable state satisfies the invariant.
THEOREM Invariance == Spec => []IInv
<1>1. Init => IInv
  BY Initial
<1>2. IInv /\ [Next]_vars => IInv'
  BY Inductive
<1> QED  BY <1>1, <1>2, PTL DEF Spec

\* The variables have their types; in particular no reference is put that is
\* not held (refs never leaves the natural numbers).
THEOREM TypeCorrect == Spec => []TypeOK
<1>1. IInv => TypeOK
  BY DEF IInv
<1> QED  BY <1>1, Invariance, PTL

\* A session has the references that its client, its connection, its
\* autoreconnect and the functions under way hold, and it waits to be deleted
\* iff there are none (rfcomm.cpp, all Get and Put; bt.cpp DeadObject, Timeout).
THEOREM ReferencesAlwaysSound == Spec => []ReferencesSound
<1>1. ASSUME IInv PROVE ReferencesSound
  <2>1. ASSUME NEW s \in Session
        PROVE  /\ refs[s] = held[s] + One(state[s] # "Disconnected")
                             + One(autoreconnect[s]) + Owed(s)
               /\ dead[s] <=> exists[s] /\ refs[s] = 0 /\ ~Doomed(s)
               /\ ~exists[s] => refs[s] = 0
    <3>1. Counted(s)
      BY <1>1 DEF IInv, References
    <3>2. Owed(s) = Puts(stack, s) /\ (Doomed(s) <=> Mourned(stack, s))
      BY DEF Owed, Puts, Doomed, Mourned
    <3> QED  BY <3>1, <3>2 DEF Counted, Due
  <2> QED  BY <2>1 DEF ReferencesSound, RefsAccounted, DeadIffUnreferenced
<1> QED  BY <1>1, Invariance, PTL

\* Whatever waits has its timer and no timer has anything else to hit, with the
\* one timer of the hub shared by its two uses (rfcomm.cpp AddAutoReconnect,
\* RemoveAutoReconnect, AutoReconnectTimeout; bt.cpp Timeout).
THEOREM TimersAlwaysSound == Spec => []TimersSound
<1>1. ASSUME IInv PROVE TimersSound
  <2>1. WaitingIsTimed
    BY <1>1 DEF IInv
  <2>2. HubTimerShared
    <3>1. On(stack, "timeout") <=> OnStack("timeout")
      BY DEF On, OnStack
    <3>2. InLoop => \A do : ~On(stack, do)
      BY Idle DEF InLoop
    <3> QED  BY <1>1, <3>1, <3>2 DEF IInv, HubTimer, HubTimerShared
  <2> QED  BY <2>1, <2>2 DEF TimersSound
<1> QED  BY <1>1, Invariance, PTL

-----------------------------------------------------------------------------
(* Faults.                                                                 *)

\* Only these three functions fault.
LEMMA Faulting ==
    ASSUME fault = "none", Next
    PROVE  fault' = "none" \/ HubStart \/ HubTimeout \/ RetryDone
<1>1. ASSUME NEW s \in Session,
             \/ GetSession(s) \/ PutSession(s) \/ Connect(s) \/ Disconnect(s)
             \/ EnableAutoReconnect(s) \/ DisableAutoReconnect(s)
      PROVE  fault' = "none"
  BY <1>1 DEF GetSession, PutSession, Connect, Disconnect, EnableAutoReconnect,
              DisableAutoReconnect
<1>2. ASSUME NEW s \in Session,
             \/ LookupAnswered(s) \/ LookupWasted(s) \/ LookupFailed(s)
             \/ ConnectNotify(s) \/ ConnectFailed(s) \/ HandshakeUnsent(s)
             \/ ConnectionLost(s) \/ OperationTimeout(s)
             \/ Listen(s) \/ ListenUnsent(s)
      PROVE  fault' = "none"
  BY <1>2 DEF LookupAnswered, LookupWasted, LookupFailed, ConnectNotify, ConnectFailed,
              HandshakeUnsent, ConnectionLost, OperationTimeout, Listen, ListenUnsent,
              DisconnectThen
<1>3. ASSUME NEW s \in Session,
             \/ RetryStep(s) \/ RetryRefused(s) \/ DrainStep(s)
             \/ SweepStep(s) \/ BuryStep(s)
      PROVE  fault' = "none"
  BY <1>3 DEF RetryStep, RetryRefused, DrainStep, SweepStep, BuryStep, DisconnectThen
<1>4. ASSUME \/ HubStop \/ SetAutoRestart \/ InvoluntaryStop
             \/ \E w \in Lists : AutoReconnectTimeout(w)
      PROVE  fault' = "none"
  BY <1>4 DEF HubStop, SetAutoRestart, InvoluntaryStop, AutoReconnectTimeout
<1>5. ASSUME \/ ClientReturns \/ PutStep \/ AgainStep \/ DrainDone
             \/ StopDone \/ SweepDone \/ DestroyStep \/ TimeoutDone
      PROVE  fault' = "none"
  BY <1>5 DEF ClientReturns, PutStep, AgainStep, DrainDone, StopDone, SweepDone,
              DestroyStep, TimeoutDone, DisconnectThen
<1> QED  BY <1>1, <1>2, <1>3, <1>4, <1>5 DEF Next, Client, Event, TimerEvent, Unwind

\* Whatever clients call from inside callbacks, starting and stopping the hub
\* included, the library fails only as OnlyNestedCallsFault says: SdpCreateThread finds
\* the queue empty unless SdpShutdown is still emptying it, because a stopped hub has no
\* other lookup.
THEOREM OnlyNestedCallsMayFault == Spec => []OnlyNestedCallsFault
<1>1. Init => OnlyNestedCallsFault
  BY DEF Init, OnlyNestedCallsFault
<1>2. ASSUME IInv, OnlyNestedCallsFault, [Next]_vars
      PROVE  OnlyNestedCallsFault'
  <2>1. CASE UNCHANGED vars
    BY <1>2, <2>1 DEF vars, hubVars, listVars, OnlyNestedCallsFault, OnStack
  <2>2. CASE Next
    <3>1. fault = "none"
      BY <2>2 DEF Next
    <3>2. CASE fault' = "none"
      BY <3>2 DEF OnlyNestedCallsFault
    <3>3. ~started /\ Queued # {} => OnStack("drain")
      BY <1>2 DEF IInv, Drained, Queued, On, OnStack
    <3>4. CASE HubStart
      <4>1. CASE AssertionFails
        <5>1. /\ fault' = "SdpCreateThread" /\ ~started
              /\ UNCHANGED <<started, aborted, stack>>
          BY <3>4, <4>1 DEF HubStart, hubVars
        <5> QED  BY <3>3, <4>1, <5>1 DEF AssertionFails, OnlyNestedCallsFault, OnStack
      <4>2. CASE ~AssertionFails
        BY <3>1, <3>2, <3>4, <4>2 DEF HubStart
      <4> QED  BY <4>1, <4>2
    <3>5. CASE HubTimeout
      <4>1. ~OnStack("drain")
        BY <1>2, <3>5, Idle DEF HubTimeout, InLoop, OnStack, On
      <4>2. CASE fault' # fault
        <5>1. /\ fault' = "SdpCreateThread" /\ ~started /\ AssertionFails
              /\ UNCHANGED <<started, aborted>>
          BY <3>5, <4>2 DEF HubTimeout, hubVars
        <5> QED  BY <3>3, <4>1, <5>1 DEF AssertionFails, OnlyNestedCallsFault
      <4> QED  BY <3>1, <3>2, <4>2
    <3>6. CASE RetryDone
      BY <3>1, <3>6 DEF RetryDone, Rearm, OnlyNestedCallsFault
    <3> QED  BY <2>2, <3>1, <3>2, <3>4, <3>5, <3>6, Faulting
  <2> QED  BY <1>2, <2>1, <2>2
<1> QED  BY <1>1, <1>2, Invariance, PTL DEF Spec
=============================================================================
