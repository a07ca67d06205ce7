--------------------------- MODULE ScoAudioProofs ---------------------------
(***************************************************************************)
(* The voice endpoint makes the steps of an asynchronous endpoint and no   *)
(* others, calls nobody back from within a method, and its service follows *)
(* the configuration, however many configurations there are and however    *)
(* deep the callbacks are nested.                                          *)
(***************************************************************************)
EXTENDS ScoAudio, TLAPS

\* The records of the service and of the session.
Service ==
    [hub : BOOLEAN, autorestart : BOOLEAN, rfcomm : BOOLEAN, listening : BOOLEAN,
     scoEnabled : BOOLEAN, config : Config,
     record : Config \cup {Absent}, server : Config \cup {Absent}]

Session ==
    [link : BOOLEAN, sco : {"Invalid", "Connecting", "Connected"},
     notifier : {"none", "connect", "data"}, abort : BOOLEAN, nvs : BOOLEAN, nas : BOOLEAN,
     async : BOOLEAN, believes : BOOLEAN, command : BOOLEAN, stack : Seq(Frames),
     fault : {"none", "AbortPending", "AudioOutlivesLink"}]

\* What is true of a session that has not failed: an abort is only pending when
\* there is no connection, and only a connecting socket is waited for.
Sound(r) ==
    /\ r.abort => r.sco = "Invalid"
    /\ r.notifier = "connect" => r.sco = "Connecting"

ServiceInv == v \in Service /\ ServiceMatchesConfig
SessionInv == s \in Session /\ (Ok => Sound(s))

-----------------------------------------------------------------------------
(* The service.                                                            *)

\* What ServiceMatchesConfig says, of any record.
Matches(w) ==
    /\ w.listening <=> w.hub /\ w.scoEnabled
    /\ w.rfcomm <=> w.hub
    /\ w.server \in {Absent, w.config}
    /\ w.hub => w.record = w.server
    /\ ~w.hub => w.server = Absent

\* A service that stops has nothing left at the server when it had at most its
\* own record there.
LEMMA StopMatches ==
    ASSUME NEW w \in Service, w.server \in {Absent, w.config},
           w.hub => w.record = w.server \/ w.server = Absent,
           ~w.hub => w.server = Absent
    PROVE  /\ ServiceStop(w) \in Service
           /\ ServiceStop(w).server = Absent
           /\ ~ServiceStop(w).listening /\ ~ServiceStop(w).rfcomm
           /\ ServiceStop(w).hub = w.hub
    BY DEF ServiceStop, ScoCleanup, SdpUnregister, Service

LEMMA HubStartMatches ==
    ASSUME NEW w \in Service, Matches(w), ~w.hub, NEW bad
    PROVE  HubStart(w, bad) \in Service /\ Matches(HubStart(w, bad))
<1> DEFINE on == [w EXCEPT !.hub = TRUE]
           r == [on EXCEPT !.rfcomm = TRUE]
           l == [r EXCEPT !.listening = on.scoEnabled]
           failed == ScoRefused(r, bad)
<1>1. on \in Service /\ on.server = Absent /\ on.hub
  BY DEF Matches, Service
<1>2. r \in Service /\ r.server = Absent /\ r.hub
  BY <1>1 DEF Service
<1>3. l \in Service /\ l.server = Absent /\ l.hub /\ l.rfcomm /\ l.listening = l.scoEnabled
  BY <1>2, <1>1 DEF Service
<1>4. failed \in Service /\ failed.server = Absent /\ failed.hub
  BY <1>2 DEF Service, ScoRefused
<1> HIDE DEF on, r, l, failed
<1>5. \A x \in {on, l, failed} :
        ServiceStop(x) \in Service /\ ~ServiceStop(x).rfcomm /\ ~ServiceStop(x).listening
  BY <1>1, <1>3, <1>4, StopMatches
<1>6. SdpRegister(l) \in Service /\ Matches(SdpRegister(l)) /\ SdpRegister(l).rfcomm
  BY <1>3 DEF SdpRegister, Service, Matches
<1>7. ServiceStart(on, bad) \in {ServiceStop(on), ServiceStop(failed), ServiceStop(l), SdpRegister(l)}
  BY DEF ServiceStart, on, r, l, failed
<1>8. HubStart(w, bad) = IF ServiceStart(on, bad).rfcomm THEN ServiceStart(on, bad)
                         ELSE [ServiceStart(on, bad) EXCEPT !.hub = FALSE, !.server = Absent]
  BY DEF HubStart, on
<1>9. \A x \in Service : ~x.rfcomm /\ ~x.listening =>
        /\ [x EXCEPT !.hub = FALSE, !.server = Absent] \in Service
        /\ Matches([x EXCEPT !.hub = FALSE, !.server = Absent])
  BY DEF Service, Matches
<1> QED  BY <1>5, <1>6, <1>7, <1>8, <1>9

LEMMA HubStopMatches ==
    ASSUME NEW w \in Service, Matches(w)
    PROVE  HubStop(w) \in Service /\ Matches(HubStop(w))
<1> DEFINE off == [w EXCEPT !.hub = FALSE, !.server = Absent]
<1>1. off \in Service /\ ~off.hub /\ off.server = Absent
  BY DEF Service
<1> HIDE DEF off
<1>2. HubStop(w) = ServiceStop(off)
  BY DEF HubStop, off
<1> QED  BY <1>1, <1>2, StopMatches DEF Matches

LEMMA ScoEnabledMatches ==
    ASSUME NEW w \in Service, Matches(w), NEW on \in BOOLEAN, NEW bad
    PROVE  ScoEnabled(w, on, bad) \in Service /\ Matches(ScoEnabled(w, on, bad))
    BY DEF ScoEnabled, ScoCleanup, ScoRefused, Listens, Service, Matches

LEMMA ConfiguredMatches ==
    ASSUME NEW w \in Service, Matches(w), NEW c \in Config, NEW bad
    PROVE  Configured(w, c, bad) \in Service /\ Matches(Configured(w, c, bad))
    BY DEF Configured, SdpUnregister, SdpRegister, Registers, Service, Matches

\* Every step of the service.
LEMMA ServiceStep ==
    ASSUME ServiceInv, [Next]_vars
    PROVE  ServiceInv'
<1> USE DEF ServiceInv
<1>1. ServiceMatchesConfig <=> Matches(v)
  BY DEF ServiceMatchesConfig, Matches
<1>2. ServiceMatchesConfig' <=> Matches(v')
  BY DEF ServiceMatchesConfig, Matches
<1>3. CASE UNCHANGED v
  BY <1>3, <1>1, <1>2
<1>4. CASE Start
  BY <1>4, <1>1, <1>2, HubStartMatches DEF Start
<1>5. CASE Stop \/ InvoluntaryStop
  BY <1>5, <1>1, <1>2, HubStopMatches DEF Stop, InvoluntaryStop
<1>6. CASE SetScoEnabled
  BY <1>6, <1>1, <1>2, ScoEnabledMatches DEF SetScoEnabled
<1>7. CASE SetConfig
  BY <1>7, <1>1, <1>2, ConfiguredMatches DEF SetConfig
<1> QED
  BY <1>3, <1>4, <1>5, <1>6, <1>7
  DEF Next, vars, SndOpen, SndClose, SndAsyncStart, ClientStops, Io, Disconnect, IssueCommand,
      ClientReturns, PacketReturns, HandleAbortDone, CommandDeleted, AudioDisconnected,
      DisconnectDone, LinkUp, LinkLost, CommandAnswered, ScoWritable, ScoListenNotify,
      ScoReadable, AbortTimeout

LEMMA ServiceStarts == ASSUME Init PROVE ServiceInv
    BY DEF Init, ServiceInv, ServiceInit, Service, ServiceMatchesConfig

-----------------------------------------------------------------------------
(* The session.                                                            *)

\* Frames are put on a stack and taken off.
LEMMA Stacks ==
    ASSUME NEW st \in Seq(Frames)
    PROVE  /\ \A c \in Frames :
                 <<c>> \o st \in Seq(Frames)
           /\ <<"stop", "voice">> \o st \in Seq(Frames)
           /\ st # <<>> => Tail(st) \in Seq(Frames)
           /\ <<>> \in Seq(Frames)
<1> DEFINE F == Frames
<1>1. "stop" \in F /\ "voice" \in F
  BY DEF Frames, Callbacks
<1> HIDE DEF F
<1>2. <<"stop", "voice">> \in Seq(F)
  BY <1>1
<1>3. \A c \in F : <<c>> \o st \in Seq(F)
  BY DEF F
<1>4. <<"stop", "voice">> \o st \in Seq(F)
  BY <1>2 DEF F
<1>5. /\ st # <<>> => Tail(st) \in Seq(F)
      /\ <<>> \in Seq(F)
  BY DEF F
<1> QED  BY <1>3, <1>4, <1>5 DEF F

\* A session with another stack.
LEMMA Stacked ==
    ASSUME NEW r \in Session, NEW st \in Seq(Frames)
    PROVE  LET n == [r EXCEPT !.stack = st] IN
           /\ n \in Session /\ n.stack = st
           /\ n.link = r.link /\ n.sco = r.sco /\ n.notifier = r.notifier
           /\ n.abort = r.abort /\ n.nvs = r.nvs /\ n.nas = r.nas /\ n.async = r.async
           /\ n.believes = r.believes /\ n.fault = r.fault /\ n.command = r.command
<1> DEFINE F == Seq(Frames)
<1> HIDE DEF F
<1> USE DEF F
<1>1. st \in F  OBVIOUS
<1> HIDE DEF F
<1>2. r \in [link : BOOLEAN, sco : {"Invalid", "Connecting", "Connected"},
             notifier : {"none", "connect", "data"}, abort : BOOLEAN, nvs : BOOLEAN,
             nas : BOOLEAN, async : BOOLEAN, believes : BOOLEAN, command : BOOLEAN, stack : F,
             fault : {"none", "AbortPending", "AudioOutlivesLink"}]
  BY DEF Session, F
<1>3. [r EXCEPT !.stack = st] \in
        [link : BOOLEAN, sco : {"Invalid", "Connecting", "Connected"},
         notifier : {"none", "connect", "data"}, abort : BOOLEAN, nvs : BOOLEAN,
         nas : BOOLEAN, async : BOOLEAN, believes : BOOLEAN, command : BOOLEAN, stack : F,
         fault : {"none", "AbortPending", "AudioOutlivesLink"}]
  BY <1>1, <1>2
<1>4. [r EXCEPT !.stack = st] \in Session
  BY <1>3 DEF Session, F
<1> QED  BY <1>1, <1>2, <1>4

\* What AsyncEndpoint sees of a session.
Open(r) == r.sco # "Invalid"
Owed(r) == r.abort /\ r.nas /\ r.sco = "Invalid"

\* A stream is stopped and nothing else is changed.
LEMMA StopSession ==
    ASSUME NEW r \in Session
    PROVE  LET n == SndAsyncStop(r) IN
           /\ n \in Session
           /\ ~IsAsyncStarted(n)
           /\ Sound(r) => Sound(n)
           /\ Open(n) = Open(r) /\ ~Owed(n)
           /\ n.stack = r.stack /\ n.believes = r.believes /\ n.fault = r.fault
    BY DEF SndAsyncStop, Session, Sound, IsAsyncStarted, Open, Owed

\* The client is told, or nobody has to be.
LEMMA HandleAbort ==
    ASSUME NEW r \in Session
    PROVE  LET n == SndHandleAbort(r) IN
           /\ n \in Session
           /\ n.sco = r.sco /\ n.notifier = r.notifier /\ ~n.abort
           /\ n.believes = (r.believes /\ ~r.nas)
           /\ n.fault = r.fault
           /\ ~r.nas /\ ~r.nvs => n.stack = r.stack
<1> DEFINE c == [r EXCEPT !.abort = FALSE, !.async = FALSE, !.nas = FALSE]
<1>1. /\ c \in Session /\ ~c.abort
      /\ c.sco = r.sco /\ c.notifier = r.notifier /\ c.believes = r.believes
      /\ c.fault = r.fault /\ c.stack = r.stack
  BY DEF Session
<1> HIDE DEF c
<1>2. /\ Push(c, <<"stop", "voice">>) \in Session
      /\ Push(c, <<"stop", "voice">>).sco = c.sco
      /\ Push(c, <<"stop", "voice">>).notifier = c.notifier
      /\ ~Push(c, <<"stop", "voice">>).abort
      /\ Push(c, <<"stop", "voice">>).fault = c.fault
      /\ Push(c, <<"conn">>) \in Session
      /\ Push(c, <<"conn">>).sco = c.sco
      /\ Push(c, <<"conn">>).notifier = c.notifier
      /\ ~Push(c, <<"conn">>).abort
      /\ Push(c, <<"conn">>).fault = c.fault
      /\ Push(c, <<"conn">>).believes = c.believes
  <2>1. /\ <<"stop", "voice">> \o c.stack \in Seq(Frames)
        /\ <<"conn">> \o c.stack \in Seq(Frames)
    BY <1>1, Stacks DEF Session, Frames, Callbacks
  <2> QED  BY <1>1, <2>1, Stacked, ZenonT(30) DEF Push
<1>3. SndHandleAbort(r) =
        IF r.nas THEN [Push(c, <<"stop", "voice">>) EXCEPT !.believes = FALSE]
        ELSE IF r.nvs THEN [Push(c, <<"conn">>) EXCEPT !.nvs = FALSE]
        ELSE c
  BY DEF SndHandleAbort, c
<1>4. r.nas \in BOOLEAN /\ r.nvs \in BOOLEAN /\ r.believes \in BOOLEAN
  BY DEF Session
<1>5. \A n \in Session :
        /\ [n EXCEPT !.believes = FALSE] \in Session
        /\ [n EXCEPT !.believes = FALSE].sco = n.sco
        /\ [n EXCEPT !.believes = FALSE].notifier = n.notifier
        /\ [n EXCEPT !.believes = FALSE].abort = n.abort
        /\ [n EXCEPT !.believes = FALSE].fault = n.fault
        /\ ~[n EXCEPT !.believes = FALSE].believes
        /\ [n EXCEPT !.nvs = FALSE] \in Session
        /\ [n EXCEPT !.nvs = FALSE].sco = n.sco
        /\ [n EXCEPT !.nvs = FALSE].notifier = n.notifier
        /\ [n EXCEPT !.nvs = FALSE].abort = n.abort
        /\ [n EXCEPT !.nvs = FALSE].fault = n.fault
        /\ [n EXCEPT !.nvs = FALSE].believes = n.believes
  BY DEF Session
<1>6. CASE r.nas
  <2> DEFINE p == Push(c, <<"stop", "voice">>)
             n == [p EXCEPT !.believes = FALSE]
  <2>1. SndHandleAbort(r) = n
    BY <1>6, <1>3
  <2>2. /\ n \in Session /\ n.sco = p.sco /\ n.notifier = p.notifier /\ n.abort = p.abort
        /\ n.fault = p.fault /\ ~n.believes
    BY <1>2, <1>5
  <2> HIDE DEF n
  <2>3. n.sco = r.sco /\ n.notifier = r.notifier /\ ~n.abort /\ n.fault = r.fault
    BY <2>2, <1>1, <1>2
  <2>4. n.believes = (r.believes /\ ~r.nas)
    BY <2>2, <1>6, <1>5 DEF Session
  <2> QED  BY <2>1, <2>2, <2>3, <2>4, <1>6
<1>7. CASE ~r.nas /\ r.nvs
  <2> DEFINE p == Push(c, <<"conn">>)
             n == [p EXCEPT !.nvs = FALSE]
  <2>1. SndHandleAbort(r) = n
    BY <1>7, <1>3
  <2>2. /\ n \in Session /\ n.sco = p.sco /\ n.notifier = p.notifier /\ n.abort = p.abort
        /\ n.fault = p.fault /\ n.believes = p.believes
    BY <1>2, <1>5
  <2> HIDE DEF n
  <2>3. n.sco = r.sco /\ n.notifier = r.notifier /\ ~n.abort /\ n.fault = r.fault
    BY <2>2, <1>1, <1>2
  <2>4. n.believes = (r.believes /\ ~r.nas)
    BY <2>2, <1>1, <1>2, <1>4, <1>7
  <2> QED  BY <2>1, <2>2, <2>3, <2>4, <1>7
<1>8. CASE ~r.nas /\ ~r.nvs
  <2>1. SndHandleAbort(r) = c
    BY <1>8, <1>3
  <2>2. c.believes = (r.believes /\ ~r.nas)
    BY <1>1, <1>4, <1>8
  <2> QED  BY <2>1, <2>2, <1>1
<1> QED  BY <1>4, <1>6, <1>7, <1>8

\* A stream that ends now, or ended and was not told of.
Due(r) == IsAsyncStarted(r) \/ Owed(r)

\* A session whose socket has been closed.
LEMMA Closed ==
    ASSUME NEW r \in Session, Open(r), ~r.abort
    PROVE  LET n == ScoClosed(r) IN
           /\ n \in Session /\ Sound(n)
           /\ ~Open(n) /\ ~n.abort /\ n.nas = IsAsyncStarted(r)
           /\ n.stack = r.stack /\ n.believes = r.believes /\ n.fault = r.fault
<1> DEFINE m == SndAsyncStop(r)
<1>1. /\ m \in Session /\ m.notifier = "none" /\ m.abort = r.abort
      /\ m.stack = r.stack /\ m.believes = r.believes /\ m.fault = r.fault
  BY DEF SndAsyncStop, Session
<1> HIDE DEF m
<1>2. ScoClosed(r) = [m EXCEPT !.nvs = TRUE, !.nas = IsAsyncStarted(r), !.sco = "Invalid"]
  BY DEF ScoClosed, m
<1>3. IsAsyncStarted(r) \in BOOLEAN
  BY DEF IsAsyncStarted
<1> QED  BY <1>1, <1>2, <1>3 DEF Session, Sound, Open

\* What __DisconnectSco leaves of r: no connection, and what is due of the
\* notification that it is asked for is owed or paid.
Disconnected(r, n, nv, np, async) ==
    /\ n \in Session /\ Sound(n) /\ n.fault = r.fault
    /\ ~Open(n) /\ ~IsAsyncStarted(n)
    /\ async \/ (~nv /\ ~np) => n.stack = r.stack
    /\ async /\ np => (Owed(n) <=> Due(r)) /\ n.believes = r.believes
    /\ ~async /\ np => ~Owed(n) /\ (n.believes <=> r.believes /\ ~Due(r))
    /\ ~np => ~Owed(n) /\ n.believes = r.believes

LEMMA Disconnects ==
    ASSUME NEW r \in Session, Sound(r),
           NEW nv \in BOOLEAN, NEW np \in BOOLEAN, NEW async \in BOOLEAN
    PROVE  Disconnected(r, DisconnectSco(r, nv, np, async), nv, np, async)
<1> DEFINE n == DisconnectSco(r, nv, np, async)
           c == IF Open(r) THEN ScoClosed(r) ELSE r
           m == [c EXCEPT !.nvs = @ /\ nv, !.nas = @ /\ np]
<1>1. n = IF Open(r) /\ r.abort THEN [r EXCEPT !.fault = "AbortPending"]
          ELSE IF ~r.abort /\ ~Open(r) THEN r
          ELSE IF async THEN [m EXCEPT !.abort = TRUE]
          ELSE SndHandleAbort(m)
  BY DEF DisconnectSco, Open
<1> SUFFICES Disconnected(r, n, nv, np, async)
  OBVIOUS
<1>2. ~(Open(r) /\ r.abort) /\ r.abort \in BOOLEAN /\ r.nas \in BOOLEAN /\ r.believes \in BOOLEAN
  BY DEF Sound, Open, Session
<1>3. CASE ~r.abort /\ ~Open(r)
  <2>1. n = r
    BY <1>3, <1>1
  <2>2. ~IsAsyncStarted(r) /\ ~Owed(r) /\ ~Due(r)
    BY <1>3 DEF IsAsyncStarted, Open, Owed, Due
  <2>3. Owed(r) = Due(r) /\ r.believes = (r.believes /\ ~Due(r))
    BY <2>2, <1>2 DEF Owed, Due, IsAsyncStarted
  <2>4. Disconnected(r, r, nv, np, async)
    BY <2>2, <2>3, <1>3 DEF Disconnected
  <2> QED  BY <2>1, <2>4
<1>4. CASE r.abort \/ Open(r)
  <2>1. /\ c \in Session /\ Sound(c) /\ ~Open(c)
        /\ c.nas = Due(r)
        /\ c.stack = r.stack /\ c.believes = r.believes /\ c.fault = r.fault
    <3>1. CASE Open(r)
      <4>1. ~Owed(r)
        BY <3>1 DEF Open, Owed
      <4>2. IsAsyncStarted(r) \in BOOLEAN
        BY DEF IsAsyncStarted
      <4> QED  BY <3>1, <1>2, Closed, <4>1, <4>2 DEF Due
    <3>2. CASE ~Open(r)
      <4>1. ~IsAsyncStarted(r) /\ Owed(r) = r.nas
        BY <3>2, <1>2, <1>4 DEF Open, Owed, IsAsyncStarted
      <4> QED  BY <3>2, <1>2, <4>1 DEF Due
    <3> QED  BY <3>1, <3>2
  <2> HIDE DEF c
  <2>2. /\ m \in Session /\ Sound(m) /\ ~Open(m)
        /\ m.nas = (c.nas /\ np) /\ m.nvs = (c.nvs /\ nv)
        /\ m.stack = r.stack /\ m.believes = r.believes /\ m.fault = r.fault
    BY <2>1, ZenonT(30) DEF Session, Sound, Open
  <2> HIDE DEF m
  <2>3. CASE async
    <3>1. n = [m EXCEPT !.abort = TRUE]
      BY <2>3, <1>1, <1>2, <1>4
    <3>2. /\ n \in Session /\ n.abort /\ n.sco = m.sco /\ n.notifier = m.notifier
          /\ n.nas = m.nas /\ n.stack = m.stack /\ n.believes = m.believes
          /\ n.fault = m.fault
      BY <3>1, <2>2 DEF Session
    <3> HIDE DEF n
    <3>3. Sound(n) /\ ~Open(n) /\ ~IsAsyncStarted(n) /\ Owed(n) = (Due(r) /\ np)
      <4>1. m.nas = (Due(r) /\ np)
        BY <2>1, <2>2
      <4>2. n.sco = "Invalid" /\ n.notifier # "connect"
        BY <2>2, <3>2 DEF Sound, Open
      <4>3. Sound(n) /\ ~Open(n) /\ ~IsAsyncStarted(n)
        BY <4>2 DEF Sound, Open, IsAsyncStarted
      <4>4. Owed(n) = m.nas
        BY <4>2, <3>2, <2>2 DEF Owed, Session
      <4> QED  BY <4>1, <4>3, <4>4
    <3>4. Due(r) \in BOOLEAN
      BY DEF Due, IsAsyncStarted, Owed
    <3> QED  BY <3>2, <3>3, <3>4, <2>2, <2>3 DEF Disconnected
  <2>4. CASE ~async
    <3>1. n = SndHandleAbort(m)
      BY <2>4, <1>1, <1>2, <1>4
    <3>2. /\ n \in Session /\ n.sco = m.sco /\ n.notifier = m.notifier /\ ~n.abort
          /\ n.believes = (m.believes /\ ~m.nas) /\ n.fault = m.fault
          /\ ~m.nas /\ ~m.nvs => n.stack = m.stack
      BY <3>1, <2>2, HandleAbort
    <3> HIDE DEF n
    <3>3. n.sco = "Invalid" /\ n.notifier # "connect"
      BY <2>2, <3>2 DEF Sound, Open
    <3>4. Sound(n) /\ ~Open(n) /\ ~IsAsyncStarted(n) /\ ~Owed(n)
      BY <3>2, <3>3 DEF Sound, Open, IsAsyncStarted, Owed
    <3>5. np => (n.believes <=> r.believes /\ ~Due(r))
      BY <3>2, <2>1, <2>2
    <3>6. ~np => n.believes = r.believes
      BY <3>2, <2>2, <1>2
    <3>7. ~nv /\ ~np => n.stack = r.stack
      BY <3>2, <2>2
    <3> QED  BY <3>2, <3>4, <3>5, <3>6, <3>7, <2>2, <2>4 DEF Disconnected
  <2> QED  BY <2>3, <2>4
<1> QED  BY <1>3, <1>4

-----------------------------------------------------------------------------
(* The steps of the session, as an endpoint sees them.                     *)

Stutters(r, n) ==
    /\ (Open(n) <=> Open(r)) /\ (IsAsyncStarted(n) <=> IsAsyncStarted(r))
    /\ (Owed(n) <=> Owed(r)) /\ n.believes = r.believes

Opens(r, n) ==
    /\ ~Open(r) /\ Open(n) /\ ~Owed(n)
    /\ (IsAsyncStarted(n) <=> IsAsyncStarted(r)) /\ n.believes = r.believes

Starts(r, n) ==
    /\ Open(r) /\ ~Owed(r) /\ IsAsyncStarted(n) /\ n.believes
    /\ (Open(n) <=> Open(r)) /\ (Owed(n) <=> Owed(r))

Stops(r, n) ==
    (Open(n) <=> Open(r)) /\ ~IsAsyncStarted(n) /\ ~Owed(n) /\ ~n.believes

Closes(r, n) ==
    ~Open(n) /\ ~IsAsyncStarted(n) /\ ~Owed(n) /\ ~n.believes

Fails(r, n) ==
    /\ Open(r) /\ ~Open(n) /\ ~IsAsyncStarted(n)
    /\ \/ (Owed(n) <=> IsAsyncStarted(r)) /\ n.believes = r.believes
       \/ IsAsyncStarted(r) /\ ~Owed(n) /\ ~n.believes

Tells(r, n) ==
    /\ ~Open(r) /\ Owed(r) /\ ~Owed(n) /\ ~n.believes
    /\ (Open(n) <=> Open(r)) /\ (IsAsyncStarted(n) <=> IsAsyncStarted(r))

Moves(r, n) ==
    \/ Stutters(r, n) \/ Opens(r, n) \/ Starts(r, n) \/ Stops(r, n)
    \/ Closes(r, n) \/ Fails(r, n) \/ Tells(r, n)

LEMMA MovesAreSteps ==
    ASSUME s \in Session, s' \in Session, Moves(s, s')
    PROVE  [Endpoint!Next]_(Endpoint!vars)
<1>1. /\ s.believes \in BOOLEAN /\ s'.believes \in BOOLEAN
      /\ IsAsyncStarted(s) \in BOOLEAN /\ IsAsyncStarted(s') \in BOOLEAN
  BY DEF Session, IsAsyncStarted
<1>2. CASE Stutters(s, s')
  BY <1>1, <1>2 DEF Stutters, Endpoint!vars, Open, Owed
<1>3. CASE Opens(s, s')
  BY <1>1, <1>3 DEF Opens, Endpoint!Next, Endpoint!Open, Open, Owed
<1>4. CASE Starts(s, s')
  BY <1>1, <1>4 DEF Starts, Endpoint!Next, Endpoint!AsyncStart, Open, Owed
<1>5. CASE Stops(s, s')
  BY <1>1, <1>5 DEF Stops, Endpoint!Next, Endpoint!AsyncStop, Open, Owed
<1>6. CASE Closes(s, s')
  BY <1>1, <1>6 DEF Closes, Endpoint!Next, Endpoint!Close, Open, Owed
<1>7. CASE Fails(s, s')
  BY <1>1, <1>7 DEF Fails, Endpoint!Next, Endpoint!Fail, Open, Owed
<1>8. CASE Tells(s, s')
  BY <1>1, <1>8 DEF Tells, Endpoint!Next, Endpoint!Notify, Open, Owed
<1> QED  BY <1>2, <1>3, <1>4, <1>5, <1>6, <1>7, <1>8 DEF Moves

\* A step of the session: the next one is sound or has failed, and the
\* endpoint moves.
Good(r, n) == n \in Session /\ (n.fault = "none" => Sound(n)) /\ Moves(r, n)

\* Records that differ in what no endpoint sees.
Same(r, n) ==
    /\ n.sco = r.sco /\ n.notifier = r.notifier /\ n.abort = r.abort
    /\ n.nas = r.nas /\ n.believes = r.believes

LEMMA SameViews ==
    ASSUME NEW r, NEW n, Same(r, n)
    PROVE  /\ (Open(n) <=> Open(r)) /\ (IsAsyncStarted(n) <=> IsAsyncStarted(r))
           /\ (Owed(n) <=> Owed(r)) /\ (Due(n) <=> Due(r)) /\ n.believes = r.believes
           /\ (Sound(n) <=> Sound(r))
    BY DEF Same, Open, IsAsyncStarted, Owed, Due, Sound

LEMMA SameIsGood ==
    ASSUME NEW r \in Session, NEW n \in Session, Sound(r), Same(r, n)
    PROVE  Good(r, n)
    BY SameViews DEF Good, Moves, Stutters

\* A disconnection of r or of one that looks the same.
LEMMA DisconnectionMoves ==
    ASSUME NEW r \in Session, NEW m \in Session, NEW n, Same(r, m), Sound(r),
           NEW nv \in BOOLEAN, NEW async \in BOOLEAN, Disconnected(m, n, nv, TRUE, async)
    PROVE  Good(r, n)
<1>1. /\ (Due(m) <=> Due(r)) /\ m.believes = r.believes
      /\ r.believes \in BOOLEAN /\ n.believes \in BOOLEAN /\ n \in Session /\ Sound(n)
      /\ ~Open(n) /\ ~IsAsyncStarted(n)
  BY SameViews DEF Disconnected, Session
<1>2. CASE async
  <2>1. (Owed(n) <=> Due(r)) /\ n.believes = r.believes
    BY <1>1, <1>2 DEF Disconnected
  <2>2. CASE Open(r)
    <3>1. ~Owed(r)
      BY <2>2 DEF Open, Owed
    <3> QED  BY <1>1, <2>1, <2>2, <3>1 DEF Good, Moves, Fails, Due
  <2>3. CASE ~Open(r)
    <3>1. ~IsAsyncStarted(r)
      BY <2>3 DEF Open, IsAsyncStarted
    <3> QED  BY <1>1, <2>1, <2>3, <3>1 DEF Good, Moves, Stutters, Due
  <2> QED  BY <2>2, <2>3
<1>3. CASE ~async
  <2>1. ~Owed(n) /\ (n.believes <=> r.believes /\ ~Due(r))
    BY <1>1, <1>3 DEF Disconnected
  <2>2. Due(r) => ~n.believes
    BY <2>1
  <2>3. ~Due(r) => n.believes = r.believes
    BY <2>1, <1>1
  <2>4. CASE Open(r)
    <3>1. ~Owed(r)
      BY <2>4 DEF Open, Owed
    <3>2. Fails(r, n)
      BY <1>1, <2>1, <2>2, <2>3, <2>4, <3>1 DEF Fails, Due
    <3> QED  BY <1>1, <3>2 DEF Good, Moves
  <2>5. CASE ~Open(r)
    <3>1. ~IsAsyncStarted(r)
      BY <2>5 DEF Open, IsAsyncStarted
    <3>2. Tells(r, n) \/ Stutters(r, n)
      BY <1>1, <2>1, <2>2, <2>3, <2>5, <3>1 DEF Tells, Stutters, Due
    <3> QED  BY <1>1, <3>2 DEF Good, Moves
  <2> QED  BY <2>4, <2>5
<1> QED  BY <1>2, <1>3

\* The end of a frame, and a new one.
LEMMA ReturnedLooksSame ==
    ASSUME NEW r \in Session, r.stack # <<>>
    PROVE  LET n == Returned(r) IN
           /\ n \in Session /\ Same(r, n) /\ n.fault = r.fault
           /\ n.stack = Tail(r.stack) /\ n.command = r.command
<1>1. Tail(r.stack) \in Seq(Frames)
  BY Stacks DEF Session
<1> QED  BY <1>1, Stacked DEF Same, Returned

LEMMA Pushed ==
    ASSUME NEW r \in Session, NEW c \in Frames
    PROVE  /\ Push(r, <<c>>) \in Session /\ Same(r, Push(r, <<c>>))
           /\ Push(r, <<c>>).fault = r.fault /\ Push(r, <<c>>).stack = <<c>> \o r.stack
           /\ Push(r, <<c>>).command = r.command
<1>1. <<c>> \o r.stack \in Seq(Frames)
  BY Stacks DEF Session
<1> QED  BY <1>1, Stacked DEF Same, Push

\* A session whose link comes or goes, that notes the buffer it processes, has
\* told of a connection, queues a command or deletes it.
LEMMA Marked ==
    ASSUME NEW r \in Session, NEW b \in BOOLEAN
    PROVE  \A n \in {[r EXCEPT !.link = b], [r EXCEPT !.async = b], [r EXCEPT !.nvs = b],
                    [r EXCEPT !.command = b]} :
              n \in Session /\ Same(r, n) /\ n.fault = r.fault /\ n.stack = r.stack
    BY DEF Session, Same

LEMMA SameTwice ==
    ASSUME NEW a, NEW b, NEW c, Same(a, b), Same(b, c)
    PROVE  Same(a, c)
    BY DEF Same

\* The three disconnections that the session makes by itself.
LEMMA LostMoves ==
    ASSUME NEW r \in Session, NEW m \in Session, Same(r, m), Sound(r)
    PROVE  Good(r, Lost(m)) /\ Lost(m).stack = m.stack /\ Lost(m).fault = m.fault
<1>1. Disconnected(m, Lost(m), TRUE, TRUE, TRUE)
  BY SameViews, Disconnects DEF Lost
<1> QED  BY <1>1, DisconnectionMoves DEF Disconnected

LEMMA DroppedMoves ==
    ASSUME NEW r \in Session, NEW q \in Session, Same(r, q), Sound(r)
    PROVE  Good(r, LinkDropped(q))
<1> DEFINE m == Push(q, <<"down">>)
<1>1. m \in Session /\ Same(r, m)
  BY Pushed, SameTwice DEF Frames
<1>2. Disconnected(m, LinkDropped(q), TRUE, TRUE, FALSE)
  BY <1>1, SameViews, Disconnects DEF LinkDropped
<1> QED  BY <1>1, <1>2, DisconnectionMoves

LEMMA ClosedMoves ==
    ASSUME NEW r \in Session, NEW q \in Session, Same(r, q), Sound(r)
    PROVE  Good(r, LinkClosed(q)) /\ LinkClosed(q).stack = q.stack
<1> DEFINE m == DisconnectSco(q, FALSE, TRUE, TRUE)
<1>1. Disconnected(q, m, FALSE, TRUE, TRUE)
  BY SameViews, Disconnects
<1>2. m \in Session /\ m.stack = q.stack /\ Sound(m)
  BY <1>1 DEF Disconnected
<1>3. LinkClosed(q) = [m EXCEPT !.link = FALSE]
  BY DEF LinkClosed
<1> HIDE DEF m
<1>4. /\ LinkClosed(q) \in Session /\ Same(m, LinkClosed(q))
      /\ LinkClosed(q).stack = m.stack /\ LinkClosed(q).fault = m.fault
  BY <1>2, <1>3, Marked
<1>5. Disconnected(q, LinkClosed(q), FALSE, TRUE, TRUE)
  BY <1>1, <1>2, <1>4, SameViews DEF Disconnected
<1> QED  BY <1>2, <1>4, <1>5, DisconnectionMoves

\* A socket that has connected or failed to, whether the session opened it or
\* accepts it.  An abort that is pending then stops the program.
LEMMA NotifiedMoves ==
    ASSUME NEW r \in Session, Sound(r), ~IsAsyncStarted(r), NEW works \in BOOLEAN,
           r.sco = "Connecting" \/ ~Open(r)
    PROVE  Good(r, ScoConnectNotify(r, works))
<1> DEFINE c == [r EXCEPT !.notifier = "none", !.sco = "Connected"]
           d == [c EXCEPT !.abort = FALSE]
<1>1. /\ c \in Session /\ Open(c) /\ ~IsAsyncStarted(c) /\ ~Owed(c)
      /\ c.notifier = "none" /\ c.abort = r.abort /\ c.believes = r.believes
      /\ c.sco = "Connected"
  BY DEF Session, Open, IsAsyncStarted, Owed
<1>2. r.believes \in BOOLEAN /\ r.abort \in BOOLEAN
  BY DEF Session
<1>3. ScoConnectNotify(r, works) =
        IF works THEN Push(d, <<"conn">>) ELSE DisconnectSco(c, TRUE, TRUE, FALSE)
  BY DEF ScoConnectNotify
<1>4. r.sco = "Connecting" => Open(r) /\ ~r.abort /\ ~Owed(r)
  BY <1>2 DEF Open, Sound, Owed
<1> HIDE DEF c
<1>5. CASE works
  <2>1. /\ d \in Session /\ Open(d) /\ ~IsAsyncStarted(d) /\ ~Owed(d)
        /\ d.believes = r.believes /\ Sound(d)
    BY <1>1 DEF Session, Open, IsAsyncStarted, Owed, Sound
  <2> HIDE DEF d
  <2> DEFINE n == Push(d, <<"conn">>)
  <2>2. /\ n \in Session /\ Open(n) /\ ~IsAsyncStarted(n) /\ ~Owed(n)
        /\ n.believes = r.believes /\ Sound(n)
    BY <2>1, Pushed, SameViews DEF Frames, Callbacks
  <2> HIDE DEF n
  <2>3. Stutters(r, n) \/ Opens(r, n)
    BY <2>2, <1>4 DEF Stutters, Opens
  <2>4. ScoConnectNotify(r, works) = n
    BY <1>3, <1>5 DEF n
  <2> QED  BY <2>2, <2>3, <2>4 DEF Good, Moves
<1>6. CASE ~works /\ ~r.abort
  <2> DEFINE n == DisconnectSco(c, TRUE, TRUE, FALSE)
  <2>1. Sound(c)
    BY <1>1, <1>6 DEF Sound
  <2>2. ~Due(c)
    BY <1>1 DEF Due
  <2>3. Disconnected(c, n, TRUE, TRUE, FALSE)
    BY <1>1, <2>1, Disconnects
  <2> HIDE DEF n
  <2>4. /\ n \in Session /\ Sound(n) /\ ~Open(n) /\ ~IsAsyncStarted(n) /\ ~Owed(n)
        /\ (n.believes <=> c.believes)
    BY <2>2, <2>3 DEF Disconnected
  <2>5. n.believes = r.believes
    BY <2>4, <1>1, <1>2 DEF Session
  <2>6. ~Owed(r)
    BY <1>6 DEF Owed
  <2>7. Fails(r, n) \/ Stutters(r, n)
    BY <2>4, <2>5, <2>6, <1>4 DEF Fails, Stutters
  <2>8. ScoConnectNotify(r, works) = n
    BY <1>3, <1>6 DEF n
  <2> QED  BY <2>4, <2>7, <2>8 DEF Good, Moves
<1>7. CASE ~works /\ r.abort
  <2> DEFINE n == [c EXCEPT !.fault = "AbortPending"]
  <2>1. ScoConnectNotify(r, works) = n
    BY <1>1, <1>3, <1>7 DEF DisconnectSco
  <2>2. /\ n \in Session /\ Same(c, n) /\ n.fault # "none"
    BY <1>1 DEF Session, Same
  <2> HIDE DEF n
  <2>3. Open(n) /\ ~IsAsyncStarted(n) /\ ~Owed(n) /\ n.believes = r.believes
    BY <2>2, <1>1, SameViews
  <2>4. Opens(r, n)
    BY <2>3, <1>4, <1>7 DEF Opens
  <2> QED  BY <2>1, <2>2, <2>4 DEF Good, Moves
<1> QED  BY <1>2, <1>5, <1>6, <1>7

-----------------------------------------------------------------------------
(* Every action.                                                           *)

LEMMA ClientSteps ==
    ASSUME s \in Session, Sound(s), Ok,
           \/ SndOpen \/ SndClose \/ SndAsyncStart \/ ClientStops \/ Io \/ IssueCommand
    PROVE  Good(s, s') /\ s'.stack = s.stack
<1>1. s.believes \in BOOLEAN
  BY DEF Session
<1>2. CASE SndOpen
  <2>1. /\ s' \in Session /\ Sound(s') /\ Opens(s, s') /\ s'.stack = s.stack
    BY <1>2 DEF SndOpen, ScoConnect, Session, Sound, Opens, Open, Owed, IsAsyncStarted
  <2> QED  BY <2>1 DEF Good, Moves
<1>3. CASE SndClose
  <2> DEFINE n == DisconnectSco(s, FALSE, FALSE, FALSE)
  <2>1. Disconnected(s, n, FALSE, FALSE, FALSE)
    BY Disconnects
  <2>2. s' = [n EXCEPT !.believes = FALSE]
    BY <1>3 DEF SndClose
  <2> HIDE DEF n
  <2>3. /\ n \in Session /\ Sound(n) /\ ~Open(n) /\ ~IsAsyncStarted(n) /\ ~Owed(n)
        /\ n.stack = s.stack
    BY <2>1 DEF Disconnected
  <2>4. /\ s' \in Session /\ Sound(s') /\ Closes(s, s') /\ s'.stack = s.stack
    BY <2>2, <2>3 DEF Session, Sound, Closes, Open, IsAsyncStarted, Owed
  <2> QED  BY <2>4 DEF Good, Moves
<1>4. CASE SndAsyncStart
  <2>1. /\ s' \in Session /\ Sound(s') /\ Starts(s, s') /\ s'.stack = s.stack
    BY <1>4 DEF SndAsyncStart, Session, Sound, Starts, Open, Owed, IsAsyncStarted
  <2> QED  BY <2>1 DEF Good, Moves
<1>5. CASE ClientStops
  <2> DEFINE n == SndAsyncStop(s)
  <2>1. /\ n \in Session /\ ~IsAsyncStarted(n) /\ Sound(n) /\ Open(n) = Open(s) /\ ~Owed(n)
        /\ n.stack = s.stack
    BY StopSession
  <2>2. s' = [n EXCEPT !.believes = FALSE]
    BY <1>5 DEF ClientStops
  <2> HIDE DEF n
  <2>3. /\ s' \in Session /\ Sound(s') /\ Stops(s, s') /\ s'.stack = s.stack
    BY <2>1, <2>2 DEF Session, Sound, Stops, Open, IsAsyncStarted, Owed
  <2> QED  BY <2>3 DEF Good, Moves
<1>6. CASE Io
  <2>1. Same(s, s)
    BY DEF Same
  <2> QED  BY <1>6, <2>1, LostMoves DEF Io
<1>7. CASE IssueCommand
  BY <1>7, Marked, SameIsGood DEF IssueCommand
<1> QED  BY <1>2, <1>3, <1>4, <1>5, <1>6, <1>7

\* A session with a mark that has told of it or not.
LEMMA MarkedMoves ==
    ASSUME NEW r \in Session, Sound(r), NEW m \in Session, Same(r, m),
           NEW c \in Frames
    PROVE  Good(r, m) /\ Good(r, Push(m, <<c>>))
<1>1. Push(m, <<c>>) \in Session /\ Same(r, Push(m, <<c>>))
  BY Pushed, SameTwice
<1> QED  BY <1>1, SameIsGood

\* What is left to do of a disconnection calls the object of a command, or
\* goes on to the audio.
LEMMA RestSteps ==
    ASSUME s \in Session, Sound(s), Ok, CommandDeleted \/ AudioDisconnected
    PROVE  /\ Good(s, s')
           /\ Top({"quiet"}) => \/ s'.stack = Tail(s.stack)
                               \/ /\ s.command /\ ~s'.command
                                  /\ s'.stack = <<"command">> \o s.stack
<1>1. s.stack # <<>>
  BY DEF CommandDeleted, AudioDisconnected, Top, InLoop
<1>2. CASE CommandDeleted
  <2> DEFINE r == [s EXCEPT !.command = FALSE]
  <2>1. r \in Session /\ Same(s, r) /\ r.stack = s.stack /\ ~r.command
    <3>1. r \in Session /\ Same(s, r) /\ r.stack = s.stack
      BY Marked
    <3>2. ~r.command
      BY DEF Session
    <3> QED  BY <3>1, <3>2
  <2>2. s' = Push(r, <<"command">>) /\ s.command
    BY <1>2 DEF CommandDeleted
  <2> HIDE DEF r
  <2>3. "command" \in Frames
    BY DEF Frames, Callbacks
  <2>4. Good(s, s')
    BY <2>1, <2>2, <2>3, MarkedMoves
  <2>5. s'.stack = <<"command">> \o s.stack /\ ~s'.command
    BY <2>1, <2>2, <2>3, Pushed
  <2> QED  BY <2>2, <2>4, <2>5
<1>3. CASE AudioDisconnected
  <2> DEFINE t == Returned(s)
  <2>1. t \in Session /\ Same(s, t) /\ t.stack = Tail(s.stack)
    BY <1>1, ReturnedLooksSame
  <2> HIDE DEF t
  <2>2. \/ Top({"drop"}) /\ s' = LinkDropped(t)
        \/ Top({"quiet"}) /\ s' = LinkClosed(t)
    BY <1>3 DEF AudioDisconnected, t
  <2>3. Good(s, LinkDropped(t)) /\ Good(s, LinkClosed(t)) /\ LinkClosed(t).stack = t.stack
    BY <2>1, DroppedMoves, ClosedMoves
  <2>4. ~(Top({"drop"}) /\ Top({"quiet"}))
    BY DEF Top
  <2> QED  BY <2>1, <2>2, <2>3, <2>4
<1> QED  BY <1>2, <1>3

LEMMA ReturnSteps ==
    ASSUME s \in Session, Sound(s), Ok,
           \/ ClientReturns \/ PacketReturns \/ HandleAbortDone \/ DisconnectDone
    PROVE  Good(s, s')
<1> DEFINE t == Returned(s)
<1>1. s.stack # <<>>
  BY DEF ClientReturns, PacketReturns, HandleAbortDone, DisconnectDone, Top, InLoop
<1>2. t \in Session /\ Same(s, t)
  BY <1>1, ReturnedLooksSame
<1>3. \A b \in BOOLEAN :
        \A n \in {[t EXCEPT !.link = b], [t EXCEPT !.async = b], [t EXCEPT !.nvs = b]} :
           n \in Session /\ Same(s, n)
  <2> HIDE DEF t
  <2> TAKE b \in BOOLEAN
  <2> TAKE n \in {[t EXCEPT !.link = b], [t EXCEPT !.async = b], [t EXCEPT !.nvs = b]}
  <2>1. n \in Session /\ Same(t, n)
    BY <1>2, Marked
  <2> QED  BY <2>1, <1>2, SameTwice
<1>4. CASE ClientReturns
  BY <1>4, <1>2, SameIsGood DEF ClientReturns
<1>5. CASE PacketReturns
  <2> DEFINE r == [t EXCEPT !.async = FALSE]
  <2>1. s' = r \/ s' = Lost(r)
    BY <1>5 DEF PacketReturns
  <2>2. r \in Session /\ Same(s, r)
    BY <1>3
  <2> HIDE DEF r
  <2> QED  BY <2>1, <2>2, SameIsGood, LostMoves
<1>6. CASE HandleAbortDone
  <2> DEFINE r == [t EXCEPT !.nvs = FALSE]
  <2>1. s' = r \/ s' = Push(r, <<"conn">>)
    BY <1>6 DEF HandleAbortDone
  <2>2. r \in Session /\ Same(s, r)
    BY <1>3
  <2> HIDE DEF r
  <2> QED  BY <2>1, <2>2, MarkedMoves DEF Frames, Callbacks
<1>7. CASE DisconnectDone
  <2> DEFINE r == [t EXCEPT !.link = FALSE]
             f == [r EXCEPT !.fault = "AudioOutlivesLink"]
  <2>1. s' = r \/ s' = Push(r, <<"link">>) \/ s' = f
    BY <1>7 DEF DisconnectDone
  <2>2. r \in Session /\ Same(s, r)
    BY <1>3
  <2>3. f \in Session /\ Same(r, f)
    BY <2>2 DEF Session, Same
  <2> HIDE DEF r, f
  <2>4. Good(s, f)
    BY <2>2, <2>3, SameTwice, SameIsGood
  <2> QED  BY <2>1, <2>2, <2>4, MarkedMoves DEF Frames, Callbacks
<1> QED  BY <1>4, <1>5, <1>6, <1>7

LEMMA LoopSteps ==
    ASSUME s \in Session, Sound(s), Ok,
           \/ Disconnect \/ LinkUp \/ LinkLost \/ CommandAnswered \/ ScoWritable
           \/ ScoListenNotify \/ ScoReadable \/ AbortTimeout \/ InvoluntaryStop
    PROVE  Good(s, s')
<1>1. Same(s, s)
  BY DEF Same
<1>2. CASE Disconnect \/ LinkLost \/ InvoluntaryStop
  <2>1. \A c \in {"quiet", "drop"} : Push(s, <<c>>) \in Session /\ Same(s, Push(s, <<c>>))
    BY Pushed DEF Frames
  <2>2. s' \in {s, Push(s, <<"quiet">>), Push(s, <<"drop">>)}
    BY <1>2 DEF Disconnect, LinkLost, InvoluntaryStop
  <2> QED  BY <1>1, <2>1, <2>2, SameIsGood
<1>8. CASE CommandAnswered
  <2> DEFINE r == [s EXCEPT !.command = FALSE]
  <2>1. s' = Push(r, <<"command">>)
    BY <1>8 DEF CommandAnswered
  <2>2. r \in Session /\ Same(s, r)
    BY Marked
  <2> HIDE DEF r
  <2> QED  BY <2>1, <2>2, MarkedMoves DEF Frames, Callbacks
<1>3. CASE LinkUp
  <2>1. s' \in {[s EXCEPT !.link = TRUE], [s EXCEPT !.async = TRUE], [s EXCEPT !.nvs = TRUE]}
    BY <1>3 DEF LinkUp
  <2> QED  BY <2>1, Marked, SameIsGood
<1>4. CASE ScoWritable
  <2>1. s.sco = "Connecting" /\ ~IsAsyncStarted(s)
    BY <1>4 DEF ScoWritable, Sound, IsAsyncStarted
  <2> QED  BY <1>4, <2>1, NotifiedMoves DEF ScoWritable
<1>5. CASE ScoListenNotify
  <2>1. ~Open(s) /\ ~IsAsyncStarted(s)
    BY <1>5 DEF ScoListenNotify, Open, IsAsyncStarted
  <2> QED  BY <1>5, <2>1, NotifiedMoves DEF ScoListenNotify
<1>6. CASE ScoReadable
  <2> DEFINE r == [s EXCEPT !.async = TRUE]
  <2>1. s' = Lost(s) \/ s' = Push(r, <<"packet">>)
    BY <1>6 DEF ScoReadable
  <2>2. r \in Session /\ Same(s, r)
    BY Marked
  <2> HIDE DEF r
  <2> QED  BY <1>1, <2>1, <2>2, LostMoves, MarkedMoves DEF Frames, Callbacks
<1>7. CASE AbortTimeout
  <2>1. /\ s' \in Session /\ s'.sco = s.sco /\ s'.notifier = s.notifier /\ ~s'.abort
        /\ s'.believes = (s.believes /\ ~s.nas)
    BY <1>7, HandleAbort DEF AbortTimeout
  <2>2. s.sco = "Invalid" /\ s.abort /\ s.nas \in BOOLEAN /\ s.believes \in BOOLEAN
    BY <1>7 DEF AbortTimeout, Sound, Session
  <2>3. /\ ~Open(s) /\ ~Open(s') /\ ~IsAsyncStarted(s) /\ ~IsAsyncStarted(s')
        /\ (Owed(s) <=> s.nas) /\ ~Owed(s') /\ Sound(s')
    BY <2>1, <2>2 DEF Open, IsAsyncStarted, Owed, Sound
  <2>4. s.nas => ~s'.believes
    BY <2>1
  <2>5. ~s.nas => s'.believes = s.believes
    BY <2>1, <2>2
  <2>6. Tells(s, s') \/ Stutters(s, s')
    BY <2>3, <2>4, <2>5 DEF Tells, Stutters
  <2> QED  BY <2>1, <2>3, <2>6 DEF Good, Moves
<1> QED  BY <1>2, <1>3, <1>4, <1>5, <1>6, <1>7, <1>8

\* A step leaves the session alone or is one of those.
LEMMA SessionStep ==
    ASSUME SessionInv, [Next]_vars
    PROVE  SessionInv' /\ [Endpoint!Next]_(Endpoint!vars)
<1>1. CASE UNCHANGED s
  <2>1. SessionInv'
    BY <1>1 DEF SessionInv, Ok
  <2>2. UNCHANGED Endpoint!vars
    BY <1>1 DEF Endpoint!vars, IsAsyncStarted
  <2> QED  BY <2>1, <2>2
<1>2. CASE s' # s
  <2>1. Ok
    BY <1>2
    DEF Next, vars, SndOpen, SndClose, SndAsyncStart, ClientStops, Io, Disconnect, IssueCommand,
        ClientReturns, PacketReturns, HandleAbortDone, CommandDeleted, AudioDisconnected,
        DisconnectDone, LinkUp, LinkLost, CommandAnswered, ScoWritable, ScoListenNotify, ScoReadable, AbortTimeout, Start, Stop, InvoluntaryStop,
        SetScoEnabled, SetConfig, InClient
  <2>2. \/ SndOpen \/ SndClose \/ SndAsyncStart \/ ClientStops \/ Io \/ IssueCommand
        \/ ClientReturns \/ PacketReturns \/ HandleAbortDone \/ DisconnectDone
        \/ CommandDeleted \/ AudioDisconnected
        \/ Disconnect \/ LinkUp \/ LinkLost \/ CommandAnswered \/ ScoWritable
        \/ ScoListenNotify \/ ScoReadable \/ AbortTimeout \/ InvoluntaryStop
    BY <1>2 DEF Next, vars, Start, Stop, SetScoEnabled, SetConfig
  <2>3. Good(s, s')
    BY <2>1, <2>2, ClientSteps, ReturnSteps, RestSteps, LoopSteps DEF SessionInv
  <2>4. s \in Session /\ s' \in Session /\ Moves(s, s')
    BY <2>3 DEF Good, SessionInv
  <2>5. SessionInv'
    BY <2>3 DEF Good, SessionInv, Ok
  <2> QED  BY <2>4, <2>5, MovesAreSteps
<1> QED  BY <1>1, <1>2

LEMMA SessionStarts ==
    ASSUME Init
    PROVE  SessionInv /\ Endpoint!Init
<1>1. s = SessionInit
  BY DEF Init
<1>2. <<>> \in Seq(Frames)
  OBVIOUS
<1> HIDE DEF Frames
<1>3. SessionInit \in Session
  BY <1>2 DEF SessionInit, Session
<1>4. Sound(SessionInit)
  BY DEF Sound, SessionInit
<1> QED  BY <1>1, <1>3, <1>4 DEF SessionInv, SessionInit, Endpoint!Init, IsAsyncStarted

-----------------------------------------------------------------------------
(* The theorems.                                                           *)

\* Whatever fails while the hub or the service starts, stops or is set up
\* (Start, Stop, SetCaps, SetServiceName, SetScoEnabled and their rollbacks),
\* the service listens when it is enabled, and the SDP server advertises the
\* configuration or nothing.
THEOREM ServiceAlwaysMatches == Spec => []ServiceMatchesConfig
<1>1. Init => ServiceInv
  BY ServiceStarts
<1>2. ServiceInv /\ [Next]_vars => ServiceInv'
  BY ServiceStep
<1>3. ServiceInv => ServiceMatchesConfig
  BY DEF ServiceInv
<1> QED  BY <1>1, <1>2, <1>3, PTL DEF Spec

\* An abort is pending only while there is no connection, and the socket is
\* waited for only while it connects, until an assertion fails.
THEOREM SessionAlwaysSound == Spec => []SessionInv
<1>1. Init => SessionInv
  BY SessionStarts
<1>2. SessionInv /\ [Next]_vars => SessionInv'
  BY SessionStep
<1> QED  BY <1>1, <1>2, PTL DEF Spec

\* The methods of the session (SndOpen, SndClose, SndAsyncStart, SndAsyncStop,
\* SndGetIBuf, SndQueueOBuf, those that issue a command) call nobody back, and
\* Disconnect only the objects of the commands that it deletes.
THEOREM MethodsDoNotCall == Spec => NoCallsFromMethods
<1> DEFINE Quiet == /\ Method => s'.stack \in {s.stack, <<"quiet">> \o s.stack}
                    /\ RestOfDisconnect =>
                          \/ s'.stack = Tail(s.stack)
                          \/ s.command /\ ~s'.command /\ s'.stack = <<"command">> \o s.stack
<1>1. SessionInv /\ [Next]_vars => [Quiet]_vars
  <2> SUFFICES ASSUME SessionInv PROVE Quiet
    OBVIOUS
  <2>1. ASSUME Method PROVE s'.stack \in {s.stack, <<"quiet">> \o s.stack}
    <3>1. Ok
      BY <2>1 DEF Method, SndOpen, SndClose, SndAsyncStart, ClientStops, Io, Disconnect,
                  IssueCommand, InClient
    <3>2. s \in Session /\ Sound(s)
      BY <3>1 DEF SessionInv
    <3>3. CASE Disconnect
      <4>1. "quiet" \in Frames
        BY DEF Frames
      <4>2. s' = Push(s, <<"quiet">>)
        BY <3>3 DEF Disconnect
      <4> QED  BY <3>2, <4>1, <4>2, Pushed
    <3>4. CASE ~Disconnect
      BY <2>1, <3>1, <3>2, <3>4, ClientSteps DEF Method
    <3> QED  BY <3>3, <3>4
  <2>2. ASSUME RestOfDisconnect
        PROVE  \/ s'.stack = Tail(s.stack)
               \/ s.command /\ ~s'.command /\ s'.stack = <<"command">> \o s.stack
    <3>1. Ok
      BY <2>2 DEF RestOfDisconnect, CommandDeleted, AudioDisconnected
    <3> QED  BY <2>2, <3>1, RestSteps DEF RestOfDisconnect, SessionInv
  <2> QED  BY <2>1, <2>2
<1>2. Spec => []SessionInv
  BY SessionAlwaysSound
<1> QED  BY <1>1, <1>2, PTL DEF Spec, NoCallsFromMethods

\* The safety part of ImplementsEndpoint: every step of the session and of its
\* service is a step of the endpoint that soundio.h promises, or one that its
\* client does not notice.
THEOREM EndpointSafety == Spec => Endpoint!Init /\ [][Endpoint!Next]_(Endpoint!vars)
<1>1. Init => Endpoint!Init
  BY SessionStarts
<1>2. SessionInv /\ [Next]_vars => [Endpoint!Next]_(Endpoint!vars)
  BY SessionStep
<1>3. Spec => []SessionInv
  BY SessionAlwaysSound
<1> QED  BY <1>1, <1>2, <1>3, PTL DEF Spec
=============================================================================
