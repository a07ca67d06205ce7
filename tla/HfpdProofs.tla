----------------------------- MODULE HfpdProofs -----------------------------
(***************************************************************************)
(* Proofs about the audio of hfpd (HfpdAudio) and about its settings       *)
(* (HfpdSettings).                                                         *)
(***************************************************************************)
EXTENDS HfpdAudio, HfpdSettings, Integers, TLAPS, FiniteSetTheorems, WellFoundedInduction

Gateways ==
    [exists : BOOLEAN, known : BOOLEAN, owner : Client \cup {None}, unbind : BOOLEAN,
     bind : BOOLEAN, conn : Links, audio : Links, told : Links, watched : BOOLEAN,
     streams : BOOLEAN, stop : BOOLEAN, voice : BOOLEAN]

Sounds ==
    [state : Idle \cup Streams, bound : Gateway \cup {None}, holder : Client \cup {None},
     running : BOOLEAN, secondary : Gateway \cup {None, "File", "Membuf"}, dsp : BOOLEAN,
     membuf : BOOLEAN, volume : BOOLEAN, snoop : {"none", "installed", "dangling"},
     cut : BOOLEAN, fault : {"none", "NotStopped", "MembufFreed", "SnoopFreed"}]

DaemonStates == [ag : [Gateway -> Gateways], on : SUBSET Options, snd : Sounds]

Gatewayed == {"Connecting", "AudioGateway"}
Own == {"File", "Loopback", "Membuf"}

(* The parts of the invariant.  Routing is about the stream, Linked and       *)
(* Persists about a gateway, and the rest about both.                        *)

Routing(u) ==
    /\ u.running <=> u.state \in Streams
    /\ u.bound # None <=> u.state \in Gatewayed
    /\ u.holder # None <=> u.state \in Own
    /\ u.dsp <=> u.state # "File"
    /\ u.cut => u.state = "AudioGateway"
    /\ u.state = "AudioGateway" => u.secondary = u.bound
    /\ u.state = "File" => u.secondary = "File"
    /\ u.state = "Membuf" => u.secondary = "Membuf"
    /\ u.state \in {"Connecting", "Loopback"} => u.secondary = None
    /\ u.state = "Stopped" => u.secondary \in {None, "Membuf"}
    /\ u.secondary = "Membuf" => u.membuf

Linked(g) ==
    /\ g.audio # "Disconnected" => g.conn = "Connected"
    /\ g.watched <=> g.audio = "Connecting"
    /\ g.streams => g.audio = "Connected"
    /\ g.stop => g.audio = "Disconnected"

Persists(g) == g.unbind => g.conn # "Disconnected"

Streaming(u, a) == u.state = "AudioGateway" /\ u.bound = a
Waiting(u, a) == u.state = "Connecting" /\ u.bound = a

Claims(u, g, a) ==
    /\ g.bind <=> Waiting(u, a)
    /\ g.streams \/ g.stop \/ g.unbind => Streaming(u, a)

Awaits(u, g, a) == Waiting(u, a) => g.audio = "Connecting"
Feeds(u, g, a) == Streaming(u, a) => g.streams \/ g.stop \/ u.cut

Fits(u, g, a) == Linked(g) /\ Persists(g) /\ Claims(u, g, a)
Whole(u, g, a) == Fits(u, g, a) /\ Awaits(u, g, a) /\ Feeds(u, g, a)

Agree(r) == Routing(r.snd) /\ \A a \in Gateway : Whole(r.snd, r.ag[a], a)

\* No assertion has failed.
Fine(r) == r.snd.fault = "none"

IInv == d \in DaemonStates /\ (Fine(d) => Agree(d))

-----------------------------------------------------------------------------
(* What every method leaves alone: q follows r.                              *)

Kept(r, q) ==
    /\ q.on = r.on
    /\ q.snd.membuf = r.snd.membuf
    /\ \A a \in Gateway : /\ q.ag[a].exists = r.ag[a].exists
                          /\ q.ag[a].owner = r.ag[a].owner
                          /\ q.ag[a].known = r.ag[a].known
                          /\ q.ag[a].conn \in {r.ag[a].conn, "Disconnected"}

Quiet(r, q) ==
    \A a \in Gateway : r.ag[a].audio = "Disconnected" => q.ag[a].audio = "Disconnected"

Follows(r, q) == Kept(r, q) /\ Quiet(r, q) /\ (Fine(q) => Fine(r))

LEMMA FollowsItself == ASSUME NEW r PROVE Follows(r, r)
  BY DEF Follows, Kept, Quiet

LEMMA FollowsOn ==
    ASSUME NEW r, NEW q, NEW t, Follows(r, q), Follows(q, t)
    PROVE  Follows(r, t)
  <1>1. Kept(r, t)
    BY DEF Follows, Kept
  <1>2. Quiet(r, t)
    BY DEF Follows, Quiet
  <1> QED BY <1>1, <1>2 DEF Follows

LEMMA KeptOn ==
    ASSUME NEW r, NEW q, NEW t, Kept(r, q), Kept(q, t)
    PROVE  Kept(r, t)
  BY DEF Kept

\* Only the stream changes.
LEMMA StreamChanged ==
    ASSUME NEW r \in DaemonStates, NEW q, NEW u \in Sounds, q = [r EXCEPT !.snd = u]
    PROVE  /\ q \in DaemonStates
           /\ q.on = r.on
           /\ q.snd = u
           /\ q.ag = r.ag
  BY DEF DaemonStates

LEMMA CheckedIs ==
    ASSUME NEW r \in DaemonStates, NEW p \in BOOLEAN, NEW name,
           Fine(r) => p \/ name \in {"NotStopped", "MembufFreed", "SnoopFreed"}
    PROVE  LET q == Checked(r, p, name) IN
           /\ q \in DaemonStates
           /\ Follows(r, q)
           /\ q.ag = r.ag
           /\ q.snd = [r.snd EXCEPT !.fault = q.snd.fault]
           /\ Fine(q) => p /\ q = r
  <1>1. r.snd \in Sounds
    BY DEF DaemonStates
  <1>2. CASE p \/ ~Fine(r)
    <2>1. Checked(r, p, name) = r
      BY <1>2 DEF Checked, Fine
    <2>2. r.snd = [r.snd EXCEPT !.fault = r.snd.fault]
      BY <1>1 DEF Sounds
    <2> QED BY <1>2, <2>1, <2>2, FollowsItself
  <1>3. CASE ~p /\ Fine(r)
    <2> DEFINE u == [r.snd EXCEPT !.fault = name]
               q == Checked(r, p, name)
    <2>1. q = [r EXCEPT !.snd = u]
      BY <1>3 DEF Checked, Fine, DaemonStates
    <2>2. u \in Sounds
      BY <1>1, <1>3 DEF Sounds
    <2>3. q \in DaemonStates /\ q.on = r.on /\ q.snd = u /\ q.ag = r.ag
      <3> HIDE DEF u, q
      <3> QED BY <2>1, <2>2, StreamChanged
    <2>4. u.fault = name /\ name # "none" /\ u.membuf = r.snd.membuf
      BY <1>1, <1>3 DEF Sounds
    <2>5. Follows(r, q) /\ ~Fine(q)
      <3> HIDE DEF u, q
      <3> QED BY <1>3, <2>3, <2>4 DEF Follows, Kept, Quiet, Fine
    <2> QED BY <2>3, <2>4, <2>5
  <1> QED BY <1>2, <1>3

-----------------------------------------------------------------------------
(* What the small steps do to a gateway and to the stream.                   *)

ClosedOf(g) ==
    [g EXCEPT !.audio = "Disconnected", !.watched = FALSE,
              !.streams = FALSE, !.stop = FALSE, !.voice = FALSE]

OpenedOf(g, audio) ==
    [g EXCEPT !.audio = audio, !.watched = (audio = "Connecting"),
              !.stop = FALSE, !.voice = FALSE]

PartedOf(g) ==
    [g EXCEPT !.conn = "Disconnected", !.audio = "Disconnected", !.watched = FALSE,
              !.streams = FALSE, !.stop = g.stop \/ g.streams, !.voice = FALSE]

\* SndClose: everything the session has pending is withdrawn.
LEMMA SndCloseIs ==
    ASSUME NEW r \in DaemonStates, NEW a \in Gateway
    PROVE  LET q == SndClose(r, a) IN
           /\ q \in DaemonStates
           /\ q.on = r.on
           /\ q.snd = [r.snd EXCEPT !.cut = @ \/ r.ag[a].streams \/ r.ag[a].stop]
           /\ q.ag[a] = ClosedOf(r.ag[a])
           /\ \A b \in Gateway \ {a} : q.ag[b] = r.ag[b]
  <1> DEFINE g == ClosedOf(r.ag[a])
             u == [r.snd EXCEPT !.cut = @ \/ r.ag[a].streams \/ r.ag[a].stop]
             q == SndClose(r, a)
  <1>1. r.ag[a] \in Gateways /\ r.snd \in Sounds
    BY DEF DaemonStates
  <1>2. g \in Gateways
    BY <1>1 DEF ClosedOf, Gateways, Links
  <1>3. u \in Sounds
    BY <1>1 DEF Sounds, Gateways
  <1>4. q = [r EXCEPT !.ag[a] = g, !.snd = u]
    BY DEF SndClose, ClosedOf, DaemonStates
  <1> HIDE DEF g, u, q
  <1>5. /\ q \in DaemonStates /\ q.on = r.on /\ q.snd = u /\ q.ag[a] = g
        /\ \A b \in Gateway \ {a} : q.ag[b] = r.ag[b]
    BY <1>2, <1>3, <1>4 DEF DaemonStates
  <1> QED BY <1>5 DEF g, u, q

LEMMA OpenedIs ==
    ASSUME NEW r \in DaemonStates, NEW a \in Gateway, NEW audio \in Links
    PROVE  LET q == Opened(r, a, audio) IN
           /\ q \in DaemonStates
           /\ q.on = r.on
           /\ q.snd = [r.snd EXCEPT !.cut = @ \/ r.ag[a].stop]
           /\ q.ag[a] = OpenedOf(r.ag[a], audio)
           /\ \A b \in Gateway \ {a} : q.ag[b] = r.ag[b]
  <1> DEFINE g == OpenedOf(r.ag[a], audio)
             u == [r.snd EXCEPT !.cut = @ \/ r.ag[a].stop]
             q == Opened(r, a, audio)
  <1>1. r.ag[a] \in Gateways /\ r.snd \in Sounds
    BY DEF DaemonStates
  <1>2. g \in Gateways
    BY <1>1 DEF OpenedOf, Gateways
  <1>3. u \in Sounds
    BY <1>1 DEF Sounds, Gateways
  <1>4. q = [r EXCEPT !.ag[a] = g, !.snd = u]
    BY DEF Opened, OpenedOf, DaemonStates
  <1> HIDE DEF g, u, q
  <1>5. /\ q \in DaemonStates /\ q.on = r.on /\ q.snd = u /\ q.ag[a] = g
        /\ \A b \in Gateway \ {a} : q.ag[b] = r.ag[b]
    BY <1>2, <1>3, <1>4 DEF DaemonStates
  <1> QED BY <1>5 DEF g, u, q

LEMMA SessionDisconnectIs ==
    ASSUME NEW r \in DaemonStates, NEW a \in Gateway
    PROVE  LET q == SessionDisconnect(r, a) IN
           /\ q \in DaemonStates
           /\ q.on = r.on
           /\ q.snd = r.snd
           /\ q.ag[a] = PartedOf(r.ag[a])
           /\ \A b \in Gateway \ {a} : q.ag[b] = r.ag[b]
  <1> DEFINE g == PartedOf(r.ag[a])
             q == SessionDisconnect(r, a)
  <1>1. r.ag[a] \in Gateways
    BY DEF DaemonStates
  <1>2. g \in Gateways
    BY <1>1 DEF PartedOf, Gateways, Links
  <1>3. q = [r EXCEPT !.ag[a] = g]
    BY <1>1 DEF SessionDisconnect, PartedOf, DaemonStates, Gateways
  <1> HIDE DEF g, q
  <1>4. /\ q \in DaemonStates /\ q.on = r.on /\ q.snd = r.snd /\ q.ag[a] = g
        /\ \A b \in Gateway \ {a} : q.ag[b] = r.ag[b]
    BY <1>2, <1>3 DEF DaemonStates
  <1> QED BY <1>4 DEF g, q

LEMMA PartedIs ==
    ASSUME NEW r \in DaemonStates, NEW a \in Gateway
    PROVE  LET q == Parted(r, a) IN
           /\ q \in DaemonStates
           /\ q.on = r.on
           /\ q.snd = r.snd
           /\ q.ag[a] = [r.ag[a] EXCEPT !.unbind = FALSE, !.told = "Disconnected"]
           /\ \A b \in Gateway \ {a} : q.ag[b] = r.ag[b]
  <1> DEFINE g == [r.ag[a] EXCEPT !.unbind = FALSE, !.told = "Disconnected"]
             q == Parted(r, a)
  <1>1. r.ag[a] \in Gateways
    BY DEF DaemonStates
  <1>2. g \in Gateways
    BY <1>1 DEF Gateways, Links
  <1>3. q = [r EXCEPT !.ag[a] = g]
    BY DEF Parted, DaemonStates
  <1> HIDE DEF g, q
  <1>4. /\ q \in DaemonStates /\ q.on = r.on /\ q.snd = r.snd /\ q.ag[a] = g
        /\ \A b \in Gateway \ {a} : q.ag[b] = r.ag[b]
    BY <1>2, <1>3 DEF DaemonStates
  <1> QED BY <1>4 DEF g, q

\* What a call hears of: only m_audio_state changes.
LEMMA ToldIs ==
    ASSUME NEW r \in DaemonStates, NEW a \in Gateway, NEW val \in Links
    PROVE  LET q == [r EXCEPT !.ag[a].told = val] IN
           /\ q \in DaemonStates
           /\ q.on = r.on
           /\ q.snd = r.snd
           /\ q.ag[a] = [r.ag[a] EXCEPT !.told = val]
           /\ \A b \in Gateway \ {a} : q.ag[b] = r.ag[b]
  <1> DEFINE g == [r.ag[a] EXCEPT !.told = val]
             q == [r EXCEPT !.ag[a].told = val]
  <1>1. r.ag[a] \in Gateways
    BY DEF DaemonStates
  <1>2. g \in Gateways
    BY <1>1 DEF Gateways
  <1>3. q = [r EXCEPT !.ag[a] = g]
    BY DEF DaemonStates
  <1> HIDE DEF g, q
  <1>4. /\ q \in DaemonStates /\ q.on = r.on /\ q.snd = r.snd /\ q.ag[a] = g
        /\ \A b \in Gateway \ {a} : q.ag[b] = r.ag[b]
    BY <1>2, <1>3 DEF DaemonStates
  <1> QED BY <1>4 DEF g, q

\* Stopping the sound manager ends the stream of its secondary endpoint.
LEMMA SoundStopIs ==
    ASSUME NEW r \in DaemonStates
    PROVE  LET q == SoundStop(r) IN
           /\ q \in DaemonStates
           /\ q.on = r.on
           /\ q.snd = [r.snd EXCEPT !.running = FALSE]
           /\ \A a \in Gateway :
                 q.ag[a] = IF r.snd.running /\ a = r.snd.secondary
                           THEN [r.ag[a] EXCEPT !.streams = FALSE, !.watched = FALSE, !.stop = FALSE]
                           ELSE r.ag[a]
  <1> DEFINE q == SoundStop(r)
             u == [r.snd EXCEPT !.running = FALSE]
             Rest(a) == [r.ag[a] EXCEPT !.streams = FALSE, !.watched = FALSE, !.stop = FALSE]
             h == [a \in Gateway |-> IF a \in {r.snd.secondary} THEN Rest(a) ELSE r.ag[a]]
  <1>1. r.snd \in Sounds /\ \A a \in Gateway : r.ag[a] \in Gateways
    BY DEF DaemonStates
  <1>2. CASE ~r.snd.running
    <2>1. q = r
      BY <1>2 DEF SoundStop
    <2>2. r.snd = u
      BY <1>1, <1>2 DEF Sounds
    <2> HIDE DEF u, q
    <2>3. q.snd = u
      BY <2>1, <2>2
    <2> QED BY <1>2, <2>1, <2>3 DEF u, q
  <1>3. CASE r.snd.running
    <2>1. u \in Sounds
      BY <1>1 DEF Sounds
    <2>2. \A a \in Gateway : Rest(a) \in Gateways
      BY <1>1 DEF Gateways
    <2>3. q = [r EXCEPT !.snd = u, !.ag = h]
      BY <1>3 DEF SoundStop, StopsAll, DaemonStates
    <2>4. h \in [Gateway -> Gateways]
      <3> HIDE DEF Rest
      <3> QED BY <1>1, <2>2
    <2>5. \A a \in Gateway : h[a] = IF r.snd.running /\ a = r.snd.secondary THEN Rest(a) ELSE r.ag[a]
      <3> HIDE DEF Rest
      <3> QED BY <1>3
    <2>6. q \in DaemonStates /\ q.on = r.on /\ q.snd = u /\ q.ag = h
      <3> HIDE DEF h, u, q
      <3> QED BY <2>1, <2>3, <2>4 DEF DaemonStates
    <2> HIDE DEF h, u, q
    <2>7. \A a \in Gateway : q.ag[a] = IF r.snd.running /\ a = r.snd.secondary THEN Rest(a) ELSE r.ag[a]
      BY <2>5, <2>6
    <2> QED BY <2>6, <2>7 DEF u, q
  <1> QED BY <1>2, <1>3

-----------------------------------------------------------------------------
(* The release of the stream.                                                *)

\* What NotifyAudioConnection does at the end of EpRelease.
LEMMA AudioClosedIs ==
    ASSUME NEW r \in DaemonStates, NEW a \in Gateway
    PROVE  LET q == AudioClosed(r, a)
               g == r.ag[a]
               h == q.ag[a]
           IN  /\ q \in DaemonStates
               /\ q.on = r.on
               /\ q.snd = r.snd
               /\ \A b \in Gateway \ {a} : q.ag[b] = r.ag[b]
               /\ ~h.unbind
               /\ h.exists = g.exists /\ h.known = g.known /\ h.owner = g.owner
               /\ h.bind = g.bind
               /\ h.conn = IF g.unbind THEN "Disconnected" ELSE g.conn
               /\ h.audio = IF g.unbind THEN "Disconnected" ELSE g.audio
               /\ h.watched = IF g.unbind THEN FALSE ELSE g.watched
               /\ h.streams = IF g.unbind THEN FALSE ELSE g.streams
               /\ h.stop = IF g.unbind THEN (g.stop \/ g.streams) ELSE g.stop
  <1> DEFINE q == AudioClosed(r, a)
             g == r.ag[a]
             h == q.ag[a]
  <1>0. g \in Gateways
    BY DEF DaemonStates
  <1>1. CASE ~g.unbind
    <2> DEFINE t == [r EXCEPT !.ag[a].told = "Disconnected"]
    <2>1. q = t
      BY <1>1 DEF AudioClosed
    <2>0. /\ t \in DaemonStates /\ t.on = r.on /\ t.snd = r.snd
          /\ t.ag[a] = [r.ag[a] EXCEPT !.told = "Disconnected"]
          /\ \A b \in Gateway \ {a} : t.ag[b] = r.ag[b]
      <3>1. "Disconnected" \in Links
        BY DEF Links
      <3> QED BY <3>1, ToldIs
    <2> HIDE DEF t, q
    <2>2. /\ q \in DaemonStates /\ q.on = r.on /\ q.snd = r.snd
          /\ h = [g EXCEPT !.told = "Disconnected"]
          /\ \A b \in Gateway \ {a} : q.ag[b] = r.ag[b]
      BY <2>1, <2>0
    <2> HIDE DEF g, h
    <2>3. /\ h.exists = g.exists /\ h.known = g.known /\ h.owner = g.owner
          /\ h.bind = g.bind /\ h.conn = g.conn /\ h.audio = g.audio /\ h.watched = g.watched
          /\ h.streams = g.streams /\ h.stop = g.stop /\ h.unbind = g.unbind
      BY <1>0, <2>2 DEF Gateways
    <2>4. ~h.unbind
      BY <2>3, <1>1
    <2> QED BY <1>1, <2>2, <2>3, <2>4 DEF q, g, h
  <1>2. CASE g.unbind
    <2> DEFINE p == SessionDisconnect(r, a)
               k == PartedOf(g)
    <2>1. q = Parted(p, a)
      BY <1>2 DEF AudioClosed
    <2>2. /\ p \in DaemonStates /\ p.on = r.on /\ p.snd = r.snd /\ p.ag[a] = k
          /\ \A b \in Gateway \ {a} : p.ag[b] = r.ag[b]
      BY SessionDisconnectIs
    <2>3. /\ k.exists = g.exists /\ k.known = g.known /\ k.owner = g.owner /\ k.bind = g.bind
          /\ k.conn = "Disconnected" /\ k.audio = "Disconnected" /\ k.watched = FALSE
          /\ k.streams = FALSE /\ k.stop = (g.stop \/ g.streams)
      BY <1>0 DEF Gateways, PartedOf
    <2> HIDE DEF p, k, q
    <2>4. /\ q \in DaemonStates /\ q.on = p.on /\ q.snd = p.snd
          /\ h = [p.ag[a] EXCEPT !.unbind = FALSE, !.told = "Disconnected"]
          /\ \A b \in Gateway \ {a} : q.ag[b] = p.ag[b]
      BY <2>1, <2>2, PartedIs, ZenonT(30)
    <2>5. k \in Gateways
      BY <2>2 DEF DaemonStates
    <2> HIDE DEF g, h
    <2>6. /\ h.exists = k.exists /\ h.known = k.known /\ h.owner = k.owner /\ h.bind = k.bind
          /\ h.conn = k.conn /\ h.audio = k.audio /\ h.watched = k.watched
          /\ h.streams = k.streams /\ h.stop = k.stop /\ ~h.unbind
      BY <2>2, <2>4, <2>5 DEF Gateways
    <2> QED BY <1>2, <2>2, <2>3, <2>4, <2>6 DEF q, g, h
  <1> QED BY <1>1, <1>2

\* The stream is for nobody, and nobody has anything to do with it.
Free(u) ==
    /\ ~u.running /\ u.bound = None /\ u.holder = None
    /\ u.secondary = None /\ u.dsp /\ ~u.cut

Apart(g) == Linked(g) /\ ~g.bind /\ ~g.streams /\ ~g.stop /\ ~g.unbind

Rested(r) == r.snd.state = "Stopped" /\ Free(r.snd) /\ \A a \in Gateway : Apart(r.ag[a])

LEMMA RestedAgrees ==
    ASSUME NEW r \in DaemonStates, Rested(r)
    PROVE  Agree(r)
  <1>1. Routing(r.snd)
    BY GatewayAssumption DEF Rested, Free, Routing, Streams, Gatewayed, Own, DaemonStates, Sounds
  <1>2. \A a \in Gateway : Whole(r.snd, r.ag[a], a)
    BY DEF Rested, Apart, Whole, Fits, Persists, Claims, Awaits, Feeds, Waiting, Streaming
  <1> QED BY <1>1, <1>2 DEF Agree

\* The stream with a is still to be taken apart: no other gateway is concerned.
Nearly(r, a) ==
    /\ ~r.snd.running /\ r.snd.bound = a /\ r.snd.holder = None
    /\ r.snd.secondary = None /\ r.snd.dsp
    /\ \A b \in Gateway \ {a} : Apart(r.ag[b])

LEMMA UnboundFromFrees ==
    ASSUME NEW r \in DaemonStates, NEW a \in Gateway
    PROVE  LET q == UnboundFrom(r, a) IN
           /\ q \in DaemonStates
           /\ Follows(r, q)
           /\ Nearly(r, a) => Free(q.snd) /\ \A b \in Gateway : Apart(q.ag[b])
  <1> DEFINE q == UnboundFrom(r, a)
             s == SndClose(r, a)
             c == ClosedOf(r.ag[a])
             p == [s EXCEPT !.ag[a].bind = FALSE]
             k == [c EXCEPT !.bind = FALSE]
             t == AudioClosed(p, a)
             u == [t.snd EXCEPT !.bound = None, !.cut = FALSE]
  <1>1. /\ s \in DaemonStates /\ s.on = r.on
        /\ s.snd = [r.snd EXCEPT !.cut = @ \/ r.ag[a].streams \/ r.ag[a].stop]
        /\ s.ag[a] = c /\ \A b \in Gateway \ {a} : s.ag[b] = r.ag[b]
    BY SndCloseIs
  <1>2. r.ag[a] \in Gateways /\ r.snd \in Sounds /\ c \in Gateways
    BY <1>1 DEF DaemonStates
  <1>3. /\ c.exists = r.ag[a].exists /\ c.known = r.ag[a].known /\ c.owner = r.ag[a].owner
        /\ c.conn = r.ag[a].conn /\ c.audio = "Disconnected" /\ c.watched = FALSE
        /\ c.streams = FALSE /\ c.stop = FALSE /\ c.unbind = r.ag[a].unbind
    BY <1>2 DEF ClosedOf, Gateways
  <1> HIDE DEF s, c
  <1>4. k \in Gateways /\ p = [s EXCEPT !.ag[a] = k]
    BY <1>1, <1>2 DEF Gateways, DaemonStates
  <1>5. /\ k.exists = c.exists /\ k.known = c.known /\ k.owner = c.owner
        /\ k.conn = c.conn /\ k.audio = c.audio /\ k.watched = c.watched
        /\ k.streams = c.streams /\ k.stop = c.stop /\ k.unbind = c.unbind /\ k.bind = FALSE
    BY <1>2 DEF Gateways
  <1>6. /\ s.snd.running = r.snd.running /\ s.snd.bound = r.snd.bound
        /\ s.snd.holder = r.snd.holder /\ s.snd.secondary = r.snd.secondary
        /\ s.snd.dsp = r.snd.dsp /\ s.snd.membuf = r.snd.membuf /\ s.snd.fault = r.snd.fault
    BY <1>1, <1>2 DEF Sounds
  <1> HIDE DEF p, k
  <1>7. /\ p \in DaemonStates /\ p.on = s.on /\ p.snd = s.snd /\ p.ag[a] = k
        /\ \A b \in Gateway \ {a} : p.ag[b] = s.ag[b]
    BY <1>1, <1>4 DEF DaemonStates
  <1>8. /\ t \in DaemonStates /\ t.on = p.on /\ t.snd = p.snd
        /\ \A b \in Gateway \ {a} : t.ag[b] = p.ag[b]
        /\ ~t.ag[a].unbind
        /\ t.ag[a].exists = k.exists /\ t.ag[a].known = k.known /\ t.ag[a].owner = k.owner
        /\ t.ag[a].bind = k.bind
        /\ t.ag[a].conn = IF k.unbind THEN "Disconnected" ELSE k.conn
        /\ t.ag[a].audio = IF k.unbind THEN "Disconnected" ELSE k.audio
        /\ t.ag[a].watched = IF k.unbind THEN FALSE ELSE k.watched
        /\ t.ag[a].streams = IF k.unbind THEN FALSE ELSE k.streams
        /\ t.ag[a].stop = IF k.unbind THEN (k.stop \/ k.streams) ELSE k.stop
    BY <1>7, AudioClosedIs
  <1>9. q = [t EXCEPT !.snd = u]
    BY <1>8 DEF UnboundFrom, p, s, DaemonStates
  <1> HIDE DEF t
  <1>10. t.snd \in Sounds
    BY <1>8 DEF DaemonStates
  <1>11. u \in Sounds
    BY <1>10 DEF Sounds
  <1>12. /\ u.running = t.snd.running /\ u.bound = None /\ u.holder = t.snd.holder
         /\ u.secondary = t.snd.secondary /\ u.dsp = t.snd.dsp /\ u.cut = FALSE
         /\ u.membuf = t.snd.membuf /\ u.fault = t.snd.fault
    BY <1>10 DEF Sounds
  <1> HIDE DEF q, u
  <1>13. q \in DaemonStates /\ q.on = t.on /\ q.snd = u /\ q.ag = t.ag
    BY <1>8, <1>9, <1>11 DEF DaemonStates
  <1>14. Kept(r, q)
    <2>1. q.on = r.on
      BY <1>13, <1>8, <1>7, <1>1
    <2>3. q.snd.membuf = r.snd.membuf
      <3>1. q.snd.membuf = t.snd.membuf /\ t.snd = s.snd
        BY <1>13, <1>8, <1>7, <1>12
      <3> QED BY <3>1, <1>6
    <2>2. ASSUME NEW b \in Gateway
          PROVE  /\ q.ag[b].exists = r.ag[b].exists /\ q.ag[b].owner = r.ag[b].owner
                 /\ q.ag[b].known = r.ag[b].known
                 /\ q.ag[b].conn \in {r.ag[b].conn, "Disconnected"}
      <3>1. CASE b = a
        BY <3>1, <1>13, <1>8, <1>5, <1>3
      <3>2. CASE b # a
        BY <3>2, <1>13, <1>8, <1>7, <1>1
      <3> QED BY <3>1, <3>2
    <2> QED BY <2>1, <2>2, <2>3 DEF Kept
  <1>15. Quiet(r, q)
    <2>1. ASSUME NEW b \in Gateway, r.ag[b].audio = "Disconnected"
          PROVE  q.ag[b].audio = "Disconnected"
      <3>1. CASE b = a
        BY <3>1, <1>13, <1>8, <1>5, <1>3
      <3>2. CASE b # a
        BY <3>2, <2>1, <1>13, <1>8, <1>7, <1>1
      <3> QED BY <3>1, <3>2
    <2> QED BY <2>1 DEF Quiet
  <1>16. Follows(r, q)
    BY <1>14, <1>15, <1>13, <1>12, <1>8, <1>7, <1>6 DEF Follows, Fine
  <1>17. ASSUME Nearly(r, a)
         PROVE  Free(q.snd) /\ \A b \in Gateway : Apart(q.ag[b])
    <2>1. Free(q.snd)
      BY <1>17, <1>13, <1>12, <1>8, <1>7, <1>6 DEF Free, Nearly
    <2>2. Apart(q.ag[a])
      <3>1. /\ ~q.ag[a].bind /\ ~q.ag[a].streams /\ ~q.ag[a].stop /\ ~q.ag[a].unbind
            /\ q.ag[a].audio = "Disconnected" /\ q.ag[a].watched = FALSE
            /\ q.ag[a].conn \in {r.ag[a].conn, "Disconnected"}
            /\ q.ag[a].exists = r.ag[a].exists
        BY <1>13, <1>8, <1>5, <1>3
      <3> QED BY <3>1, <1>17 DEF Apart, Linked, Nearly
    <2>3. \A b \in Gateway \ {a} : Apart(q.ag[b])
      BY <1>17, <1>13, <1>8, <1>7, <1>1 DEF Nearly
    <2> QED BY <2>1, <2>2, <2>3
  <1> QED BY <1>13, <1>16, <1>17 DEF q

\* The sound manager is stopped, and has no secondary endpoint.
LEMMA ClearedIs ==
    ASSUME NEW r \in DaemonStates
    PROVE  LET q == Cleared(r) IN
           /\ q \in DaemonStates
           /\ Follows(r, q)
           /\ ~q.snd.running /\ q.snd.secondary = None
           /\ q.snd.bound = r.snd.bound /\ q.snd.holder = r.snd.holder
           /\ q.snd.dsp = r.snd.dsp /\ q.snd.cut = r.snd.cut
           /\ \A a \in Gateway : /\ a # r.snd.secondary => q.ag[a] = r.ag[a]
                                 /\ q.ag[a].conn = r.ag[a].conn
                                 /\ q.ag[a].exists = r.ag[a].exists
  <1> DEFINE q == Cleared(r)
             s == SoundStop(r)
             u == [s.snd EXCEPT !.secondary = None]
             Rest(a) == [r.ag[a] EXCEPT !.streams = FALSE, !.watched = FALSE, !.stop = FALSE]
  <1>1. /\ s \in DaemonStates /\ s.on = r.on /\ s.snd = [r.snd EXCEPT !.running = FALSE]
        /\ \A a \in Gateway :
              s.ag[a] = IF r.snd.running /\ a = r.snd.secondary THEN Rest(a) ELSE r.ag[a]
    BY SoundStopIs
  <1>2. r.snd \in Sounds /\ s.snd \in Sounds /\ \A a \in Gateway : r.ag[a] \in Gateways
    BY <1>1 DEF DaemonStates
  <1>3. \A a \in Gateway :
           /\ Rest(a).exists = r.ag[a].exists /\ Rest(a).owner = r.ag[a].owner
           /\ Rest(a).known = r.ag[a].known /\ Rest(a).conn = r.ag[a].conn
           /\ Rest(a).audio = r.ag[a].audio
    BY <1>2 DEF Gateways
  <1>4. q = [s EXCEPT !.snd = u]
    BY <1>1 DEF Cleared, DaemonStates
  <1> HIDE DEF s, Rest
  <1>5. u \in Sounds
    BY <1>2 DEF Sounds
  <1>6. /\ u.running = s.snd.running /\ u.secondary = None /\ u.bound = s.snd.bound
        /\ u.holder = s.snd.holder /\ u.dsp = s.snd.dsp /\ u.cut = s.snd.cut
        /\ u.membuf = s.snd.membuf /\ u.fault = s.snd.fault
    BY <1>2 DEF Sounds
  <1>7. /\ s.snd.running = FALSE /\ s.snd.bound = r.snd.bound
        /\ s.snd.holder = r.snd.holder /\ s.snd.dsp = r.snd.dsp /\ s.snd.cut = r.snd.cut
        /\ s.snd.membuf = r.snd.membuf /\ s.snd.fault = r.snd.fault
    BY <1>1, <1>2 DEF Sounds
  <1> HIDE DEF q, u
  <1>8. q \in DaemonStates /\ q.on = s.on /\ q.snd = u /\ q.ag = s.ag
    BY <1>1, <1>4, <1>5 DEF DaemonStates
  <1>9. \A a \in Gateway :
           /\ a # r.snd.secondary => q.ag[a] = r.ag[a]
           /\ q.ag[a].exists = r.ag[a].exists /\ q.ag[a].owner = r.ag[a].owner
           /\ q.ag[a].known = r.ag[a].known /\ q.ag[a].conn = r.ag[a].conn
           /\ q.ag[a].audio = r.ag[a].audio
    BY <1>1, <1>3, <1>8
  <1>10. q.snd.membuf = r.snd.membuf /\ q.snd.fault = r.snd.fault
    BY <1>6, <1>7, <1>8
  <1>11. Follows(r, q)
    BY <1>1, <1>8, <1>9, <1>10 DEF Follows, Kept, Quiet, Fine
  <1>12. /\ q.snd.running = FALSE /\ q.snd.secondary = None
         /\ q.snd.bound = r.snd.bound /\ q.snd.holder = r.snd.holder
         /\ q.snd.dsp = r.snd.dsp /\ q.snd.cut = r.snd.cut
    BY <1>6, <1>7, <1>8
  <1> QED BY <1>8, <1>9, <1>11, <1>12 DEF q

Alone(r) == Free(r.snd) /\ \A a \in Gateway : Apart(r.ag[a])

LEMMA UnboundFrees ==
    ASSUME NEW r \in DaemonStates,
           Fine(r) => r.snd.bound \in Gateway /\ Nearly(r, r.snd.bound)
    PROVE  LET q == Unbound(r) IN
           q \in DaemonStates /\ Follows(r, q) /\ (Fine(q) => Alone(q))
  <1>1. CASE r.snd.bound = None
    <2>1. ~Fine(r)
      BY <1>1, GatewayAssumption
    <2>2. Unbound(r) = Checked(r, FALSE, "NoGateway")
      BY <1>1 DEF Unbound
    <2>3. Checked(r, FALSE, "NoGateway") = r
      BY <2>1 DEF Checked, Fine
    <2> QED BY <2>1, <2>2, <2>3, FollowsItself
  <1>2. CASE r.snd.bound # None
    <2> DEFINE a == r.snd.bound
               q == UnboundFrom(r, a)
    <2>1. a \in Gateway
      BY <1>2 DEF DaemonStates, Sounds
    <2>2. Unbound(r) = q
      BY <1>2 DEF Unbound
    <2> HIDE DEF a
    <2>3. /\ q \in DaemonStates /\ Follows(r, q)
          /\ Nearly(r, a) => Free(q.snd) /\ \A b \in Gateway : Apart(q.ag[b])
      BY <2>1, UnboundFromFrees
    <2> HIDE DEF q
    <2>4. Fine(q) => Alone(q)
      BY <2>3 DEF Follows, Alone, a
    <2> QED BY <2>2, <2>3, <2>4
  <1> QED BY <1>1, <1>2

-----------------------------------------------------------------------------
(* EpRelease.                                                                *)

\* What it needs, by the state that it ends.
OnlyWith(r) ==
    /\ r.snd.bound \in Gateway /\ r.snd.holder = None /\ r.snd.dsp
    /\ \A b \in Gateway \ {r.snd.bound} : Apart(r.ag[b])

WithNobody(r) == r.snd.bound = None /\ ~r.snd.cut /\ \A b \in Gateway : Apart(r.ag[b])

Releasable(r, state) ==
    CASE state = "Stopped" -> WithNobody(r) /\ ~r.snd.running /\ r.snd.holder = None /\ r.snd.dsp
      [] state = "AudioGateway" -> OnlyWith(r) /\ r.snd.secondary = r.snd.bound
      [] state = "Connecting" -> OnlyWith(r) /\ r.snd.secondary = None /\ ~r.snd.running
      [] state = "File" -> WithNobody(r) /\ r.snd.secondary = "File" /\ ~r.snd.dsp
      [] state = "Loopback" -> WithNobody(r) /\ r.snd.secondary = None /\ r.snd.dsp
      [] state = "Membuf" -> WithNobody(r) /\ r.snd.secondary = "Membuf" /\ r.snd.membuf /\ r.snd.dsp

LEMMA StoppedFrees ==
    ASSUME NEW r \in DaemonStates, Fine(r) => Releasable(r, "Stopped")
    PROVE  LET q == Released(r, "Stopped") IN
           q \in DaemonStates /\ Follows(r, q) /\ (Fine(q) => Alone(q))
  <1> DEFINE p == /\ ~r.snd.running /\ r.snd.secondary = None /\ r.snd.dsp
                  /\ r.snd.bound = None /\ r.snd.holder = None
             q == Checked(r, p, "NotStopped")
  <1>1. Released(r, "Stopped") = q
    BY DEF Released
  <1>2. p \in BOOLEAN
    OBVIOUS
  <1> HIDE DEF p
  <1>3. q \in DaemonStates /\ Follows(r, q) /\ (Fine(q) => p /\ q = r)
    BY <1>2, CheckedIs
  <1> HIDE DEF q
  <1>4. Fine(q) => Alone(q)
    BY <1>3 DEF Follows, p, Releasable, WithNobody, Alone, Free
  <1> QED BY <1>1, <1>3, <1>4

LEMMA GatewayFrees ==
    ASSUME NEW r \in DaemonStates, Fine(r) => Releasable(r, "AudioGateway")
    PROVE  LET q == Released(r, "AudioGateway") IN
           q \in DaemonStates /\ Follows(r, q) /\ (Fine(q) => Alone(q))
  <1> DEFINE p == r.snd.secondary = r.snd.bound /\ r.snd.dsp
             c == Checked(r, p, "OtherSecondary")
             s == Cleared(c)
             q == Unbound(s)
  <1>1. Released(r, "AudioGateway") = q
    BY DEF Released
  <1>2. p \in BOOLEAN /\ (Fine(r) => p)
    BY DEF Releasable, OnlyWith
  <1> HIDE DEF p
  <1>3. c \in DaemonStates /\ Follows(r, c) /\ (Fine(c) => c = r)
    BY <1>2, CheckedIs
  <1> HIDE DEF c
  <1>4. /\ s \in DaemonStates /\ Follows(c, s)
        /\ ~s.snd.running /\ s.snd.secondary = None
        /\ s.snd.bound = c.snd.bound /\ s.snd.holder = c.snd.holder /\ s.snd.dsp = c.snd.dsp
        /\ \A a \in Gateway : /\ a # c.snd.secondary => s.ag[a] = c.ag[a]
                              /\ s.ag[a].conn = c.ag[a].conn
                              /\ s.ag[a].exists = c.ag[a].exists
    BY <1>3, ClearedIs
  <1> HIDE DEF s
  <1>5. ASSUME Fine(s) PROVE s.snd.bound \in Gateway /\ Nearly(s, s.snd.bound)
    <2>1. c = r /\ Fine(r)
      BY <1>3, <1>4, <1>5 DEF Follows
    <2>2. OnlyWith(r) /\ r.snd.secondary = r.snd.bound
      BY <2>1 DEF Releasable
    <2> QED BY <1>4, <2>1, <2>2 DEF OnlyWith, Nearly
  <1>6. q \in DaemonStates /\ Follows(s, q) /\ (Fine(q) => Alone(q))
    BY <1>4, <1>5, UnboundFrees
  <1> HIDE DEF q
  <1>7. Follows(r, q)
    BY <1>3, <1>4, <1>6, FollowsOn
  <1> QED BY <1>1, <1>6, <1>7

LEMMA ConnectingFrees ==
    ASSUME NEW r \in DaemonStates, Fine(r) => Releasable(r, "Connecting")
    PROVE  LET q == Released(r, "Connecting") IN
           q \in DaemonStates /\ Follows(r, q) /\ (Fine(q) => Alone(q))
  <1> DEFINE p == r.snd.secondary = None /\ r.snd.dsp
             c == Checked(r, p, "SecondarySet")
             q == Unbound(c)
  <1>1. Released(r, "Connecting") = q
    BY DEF Released
  <1>2. p \in BOOLEAN /\ (Fine(r) => p)
    BY DEF Releasable, OnlyWith
  <1> HIDE DEF p
  <1>3. c \in DaemonStates /\ Follows(r, c) /\ (Fine(c) => c = r)
    BY <1>2, CheckedIs
  <1> HIDE DEF c
  <1>4. ASSUME Fine(c) PROVE c.snd.bound \in Gateway /\ Nearly(c, c.snd.bound)
    <2>1. c = r /\ Fine(r)
      BY <1>3, <1>4
    <2> QED BY <2>1 DEF Releasable, OnlyWith, Nearly
  <1>5. q \in DaemonStates /\ Follows(c, q) /\ (Fine(q) => Alone(q))
    BY <1>3, <1>4, UnboundFrees
  <1> HIDE DEF q
  <1>6. Follows(r, q)
    BY <1>3, <1>5, FollowsOn
  <1> QED BY <1>1, <1>5, <1>6

LEMMA FileFrees ==
    ASSUME NEW r \in DaemonStates, Fine(r) => Releasable(r, "File")
    PROVE  LET q == Released(r, "File") IN
           q \in DaemonStates /\ Follows(r, q) /\ (Fine(q) => Alone(q))
  <1> DEFINE p == r.snd.secondary # None /\ ~r.snd.dsp
             c == Checked(r, p, "NoFile")
             s == Cleared(c)
             u == [s.snd EXCEPT !.dsp = TRUE, !.holder = None]
             q == Unheld([s EXCEPT !.snd.dsp = TRUE])
  <1>1. Released(r, "File") = q
    BY DEF Released
  <1>2. p \in BOOLEAN /\ (Fine(r) => p)
    BY GatewayAssumption DEF Releasable
  <1> HIDE DEF p
  <1>3. c \in DaemonStates /\ Follows(r, c) /\ (Fine(c) => c = r)
    BY <1>2, CheckedIs
  <1> HIDE DEF c
  <1>4. /\ s \in DaemonStates /\ Follows(c, s)
        /\ ~s.snd.running /\ s.snd.secondary = None
        /\ s.snd.bound = c.snd.bound /\ s.snd.cut = c.snd.cut
        /\ \A a \in Gateway : a # c.snd.secondary => s.ag[a] = c.ag[a]
    BY <1>3, ClearedIs
  <1> HIDE DEF s
  <1>5. s.snd \in Sounds
    BY <1>4 DEF DaemonStates
  <1>6. u \in Sounds /\ q = [s EXCEPT !.snd = u]
    BY <1>4, <1>5 DEF Unheld, DaemonStates, Sounds
  <1>7. /\ u.running = s.snd.running /\ u.secondary = s.snd.secondary /\ u.bound = s.snd.bound
        /\ u.holder = None /\ u.dsp = TRUE /\ u.cut = s.snd.cut
        /\ u.membuf = s.snd.membuf /\ u.fault = s.snd.fault
    BY <1>5 DEF Sounds
  <1> HIDE DEF q, u
  <1>8. q \in DaemonStates /\ q.on = s.on /\ q.snd = u /\ q.ag = s.ag
    BY <1>4, <1>6 DEF DaemonStates
  <1>9. Follows(s, q)
    BY <1>7, <1>8 DEF Follows, Kept, Quiet, Fine
  <1>10. ASSUME Fine(q) PROVE Alone(q)
    <2>1. c = r /\ Fine(r)
      BY <1>3, <1>4, <1>9, <1>10 DEF Follows
    <2>2. WithNobody(r) /\ r.snd.secondary = "File"
      BY <2>1 DEF Releasable
    <2>3. \A a \in Gateway : q.ag[a] = r.ag[a]
      BY <1>4, <1>8, <2>1, <2>2, GatewayAssumption
    <2>4. Free(q.snd)
      BY <1>4, <1>7, <1>8, <2>1, <2>2 DEF Free, WithNobody
    <2> QED BY <2>2, <2>3, <2>4 DEF Alone, WithNobody
  <1>11. Follows(r, q)
    BY <1>3, <1>4, <1>9, FollowsOn
  <1> QED BY <1>1, <1>8, <1>10, <1>11

LEMMA LoopbackFrees ==
    ASSUME NEW r \in DaemonStates, Fine(r) => Releasable(r, "Loopback")
    PROVE  LET q == Released(r, "Loopback") IN
           q \in DaemonStates /\ Follows(r, q) /\ (Fine(q) => Alone(q))
  <1> DEFINE p == r.snd.secondary = None
             c == Checked(r, p, "SecondarySet")
             s == SoundStop(c)
             Rest(a) == [c.ag[a] EXCEPT !.streams = FALSE, !.watched = FALSE, !.stop = FALSE]
             u == [s.snd EXCEPT !.holder = None]
             q == Unheld(s)
  <1>1. Released(r, "Loopback") = q
    BY DEF Released
  <1>2. p \in BOOLEAN /\ (Fine(r) => p)
    BY DEF Releasable
  <1> HIDE DEF p
  <1>3. c \in DaemonStates /\ Follows(r, c) /\ (Fine(c) => c = r)
    BY <1>2, CheckedIs
  <1> HIDE DEF c
  <1>4. /\ s \in DaemonStates /\ s.on = c.on /\ s.snd = [c.snd EXCEPT !.running = FALSE]
        /\ \A a \in Gateway :
              s.ag[a] = IF c.snd.running /\ a = c.snd.secondary THEN Rest(a) ELSE c.ag[a]
    BY <1>3, SoundStopIs
  <1> HIDE DEF s
  <1>5. s.snd \in Sounds /\ c.snd \in Sounds /\ \A a \in Gateway : c.ag[a] \in Gateways
    BY <1>3, <1>4 DEF DaemonStates
  <1>6. u \in Sounds /\ q = [s EXCEPT !.snd = u]
    BY <1>4, <1>5 DEF Unheld, DaemonStates, Sounds
  <1>7. /\ u.running = FALSE /\ u.secondary = c.snd.secondary /\ u.bound = c.snd.bound
        /\ u.holder = None /\ u.dsp = c.snd.dsp /\ u.cut = c.snd.cut
        /\ u.membuf = c.snd.membuf /\ u.fault = c.snd.fault
    BY <1>4, <1>5 DEF Sounds
  <1>8. \A a \in Gateway :
           /\ Rest(a).exists = c.ag[a].exists /\ Rest(a).owner = c.ag[a].owner
           /\ Rest(a).known = c.ag[a].known /\ Rest(a).conn = c.ag[a].conn
           /\ Rest(a).audio = c.ag[a].audio
    BY <1>5 DEF Gateways
  <1> HIDE DEF q, u, Rest
  <1>9. q \in DaemonStates /\ q.on = s.on /\ q.snd = u /\ q.ag = s.ag
    BY <1>4, <1>6 DEF DaemonStates
  <1>10. \A a \in Gateway :
           /\ q.ag[a].exists = c.ag[a].exists /\ q.ag[a].owner = c.ag[a].owner
           /\ q.ag[a].known = c.ag[a].known /\ q.ag[a].conn = c.ag[a].conn
           /\ q.ag[a].audio = c.ag[a].audio
    BY <1>4, <1>8, <1>9
  <1>11. Follows(c, q)
    BY <1>4, <1>7, <1>9, <1>10 DEF Follows, Kept, Quiet, Fine
  <1>12. ASSUME Fine(q) PROVE Alone(q)
    <2>1. c = r /\ Fine(r)
      BY <1>3, <1>11, <1>12 DEF Follows
    <2>2. WithNobody(r) /\ r.snd.secondary = None /\ r.snd.dsp
      BY <2>1 DEF Releasable
    <2>3. \A a \in Gateway : q.ag[a] = r.ag[a]
      BY <1>4, <1>9, <2>1, <2>2, GatewayAssumption
    <2>4. Free(q.snd)
      BY <1>7, <1>9, <2>1, <2>2 DEF Free, WithNobody
    <2> QED BY <2>2, <2>3, <2>4 DEF Alone, WithNobody
  <1>13. Follows(r, q)
    BY <1>3, <1>11, FollowsOn
  <1> QED BY <1>1, <1>9, <1>12, <1>13

LEMMA MembufFrees ==
    ASSUME NEW r \in DaemonStates, Fine(r) => Releasable(r, "Membuf")
    PROVE  LET q == Released(r, "Membuf") IN
           q \in DaemonStates /\ Follows(r, q) /\ (Fine(q) => Alone(q))
  <1> DEFINE p == r.snd.membuf /\ r.snd.secondary = "Membuf"
             c == Checked(r, p, "NoMembuf")
             s == Cleared(c)
             snoop == IF ~s.snd.volume /\ s.snd.snoop = "installed" THEN "dangling" ELSE s.snd.snoop
             u == [s.snd EXCEPT !.volume = FALSE, !.snoop = snoop, !.holder = None]
             q == Unheld(TopRemoved(s))
  <1>1. Released(r, "Membuf") = q
    BY DEF Released
  <1>0. r.snd \in Sounds
    BY DEF DaemonStates
  <1>2. p \in BOOLEAN /\ (Fine(r) => p)
    BY <1>0 DEF Releasable, Sounds
  <1> HIDE DEF p
  <1>3. c \in DaemonStates /\ Follows(r, c) /\ (Fine(c) => c = r)
    BY <1>2, CheckedIs
  <1> HIDE DEF c
  <1>4. /\ s \in DaemonStates /\ Follows(c, s)
        /\ ~s.snd.running /\ s.snd.secondary = None
        /\ s.snd.bound = c.snd.bound /\ s.snd.dsp = c.snd.dsp /\ s.snd.cut = c.snd.cut
        /\ \A a \in Gateway : a # c.snd.secondary => s.ag[a] = c.ag[a]
    BY <1>3, ClearedIs
  <1> HIDE DEF s
  <1>5. s.snd \in Sounds
    BY <1>4 DEF DaemonStates
  <1>6. snoop \in {"none", "installed", "dangling"}
    BY <1>5 DEF Sounds
  <1>7. q = [s EXCEPT !.snd = u]
    BY <1>4, <1>5 DEF Unheld, TopRemoved, DaemonStates, Sounds
  <1> HIDE DEF snoop
  <1>8. u \in Sounds
    BY <1>5, <1>6 DEF Sounds
  <1>9. /\ u.running = s.snd.running /\ u.secondary = s.snd.secondary /\ u.bound = s.snd.bound
        /\ u.holder = None /\ u.dsp = s.snd.dsp /\ u.cut = s.snd.cut
        /\ u.membuf = s.snd.membuf /\ u.fault = s.snd.fault
    BY <1>5 DEF Sounds
  <1> HIDE DEF q, u
  <1>10. q \in DaemonStates /\ q.on = s.on /\ q.snd = u /\ q.ag = s.ag
    BY <1>4, <1>7, <1>8 DEF DaemonStates
  <1>11. Follows(s, q)
    BY <1>9, <1>10 DEF Follows, Kept, Quiet, Fine
  <1>12. ASSUME Fine(q) PROVE Alone(q)
    <2>1. c = r /\ Fine(r)
      BY <1>3, <1>4, <1>11, <1>12 DEF Follows
    <2>2. WithNobody(r) /\ r.snd.secondary = "Membuf" /\ r.snd.dsp
      BY <2>1 DEF Releasable
    <2>3. \A a \in Gateway : q.ag[a] = r.ag[a]
      BY <1>4, <1>10, <2>1, <2>2, GatewayAssumption
    <2>4. Free(q.snd)
      BY <1>4, <1>9, <1>10, <2>1, <2>2 DEF Free, WithNobody
    <2> QED BY <2>2, <2>3, <2>4 DEF Alone, WithNobody
  <1>13. Follows(r, q)
    BY <1>3, <1>4, <1>11, FollowsOn
  <1> QED BY <1>1, <1>10, <1>12, <1>13

\* Whatever the state that it ends, EpRelease leaves the stream stopped and for
\* nobody, or has met with an assertion that may fail.
LEMMA EpReleaseRests ==
    ASSUME NEW r \in DaemonStates, NEW state \in Idle \cup Streams, Fine(r) => Releasable(r, state)
    PROVE  LET q == EpRelease(r, state) IN
           q \in DaemonStates /\ Follows(r, q) /\ (Fine(q) => Rested(q))
  <1> DEFINE s == Released(r, state)
             u == [s.snd EXCEPT !.state = "Stopped"]
             q == EpRelease(r, state)
  <1>1. s \in DaemonStates /\ Follows(r, s) /\ (Fine(s) => Alone(s))
    BY StoppedFrees, GatewayFrees, ConnectingFrees, FileFrees, LoopbackFrees, MembufFrees
       DEF Idle, Streams
  <1>2. q = [s EXCEPT !.snd = u]
    BY <1>1 DEF EpRelease, DaemonStates
  <1> HIDE DEF s
  <1>3. s.snd \in Sounds
    BY <1>1 DEF DaemonStates
  <1>4. u \in Sounds
    BY <1>3 DEF Sounds, Idle
  <1>5. /\ u.state = "Stopped" /\ u.running = s.snd.running /\ u.secondary = s.snd.secondary
        /\ u.bound = s.snd.bound /\ u.holder = s.snd.holder /\ u.dsp = s.snd.dsp
        /\ u.cut = s.snd.cut /\ u.membuf = s.snd.membuf /\ u.fault = s.snd.fault
    BY <1>3 DEF Sounds
  <1> HIDE DEF u, q
  <1>6. q \in DaemonStates /\ q.on = s.on /\ q.snd = u /\ q.ag = s.ag
    BY <1>1, <1>2, <1>4 DEF DaemonStates
  <1>7. Follows(s, q)
    BY <1>5, <1>6 DEF Follows, Kept, Quiet, Fine
  <1>8. Follows(r, q)
    BY <1>1, <1>7, FollowsOn
  <1>9. Fine(q) => Rested(q)
    BY <1>1, <1>5, <1>6, <1>7 DEF Follows, Rested, Alone, Free
  <1> QED BY <1>6, <1>8, <1>9 DEF q

\* What is needed of the state that is released, when it is the stream's own.
Loose(r) == Routing(r.snd) /\ \A a \in Gateway : Fits(r.snd, r.ag[a], a)

LEMMA LooseReleasable ==
    ASSUME NEW r \in DaemonStates, Loose(r)
    PROVE  Releasable(r, r.snd.state)
  <1> DEFINE u == r.snd
  <1>1. u \in Sounds /\ u.state \in Idle \cup Streams /\ u.bound \in Gateway \cup {None}
    BY DEF DaemonStates, Sounds
  <1>2. Routing(u) /\ \A a \in Gateway : Fits(u, r.ag[a], a)
    BY DEF Loose
  <1>3. \A a \in Gateway : a # u.bound => Apart(r.ag[a])
    BY <1>2 DEF Apart, Fits, Claims, Waiting, Streaming
  <1>4. u.state \notin Gatewayed => WithNobody(r)
    <2> SUFFICES ASSUME u.state \notin Gatewayed PROVE WithNobody(r)
      OBVIOUS
    <2>1. u.bound = None /\ ~u.cut
      BY <1>2 DEF Routing, Gatewayed
    <2>2. \A a \in Gateway : a # u.bound
      BY <2>1, GatewayAssumption
    <2> QED BY <1>3, <2>1, <2>2 DEF WithNobody
  <1>5. u.state \in Gatewayed => OnlyWith(r)
    <2> SUFFICES ASSUME u.state \in Gatewayed PROVE OnlyWith(r)
      OBVIOUS
    <2>1. u.bound \in Gateway /\ u.holder = None /\ u.dsp
      BY <1>1, <1>2 DEF Routing, Gatewayed, Own
    <2> QED BY <1>3, <2>1 DEF OnlyWith
  <1>6. CASE u.state = "Stopped"
    BY <1>2, <1>4, <1>6 DEF Releasable, Routing, Gatewayed, Own, Streams
  <1>7. CASE u.state \in Gatewayed
    BY <1>2, <1>5, <1>7 DEF Releasable, Routing, Gatewayed, Streams
  <1>8. CASE u.state \in Own
    BY <1>2, <1>4, <1>8 DEF Releasable, Routing, Gatewayed, Own, Streams
  <1> QED BY <1>1, <1>6, <1>7, <1>8 DEF Idle, Streams, Gatewayed, Own

LEMMA RestedReleasable ==
    ASSUME NEW r \in DaemonStates, Rested(r)
    PROVE  Releasable(r, "Stopped")
  BY DEF Rested, Free, Releasable, WithNobody

LEMMA EpStoppedRests ==
    ASSUME NEW r \in DaemonStates, Fine(r) => Loose(r)
    PROVE  LET q == EpStopped(r) IN
           q \in DaemonStates /\ Follows(r, q) /\ (Fine(q) => Rested(q))
  <1> DEFINE e == EpRelease(r, r.snd.state)
             q == EpRelease(e, "Stopped")
  <1>1. EpStopped(r) = q
    BY DEF EpStopped
  <1>2. r.snd.state \in Idle \cup Streams
    BY DEF DaemonStates, Sounds
  <1>3. e \in DaemonStates /\ Follows(r, e) /\ (Fine(e) => Rested(e))
    BY <1>2, LooseReleasable, EpReleaseRests
  <1> HIDE DEF e
  <1>4. "Stopped" \in Idle \cup Streams /\ (Fine(e) => Releasable(e, "Stopped"))
    BY <1>3, RestedReleasable DEF Idle
  <1>5. q \in DaemonStates /\ Follows(e, q) /\ (Fine(q) => Rested(q))
    BY <1>3, <1>4, EpReleaseRests
  <1> HIDE DEF q
  <1>6. Follows(r, q)
    BY <1>3, <1>5, FollowsOn
  <1> QED BY <1>1, <1>5, <1>6

-----------------------------------------------------------------------------
(* A stream with a gateway.                                                  *)

\* The stream waits for a, or has just chosen it.
Setup(r, a) ==
    /\ r.snd.bound = a /\ r.snd.holder = None /\ r.snd.secondary = None
    /\ r.snd.dsp /\ ~r.snd.running /\ ~r.snd.cut
    /\ r.snd.state \in Idle
    /\ r.snd.state = "Stopped" => r.ag[a].audio # "Disconnected"
    /\ Linked(r.ag[a]) /\ r.ag[a].bind
    /\ ~r.ag[a].streams /\ ~r.ag[a].stop /\ ~r.ag[a].unbind
    /\ \A b \in Gateway \ {a} : Apart(r.ag[b])

\* All the parts of the invariant, when only a has to do with the stream.
LEMMA OnlyOneConcerned ==
    ASSUME NEW q \in DaemonStates, NEW a \in Gateway, Routing(q.snd), q.snd.bound = a,
           Whole(q.snd, q.ag[a], a), \A b \in Gateway \ {a} : Apart(q.ag[b])
    PROVE  Agree(q)
  <1>1. \A b \in Gateway \ {a} : Whole(q.snd, q.ag[b], b)
    BY DEF Apart, Whole, Fits, Persists, Claims, Awaits, Feeds, Waiting, Streaming
  <1> QED BY <1>1 DEF Agree

\* The audio that the stream waited for has been refused.
LEMMA CompleteRefused ==
    ASSUME NEW r \in DaemonStates, NEW a \in Gateway, Fine(r) => Setup(r, a),
           r.ag[a].audio = "Disconnected"
    PROVE  LET q == EpRelease([r EXCEPT !.ag[a].bind = FALSE], r.snd.state) IN
           q \in DaemonStates /\ Follows(r, q) /\ (Fine(q) => Agree(q))
  <1> DEFINE p == [r EXCEPT !.ag[a].bind = FALSE]
             g == [r.ag[a] EXCEPT !.bind = FALSE]
             q == EpRelease(p, r.snd.state)
  <1>1. r.ag[a] \in Gateways /\ r.snd.state \in Idle \cup Streams
    BY DEF DaemonStates, Sounds
  <1>2. g \in Gateways /\ p = [r EXCEPT !.ag[a] = g]
    BY <1>1 DEF Gateways, DaemonStates
  <1>3. /\ g.exists = r.ag[a].exists /\ g.owner = r.ag[a].owner /\ g.known = r.ag[a].known
        /\ g.conn = r.ag[a].conn /\ g.audio = r.ag[a].audio
    BY <1>1 DEF Gateways
  <1> HIDE DEF p, g
  <1>4. /\ p \in DaemonStates /\ p.on = r.on /\ p.snd = r.snd /\ p.ag[a] = g
        /\ \A b \in Gateway \ {a} : p.ag[b] = r.ag[b]
    BY <1>2 DEF DaemonStates
  <1>5. Follows(r, p)
    <2>1. \A b \in Gateway :
             /\ p.ag[b].exists = r.ag[b].exists /\ p.ag[b].owner = r.ag[b].owner
             /\ p.ag[b].known = r.ag[b].known /\ p.ag[b].conn = r.ag[b].conn
             /\ p.ag[b].audio = r.ag[b].audio
      BY <1>3, <1>4
    <2> QED BY <1>4, <2>1 DEF Follows, Kept, Quiet, Fine
  <1>6. ASSUME Fine(p) PROVE Releasable(p, r.snd.state)
    <2>1. Setup(r, a)
      BY <1>5, <1>6 DEF Follows
    <2>2. r.snd.state = "Connecting"
      BY <2>1 DEF Setup, Idle
    <2>3. OnlyWith(p)
      BY <1>3, <1>4, <2>1 DEF OnlyWith, Setup, Linked
    <2> QED BY <1>4, <2>1, <2>2, <2>3 DEF Setup, Releasable
  <1>7. q \in DaemonStates /\ Follows(p, q) /\ (Fine(q) => Rested(q))
    BY <1>1, <1>4, <1>6, EpReleaseRests
  <1> HIDE DEF q
  <1>8. Follows(r, q)
    BY <1>5, <1>7, FollowsOn
  <1> QED BY <1>7, <1>8, RestedAgrees DEF p, q

\* The audio is still being opened.
LEMMA CompleteWaiting ==
    ASSUME NEW r \in DaemonStates, NEW a \in Gateway, Fine(r) => Setup(r, a),
           r.ag[a].audio = "Connecting"
    PROVE  LET q == [r EXCEPT !.snd.state = "Connecting", !.ag[a].told = "Connecting"] IN
           q \in DaemonStates /\ Follows(r, q) /\ (Fine(q) => Agree(q))
  <1> DEFINE q == [r EXCEPT !.snd.state = "Connecting", !.ag[a].told = "Connecting"]
             u == [r.snd EXCEPT !.state = "Connecting"]
             g == [r.ag[a] EXCEPT !.told = "Connecting"]
  <1>1. r.ag[a] \in Gateways /\ r.snd \in Sounds
    BY DEF DaemonStates
  <1>2. g \in Gateways /\ u \in Sounds
    BY <1>1 DEF Gateways, Sounds, Idle, Links
  <1>3. q = [r EXCEPT !.snd = u, !.ag[a] = g]
    BY DEF DaemonStates
  <1>4. /\ g.exists = r.ag[a].exists /\ g.owner = r.ag[a].owner /\ g.known = r.ag[a].known
        /\ g.conn = r.ag[a].conn /\ g.audio = r.ag[a].audio /\ g.watched = r.ag[a].watched
        /\ g.bind = r.ag[a].bind /\ g.streams = r.ag[a].streams /\ g.stop = r.ag[a].stop
        /\ g.unbind = r.ag[a].unbind
    BY <1>1 DEF Gateways
  <1>5. /\ u.state = "Connecting" /\ u.running = r.snd.running /\ u.secondary = r.snd.secondary
        /\ u.bound = r.snd.bound /\ u.holder = r.snd.holder /\ u.dsp = r.snd.dsp
        /\ u.cut = r.snd.cut /\ u.membuf = r.snd.membuf /\ u.fault = r.snd.fault
    BY <1>1 DEF Sounds
  <1> HIDE DEF q, u, g
  <1>6. /\ q \in DaemonStates /\ q.on = r.on /\ q.snd = u /\ q.ag[a] = g
        /\ \A b \in Gateway \ {a} : q.ag[b] = r.ag[b]
    BY <1>2, <1>3 DEF DaemonStates
  <1>7. Follows(r, q)
    <2>1. \A b \in Gateway :
             /\ q.ag[b].exists = r.ag[b].exists /\ q.ag[b].owner = r.ag[b].owner
             /\ q.ag[b].known = r.ag[b].known /\ q.ag[b].conn = r.ag[b].conn
             /\ q.ag[b].audio = r.ag[b].audio
      BY <1>4, <1>6
    <2> QED BY <1>5, <1>6, <2>1 DEF Follows, Kept, Quiet, Fine
  <1>8. ASSUME Fine(q) PROVE Agree(q)
    <2>1. Setup(r, a)
      BY <1>7, <1>8 DEF Follows
    <2>2. Routing(u)
      BY <1>5, <2>1, GatewayAssumption DEF Setup, Routing, Streams, Gatewayed, Own
    <2>3. Whole(u, g, a)
      BY <1>4, <1>5, <2>1 DEF Setup, Whole, Fits, Linked, Persists, Claims, Awaits, Feeds,
                              Waiting, Streaming
    <2> QED BY <1>5, <1>6, <2>1, <2>2, <2>3, OnlyOneConcerned DEF Setup
  <1> QED BY <1>6, <1>7, <1>8 DEF q

\* The audio is there: the stream starts, or is given up.
LEMMA CompleteFits ==
    ASSUME NEW r \in DaemonStates, NEW a \in Gateway, NEW starts \in BOOLEAN,
           Fine(r) => Setup(r, a), r.ag[a].audio = "Connected"
    PROVE  LET q == Fitted([Checked(r, r.snd.state \in Idle, "Streaming") EXCEPT
                               !.ag[a].bind = FALSE, !.snd.secondary = a], a, starts) IN
           /\ q \in DaemonStates /\ Follows(r, q)
           /\ Fine(q) => Agree(q) /\ q.snd.state # "Connecting"
  <1> DEFINE c == Checked(r, r.snd.state \in Idle, "Streaming")
             p == [c EXCEPT !.ag[a].bind = FALSE, !.snd.secondary = a]
             g == [c.ag[a] EXCEPT !.bind = FALSE]
             u == [c.snd EXCEPT !.secondary = a]
             q == Fitted(p, a, starts)
  <1>1. c \in DaemonStates /\ Follows(r, c) /\ c.ag = r.ag /\ (Fine(c) => c = r)
    <2>1. (r.snd.state \in Idle) \in BOOLEAN
      OBVIOUS
    <2>2. Fine(r) => r.snd.state \in Idle
      BY DEF Setup
    <2> QED BY <2>1, <2>2, CheckedIs
  <1> HIDE DEF c
  <1>2. c.ag[a] \in Gateways /\ c.snd \in Sounds
    BY <1>1 DEF DaemonStates
  <1>3. g \in Gateways /\ u \in Sounds
    BY <1>2 DEF Gateways, Sounds
  <1>4. p = [c EXCEPT !.ag[a] = g, !.snd = u]
    BY <1>1 DEF DaemonStates
  <1>5. /\ g.exists = c.ag[a].exists /\ g.owner = c.ag[a].owner /\ g.known = c.ag[a].known
        /\ g.conn = c.ag[a].conn /\ g.audio = c.ag[a].audio /\ g.watched = c.ag[a].watched
        /\ g.bind = FALSE /\ g.streams = c.ag[a].streams /\ g.stop = c.ag[a].stop
        /\ g.unbind = c.ag[a].unbind
    BY <1>2 DEF Gateways
  <1>6. /\ u.state = c.snd.state /\ u.running = c.snd.running /\ u.secondary = a
        /\ u.bound = c.snd.bound /\ u.holder = c.snd.holder /\ u.dsp = c.snd.dsp
        /\ u.cut = c.snd.cut /\ u.membuf = c.snd.membuf /\ u.fault = c.snd.fault
    BY <1>2 DEF Sounds
  <1> HIDE DEF p, u, g
  <1>7. /\ p \in DaemonStates /\ p.on = c.on /\ p.snd = u /\ p.ag[a] = g
        /\ \A b \in Gateway \ {a} : p.ag[b] = c.ag[b]
    BY <1>1, <1>3, <1>4 DEF DaemonStates
  <1>8. Follows(c, p)
    <2>1. \A b \in Gateway :
             /\ p.ag[b].exists = c.ag[b].exists /\ p.ag[b].owner = c.ag[b].owner
             /\ p.ag[b].known = c.ag[b].known /\ p.ag[b].conn = c.ag[b].conn
             /\ p.ag[b].audio = c.ag[b].audio
      BY <1>5, <1>7
    <2> QED BY <1>6, <1>7, <2>1 DEF Follows, Kept, Quiet, Fine
  <1>9. Follows(r, p)
    BY <1>1, <1>8, FollowsOn
  <1>10. Fine(p) => c = r /\ Setup(r, a)
    BY <1>1, <1>8 DEF Follows
  <1>11. CASE ~starts
    <2>1. q = EpRelease(p, "AudioGateway")
      BY <1>11 DEF Fitted
    <2>2. Fine(p) => Releasable(p, "AudioGateway")
      <3> SUFFICES ASSUME Fine(p) PROVE OnlyWith(p) /\ p.snd.secondary = p.snd.bound
        BY DEF Releasable
      <3> QED BY <1>5, <1>6, <1>7, <1>10 DEF Setup, OnlyWith, Linked
    <2>3. "AudioGateway" \in Idle \cup Streams
      BY DEF Streams
    <2>4. q \in DaemonStates /\ Follows(p, q) /\ (Fine(q) => Rested(q))
      BY <1>7, <2>1, <2>2, <2>3, EpReleaseRests
    <2>5. Follows(r, q)
      BY <1>9, <2>4, FollowsOn
    <2>6. Fine(q) => Agree(q) /\ q.snd.state # "Connecting"
      BY <2>4, RestedAgrees DEF Rested
    <2> QED BY <2>4, <2>5, <2>6 DEF p, c
  <1>12. CASE starts
    <2> DEFINE v == [p.snd EXCEPT !.running = TRUE, !.state = "AudioGateway"]
               h == [p.ag[a] EXCEPT !.streams = TRUE]
    <2>1. q = [p EXCEPT !.snd = v, !.ag[a] = h]
      BY <1>7, <1>12 DEF Fitted, DaemonStates
    <2>2. p.snd \in Sounds /\ p.ag[a] \in Gateways
      BY <1>7 DEF DaemonStates
    <2>3. v \in Sounds /\ h \in Gateways
      BY <2>2 DEF Gateways, Sounds, Streams
    <2>4. /\ h.exists = g.exists /\ h.owner = g.owner /\ h.known = g.known
          /\ h.conn = g.conn /\ h.audio = g.audio /\ h.watched = g.watched
          /\ h.bind = g.bind /\ h.streams = TRUE /\ h.stop = g.stop /\ h.unbind = g.unbind
      BY <1>7, <2>2 DEF Gateways
    <2>5. /\ v.state = "AudioGateway" /\ v.running = TRUE /\ v.secondary = u.secondary
          /\ v.bound = u.bound /\ v.holder = u.holder /\ v.dsp = u.dsp
          /\ v.cut = u.cut /\ v.membuf = u.membuf /\ v.fault = u.fault
      BY <1>7, <2>2 DEF Sounds
    <2> HIDE DEF q, v, h
    <2>6. /\ q \in DaemonStates /\ q.on = p.on /\ q.snd = v /\ q.ag[a] = h
          /\ \A b \in Gateway \ {a} : q.ag[b] = p.ag[b]
      BY <1>7, <2>1, <2>3 DEF DaemonStates
    <2>7. Follows(p, q)
      <3>1. \A b \in Gateway :
               /\ q.ag[b].exists = p.ag[b].exists /\ q.ag[b].owner = p.ag[b].owner
               /\ q.ag[b].known = p.ag[b].known /\ q.ag[b].conn = p.ag[b].conn
               /\ q.ag[b].audio = p.ag[b].audio
        BY <1>7, <2>4, <2>6
      <3> QED BY <1>7, <2>5, <2>6, <3>1 DEF Follows, Kept, Quiet, Fine
    <2>8. Follows(r, q)
      BY <1>9, <2>7, FollowsOn
    <2>9. ASSUME Fine(q) PROVE Agree(q) /\ q.snd.state # "Connecting"
      <3>1. c = r /\ Setup(r, a)
        BY <1>10, <2>7, <2>9 DEF Follows
      <3>2. Routing(v)
        BY <1>6, <2>5, <3>1, GatewayAssumption DEF Setup, Routing, Streams, Gatewayed, Own
      <3>3. Whole(v, h, a)
        BY <1>5, <1>6, <2>4, <2>5, <3>1
           DEF Setup, Whole, Fits, Linked, Persists, Claims, Awaits, Feeds, Waiting, Streaming
      <3>4. v.bound = a /\ \A b \in Gateway \ {a} : Apart(q.ag[b])
        BY <1>6, <1>7, <2>5, <2>6, <3>1 DEF Setup
      <3> QED BY <2>5, <2>6, <3>2, <3>3, <3>4, OnlyOneConcerned
    <2> QED BY <2>6, <2>8, <2>9 DEF q, p, c
  <1> QED BY <1>11, <1>12

LEMMA CompleteAgrees ==
    ASSUME NEW r \in DaemonStates, NEW a \in Gateway, NEW starts \in BOOLEAN,
           Fine(r) => Setup(r, a)
    PROVE  LET q == EpAudioGatewayComplete(r, a, starts) IN
           /\ q \in DaemonStates /\ Follows(r, q) /\ (Fine(q) => Agree(q))
           /\ Fine(q) /\ r.ag[a].audio = "Connected" => q.snd.state # "Connecting"
  <1>1. CASE r.snd.bound # a
    <2>1. EpAudioGatewayComplete(r, a, starts) = Checked(r, FALSE, "OtherGateway")
      BY <1>1 DEF EpAudioGatewayComplete
    <2>2. ~Fine(r)
      BY <1>1 DEF Setup
    <2>3. Checked(r, FALSE, "OtherGateway") = r
      BY <2>2 DEF Checked, Fine
    <2> QED BY <2>1, <2>2, <2>3, FollowsItself
  <1>2. CASE r.snd.bound = a /\ r.ag[a].audio = "Disconnected"
    <2>1. EpAudioGatewayComplete(r, a, starts)
             = EpRelease([r EXCEPT !.ag[a].bind = FALSE], r.snd.state)
      BY <1>2 DEF EpAudioGatewayComplete
    <2> DEFINE q == EpRelease([r EXCEPT !.ag[a].bind = FALSE], r.snd.state)
    <2>2. q \in DaemonStates /\ Follows(r, q) /\ (Fine(q) => Agree(q))
      BY <1>2, CompleteRefused
    <2> HIDE DEF q
    <2> QED BY <1>2, <2>1, <2>2 DEF q
  <1>3. CASE r.snd.bound = a /\ r.ag[a].audio = "Connecting"
    <2>1. EpAudioGatewayComplete(r, a, starts)
             = [r EXCEPT !.snd.state = "Connecting", !.ag[a].told = "Connecting"]
      BY <1>3 DEF EpAudioGatewayComplete
    <2> DEFINE q == [r EXCEPT !.snd.state = "Connecting", !.ag[a].told = "Connecting"]
    <2>2. q \in DaemonStates /\ Follows(r, q) /\ (Fine(q) => Agree(q))
      BY <1>3, CompleteWaiting
    <2> HIDE DEF q
    <2> QED BY <1>3, <2>1, <2>2 DEF q
  <1>4. CASE r.snd.bound = a /\ r.ag[a].audio = "Connected"
    <2>1. EpAudioGatewayComplete(r, a, starts)
             = Fitted([Checked(r, r.snd.state \in Idle, "Streaming") EXCEPT
                          !.ag[a].bind = FALSE, !.snd.secondary = a], a, starts)
      BY <1>4 DEF EpAudioGatewayComplete
    <2> DEFINE q == Fitted([Checked(r, r.snd.state \in Idle, "Streaming") EXCEPT
                               !.ag[a].bind = FALSE, !.snd.secondary = a], a, starts)
    <2>2. /\ q \in DaemonStates /\ Follows(r, q)
          /\ Fine(q) => Agree(q) /\ q.snd.state # "Connecting"
      BY <1>4, CompleteFits
    <2> HIDE DEF q
    <2> QED BY <2>1, <2>2 DEF q
  <1>5. r.ag[a].audio \in {"Disconnected", "Connecting", "Connected"}
    BY DEF DaemonStates, Gateways, Links
  <1> QED BY <1>1, <1>2, <1>3, <1>4, <1>5

\* The stream binds itself to a gateway that has audio.
LEMMA BoundSetsUp ==
    ASSUME NEW r \in DaemonStates, NEW a \in Gateway,
           Fine(r) => Rested(r) /\ r.ag[a].audio # "Disconnected"
    PROVE  LET q == Bound(r, a) IN
           q \in DaemonStates /\ Follows(r, q) /\ (Fine(q) => Setup(q, a))
  <1> DEFINE p == [r EXCEPT !.snd.bound = a, !.ag[a].bind = TRUE]
             g == [r.ag[a] EXCEPT !.bind = TRUE]
             u == [r.snd EXCEPT !.bound = a]
             q == Checked(p, ~r.ag[a].bind, "Bound")
  <1>1. r.ag[a] \in Gateways /\ r.snd \in Sounds
    BY DEF DaemonStates
  <1>2. g \in Gateways /\ u \in Sounds
    BY <1>1 DEF Gateways, Sounds
  <1>3. p = [r EXCEPT !.snd = u, !.ag[a] = g]
    BY DEF DaemonStates
  <1>4. /\ g.exists = r.ag[a].exists /\ g.owner = r.ag[a].owner /\ g.known = r.ag[a].known
        /\ g.conn = r.ag[a].conn /\ g.audio = r.ag[a].audio /\ g.watched = r.ag[a].watched
        /\ g.bind = TRUE /\ g.streams = r.ag[a].streams /\ g.stop = r.ag[a].stop
        /\ g.unbind = r.ag[a].unbind
    BY <1>1 DEF Gateways
  <1>5. /\ u.state = r.snd.state /\ u.running = r.snd.running /\ u.secondary = r.snd.secondary
        /\ u.bound = a /\ u.holder = r.snd.holder /\ u.dsp = r.snd.dsp
        /\ u.cut = r.snd.cut /\ u.membuf = r.snd.membuf /\ u.fault = r.snd.fault
    BY <1>1 DEF Sounds
  <1>6. Bound(r, a) = q
    BY DEF Bound
  <1> HIDE DEF p, u, g
  <1>7. /\ p \in DaemonStates /\ p.on = r.on /\ p.snd = u /\ p.ag[a] = g
        /\ \A b \in Gateway \ {a} : p.ag[b] = r.ag[b]
    BY <1>2, <1>3 DEF DaemonStates
  <1>8. Follows(r, p)
    <2>1. \A b \in Gateway :
             /\ p.ag[b].exists = r.ag[b].exists /\ p.ag[b].owner = r.ag[b].owner
             /\ p.ag[b].known = r.ag[b].known /\ p.ag[b].conn = r.ag[b].conn
             /\ p.ag[b].audio = r.ag[b].audio
      BY <1>4, <1>7
    <2> QED BY <1>5, <1>7, <2>1 DEF Follows, Kept, Quiet, Fine
  <1>9. Fine(p) => Rested(r) /\ r.ag[a].audio # "Disconnected"
    BY <1>8 DEF Follows
  <1>10. q \in DaemonStates /\ Follows(p, q) /\ (Fine(q) => q = p)
    <2>1. Fine(p) => ~r.ag[a].bind
      BY <1>9 DEF Rested, Apart
    <2>2. (~r.ag[a].bind) \in BOOLEAN
      OBVIOUS
    <2> QED BY <1>7, <2>1, <2>2, CheckedIs
  <1> HIDE DEF q
  <1>11. Follows(r, q)
    BY <1>8, <1>10, FollowsOn
  <1>12. ASSUME Fine(q) PROVE Setup(q, a)
    <2>1. q = p /\ Rested(r) /\ r.ag[a].audio # "Disconnected"
      BY <1>9, <1>10, <1>12
    <2>2. Linked(g) /\ ~g.streams /\ ~g.stop /\ ~g.unbind
      BY <1>4, <2>1 DEF Rested, Apart, Linked
    <2>3. \A b \in Gateway \ {a} : Apart(p.ag[b])
      BY <1>7, <2>1 DEF Rested
    <2>4. /\ u.bound = a /\ u.holder = None /\ u.secondary = None
          /\ u.dsp /\ ~u.running /\ ~u.cut /\ u.state = "Stopped"
      BY <1>5, <2>1 DEF Rested, Free
    <2> QED BY <1>4, <1>7, <2>1, <2>2, <2>3, <2>4 DEF Setup, Idle
  <1> QED BY <1>6, <1>10, <1>11, <1>12

\* The methods that may open audio keep what the others do but for Quiet.
LEMMA OpenedRests ==
    ASSUME NEW r \in DaemonStates, NEW a \in Gateway,
           Fine(r) => Rested(r), r.ag[a].conn = "Connected"
    PROVE  LET q == Opened(r, a, "Connecting") IN
           /\ q \in DaemonStates /\ Kept(r, q) /\ (Fine(q) => Fine(r) /\ Rested(q))
           /\ q.ag[a].audio = "Connecting"
  <1> DEFINE q == Opened(r, a, "Connecting")
             g == OpenedOf(r.ag[a], "Connecting")
             u == [r.snd EXCEPT !.cut = @ \/ r.ag[a].stop]
  <1>1. /\ q \in DaemonStates /\ q.on = r.on /\ q.snd = u /\ q.ag[a] = g
        /\ \A b \in Gateway \ {a} : q.ag[b] = r.ag[b]
    <2>1. "Connecting" \in Links
      BY DEF Links
    <2> QED BY <2>1, OpenedIs
  <1>2. r.ag[a] \in Gateways /\ r.snd \in Sounds
    BY DEF DaemonStates
  <1>3. /\ g.exists = r.ag[a].exists /\ g.owner = r.ag[a].owner /\ g.known = r.ag[a].known
        /\ g.conn = r.ag[a].conn /\ g.audio = "Connecting" /\ g.watched = TRUE
        /\ g.bind = r.ag[a].bind /\ g.streams = r.ag[a].streams /\ g.stop = FALSE
        /\ g.unbind = r.ag[a].unbind
    BY <1>2 DEF OpenedOf, Gateways
  <1>4. /\ u.state = r.snd.state /\ u.running = r.snd.running /\ u.secondary = r.snd.secondary
        /\ u.bound = r.snd.bound /\ u.holder = r.snd.holder /\ u.dsp = r.snd.dsp
        /\ u.cut = (r.snd.cut \/ r.ag[a].stop) /\ u.membuf = r.snd.membuf
        /\ u.fault = r.snd.fault
    BY <1>2 DEF Sounds
  <1> HIDE DEF q, u, g
  <1>5. Kept(r, q)
    <2>1. \A b \in Gateway :
             /\ q.ag[b].exists = r.ag[b].exists /\ q.ag[b].owner = r.ag[b].owner
             /\ q.ag[b].known = r.ag[b].known /\ q.ag[b].conn = r.ag[b].conn
      BY <1>1, <1>3
    <2> QED BY <1>1, <1>4, <2>1 DEF Kept
  <1>6. Fine(q) => Fine(r)
    BY <1>1, <1>4 DEF Fine
  <1>7. ASSUME Fine(q) PROVE Rested(q)
    <2>1. Rested(r)
      BY <1>6, <1>7
    <2>2. u.state = "Stopped" /\ Free(u)
      BY <1>4, <2>1 DEF Rested, Free, Apart
    <2>3. Apart(g)
      BY <1>3, <2>1 DEF Rested, Apart, Linked
    <2> QED BY <1>1, <2>1, <2>2, <2>3 DEF Rested
  <1> QED BY <1>1, <1>3, <1>5, <1>6, <1>7 DEF q

LEMMA AttachedAgrees ==
    ASSUME NEW r \in DaemonStates, NEW a \in Gateway, NEW opens \in BOOLEAN, NEW starts \in BOOLEAN,
           Fine(r) => Rested(r)
    PROVE  LET q == Attached(r, a, opens, starts) IN
           /\ q \in DaemonStates /\ Kept(r, q) /\ (Fine(q) => Fine(r) /\ Agree(q))
           /\ ~opens => Follows(r, q)
  <1>1. CASE r.ag[a].audio # "Disconnected"
    <2> DEFINE b == Bound(r, a)
               q == EpAudioGatewayComplete(b, a, starts)
    <2>1. Attached(r, a, opens, starts) = q
      BY <1>1 DEF Attached
    <2>2. b \in DaemonStates /\ Follows(r, b) /\ (Fine(b) => Setup(b, a))
      BY <1>1, BoundSetsUp
    <2> HIDE DEF b
    <2>3. q \in DaemonStates /\ Follows(b, q) /\ (Fine(q) => Agree(q))
      BY <2>2, CompleteAgrees
    <2> HIDE DEF q
    <2>4. Follows(r, q)
      BY <2>2, <2>3, FollowsOn
    <2> QED BY <2>1, <2>3, <2>4 DEF Follows
  <1>2. CASE r.ag[a].audio = "Disconnected" /\ opens /\ r.ag[a].conn = "Connected"
    <2> DEFINE o == Opened(r, a, "Connecting")
               b == Bound(o, a)
               q == EpAudioGatewayComplete(b, a, starts)
    <2>1. Attached(r, a, opens, starts) = q
      BY <1>2 DEF Attached
    <2>2. /\ o \in DaemonStates /\ Kept(r, o) /\ (Fine(o) => Fine(r) /\ Rested(o))
          /\ o.ag[a].audio # "Disconnected"
      BY <1>2, OpenedRests
    <2> HIDE DEF o
    <2>3. b \in DaemonStates /\ Follows(o, b) /\ (Fine(b) => Setup(b, a))
      BY <2>2, BoundSetsUp
    <2> HIDE DEF b
    <2>4. q \in DaemonStates /\ Follows(b, q) /\ (Fine(q) => Agree(q))
      BY <2>3, CompleteAgrees
    <2> HIDE DEF q
    <2>5. Kept(r, q) /\ (Fine(q) => Fine(r))
      <3>1. Kept(o, b) /\ Kept(b, q)
        BY <2>3, <2>4 DEF Follows
      <3>2. Kept(o, q)
        BY <3>1, KeptOn
      <3>3. Kept(r, q)
        BY <2>2, <3>2, KeptOn
      <3> QED BY <2>2, <2>3, <2>4, <3>3 DEF Follows
    <2> QED BY <1>2, <2>1, <2>4, <2>5
  <1>3. CASE r.ag[a].audio = "Disconnected" /\ ~(opens /\ r.ag[a].conn = "Connected")
    <2>1. Attached(r, a, opens, starts) = r
      BY <1>3 DEF Attached
    <2>2. Follows(r, r)
      BY FollowsItself
    <2> QED BY <2>1, <2>2, RestedAgrees DEF Follows
  <1> QED BY <1>1, <1>2, <1>3

\* EpAudioGateway, whatever has been streaming.
LEMMA EpAudioGatewayAgrees ==
    ASSUME NEW r \in DaemonStates, NEW a \in Gateway, NEW opens \in BOOLEAN, NEW starts \in BOOLEAN,
           Fine(r) => Loose(r)
    PROVE  LET q == EpAudioGateway(r, a, opens, starts) IN
           /\ q \in DaemonStates /\ Kept(r, q) /\ (Fine(q) => Fine(r) /\ Agree(q))
           /\ ~opens => Follows(r, q)
  <1> DEFINE e == EpStopped(r)
             q == Attached(e, a, opens, starts)
  <1>1. EpAudioGateway(r, a, opens, starts) = q
    BY DEF EpAudioGateway
  <1>2. e \in DaemonStates /\ Follows(r, e) /\ (Fine(e) => Rested(e))
    BY EpStoppedRests
  <1> HIDE DEF e
  <1>3. /\ q \in DaemonStates /\ Kept(e, q) /\ (Fine(q) => Fine(e) /\ Agree(q))
        /\ ~opens => Follows(e, q)
    BY <1>2, AttachedAgrees
  <1> HIDE DEF q
  <1>4. Kept(r, q)
    BY <1>2, <1>3, KeptOn DEF Follows
  <1>5. ~opens => Follows(r, q)
    BY <1>2, <1>3, FollowsOn
  <1> QED BY <1>1, <1>2, <1>3, <1>4, <1>5 DEF Follows

-----------------------------------------------------------------------------
(* NotifyAudioConnection.                                                    *)

\* All but that the audio that the stream waits for is still being opened.
AudioChanged(r, a) ==
    /\ Routing(r.snd)
    /\ \A b \in Gateway : Fits(r.snd, r.ag[b], b) /\ Feeds(r.snd, r.ag[b], b)
    /\ \A b \in Gateway \ {a} : Awaits(r.snd, r.ag[b], b)

LEMMA AgreeChanged ==
    ASSUME NEW r, NEW a, Agree(r)
    PROVE  AudioChanged(r, a) /\ Loose(r)
  BY DEF Agree, Whole, AudioChanged, Loose

\* SndClose of a gateway for which the stream does not wait, or is told later.
LEMMA SndCloseChanges ==
    ASSUME NEW r \in DaemonStates, NEW a \in Gateway
    PROVE  LET q == SndClose(r, a) IN
           /\ q \in DaemonStates /\ Follows(r, q)
           /\ q.ag[a].audio = "Disconnected" /\ q.ag[a].bind = r.ag[a].bind
           /\ q.snd.state = r.snd.state
           /\ AudioChanged(r, a) => AudioChanged(q, a)
           /\ Agree(r) /\ ~Waiting(r.snd, a) => Agree(q)
  <1> DEFINE q == SndClose(r, a)
             g == ClosedOf(r.ag[a])
             u == [r.snd EXCEPT !.cut = @ \/ r.ag[a].streams \/ r.ag[a].stop]
  <1>1. /\ q \in DaemonStates /\ q.on = r.on /\ q.snd = u /\ q.ag[a] = g
        /\ \A b \in Gateway \ {a} : q.ag[b] = r.ag[b]
    BY SndCloseIs
  <1>2. r.ag[a] \in Gateways /\ r.snd \in Sounds
    BY DEF DaemonStates
  <1>3. /\ g.exists = r.ag[a].exists /\ g.owner = r.ag[a].owner /\ g.known = r.ag[a].known
        /\ g.conn = r.ag[a].conn /\ g.audio = "Disconnected" /\ g.watched = FALSE
        /\ g.bind = r.ag[a].bind /\ g.streams = FALSE /\ g.stop = FALSE
        /\ g.unbind = r.ag[a].unbind
    BY <1>2 DEF ClosedOf, Gateways
  <1>4. /\ u.state = r.snd.state /\ u.running = r.snd.running /\ u.secondary = r.snd.secondary
        /\ u.bound = r.snd.bound /\ u.holder = r.snd.holder /\ u.dsp = r.snd.dsp
        /\ u.cut = (r.snd.cut \/ r.ag[a].streams \/ r.ag[a].stop) /\ u.membuf = r.snd.membuf
        /\ u.fault = r.snd.fault
    BY <1>2 DEF Sounds
  <1> HIDE DEF q, u, g
  <1>5. Follows(r, q)
    <2>1. \A b \in Gateway :
             /\ q.ag[b].exists = r.ag[b].exists /\ q.ag[b].owner = r.ag[b].owner
             /\ q.ag[b].known = r.ag[b].known /\ q.ag[b].conn = r.ag[b].conn
             /\ q.ag[b].audio \in {r.ag[b].audio, "Disconnected"}
      BY <1>1, <1>3
    <2> QED BY <1>1, <1>4, <2>1 DEF Follows, Kept, Quiet, Fine
  <1>6. ASSUME AudioChanged(r, a) PROVE AudioChanged(q, a)
    <2>1. Routing(u)
      BY <1>4, <1>6 DEF AudioChanged, Routing, Fits, Claims, Streaming
    <2>2. Fits(u, g, a) /\ Feeds(u, g, a)
      <3>1. Fits(r.snd, r.ag[a], a) /\ Feeds(r.snd, r.ag[a], a)
        BY <1>6 DEF AudioChanged
      <3>2. Linked(g)
        BY <1>3, <3>1 DEF Fits, Linked
      <3>3. Persists(g)
        BY <1>3, <3>1 DEF Fits, Persists
      <3>4. Claims(u, g, a)
        BY <1>3, <1>4, <3>1 DEF Fits, Claims, Waiting, Streaming
      <3>5. Feeds(u, g, a)
        BY <1>4, <3>1 DEF Feeds, Streaming
      <3> QED BY <3>2, <3>3, <3>4, <3>5 DEF Fits
    <2>3. ASSUME NEW b \in Gateway \ {a}
          PROVE  Fits(u, r.ag[b], b) /\ Feeds(u, r.ag[b], b) /\ Awaits(u, r.ag[b], b)
      BY <1>4, <1>6 DEF AudioChanged, Fits, Claims, Feeds, Awaits, Waiting, Streaming
    <2> QED BY <1>1, <2>1, <2>2, <2>3 DEF AudioChanged
  <1>7. ASSUME Agree(r), ~Waiting(r.snd, a) PROVE Agree(q)
    <2>1. AudioChanged(q, a)
      BY <1>6, <1>7, AgreeChanged
    <2>2. Awaits(q.snd, q.ag[a], a)
      BY <1>1, <1>4, <1>7 DEF Awaits, Waiting
    <2> QED BY <2>1, <2>2 DEF AudioChanged, Agree, Whole
  <1> QED BY <1>1, <1>3, <1>4, <1>5, <1>6, <1>7 DEF q

LEMMA HeardChanges ==
    ASSUME NEW r \in DaemonStates, NEW a \in Gateway, Fine(r) => AudioChanged(r, a)
    PROVE  LET q == Heard(r, a) IN
           q \in DaemonStates /\ Follows(r, q) /\ (Fine(q) => AudioChanged(q, a))
  <1> DEFINE s == IF Refuses(r, a) THEN SndClose(r, a) ELSE r
             q == Told(s, a)
             g == [s.ag[a] EXCEPT !.told = s.ag[a].audio]
  <1>1. Heard(r, a) = q
    BY DEF Heard
  <1>2. s \in DaemonStates /\ Follows(r, s) /\ (AudioChanged(r, a) => AudioChanged(s, a))
    BY SndCloseChanges, FollowsItself
  <1> HIDE DEF s
  <1>3. s.ag[a] \in Gateways /\ s.ag[a].audio \in Links
    BY <1>2 DEF DaemonStates, Gateways
  <1>4. /\ q \in DaemonStates /\ q.on = s.on /\ q.snd = s.snd /\ q.ag[a] = g
        /\ \A b \in Gateway \ {a} : q.ag[b] = s.ag[b]
    BY <1>2, <1>3, ToldIs DEF Told
  <1>5. /\ g.exists = s.ag[a].exists /\ g.owner = s.ag[a].owner /\ g.known = s.ag[a].known
        /\ g.conn = s.ag[a].conn /\ g.audio = s.ag[a].audio /\ g.watched = s.ag[a].watched
        /\ g.bind = s.ag[a].bind /\ g.streams = s.ag[a].streams /\ g.stop = s.ag[a].stop
        /\ g.unbind = s.ag[a].unbind
    BY <1>3 DEF Gateways
  <1> HIDE DEF q, g
  <1>6. Follows(s, q)
    <2>1. \A b \in Gateway :
             /\ q.ag[b].exists = s.ag[b].exists /\ q.ag[b].owner = s.ag[b].owner
             /\ q.ag[b].known = s.ag[b].known /\ q.ag[b].conn = s.ag[b].conn
             /\ q.ag[b].audio = s.ag[b].audio
      BY <1>4, <1>5
    <2> QED BY <1>4, <2>1 DEF Follows, Kept, Quiet, Fine
  <1>7. Follows(r, q)
    BY <1>2, <1>6, FollowsOn
  <1>8. ASSUME Fine(q) PROVE AudioChanged(q, a)
    <2>1. AudioChanged(s, a)
      BY <1>2, <1>7, <1>8 DEF Follows
    <2>2. Fits(q.snd, q.ag[a], a) /\ Feeds(q.snd, q.ag[a], a)
      <3>1. Fits(s.snd, s.ag[a], a) /\ Feeds(s.snd, s.ag[a], a)
        BY <2>1 DEF AudioChanged
      <3>2. Linked(g) /\ Persists(g)
        BY <1>5, <3>1 DEF Fits, Linked, Persists
      <3>3. Claims(s.snd, g, a) /\ Feeds(s.snd, g, a)
        BY <1>5, <3>1 DEF Fits, Claims, Feeds
      <3> QED BY <1>4, <3>2, <3>3 DEF Fits
    <2>3. \A b \in Gateway \ {a} :
             /\ Fits(q.snd, q.ag[b], b) /\ Feeds(q.snd, q.ag[b], b)
             /\ Awaits(q.snd, q.ag[b], b)
      BY <1>4, <2>1 DEF AudioChanged
    <2> QED BY <1>4, <2>1, <2>2, <2>3 DEF AudioChanged
  <1> QED BY <1>1, <1>4, <1>7, <1>8

\* The stream that waits for the audio of a goes on or gives up.
LEMMA CompletedAgrees ==
    ASSUME NEW r \in DaemonStates, NEW a \in Gateway, NEW starts \in BOOLEAN,
           Fine(r) => AudioChanged(r, a)
    PROVE  LET q == Completed(r, a, starts) IN
           /\ q \in DaemonStates /\ Follows(r, q) /\ (Fine(q) => Agree(q))
           /\ Fine(q) /\ r.ag[a].audio = "Connected" => ~Waiting(q.snd, a)
  <1>1. CASE r.ag[a].bind
    <2>1. Completed(r, a, starts) = EpAudioGatewayComplete(r, a, starts)
      BY <1>1 DEF Completed
    <2>2. ASSUME Fine(r) PROVE Setup(r, a)
      <3>1. Routing(r.snd) /\ \A b \in Gateway : Fits(r.snd, r.ag[b], b)
        BY <2>2 DEF AudioChanged
      <3>2. Waiting(r.snd, a)
        BY <1>1, <3>1 DEF Fits, Claims
      <3>3. /\ r.snd.bound = a /\ r.snd.holder = None /\ r.snd.secondary = None
            /\ r.snd.dsp /\ ~r.snd.running /\ ~r.snd.cut /\ r.snd.state = "Connecting"
        BY <3>1, <3>2 DEF Waiting, Routing, Streams, Own
      <3>4. /\ Linked(r.ag[a]) /\ r.ag[a].bind
            /\ ~r.ag[a].streams /\ ~r.ag[a].stop /\ ~r.ag[a].unbind
        BY <1>1, <3>1, <3>3 DEF Fits, Claims, Streaming
      <3>5. \A b \in Gateway \ {a} : Apart(r.ag[b])
        BY <3>1, <3>3 DEF Fits, Claims, Streaming, Waiting, Apart
      <3> QED BY <3>3, <3>4, <3>5 DEF Setup, Idle
    <2> DEFINE q == EpAudioGatewayComplete(r, a, starts)
    <2>3. /\ q \in DaemonStates /\ Follows(r, q) /\ (Fine(q) => Agree(q))
          /\ Fine(q) /\ r.ag[a].audio = "Connected" => q.snd.state # "Connecting"
      BY <2>2, CompleteAgrees
    <2> HIDE DEF q
    <2> QED BY <2>1, <2>3 DEF Waiting, q
  <1>2. CASE ~r.ag[a].bind
    <2>1. Completed(r, a, starts) = r
      BY <1>2 DEF Completed
    <2>2. ASSUME Fine(r) PROVE Agree(r) /\ ~Waiting(r.snd, a)
      <3>1. ~Waiting(r.snd, a)
        BY <1>2, <2>2 DEF AudioChanged, Fits, Claims
      <3>2. Awaits(r.snd, r.ag[a], a)
        BY <3>1 DEF Awaits
      <3> QED BY <2>2, <3>1, <3>2 DEF AudioChanged, Agree, Whole
    <2> QED BY <2>1, <2>2, FollowsItself
  <1> QED BY <1>1, <1>2

\* A gateway that is not needed any more is disconnected.
LEMMA UnneededAgrees ==
    ASSUME NEW r \in DaemonStates, NEW a \in Gateway, NEW closed \in BOOLEAN,
           Fine(r) => Agree(r)
    PROVE  LET q == Unneeded(r, a, closed) IN
           q \in DaemonStates /\ Follows(r, q) /\ (Fine(q) => Agree(q))
  <1>1. CASE ~(r.ag[a].unbind /\ closed)
    <2>1. Unneeded(r, a, closed) = r
      BY <1>1 DEF Unneeded
    <2> QED BY <2>1, FollowsItself
  <1>2. CASE r.ag[a].unbind /\ closed
    <2> DEFINE s == SessionDisconnect(r, a)
               q == Parted(s, a)
               k == PartedOf(r.ag[a])
               g == [k EXCEPT !.unbind = FALSE, !.told = "Disconnected"]
    <2>1. Unneeded(r, a, closed) = q
      BY <1>2 DEF Unneeded
    <2>2. /\ s \in DaemonStates /\ s.on = r.on /\ s.snd = r.snd /\ s.ag[a] = k
          /\ \A b \in Gateway \ {a} : s.ag[b] = r.ag[b]
      BY SessionDisconnectIs
    <2> HIDE DEF s, q
    <2>4. r.ag[a] \in Gateways /\ k \in Gateways
      BY <2>2 DEF DaemonStates
    <2>5. /\ k.exists = r.ag[a].exists /\ k.owner = r.ag[a].owner /\ k.known = r.ag[a].known
          /\ k.conn = "Disconnected" /\ k.audio = "Disconnected" /\ k.watched = FALSE
          /\ k.bind = r.ag[a].bind /\ k.streams = FALSE
          /\ k.stop = (r.ag[a].stop \/ r.ag[a].streams)
      BY <2>4 DEF PartedOf, Gateways
    <2> HIDE DEF k
    <2>3. /\ q \in DaemonStates /\ q.on = s.on /\ q.snd = s.snd /\ q.ag[a] = g
          /\ \A b \in Gateway \ {a} : q.ag[b] = s.ag[b]
      BY <2>2, PartedIs DEF q
    <2>6. /\ g.exists = k.exists /\ g.owner = k.owner /\ g.known = k.known
          /\ g.conn = k.conn /\ g.audio = k.audio /\ g.watched = k.watched
          /\ g.bind = k.bind /\ g.streams = k.streams /\ g.stop = k.stop
          /\ g.unbind = FALSE
      BY <2>4 DEF Gateways
    <2> HIDE DEF g
    <2>7. Follows(r, q)
      <3>1. \A b \in Gateway :
               /\ q.ag[b].exists = r.ag[b].exists /\ q.ag[b].owner = r.ag[b].owner
               /\ q.ag[b].known = r.ag[b].known
               /\ q.ag[b].conn \in {r.ag[b].conn, "Disconnected"}
               /\ q.ag[b].audio \in {r.ag[b].audio, "Disconnected"}
        BY <2>2, <2>3, <2>5, <2>6
      <3> QED BY <2>2, <2>3, <3>1 DEF Follows, Kept, Quiet, Fine
    <2>8. ASSUME Fine(q) PROVE Agree(q)
      <3>1. Routing(r.snd) /\ \A b \in Gateway : Whole(r.snd, r.ag[b], b)
        BY <2>7, <2>8 DEF Follows, Agree
      <3>2. Streaming(r.snd, a)
        BY <1>2, <3>1 DEF Whole, Fits, Claims
      <3>3. Linked(g) /\ Persists(g)
        BY <2>5, <2>6 DEF Linked, Persists
      <3>4. Claims(r.snd, g, a)
        BY <2>5, <2>6, <3>1, <3>2 DEF Whole, Fits, Claims
      <3>5. Awaits(r.snd, g, a) /\ Feeds(r.snd, g, a)
        BY <2>5, <2>6, <3>1, <3>2 DEF Whole, Awaits, Feeds, Waiting, Streaming
      <3>6. Whole(q.snd, q.ag[a], a)
        BY <2>2, <2>3, <3>3, <3>4, <3>5 DEF Whole, Fits
      <3>7. \A b \in Gateway \ {a} : Whole(q.snd, q.ag[b], b)
        BY <2>2, <2>3, <3>1
      <3> QED BY <2>2, <2>3, <3>1, <3>6, <3>7 DEF Agree
    <2> QED BY <2>1, <2>3, <2>7, <2>8
  <1> QED BY <1>1, <1>2

\* The audio is routed, or closed.
LEMMA RoutedAgrees ==
    ASSUME NEW r \in DaemonStates, NEW a \in Gateway, NEW starts \in BOOLEAN,
           Fine(r) => Agree(r) /\ ~Waiting(r.snd, a)
    PROVE  LET q == Routed(r, a, starts) IN
           q \in DaemonStates /\ Follows(r, q) /\ (Fine(q) => Agree(q))
  <1>1. CASE r.snd.state # "Stopped"
    <2>1. Routed(r, a, starts) = SndClose(r, a)
      BY <1>1 DEF Routed
    <2> DEFINE q == SndClose(r, a)
    <2>2. q \in DaemonStates /\ Follows(r, q) /\ (Agree(r) /\ ~Waiting(r.snd, a) => Agree(q))
      BY SndCloseChanges
    <2> HIDE DEF q
    <2>3. Fine(q) => Agree(q)
      BY <2>2 DEF Follows
    <2> QED BY <2>1, <2>2, <2>3 DEF q
  <1>2. CASE r.snd.state = "Stopped"
    <2> DEFINE e == EpAudioGateway(r, a, FALSE, starts)
               q == RoutedOrClosed(e, a)
    <2>1. Routed(r, a, starts) = q
      BY <1>2 DEF Routed
    <2>2. e \in DaemonStates /\ Follows(r, e) /\ (Fine(e) => Agree(e))
      BY AgreeChanged, EpAudioGatewayAgrees
    <2> HIDE DEF e
    <2>3. CASE e.snd.state = "Stopped"
      <3> DEFINE t == SndClose(e, a)
      <3>1. q = t
        BY <2>3 DEF RoutedOrClosed
      <3>2. t \in DaemonStates /\ Follows(e, t) /\ (Agree(e) /\ ~Waiting(e.snd, a) => Agree(t))
        BY <2>2, SndCloseChanges
      <3> HIDE DEF t, q
      <3>3. ~Waiting(e.snd, a)
        BY <2>3 DEF Waiting
      <3>4. Fine(t) => Agree(t)
        BY <2>2, <3>2, <3>3 DEF Follows
      <3>5. Follows(r, t)
        BY <2>2, <3>2, FollowsOn
      <3> QED BY <2>1, <3>1, <3>2, <3>4, <3>5
    <2>4. CASE e.snd.state # "Stopped"
      <3>1. q = e
        BY <2>4 DEF RoutedOrClosed
      <3> QED BY <2>1, <2>2, <3>1
    <2> QED BY <2>3, <2>4
  <1> QED BY <1>1, <1>2

\* Whatever has become of the audio of a, and whatever was streaming, all agree
\* after NotifyAudioConnection.
LEMMA AudioConnectionAgrees ==
    ASSUME NEW r \in DaemonStates, NEW a \in Gateway, NEW starts \in BOOLEAN,
           Fine(r) => AudioChanged(r, a)
    PROVE  LET q == NotifyAudioConnection(r, a, starts) IN
           q \in DaemonStates /\ Follows(r, q) /\ (Fine(q) => Agree(q))
  <1> DEFINE h == Heard(r, a)
             c == Completed(h, a, starts)
             q == HeardOf(h, a, starts)
  <1>1. NotifyAudioConnection(r, a, starts) = q
    BY DEF NotifyAudioConnection
  <1>2. h \in DaemonStates /\ Follows(r, h) /\ (Fine(h) => AudioChanged(h, a))
    BY HeardChanges
  <1> HIDE DEF h
  <1>3. /\ c \in DaemonStates /\ Follows(h, c) /\ (Fine(c) => Agree(c))
        /\ Fine(c) /\ h.ag[a].audio = "Connected" => ~Waiting(c.snd, a)
    BY <1>2, CompletedAgrees
  <1>4. CASE Routes(h, a)
    <2> DEFINE s == Routed(c, a, starts)
               t == Unneeded(s, a, s.ag[a].audio = "Disconnected")
    <2>1. q = t
      BY <1>4 DEF HeardOf, RoutedThenUnneeded
    <2> HIDE DEF c
    <2>2. Fine(c) => Agree(c) /\ ~Waiting(c.snd, a)
      BY <1>3, <1>4 DEF Routes
    <2>3. s \in DaemonStates /\ Follows(c, s) /\ (Fine(s) => Agree(s))
      BY <1>3, <2>2, RoutedAgrees
    <2> HIDE DEF s
    <2>4. t \in DaemonStates /\ Follows(s, t) /\ (Fine(t) => Agree(t))
      <3>1. (s.ag[a].audio = "Disconnected") \in BOOLEAN
        OBVIOUS
      <3> QED BY <2>3, <3>1, UnneededAgrees
    <2> HIDE DEF t, q
    <2>5. Follows(r, t)
      BY <1>2, <1>3, <2>3, <2>4, FollowsOn
    <2> QED BY <1>1, <2>1, <2>4, <2>5
  <1>5. CASE ~Routes(h, a)
    <2> DEFINE t == Unneeded(c, a, h.ag[a].audio = "Disconnected")
    <2>1. q = t
      BY <1>5 DEF HeardOf
    <2> HIDE DEF c
    <2>2. t \in DaemonStates /\ Follows(c, t) /\ (Fine(t) => Agree(t))
      <3>1. (h.ag[a].audio = "Disconnected") \in BOOLEAN
        OBVIOUS
      <3> QED BY <1>3, <3>1, UnneededAgrees
    <2> HIDE DEF t, q
    <2>3. Follows(r, t)
      BY <1>2, <1>3, <2>2, FollowsOn
    <2> QED BY <1>1, <2>1, <2>2, <2>3
  <1> QED BY <1>4, <1>5

-----------------------------------------------------------------------------
(* NotifyConnection.                                                         *)

\* All but what is about a connection of a that has gone.
LinkChanged(r, a) ==
    /\ Routing(r.snd)
    /\ \A b \in Gateway : /\ Linked(r.ag[b]) /\ Claims(r.snd, r.ag[b], b)
                          /\ Feeds(r.snd, r.ag[b], b)
    /\ \A b \in Gateway \ {a} : Persists(r.ag[b]) /\ Awaits(r.snd, r.ag[b], b)
    /\ r.ag[a].conn # "Disconnected" => Awaits(r.snd, r.ag[a], a)

LEMMA SessionDisconnectChanges ==
    ASSUME NEW r \in DaemonStates, NEW a \in Gateway
    PROVE  LET q == SessionDisconnect(r, a) IN
           /\ q \in DaemonStates /\ Follows(r, q)
           /\ q.ag[a].conn = "Disconnected"
           /\ LinkChanged(r, a) => LinkChanged(q, a)
  <1> DEFINE q == SessionDisconnect(r, a)
             k == PartedOf(r.ag[a])
  <1>1. /\ q \in DaemonStates /\ q.on = r.on /\ q.snd = r.snd /\ q.ag[a] = k
        /\ \A b \in Gateway \ {a} : q.ag[b] = r.ag[b]
    BY SessionDisconnectIs
  <1>2. r.ag[a] \in Gateways
    BY DEF DaemonStates
  <1>3. /\ k.exists = r.ag[a].exists /\ k.owner = r.ag[a].owner /\ k.known = r.ag[a].known
        /\ k.conn = "Disconnected" /\ k.audio = "Disconnected" /\ k.watched = FALSE
        /\ k.bind = r.ag[a].bind /\ k.streams = FALSE /\ k.unbind = r.ag[a].unbind
        /\ k.stop = (r.ag[a].stop \/ r.ag[a].streams)
    BY <1>2 DEF PartedOf, Gateways
  <1> HIDE DEF q, k
  <1>4. Follows(r, q)
    <2>1. \A b \in Gateway :
             /\ q.ag[b].exists = r.ag[b].exists /\ q.ag[b].owner = r.ag[b].owner
             /\ q.ag[b].known = r.ag[b].known
             /\ q.ag[b].conn \in {r.ag[b].conn, "Disconnected"}
             /\ q.ag[b].audio \in {r.ag[b].audio, "Disconnected"}
      BY <1>1, <1>3
    <2> QED BY <1>1, <2>1 DEF Follows, Kept, Quiet, Fine
  <1>5. ASSUME LinkChanged(r, a) PROVE LinkChanged(q, a)
    <2>1. Linked(k)
      BY <1>3 DEF Linked
    <2>2. Claims(r.snd, k, a) /\ Feeds(r.snd, k, a)
      BY <1>3, <1>5 DEF LinkChanged, Claims, Feeds
    <2> QED BY <1>1, <1>3, <1>5, <2>1, <2>2 DEF LinkChanged
  <1> QED BY <1>1, <1>3, <1>4, <1>5 DEF q

LEMMA LinkHeardAgrees ==
    ASSUME NEW r \in DaemonStates, NEW a \in Gateway, Fine(r) => LinkChanged(r, a)
    PROVE  LET q == LinkHeard(r, a) IN
           q \in DaemonStates /\ Follows(r, q) /\ (Fine(q) => Agree(q))
  <1>1. CASE r.ag[a].conn # "Disconnected"
    <2>1. LinkHeard(r, a) = r
      BY <1>1 DEF LinkHeard
    <2>2. LinkChanged(r, a) => Agree(r)
      BY <1>1 DEF LinkChanged, Agree, Whole, Fits, Persists
    <2> QED BY <2>1, <2>2, FollowsItself
  <1>2. CASE r.ag[a].conn = "Disconnected"
    <2> DEFINE p == [r EXCEPT !.ag[a].unbind = FALSE]
               g == [r.ag[a] EXCEPT !.unbind = FALSE]
               c == Checked(p, r.ag[a].audio = "Disconnected", "AudioOpen")
               q == NotifyAudioConnection(c, a, FALSE)
    <2>1. LinkHeard(r, a) = q
      BY <1>2 DEF LinkHeard
    <2>2. r.ag[a] \in Gateways
      BY DEF DaemonStates
    <2>3. g \in Gateways /\ p = [r EXCEPT !.ag[a] = g]
      BY <2>2 DEF Gateways, DaemonStates
    <2>4. /\ g.exists = r.ag[a].exists /\ g.owner = r.ag[a].owner /\ g.known = r.ag[a].known
          /\ g.conn = r.ag[a].conn /\ g.audio = r.ag[a].audio /\ g.watched = r.ag[a].watched
          /\ g.bind = r.ag[a].bind /\ g.streams = r.ag[a].streams /\ g.stop = r.ag[a].stop
          /\ g.unbind = FALSE
      BY <2>2 DEF Gateways
    <2> HIDE DEF p, g
    <2>5. /\ p \in DaemonStates /\ p.on = r.on /\ p.snd = r.snd /\ p.ag[a] = g
          /\ \A b \in Gateway \ {a} : p.ag[b] = r.ag[b]
      BY <2>3 DEF DaemonStates
    <2>6. Follows(r, p)
      <3>1. \A b \in Gateway :
               /\ p.ag[b].exists = r.ag[b].exists /\ p.ag[b].owner = r.ag[b].owner
               /\ p.ag[b].known = r.ag[b].known /\ p.ag[b].conn = r.ag[b].conn
               /\ p.ag[b].audio = r.ag[b].audio
        BY <2>4, <2>5
      <3> QED BY <2>5, <3>1 DEF Follows, Kept, Quiet, Fine
    <2>7. Fine(p) => LinkChanged(r, a)
      BY <2>6 DEF Follows
    <2>8. c \in DaemonStates /\ Follows(p, c) /\ (Fine(c) => c = p)
      <3>1. (r.ag[a].audio = "Disconnected") \in BOOLEAN
        OBVIOUS
      <3>2. Fine(p) => r.ag[a].audio = "Disconnected"
        BY <1>2, <2>7 DEF LinkChanged, Linked
      <3> QED BY <2>5, <3>1, <3>2, CheckedIs
    <2> HIDE DEF c
    <2>9. ASSUME Fine(c) PROVE AudioChanged(c, a)
      <3>1. c = p /\ LinkChanged(r, a)
        BY <2>7, <2>8, <2>9
      <3>2. Linked(g) /\ Persists(g)
        BY <2>4, <3>1 DEF LinkChanged, Linked, Persists
      <3>3. Claims(r.snd, g, a) /\ Feeds(r.snd, g, a)
        BY <2>4, <3>1 DEF LinkChanged, Claims, Feeds
      <3>4. \A b \in Gateway \ {a} :
               /\ Fits(p.snd, p.ag[b], b) /\ Feeds(p.snd, p.ag[b], b)
               /\ Awaits(p.snd, p.ag[b], b)
        BY <2>5, <3>1 DEF LinkChanged, Fits
      <3>5. Fits(p.snd, p.ag[a], a) /\ Feeds(p.snd, p.ag[a], a)
        BY <2>5, <3>2, <3>3 DEF Fits
      <3> QED BY <2>5, <3>1, <3>4, <3>5 DEF AudioChanged, LinkChanged
    <2>10. q \in DaemonStates /\ Follows(c, q) /\ (Fine(q) => Agree(q))
      BY <2>8, <2>9, AudioConnectionAgrees
    <2> HIDE DEF q
    <2>11. Follows(r, q)
      BY <2>6, <2>8, <2>10, FollowsOn
    <2> QED BY <2>1, <2>10, <2>11
  <1> QED BY <1>1, <1>2

LEMMA ConnectionAgrees ==
    ASSUME NEW r \in DaemonStates, NEW a \in Gateway, Fine(r) => LinkChanged(r, a)
    PROVE  LET q == NotifyConnection(r, a) IN
           q \in DaemonStates /\ Follows(r, q) /\ (Fine(q) => Agree(q))
  <1> DEFINE s == IF Unwelcome(r, a) THEN SessionDisconnect(r, a) ELSE r
             q == LinkHeard(s, a)
  <1>1. NotifyConnection(r, a) = q
    BY DEF NotifyConnection
  <1>2. s \in DaemonStates /\ Follows(r, s) /\ (LinkChanged(r, a) => LinkChanged(s, a))
    BY SessionDisconnectChanges, FollowsItself
  <1> HIDE DEF s
  <1>3. q \in DaemonStates /\ Follows(s, q) /\ (Fine(q) => Agree(q))
    BY <1>2, LinkHeardAgrees DEF Follows
  <1> HIDE DEF q
  <1>4. Follows(r, q)
    BY <1>2, <1>3, FollowsOn
  <1> QED BY <1>1, <1>3, <1>4

LEMMA AgreeLinked ==
    ASSUME NEW r, NEW a \in Gateway, Agree(r)
    PROVE  LinkChanged(r, a)
  BY DEF Agree, Whole, Fits, LinkChanged

LEMMA DisconnectAgrees ==
    ASSUME NEW r \in DaemonStates, NEW a \in Gateway, Fine(r) => Agree(r)
    PROVE  LET q == DoDisconnect(r, a) IN
           q \in DaemonStates /\ Follows(r, q) /\ (Fine(q) => Agree(q))
  <1> DEFINE s == SessionDisconnect(r, a)
             q == NotifyConnection(s, a)
  <1>1. DoDisconnect(r, a) = q
    BY DEF DoDisconnect
  <1>2. s \in DaemonStates /\ Follows(r, s) /\ (LinkChanged(r, a) => LinkChanged(s, a))
    BY SessionDisconnectChanges
  <1> HIDE DEF s
  <1>3. Fine(s) => LinkChanged(s, a)
    BY <1>2, AgreeLinked DEF Follows
  <1>4. q \in DaemonStates /\ Follows(s, q) /\ (Fine(q) => Agree(q))
    BY <1>2, <1>3, ConnectionAgrees
  <1> HIDE DEF q
  <1>5. Follows(r, q)
    BY <1>2, <1>4, FollowsOn
  <1> QED BY <1>1, <1>4, <1>5

-----------------------------------------------------------------------------
(* The end of a stream that the library reports.                             *)

LEMMA SoundStopReleasable ==
    ASSUME NEW r \in DaemonStates, Loose(r)
    PROVE  Releasable(SoundStop(r), r.snd.state)
  <1> DEFINE s == SoundStop(r)
             Rest(a) == [r.ag[a] EXCEPT !.streams = FALSE, !.watched = FALSE, !.stop = FALSE]
  <1>1. /\ s \in DaemonStates /\ s.on = r.on /\ s.snd = [r.snd EXCEPT !.running = FALSE]
        /\ \A a \in Gateway :
              s.ag[a] = IF r.snd.running /\ a = r.snd.secondary THEN Rest(a) ELSE r.ag[a]
    BY SoundStopIs
  <1>2. r.snd \in Sounds /\ \A a \in Gateway : r.ag[a] \in Gateways
    BY DEF DaemonStates
  <1>3. \A a \in Gateway : Rest(a).conn = r.ag[a].conn /\ Rest(a).exists = r.ag[a].exists
    BY <1>2 DEF Gateways
  <1>4. /\ s.snd.running = FALSE /\ s.snd.bound = r.snd.bound /\ s.snd.holder = r.snd.holder
        /\ s.snd.secondary = r.snd.secondary /\ s.snd.dsp = r.snd.dsp
        /\ s.snd.cut = r.snd.cut /\ s.snd.membuf = r.snd.membuf
    BY <1>1, <1>2 DEF Sounds
  <1> HIDE DEF s, Rest
  <1>5. Releasable(r, r.snd.state) /\ Routing(r.snd)
    BY LooseReleasable DEF Loose
  <1>6. r.snd.state \in Idle \cup Streams
    BY <1>2 DEF Sounds
  <1>7. CASE r.snd.state \in Gatewayed
    <2>1. OnlyWith(r)
      BY <1>5, <1>7 DEF Releasable, Gatewayed
    <2>2. r.snd.secondary \in {None, r.snd.bound}
      BY <1>5, <1>7 DEF Releasable, Gatewayed
    <2>3. \A b \in Gateway \ {r.snd.bound} : s.ag[b] = r.ag[b]
      BY <1>1, <2>2, GatewayAssumption
    <2>4. OnlyWith(s)
      BY <1>1, <1>3, <1>4, <2>1, <2>3 DEF OnlyWith
    <2>5. CASE r.snd.state = "AudioGateway"
      BY <1>4, <1>5, <2>4, <2>5 DEF Releasable, s
    <2>6. CASE r.snd.state = "Connecting"
      BY <1>4, <1>5, <2>4, <2>6 DEF Releasable, s
    <2> QED BY <1>7, <2>5, <2>6 DEF Gatewayed
  <1>8. CASE r.snd.state \notin Gatewayed
    <2>1. WithNobody(r)
      BY <1>5, <1>6, <1>8 DEF Releasable, Gatewayed, Idle, Streams
    <2>2. r.snd.secondary \in {None, "File", "Membuf"}
      BY <1>5, <1>6, <1>8 DEF Routing, Gatewayed, Idle, Streams
    <2>3. \A b \in Gateway : s.ag[b] = r.ag[b]
      BY <1>1, <2>2, GatewayAssumption
    <2>4. WithNobody(s)
      BY <1>4, <2>1, <2>3 DEF WithNobody
    <2>5. CASE r.snd.state = "Stopped"
      BY <1>4, <1>5, <2>4, <2>5 DEF Releasable, s
    <2>6. CASE r.snd.state = "File"
      BY <1>4, <1>5, <2>4, <2>6 DEF Releasable, s
    <2>7. CASE r.snd.state = "Loopback"
      BY <1>4, <1>5, <2>4, <2>7 DEF Releasable, s
    <2>8. CASE r.snd.state = "Membuf"
      BY <1>4, <1>5, <2>4, <2>8 DEF Releasable, s
    <2> QED BY <1>6, <1>8, <2>5, <2>6, <2>7, <2>8 DEF Gatewayed, Idle, Streams
  <1> QED BY <1>7, <1>8 DEF s

LEMMA SoundStopFollows ==
    ASSUME NEW r \in DaemonStates
    PROVE  SoundStop(r) \in DaemonStates /\ Follows(r, SoundStop(r))
  <1> DEFINE s == SoundStop(r)
             Rest(a) == [r.ag[a] EXCEPT !.streams = FALSE, !.watched = FALSE, !.stop = FALSE]
  <1>1. /\ s \in DaemonStates /\ s.on = r.on /\ s.snd = [r.snd EXCEPT !.running = FALSE]
        /\ \A a \in Gateway :
              s.ag[a] = IF r.snd.running /\ a = r.snd.secondary THEN Rest(a) ELSE r.ag[a]
    BY SoundStopIs
  <1>2. r.snd \in Sounds /\ \A a \in Gateway : r.ag[a] \in Gateways
    BY DEF DaemonStates
  <1>3. \A a \in Gateway :
           /\ Rest(a).exists = r.ag[a].exists /\ Rest(a).owner = r.ag[a].owner
           /\ Rest(a).known = r.ag[a].known /\ Rest(a).conn = r.ag[a].conn
           /\ Rest(a).audio = r.ag[a].audio
    BY <1>2 DEF Gateways
  <1>4. s.snd.membuf = r.snd.membuf /\ s.snd.fault = r.snd.fault
    BY <1>1, <1>2 DEF Sounds
  <1> HIDE DEF s, Rest
  <1>5. \A a \in Gateway :
           /\ s.ag[a].exists = r.ag[a].exists /\ s.ag[a].owner = r.ag[a].owner
           /\ s.ag[a].known = r.ag[a].known /\ s.ag[a].conn = r.ag[a].conn
           /\ s.ag[a].audio = r.ag[a].audio
    BY <1>1, <1>3
  <1> QED BY <1>1, <1>4, <1>5 DEF Follows, Kept, Quiet, Fine, s

LEMMA NotifySoundStopRests ==
    ASSUME NEW r \in DaemonStates, Fine(r) => Loose(r)
    PROVE  LET q == NotifySoundStop(r) IN
           q \in DaemonStates /\ Follows(r, q) /\ (Fine(q) => Rested(q))
  <1> DEFINE s == SoundStop(r)
             q == EpRelease(s, r.snd.state)
  <1>1. NotifySoundStop(r) = q
    BY DEF NotifySoundStop
  <1>2. s \in DaemonStates /\ Follows(r, s)
    BY SoundStopFollows
  <1>3. Fine(s) => Releasable(s, r.snd.state)
    BY <1>2, SoundStopReleasable DEF Follows
  <1>4. r.snd.state \in Idle \cup Streams
    BY DEF DaemonStates, Sounds
  <1> HIDE DEF s
  <1>5. q \in DaemonStates /\ Follows(s, q) /\ (Fine(q) => Rested(q))
    BY <1>2, <1>3, <1>4, EpReleaseRests
  <1> HIDE DEF q
  <1>6. Follows(r, q)
    BY <1>2, <1>5, FollowsOn
  <1> QED BY <1>1, <1>5, <1>6

\* The pending reports of the session of a are delivered: the stream is told
\* when it has to be, and the gateway when its audio may have changed.
LEMMA HandleAbortAgrees ==
    ASSUME NEW r \in DaemonStates, NEW a \in Gateway, NEW stop \in BOOLEAN, NEW voice \in BOOLEAN,
           Fine(r) => /\ Loose(r)
                      /\ \A b \in Gateway \ {a} : /\ Awaits(r.snd, r.ag[b], b)
                                                  /\ Feeds(r.snd, r.ag[b], b)
                      /\ stop => r.snd.running
                      /\ ~stop => ~r.ag[a].stop /\ Feeds(r.snd, r.ag[a], a)
                      /\ voice \/ Awaits(r.snd, r.ag[a], a)
    PROVE  LET q == HandleAbort(r, a, stop, voice) IN
           q \in DaemonStates /\ Follows(r, q) /\ (Fine(q) => Agree(q))
  <1> DEFINE p == [r EXCEPT !.ag[a].stop = FALSE, !.ag[a].voice = FALSE]
             g == [r.ag[a] EXCEPT !.stop = FALSE, !.voice = FALSE]
             s == StopHeard(p, stop)
             q == VoiceHeard(s, a, voice)
  <1>1. HandleAbort(r, a, stop, voice) = q
    BY DEF HandleAbort
  <1>2. r.ag[a] \in Gateways
    BY DEF DaemonStates
  <1>3. g \in Gateways /\ p = [r EXCEPT !.ag[a] = g]
    BY <1>2 DEF Gateways, DaemonStates
  <1>4. /\ g.exists = r.ag[a].exists /\ g.owner = r.ag[a].owner /\ g.known = r.ag[a].known
        /\ g.conn = r.ag[a].conn /\ g.audio = r.ag[a].audio /\ g.watched = r.ag[a].watched
        /\ g.bind = r.ag[a].bind /\ g.streams = r.ag[a].streams /\ g.stop = FALSE
        /\ g.unbind = r.ag[a].unbind
    BY <1>2 DEF Gateways
  <1> HIDE DEF p, g
  <1>5. /\ p \in DaemonStates /\ p.on = r.on /\ p.snd = r.snd /\ p.ag[a] = g
        /\ \A b \in Gateway \ {a} : p.ag[b] = r.ag[b]
    BY <1>3 DEF DaemonStates
  <1>6. Follows(r, p)
    <2>1. \A b \in Gateway :
             /\ p.ag[b].exists = r.ag[b].exists /\ p.ag[b].owner = r.ag[b].owner
             /\ p.ag[b].known = r.ag[b].known /\ p.ag[b].conn = r.ag[b].conn
             /\ p.ag[b].audio = r.ag[b].audio
      BY <1>4, <1>5
    <2> QED BY <1>5, <2>1 DEF Follows, Kept, Quiet, Fine
  <1>7. ASSUME Fine(p)
        PROVE  /\ Loose(p)
               /\ \A b \in Gateway \ {a} : /\ Awaits(p.snd, p.ag[b], b)
                                           /\ Feeds(p.snd, p.ag[b], b)
               /\ stop => p.snd.running
               /\ ~stop => Feeds(p.snd, p.ag[a], a)
               /\ voice \/ Awaits(p.snd, p.ag[a], a)
    <2>1. /\ Loose(r)
          /\ stop => r.snd.running
          /\ \A b \in Gateway \ {a} : Awaits(r.snd, r.ag[b], b) /\ Feeds(r.snd, r.ag[b], b)
          /\ ~stop => ~r.ag[a].stop /\ Feeds(r.snd, r.ag[a], a)
          /\ voice \/ Awaits(r.snd, r.ag[a], a)
      BY <1>6, <1>7 DEF Follows
    <2>2. Fits(r.snd, r.ag[a], a)
      BY <2>1 DEF Loose
    <2>3. Fits(p.snd, p.ag[a], a)
      BY <1>4, <1>5, <2>2 DEF Fits, Linked, Persists, Claims
    <2>4. Loose(p)
      BY <1>5, <2>1, <2>3 DEF Loose
    <2>5. ~stop => Feeds(p.snd, p.ag[a], a)
      BY <1>4, <1>5, <2>1 DEF Feeds
    <2>6. voice \/ Awaits(p.snd, p.ag[a], a)
      BY <1>4, <1>5, <2>1 DEF Awaits
    <2> QED BY <1>5, <2>1, <2>4, <2>5, <2>6
  <1>8. /\ s \in DaemonStates /\ Follows(p, s)
        /\ Fine(s) => AudioChanged(s, a) /\ (voice \/ Agree(s))
    <2>1. CASE stop /\ p.snd.running
      <3> DEFINE n == NotifySoundStop(p)
      <3>1. s = n
        BY <2>1 DEF StopHeard
      <3>2. n \in DaemonStates /\ Follows(p, n) /\ (Fine(n) => Rested(n))
        BY <1>5, <1>7, NotifySoundStopRests
      <3> HIDE DEF n, s
      <3>3. Fine(n) => Agree(n) /\ AudioChanged(n, a)
        BY <3>2, RestedAgrees, AgreeChanged
      <3> QED BY <3>1, <3>2, <3>3
    <2>2. CASE ~(stop /\ p.snd.running)
      <3>1. s = p
        BY <2>2 DEF StopHeard
      <3>2. ASSUME Fine(p) PROVE AudioChanged(p, a) /\ (voice \/ Agree(p))
        <4>1. ~stop
          BY <1>7, <2>2, <3>2
        <4>2. AudioChanged(p, a)
          BY <1>7, <3>2, <4>1 DEF AudioChanged, Loose
        <4>3. Awaits(p.snd, p.ag[a], a) => Agree(p)
          BY <4>2 DEF AudioChanged, Agree, Whole
        <4> QED BY <1>7, <3>2, <4>2, <4>3
      <3> QED BY <1>5, <3>1, <3>2, FollowsItself
    <2> QED BY <2>1, <2>2
  <1> HIDE DEF s
  <1>9. q \in DaemonStates /\ Follows(s, q) /\ (Fine(q) => Agree(q))
    <2>1. CASE voice
      <3>1. q = NotifyAudioConnection(s, a, FALSE)
        BY <2>1 DEF VoiceHeard
      <3> QED BY <1>8, <3>1, AudioConnectionAgrees
    <2>2. CASE ~voice
      <3>1. q = s
        BY <2>2 DEF VoiceHeard
      <3> QED BY <1>8, <2>2, <3>1, FollowsItself
    <2> QED BY <2>1, <2>2
  <1> HIDE DEF q
  <1>10. Follows(r, q)
    BY <1>6, <1>8, <1>9, FollowsOn
  <1> QED BY <1>1, <1>9, <1>10

\* The audio of a has ended; the connection ends.
LEMMA PartsAgrees ==
    ASSUME NEW r \in DaemonStates, NEW a \in Gateway, r.ag[a].audio = "Disconnected",
           Fine(r) => Agree(r)
    PROVE  LET q == Parts(r, a) IN
           q \in DaemonStates /\ Follows(r, q) /\ (Fine(q) => Agree(q))
  <1>1. CASE r.ag[a].conn = "Disconnected"
    <2>1. Parts(r, a) = r
      BY <1>1 DEF Parts
    <2> QED BY <2>1, FollowsItself
  <1>2. CASE r.ag[a].conn # "Disconnected"
    <2> DEFINE p == [r EXCEPT !.ag[a].conn = "Disconnected"]
               g == [r.ag[a] EXCEPT !.conn = "Disconnected"]
               q == NotifyConnection(p, a)
    <2>1. Parts(r, a) = q
      BY <1>2 DEF Parts
    <2>2. r.ag[a] \in Gateways
      BY DEF DaemonStates
    <2>3. g \in Gateways /\ p = [r EXCEPT !.ag[a] = g]
      BY <2>2 DEF Gateways, DaemonStates, Links
    <2>4. /\ g.exists = r.ag[a].exists /\ g.owner = r.ag[a].owner /\ g.known = r.ag[a].known
          /\ g.conn = "Disconnected" /\ g.audio = r.ag[a].audio /\ g.watched = r.ag[a].watched
          /\ g.bind = r.ag[a].bind /\ g.streams = r.ag[a].streams /\ g.stop = r.ag[a].stop
          /\ g.unbind = r.ag[a].unbind
      BY <2>2 DEF Gateways
    <2> HIDE DEF p, g
    <2>5. /\ p \in DaemonStates /\ p.on = r.on /\ p.snd = r.snd /\ p.ag[a] = g
          /\ \A b \in Gateway \ {a} : p.ag[b] = r.ag[b]
      BY <2>3 DEF DaemonStates
    <2>6. Follows(r, p)
      <3>1. \A b \in Gateway :
               /\ p.ag[b].exists = r.ag[b].exists /\ p.ag[b].owner = r.ag[b].owner
               /\ p.ag[b].known = r.ag[b].known
               /\ p.ag[b].conn \in {r.ag[b].conn, "Disconnected"}
               /\ p.ag[b].audio = r.ag[b].audio
        BY <2>4, <2>5
      <3> QED BY <2>5, <3>1 DEF Follows, Kept, Quiet, Fine
    <2>7. ASSUME Fine(p) PROVE LinkChanged(p, a)
      <3>1. LinkChanged(r, a)
        BY <2>6, <2>7, AgreeLinked DEF Follows
      <3>2. Linked(g)
        BY <2>4, <3>1 DEF LinkChanged, Linked
      <3>3. Claims(r.snd, g, a) /\ Feeds(r.snd, g, a)
        BY <2>4, <3>1 DEF LinkChanged, Claims, Feeds
      <3> QED BY <2>4, <2>5, <3>1, <3>2, <3>3 DEF LinkChanged
    <2>8. q \in DaemonStates /\ Follows(p, q) /\ (Fine(q) => Agree(q))
      BY <2>5, <2>7, ConnectionAgrees
    <2> HIDE DEF q
    <2>9. Follows(r, q)
      BY <2>6, <2>8, FollowsOn
    <2> QED BY <2>1, <2>8, <2>9
  <1> QED BY <1>1, <1>2

-----------------------------------------------------------------------------
(* What a client of D-Bus held, when it goes.                                *)

Good(r) == r \in DaemonStates /\ (Fine(r) => Agree(r))

\* No connection comes about.
NoneConnects(r, q) ==
    \A a \in Gateway : q.ag[a].conn = "Connected" => r.ag[a].conn = "Connected"

LEMMA FollowsConnectsNone ==
    ASSUME NEW r, NEW q, Kept(r, q)
    PROVE  NoneConnects(r, q)
  BY DEF Kept, NoneConnects

\* One gateway changes in what the stream and its audio do not depend on.
LEMMA OneGatewayGood ==
    ASSUME NEW r \in DaemonStates, NEW a \in Gateway, NEW g \in Gateways,
           Fine(r) => Agree(r) /\ Whole(r.snd, g, a)
    PROVE  LET q == [r EXCEPT !.ag[a] = g] IN
           /\ Good(q)
           /\ q.snd = r.snd /\ q.ag[a] = g /\ q.on = r.on
           /\ \A b \in Gateway \ {a} : q.ag[b] = r.ag[b]
  <1> DEFINE q == [r EXCEPT !.ag[a] = g]
  <1>1. /\ q \in DaemonStates /\ q.snd = r.snd /\ q.ag[a] = g /\ q.on = r.on
        /\ \A b \in Gateway \ {a} : q.ag[b] = r.ag[b]
    BY DEF DaemonStates
  <1> HIDE DEF q
  <1>2. Fine(q) => Agree(q)
    BY <1>1 DEF Fine, Agree
  <1> QED BY <1>1, <1>2 DEF Good, q

\* The client that has claimed a gateway is forgotten.
LEMMA DisownedGood ==
    ASSUME NEW r, NEW a \in Gateway, Good(r)
    PROVE  LET q == [r EXCEPT !.ag[a].owner = None] IN
           /\ Good(q)
           /\ q.snd = r.snd /\ q.on = r.on
           /\ q.ag[a] = [r.ag[a] EXCEPT !.owner = None]
           /\ NoneConnects(r, q)
  <1> DEFINE q == [r EXCEPT !.ag[a].owner = None]
             g == [r.ag[a] EXCEPT !.owner = None]
             p == [r EXCEPT !.ag[a] = g]
  <1>1. r \in DaemonStates /\ r.ag[a] \in Gateways /\ (Fine(r) => Agree(r))
    BY DEF Good, DaemonStates
  <1>2. g \in Gateways /\ q = p
    BY <1>1 DEF Gateways, DaemonStates
  <1>3. /\ g.conn = r.ag[a].conn /\ g.audio = r.ag[a].audio /\ g.watched = r.ag[a].watched
        /\ g.bind = r.ag[a].bind /\ g.streams = r.ag[a].streams /\ g.stop = r.ag[a].stop
        /\ g.unbind = r.ag[a].unbind
    BY <1>1 DEF Gateways
  <1> HIDE DEF g
  <1>4. ASSUME Fine(r) PROVE Whole(r.snd, g, a)
    <2>1. Whole(r.snd, r.ag[a], a)
      BY <1>1, <1>4 DEF Agree
    <2> QED BY <1>3, <2>1 DEF Whole, Fits, Linked, Persists, Claims, Awaits, Feeds
  <1>5. /\ Good(p) /\ p.snd = r.snd /\ p.ag[a] = g /\ p.on = r.on
        /\ \A b \in Gateway \ {a} : p.ag[b] = r.ag[b]
    BY <1>1, <1>2, <1>4, OneGatewayGood
  <1> HIDE DEF p, q
  <1>6. NoneConnects(r, p)
    BY <1>3, <1>5 DEF NoneConnects
  <1> QED BY <1>2, <1>5, <1>6 DEF g, q

LEMMA OwnerGood ==
    ASSUME NEW r, NEW a \in Gateway, Good(r)
    PROVE  Good(OwnerDisconnectNotify(r, a)) /\ NoneConnects(r, OwnerDisconnectNotify(r, a))
  <1> DEFINE p == [r EXCEPT !.ag[a].owner = None]
             q == OwnerDisconnectNotify(r, a)
  <1>0. r \in DaemonStates /\ r.ag[a] \in Gateways /\ (Fine(r) => Agree(r))
    BY DEF Good, DaemonStates
  <1>1. /\ Good(p) /\ p.snd = r.snd /\ p.ag[a] = [r.ag[a] EXCEPT !.owner = None]
        /\ NoneConnects(r, p)
    BY DisownedGood
  <1>2. CASE r.ag[a].known \/ r.ag[a].conn = "Disconnected"
    <2>1. q = p
      BY <1>2 DEF OwnerDisconnectNotify
    <2> QED BY <1>1, <2>1
  <1>3. CASE /\ ~(r.ag[a].known \/ r.ag[a].conn = "Disconnected")
             /\ r.ag[a].streams /\ "voicepersist" \in r.on
    <2> DEFINE g == [r.ag[a] EXCEPT !.owner = None, !.unbind = TRUE]
               t == [r EXCEPT !.ag[a] = g]
    <2>1. g \in Gateways /\ q = t
      BY <1>0, <1>3 DEF OwnerDisconnectNotify, Gateways, DaemonStates
    <2>2. /\ g.conn = r.ag[a].conn /\ g.audio = r.ag[a].audio /\ g.watched = r.ag[a].watched
          /\ g.bind = r.ag[a].bind /\ g.streams = r.ag[a].streams /\ g.stop = r.ag[a].stop
      BY <1>0 DEF Gateways
    <2> HIDE DEF g, q
    <2>3. ASSUME Fine(r) PROVE Whole(r.snd, g, a)
      <3>1. Whole(r.snd, r.ag[a], a)
        BY <1>0, <2>3 DEF Agree
      <3> QED BY <1>3, <2>2, <3>1 DEF Whole, Fits, Linked, Persists, Claims, Awaits, Feeds
    <2>4. /\ Good(t) /\ t.ag[a] = g
          /\ \A b \in Gateway \ {a} : t.ag[b] = r.ag[b]
      BY <1>0, <2>1, <2>3, OneGatewayGood
    <2> HIDE DEF t
    <2>5. NoneConnects(r, t)
      BY <2>2, <2>4 DEF NoneConnects
    <2> QED BY <2>1, <2>4, <2>5 DEF q
  <1>4. CASE /\ ~(r.ag[a].known \/ r.ag[a].conn = "Disconnected")
             /\ ~(r.ag[a].streams /\ "voicepersist" \in r.on)
    <2>1. q = DoDisconnect(p, a)
      BY <1>4 DEF OwnerDisconnectNotify
    <2> HIDE DEF p, q
    <2> DEFINE t == DoDisconnect(p, a)
    <2>2. t \in DaemonStates /\ Follows(p, t) /\ (Fine(t) => Agree(t))
      BY <1>1, DisconnectAgrees DEF Good
    <2> HIDE DEF t
    <2>3. NoneConnects(p, t)
      BY <2>2 DEF Follows, Kept, NoneConnects
    <2>4. NoneConnects(r, t)
      BY <1>1, <2>3 DEF NoneConnects
    <2> QED BY <2>1, <2>2, <2>4 DEF Good, t, q
  <1> QED BY <1>2, <1>3, <1>4

LEMMA PeerNotifiedGood ==
    ASSUME NEW r, NEW what \in Gateway \cup {"stream"}, Good(r)
    PROVE  Good(PeerNotified(r, what)) /\ NoneConnects(r, PeerNotified(r, what))
  <1>1. CASE what \in Gateway
    <2>1. PeerNotified(r, what) = OwnerDisconnectNotify(r, what)
      BY <1>1 DEF PeerNotified
    <2> QED BY <1>1, <2>1, OwnerGood
  <1>2. CASE what \notin Gateway
    <2> DEFINE q == EpRelease(r, r.snd.state)
    <2>1. PeerNotified(r, what) = q
      BY <1>2 DEF PeerNotified
    <2>2. r \in DaemonStates /\ r.snd.state \in Idle \cup Streams
      BY DEF Good, DaemonStates, Sounds
    <2>3. Fine(r) => Releasable(r, r.snd.state)
      BY <2>2, AgreeChanged, LooseReleasable DEF Good
    <2>4. q \in DaemonStates /\ Follows(r, q) /\ (Fine(q) => Rested(q))
      BY <2>2, <2>3, EpReleaseRests
    <2> HIDE DEF q
    <2>5. Good(q) /\ NoneConnects(r, q)
      BY <2>4, RestedAgrees, FollowsConnectsNone DEF Good, Follows
    <2> QED BY <2>1, <2>5
  <1> QED BY <1>1, <1>2

(* DbusPeerImpl::Disconnected goes through a list, FoldLeft through the      *)
(* numbers of its members, from the last one down.  What it is defined by    *)
(* exists, and keeps what each step keeps: both by the least set of numbers  *)
(* for which it would not be so.                                             *)

LEMMA LeastSet ==
    ASSUME NEW D, IsFiniteSet(D), NEW T, T \subseteq SUBSET D, T # {}
    PROVE  \E s \in T : \A t \in T : t \subseteq s => t = s
  <1>1. \E x \in T : \A y \in T : ~ (<<y, x>> \in StrictSubsetOrdering(D))
    <2>1. IsWellFoundedOn(StrictSubsetOrdering(D), SUBSET D)
      BY FS_StrictSubsetOrderingWellFounded, FS_FiniteSubsetsOfFinite
    <2> QED BY <2>1, WFMin, Zenon
  <1> QED BY <1>1 DEF StrictSubsetOrdering

LEMMA MaxIsLast ==
    ASSUME NEW n \in Nat, NEW s \in SUBSET (1 .. n), s # {}
    PROVE  Max(s) \in s /\ \A y \in s : y <= Max(s)
  <1> DEFINE HasTop(t) == \E x \in t : \A y \in t : x >= y
             T == {t \in SUBSET (1 .. n) : t # {} /\ ~HasTop(t)}
  <1>1. T = {}
    <2> SUFFICES ASSUME T # {} PROVE FALSE
      OBVIOUS
    <2> DEFINE all == 1 .. n
    <2>1. IsFiniteSet(all)
      BY FS_Interval
    <2>2. PICK t \in T : \A u \in T : u \subseteq t => u = t
      <3>1. T \subseteq SUBSET all
        OBVIOUS
      <3> HIDE DEF HasTop, T, all
      <3> QED BY <2>1, <3>1, LeastSet
    <2>3. PICK x \in t : TRUE
      BY <2>2
    <2>4. CASE t \ {x} = {}
      <3>1. t = {x} /\ x \in Nat
        BY <2>2, <2>3, <2>4
      <3> QED BY <2>2, <3>1
    <2>5. CASE t \ {x} # {}
      <3>1. (t \ {x}) \notin T
        BY <2>2, <2>3
      <3>2. HasTop(t \ {x})
        <4> HIDE DEF HasTop
        <4> QED BY <2>2, <2>5, <3>1
      <3>3. PICK m \in t \ {x} : \A y \in t \ {x} : m >= y
        BY <3>2
      <3>4. t \subseteq Nat
        BY <2>2
      <3>5. HasTop(t)
        <4>1. CASE m >= x
          <5>1. \A y \in t : m >= y
            BY <3>3, <4>1
          <5> QED BY <3>3, <5>1
        <4>2. CASE ~(m >= x)
          <5>1. \A y \in t : x >= y
            BY <2>3, <3>3, <3>4, <4>2
          <5> QED BY <2>3, <5>1
        <4> QED BY <4>1, <4>2
      <3> QED BY <2>2, <3>5
    <2> QED BY <2>4, <2>5
  <1>2. PICK x \in s : \A y \in s : x >= y
    BY <1>1
  <1>3. Max(s) \in s /\ \A y \in s : Max(s) >= y
    BY <1>2 DEF Max
  <1> QED BY <1>3

\* What FoldLeft is defined by, for the numbers in D.
Folds(r, seq, D, g) ==
    g = [s \in SUBSET D |-> IF s = {} THEN r ELSE PeerNotified(g[s \ {Max(s)}], seq[Max(s)])]

LEMMA FoldLeftIs ==
    ASSUME NEW r, NEW seq
    PROVE  FoldLeft(PeerNotified, r, seq)
              = (CHOOSE g : Folds(r, seq, DOMAIN seq, g))[DOMAIN seq]
  BY DEF FoldLeft, MapThenFoldSet, Folds

LEMMA FoldExists ==
    ASSUME NEW r, NEW seq, NEW n \in Nat
    PROVE  \E g : Folds(r, seq, 1 .. n, g)
  <1> DEFINE Exists(D) == \E g : Folds(r, seq, D, g)
             T == {D \in SUBSET (1 .. n) : ~Exists(D)}
  <1>1. T = {}
    <2> SUFFICES ASSUME T # {} PROVE FALSE
      OBVIOUS
    <2> DEFINE all == 1 .. n
    <2>1. IsFiniteSet(all)
      BY FS_Interval
    <2>2. PICK D \in T : \A u \in T : u \subseteq D => u = D
      <3>1. T \subseteq SUBSET all
        OBVIOUS
      <3> HIDE DEF Exists, T, all
      <3> QED BY <2>1, <3>1, LeastSet
    <2>3. CASE D = {}
      <3> DEFINE g == [s \in SUBSET D |-> r]
      <3>1. Folds(r, seq, D, g)
        BY <2>3 DEF Folds
      <3> QED BY <2>2, <3>1
    <2>4. CASE D # {}
      <3> DEFINE m == Max(D)
                 E == D \ {m}
      <3>1. D \in SUBSET (1 .. n) /\ m \in D /\ \A y \in D : y <= m
        BY <2>2, <2>4, MaxIsLast
      <3> HIDE DEF m
      <3>2. E \notin T
        BY <2>2, <3>1
      <3>3. Exists(E)
        <4> HIDE DEF Exists
        <4> QED BY <2>2, <3>2
      <3>4. PICK h : Folds(r, seq, E, h)
        BY <3>3
      <3>5. ASSUME NEW s \in SUBSET D, m \in s
            PROVE  Max(s) = m
        <4>0. s \in SUBSET (1 .. n) /\ s # {}
          BY <3>1, <3>5
        <4>1. Max(s) \in s /\ \A y \in s : y <= Max(s)
          BY <4>0, MaxIsLast
        <4> DEFINE x == Max(s)
        <4> HIDE DEF x
        <4>2. x \in Nat /\ m \in Nat /\ m <= x /\ x <= m
          <5>1. x \in s /\ \A y \in s : y <= x
            BY <4>1 DEF x
          <5> QED BY <3>1, <3>5, <5>1
        <4> QED BY <4>2 DEF x
      <3> DEFINE g == [s \in SUBSET D |-> IF s \subseteq E THEN h[s]
                                          ELSE PeerNotified(h[s \ {m}], seq[m])]
      <3>6. Folds(r, seq, D, g)
        <4>1. ASSUME NEW s \in SUBSET D
              PROVE  g[s] = IF s = {} THEN r
                            ELSE PeerNotified(g[s \ {Max(s)}], seq[Max(s)])
          <5>1. CASE s = {}
            <6>1. g[s] = h[s] /\ h[s] = r
              BY <3>4, <5>1 DEF Folds
            <6> QED BY <5>1, <6>1
          <5>2. CASE s # {} /\ s \subseteq E
            <6>1. h[s] = PeerNotified(h[s \ {Max(s)}], seq[Max(s)])
              BY <3>4, <5>2 DEF Folds
            <6>2. g[s] = h[s] /\ g[s \ {Max(s)}] = h[s \ {Max(s)}]
              BY <5>2
            <6> HIDE DEF g
            <6> QED BY <5>2, <6>1, <6>2
          <5>3. CASE ~(s \subseteq E)
            <6>1. m \in s
              BY <5>3
            <6>2. Max(s) = m
              BY <3>5, <6>1
            <6>3. g[s] = PeerNotified(h[s \ {m}], seq[m]) /\ g[s \ {m}] = h[s \ {m}]
              BY <5>3
            <6> HIDE DEF g
            <6> QED BY <5>3, <6>1, <6>2, <6>3
          <5> QED BY <5>1, <5>2, <5>3
        <4>2. g = [s \in SUBSET D |-> g[s]]
          OBVIOUS
        <4> HIDE DEF g
        <4> QED BY <4>1, <4>2 DEF Folds
      <3> QED BY <2>2, <3>6
    <2> QED BY <2>3, <2>4
  <1>2. (1 .. n) \notin T
    BY <1>1
  <1> QED BY <1>2

\* All that a client held is released, in any order.
LEMMA PeerGood ==
    ASSUME NEW r, Good(r), NEW n \in Nat, NEW seq \in [1 .. n -> Gateway \cup {"stream"}]
    PROVE  LET q == FoldLeft(PeerNotified, r, seq) IN Good(q) /\ NoneConnects(r, q)
  <1> DEFINE g == CHOOSE h : Folds(r, seq, 1 .. n, h)
             Kind(q) == Good(q) /\ NoneConnects(r, q)
             T == {s \in SUBSET (1 .. n) : ~Kind(g[s])}
  <1>1. Folds(r, seq, 1 .. n, g)
    BY FoldExists
  <1>2. DOMAIN seq = 1 .. n
    OBVIOUS
  <1>3. FoldLeft(PeerNotified, r, seq) = g[1 .. n]
    BY <1>2, FoldLeftIs
  <1> HIDE DEF g
  <1>4. T = {}
    <2> SUFFICES ASSUME T # {} PROVE FALSE
      OBVIOUS
    <2> DEFINE all == 1 .. n
    <2>1. IsFiniteSet(all)
      BY FS_Interval
    <2>2. PICK s \in T : \A t \in T : t \subseteq s => t = s
      <3>1. T \subseteq SUBSET all
        OBVIOUS
      <3> HIDE DEF Kind, T, all
      <3> QED BY <2>1, <3>1, LeastSet
    <2>3. CASE s = {}
      <3>1. g[s] = r
        BY <1>1, <2>2, <2>3 DEF Folds
      <3>2. NoneConnects(r, r)
        BY DEF NoneConnects
      <3> QED BY <2>2, <3>1, <3>2
    <2>4. CASE s # {}
      <3> DEFINE m == Max(s)
                 t == s \ {m}
      <3>1. s \in SUBSET (1 .. n) /\ m \in s
        BY <2>2, <2>4, MaxIsLast
      <3>2. g[s] = PeerNotified(g[t], seq[m])
        BY <1>1, <2>4, <3>1 DEF Folds
      <3> HIDE DEF m
      <3>3. Kind(g[t])
        <4>1. t \notin T /\ t \in SUBSET (1 .. n)
          BY <2>2, <3>1
        <4> HIDE DEF Kind
        <4> QED BY <4>1
      <3>4. seq[m] \in Gateway \cup {"stream"}
        BY <3>1
      <3>5. Good(g[s]) /\ NoneConnects(g[t], g[s])
        BY <3>2, <3>3, <3>4, PeerNotifiedGood
      <3>6. NoneConnects(r, g[s])
        BY <3>3, <3>5 DEF NoneConnects
      <3> QED BY <2>2, <3>5, <3>6
    <2> QED BY <2>3, <2>4
  <1>5. Kind(g[1 .. n])
    <2> HIDE DEF Kind
    <2> QED BY <1>4
  <1> QED BY <1>3, <1>5

-----------------------------------------------------------------------------
(* The actions.                                                              *)

Keeps(r, q) == Good(q) /\ NoneConnects(r, q)

LEMMA KeepsOn ==
    ASSUME NEW r, NEW q, NEW t, Keeps(r, q), Keeps(q, t)
    PROVE  Keeps(r, t)
  BY DEF Keeps, NoneConnects

LEMMA FollowsKeeps ==
    ASSUME NEW r, NEW q, q \in DaemonStates, Follows(r, q), Fine(q) => Agree(q)
    PROVE  Keeps(r, q)
  BY FollowsConnectsNone DEF Keeps, Good, Follows

LEMMA OneGatewayKeeps ==
    ASSUME NEW r, Good(r), NEW a \in Gateway, NEW g \in Gateways,
           Fine(r) => Whole(r.snd, g, a),
           g.conn = "Connected" => r.ag[a].conn = "Connected"
    PROVE  Keeps(r, [r EXCEPT !.ag[a] = g])
  <1> DEFINE q == [r EXCEPT !.ag[a] = g]
  <1>1. r \in DaemonStates /\ (Fine(r) => Agree(r))
    BY DEF Good
  <1>2. /\ Good(q) /\ q.ag[a] = g
        /\ \A b \in Gateway \ {a} : q.ag[b] = r.ag[b]
    BY <1>1, OneGatewayGood
  <1> HIDE DEF q
  <1>3. NoneConnects(r, q)
    BY <1>2 DEF NoneConnects
  <1> QED BY <1>2, <1>3 DEF Keeps, q

\* The stream changes in what gateways do not depend on.
LEMMA OneStreamKeeps ==
    ASSUME NEW r, Good(r), NEW u \in Sounds, u.fault = r.snd.fault,
           Fine(r) => /\ Routing(u)
                      /\ u.state = r.snd.state /\ u.bound = r.snd.bound /\ u.cut = r.snd.cut
    PROVE  Keeps(r, [r EXCEPT !.snd = u])
  <1> DEFINE q == [r EXCEPT !.snd = u]
  <1>1. r \in DaemonStates /\ (Fine(r) => Agree(r))
    BY DEF Good
  <1>2. q \in DaemonStates /\ q.snd = u /\ q.ag = r.ag
    BY <1>1 DEF DaemonStates
  <1> HIDE DEF q
  <1>3. NoneConnects(r, q)
    BY <1>2 DEF NoneConnects
  <1>4. ASSUME Fine(q) PROVE Agree(q)
    <2>1. Fine(r)
      BY <1>2, <1>4 DEF Fine
    <2>2. \A b \in Gateway : Whole(u, r.ag[b], b)
      BY <1>1, <2>1 DEF Agree, Whole, Fits, Claims, Awaits, Feeds, Waiting, Streaming
    <2> QED BY <1>2, <2>1, <2>2 DEF Agree
  <1> QED BY <1>2, <1>3, <1>4 DEF Keeps, Good, q

\* A stream of a client, or none, where there was none.
LEMMA OwnStreamKeeps ==
    ASSUME NEW r \in DaemonStates, NEW u \in Sounds, u.fault = r.snd.fault,
           Fine(r) => Rested(r) /\ Routing(u) /\ u.bound = None
    PROVE  Keeps(r, [r EXCEPT !.snd = u])
  <1> DEFINE q == [r EXCEPT !.snd = u]
  <1>1. q \in DaemonStates /\ q.snd = u /\ q.ag = r.ag
    BY DEF DaemonStates
  <1> HIDE DEF q
  <1>2. NoneConnects(r, q)
    BY <1>1 DEF NoneConnects
  <1>3. ASSUME Fine(q) PROVE Agree(q)
    <2>1. Fine(r)
      BY <1>1, <1>3 DEF Fine
    <2>2. u.state \notin Gatewayed
      BY <2>1 DEF Routing
    <2>3. \A b \in Gateway : Whole(u, r.ag[b], b)
      BY <2>1, <2>2 DEF Rested, Apart, Whole, Fits, Persists, Claims, Awaits, Feeds, Waiting,
                        Streaming, Gatewayed
    <2> QED BY <1>1, <2>1, <2>3 DEF Agree
  <1> QED BY <1>1, <1>2, <1>3 DEF Keeps, Good, q

LEMMA AddDeviceKeeps ==
    ASSUME NEW c \in Client, Good(d), AddDevice(c)
    PROVE  Keeps(d, d')
  <1>1. PICK a \in Gateway, setknown \in BOOLEAN, saves \in BOOLEAN :
            d' = [d EXCEPT !.ag[a] = [d.ag[a] EXCEPT !.exists = TRUE,
                                  !.owner = IF d.ag[a].owner = None THEN c ELSE d.ag[a].owner,
                                  !.known = d.ag[a].known \/ (setknown /\ saves)]]
    BY DEF AddDevice
  <1> DEFINE g == [d.ag[a] EXCEPT !.exists = TRUE,
                                  !.owner = IF d.ag[a].owner = None THEN c ELSE d.ag[a].owner,
                                  !.known = d.ag[a].known \/ (setknown /\ saves)]
  <1>2. d.ag[a] \in Gateways /\ (Fine(d) => Agree(d))
    BY DEF Good, DaemonStates
  <1>3. g \in Gateways
    BY <1>2 DEF Gateways
  <1>4. /\ g.conn = d.ag[a].conn /\ g.audio = d.ag[a].audio /\ g.watched = d.ag[a].watched
        /\ g.bind = d.ag[a].bind /\ g.streams = d.ag[a].streams /\ g.stop = d.ag[a].stop
        /\ g.unbind = d.ag[a].unbind
    BY <1>2 DEF Gateways
  <1> HIDE DEF g
  <1>5. Fine(d) => Whole(d.snd, g, a)
    BY <1>2, <1>4 DEF Agree, Whole, Fits, Linked, Persists, Claims, Awaits, Feeds
  <1>6. Keeps(d, [d EXCEPT !.ag[a] = g])
    BY <1>3, <1>4, <1>5, OneGatewayKeeps
  <1> QED BY <1>1, <1>6 DEF g

LEMMA RemoveDeviceKeeps ==
    ASSUME NEW c \in Client, Good(d), RemoveDevice(c)
    PROVE  Keeps(d, d')
  <1>1. PICK a \in Gateway :
            d' = [(IF d.ag[a].known THEN d ELSE DoDisconnect(d, a)) EXCEPT !.ag[a].owner = None]
    BY DEF RemoveDevice
  <1> DEFINE p == IF d.ag[a].known THEN d ELSE DoDisconnect(d, a)
             q == [p EXCEPT !.ag[a].owner = None]
  <1>2. d \in DaemonStates /\ (Fine(d) => Agree(d))
    BY DEF Good
  <1>3. Keeps(d, p)
    <2>1. CASE d.ag[a].known
      <3>1. NoneConnects(d, d)
        BY DEF NoneConnects
      <3> QED BY <2>1, <3>1 DEF Keeps
    <2>2. CASE ~d.ag[a].known
      <3> DEFINE t == DoDisconnect(d, a)
      <3>1. t \in DaemonStates /\ Follows(d, t) /\ (Fine(t) => Agree(t))
        BY <1>2, DisconnectAgrees
      <3> HIDE DEF t
      <3>2. Keeps(d, t)
        BY <3>1, FollowsKeeps
      <3> QED BY <2>2, <3>2 DEF t
    <2> QED BY <2>1, <2>2
  <1> HIDE DEF p
  <1>4. Keeps(p, q)
    BY <1>3, DisownedGood DEF Keeps
  <1> HIDE DEF q
  <1>5. Keeps(d, q)
    BY <1>3, <1>4, KeepsOn
  <1> QED BY <1>1, <1>5 DEF p, q

LEMMA SetKnownKeeps ==
    ASSUME NEW a \in Gateway, Good(d), SetKnown(a)
    PROVE  Keeps(d, d')
  <1>1. PICK val \in BOOLEAN : d' = [d EXCEPT !.ag[a].known = val]
    BY DEF SetKnown
  <1> DEFINE g == [d.ag[a] EXCEPT !.known = val]
  <1>2. d \in DaemonStates /\ d.ag[a] \in Gateways /\ (Fine(d) => Agree(d))
    BY DEF Good, DaemonStates
  <1>3. g \in Gateways /\ d' = [d EXCEPT !.ag[a] = g]
    BY <1>1, <1>2 DEF Gateways, DaemonStates
  <1>4. /\ g.conn = d.ag[a].conn /\ g.audio = d.ag[a].audio /\ g.watched = d.ag[a].watched
        /\ g.bind = d.ag[a].bind /\ g.streams = d.ag[a].streams /\ g.stop = d.ag[a].stop
        /\ g.unbind = d.ag[a].unbind
    BY <1>2 DEF Gateways
  <1> HIDE DEF g
  <1>5. Fine(d) => Whole(d.snd, g, a)
    BY <1>2, <1>4 DEF Agree, Whole, Fits, Linked, Persists, Claims, Awaits, Feeds
  <1>6. Keeps(d, [d EXCEPT !.ag[a] = g])
    BY <1>3, <1>4, <1>5, OneGatewayKeeps
  <1> QED BY <1>3, <1>6

LEMMA ConnectKeeps ==
    ASSUME NEW a \in Gateway, Good(d), Connect(a)
    PROVE  Keeps(d, d')
  <1> DEFINE g == [d.ag[a] EXCEPT !.conn = "Connecting"]
  <1>1. d \in DaemonStates /\ d.ag[a] \in Gateways /\ (Fine(d) => Agree(d))
    BY DEF Good, DaemonStates
  <1>2. d.ag[a].conn = "Disconnected" /\ d' = [d EXCEPT !.ag[a].conn = "Connecting"]
    BY DEF Connect
  <1>3. g \in Gateways /\ d' = [d EXCEPT !.ag[a] = g]
    BY <1>1, <1>2 DEF Gateways, DaemonStates, Links
  <1>4. /\ g.conn = "Connecting" /\ g.audio = d.ag[a].audio /\ g.watched = d.ag[a].watched
        /\ g.bind = d.ag[a].bind /\ g.streams = d.ag[a].streams /\ g.stop = d.ag[a].stop
        /\ g.unbind = d.ag[a].unbind
    BY <1>1 DEF Gateways
  <1> HIDE DEF g
  <1>5. Fine(d) => Whole(d.snd, g, a)
    BY <1>1, <1>2, <1>4 DEF Agree, Whole, Fits, Linked, Persists, Claims, Awaits, Feeds
  <1>6. Keeps(d, [d EXCEPT !.ag[a] = g])
    BY <1>3, <1>4, <1>5, OneGatewayKeeps
  <1> QED BY <1>3, <1>6

LEMMA DisconnectKeeps ==
    ASSUME NEW a \in Gateway, Good(d), Disconnect(a)
    PROVE  Keeps(d, d')
  <1> DEFINE q == DoDisconnect(d, a)
  <1>1. d \in DaemonStates /\ (Fine(d) => Agree(d)) /\ d' = q
    BY DEF Good, Disconnect
  <1>2. q \in DaemonStates /\ Follows(d, q) /\ (Fine(q) => Agree(q))
    BY <1>1, DisconnectAgrees
  <1> HIDE DEF q
  <1>3. Keeps(d, q)
    BY <1>2, FollowsKeeps
  <1> QED BY <1>1, <1>3

\* The audio is lost under the stream: the two events are still to be heard.
LEMMA AudioLostKeeps ==
    ASSUME NEW a \in Gateway, Good(d), AudioLost(a)
    PROVE  Keeps(d, d')
  <1> DEFINE g == [d.ag[a] EXCEPT !.audio = "Disconnected", !.streams = FALSE,
                                  !.stop = TRUE, !.voice = TRUE]
  <1>1. d \in DaemonStates /\ d.ag[a] \in Gateways /\ Fine(d) /\ Agree(d)
    BY DEF Good, DaemonStates, AudioLost, Ok, Fine
  <1>2. d.ag[a].streams /\ d' = [d EXCEPT !.ag[a] = g]
    BY <1>1 DEF AudioLost, DaemonStates
  <1>3. g \in Gateways
    BY <1>1 DEF Gateways, Links
  <1>4. /\ g.conn = d.ag[a].conn /\ g.audio = "Disconnected" /\ g.watched = d.ag[a].watched
        /\ g.bind = d.ag[a].bind /\ ~g.streams /\ g.stop
        /\ g.unbind = d.ag[a].unbind
    BY <1>1 DEF Gateways
  <1> HIDE DEF g
  <1>5. Whole(d.snd, d.ag[a], a)
    BY <1>1 DEF Agree
  <1>6. Streaming(d.snd, a) /\ ~Waiting(d.snd, a)
    BY <1>2, <1>5 DEF Whole, Fits, Claims, Streaming, Waiting
  <1>7. Whole(d.snd, g, a)
    BY <1>2, <1>4, <1>5, <1>6 DEF Whole, Fits, Linked, Persists, Claims, Awaits, Feeds
  <1>8. Keeps(d, [d EXCEPT !.ag[a] = g])
    BY <1>3, <1>4, <1>7, OneGatewayKeeps
  <1> QED BY <1>2, <1>8

LEMMA DestroyedKeeps ==
    ASSUME NEW a \in Gateway, Good(d), Destroyed(a)
    PROVE  Keeps(d, d')
  <1>1. d \in DaemonStates /\ Fine(d) /\ Agree(d)
    BY DEF Good, Destroyed, Ok, Fine
  <1>2. d.snd.bound # a /\ d' = [d EXCEPT !.ag[a] = GatewayInit]
    BY DEF Destroyed
  <1>3. GatewayInit \in Gateways
    BY DEF GatewayInit, Gateways, Links
  <1>4. Whole(d.snd, GatewayInit, a)
    BY <1>2 DEF GatewayInit, Whole, Fits, Linked, Persists, Claims, Awaits, Feeds, Waiting,
                Streaming
  <1>5. GatewayInit.conn = "Disconnected"
    BY DEF GatewayInit
  <1>6. Keeps(d, [d EXCEPT !.ag[a] = GatewayInit])
    BY <1>3, <1>4, <1>5, OneGatewayKeeps
  <1> QED BY <1>2, <1>6

LEMMA StopKeeps ==
    ASSUME Good(d), Stop
    PROVE  Keeps(d, d')
  <1> DEFINE q == EpRelease(d, d.snd.state)
  <1>1. d \in DaemonStates /\ d.snd.state \in Idle \cup Streams /\ d' = q
    BY DEF Good, Stop, DaemonStates, Sounds
  <1>2. Fine(d) => Releasable(d, d.snd.state)
    BY <1>1, AgreeChanged, LooseReleasable DEF Good
  <1>3. q \in DaemonStates /\ Follows(d, q) /\ (Fine(q) => Rested(q))
    BY <1>1, <1>2, EpReleaseRests
  <1> HIDE DEF q
  <1>4. Keeps(d, q)
    BY <1>3, RestedAgrees, FollowsKeeps
  <1> QED BY <1>1, <1>4

LEMMA SoundFailsKeeps ==
    ASSUME Good(d), SoundFails
    PROVE  Keeps(d, d')
  <1> DEFINE q == NotifySoundStop(d)
  <1>1. d \in DaemonStates /\ d' = q /\ (Fine(d) => Loose(d))
    BY AgreeChanged DEF Good, SoundFails
  <1>2. q \in DaemonStates /\ Follows(d, q) /\ (Fine(q) => Rested(q))
    BY <1>1, NotifySoundStopRests
  <1> HIDE DEF q
  <1>3. Keeps(d, q)
    BY <1>2, RestedAgrees, FollowsKeeps
  <1> QED BY <1>1, <1>3

LEMMA AudioGatewayStartKeeps ==
    ASSUME NEW a \in Gateway, Good(d), AudioGatewayStart(a)
    PROVE  Keeps(d, d')
  <1>1. PICK opens \in BOOLEAN, starts \in BOOLEAN : d' = EpAudioGateway(d, a, opens, starts)
    BY DEF AudioGatewayStart
  <1> DEFINE q == EpAudioGateway(d, a, opens, starts)
  <1>2. d \in DaemonStates /\ (Fine(d) => Loose(d))
    BY AgreeChanged DEF Good
  <1>3. q \in DaemonStates /\ Kept(d, q) /\ (Fine(q) => Fine(d) /\ Agree(q))
    BY <1>2, EpAudioGatewayAgrees
  <1> HIDE DEF q
  <1>4. Keeps(d, q)
    BY <1>3, FollowsConnectsNone DEF Keeps, Good
  <1> QED BY <1>1, <1>4 DEF q

\* EpStopped as the methods that start a stream of their own call it.
LEMMA EpStoppedKeeps ==
    ASSUME NEW r, Good(r)
    PROVE  LET q == EpStopped(r) IN
           Keeps(r, q) /\ q \in DaemonStates /\ Follows(r, q) /\ (Fine(q) => Rested(q))
  <1> DEFINE q == EpStopped(r)
  <1>1. r \in DaemonStates /\ (Fine(r) => Loose(r))
    BY AgreeChanged DEF Good
  <1>2. q \in DaemonStates /\ Follows(r, q) /\ (Fine(q) => Rested(q))
    BY <1>1, EpStoppedRests
  <1> HIDE DEF q
  <1>3. Keeps(r, q)
    BY <1>2, RestedAgrees, FollowsKeeps
  <1> QED BY <1>2, <1>3 DEF q

LEMMA FileStartKeeps ==
    ASSUME NEW c \in Client, Good(d), FileStart(c)
    PROVE  Keeps(d, d')
  <1> DEFINE p == EpStopped(d)
             q == [p EXCEPT !.snd.dsp = FALSE, !.snd.secondary = "File"]
             t == EpRelease(q, "File")
             s == [q EXCEPT !.snd.running = TRUE, !.snd.state = "File", !.snd.holder = c]
  <1>1. d' = t \/ d' = s
    BY DEF FileStart
  <1>2. Keeps(d, p) /\ p \in DaemonStates /\ (Fine(p) => Rested(p))
    BY EpStoppedKeeps
  <1> HIDE DEF p
  <1>3. p.snd \in Sounds
    BY <1>2 DEF DaemonStates
  <1>4. Keeps(p, t)
    <2> DEFINE u == [p.snd EXCEPT !.dsp = FALSE, !.secondary = "File"]
    <2>1. u \in Sounds /\ q = [p EXCEPT !.snd = u]
      BY <1>2, <1>3 DEF Sounds, DaemonStates
    <2>2. /\ u.bound = p.snd.bound /\ u.cut = p.snd.cut /\ u.fault = p.snd.fault
          /\ u.membuf = p.snd.membuf /\ u.secondary = "File" /\ ~u.dsp
      BY <1>3 DEF Sounds
    <2> HIDE DEF u
    <2>3. q \in DaemonStates /\ q.on = p.on /\ q.snd = u /\ q.ag = p.ag
      BY <1>2, <2>1 DEF DaemonStates
    <2> HIDE DEF q
    <2>4. Follows(p, q)
      BY <2>2, <2>3 DEF Follows, Kept, Quiet, Fine
    <2>5. Fine(q) => Releasable(q, "File")
      BY <1>2, <2>2, <2>3, <2>4 DEF Follows, Rested, Free, Releasable, WithNobody
    <2>6. "File" \in Idle \cup Streams
      BY DEF Streams
    <2>7. t \in DaemonStates /\ Follows(q, t) /\ (Fine(t) => Rested(t))
      BY <2>3, <2>5, <2>6, EpReleaseRests
    <2> HIDE DEF t
    <2>8. Follows(p, t) /\ (Fine(t) => Agree(t))
      BY <2>4, <2>7, FollowsOn, RestedAgrees
    <2> QED BY <2>7, <2>8, FollowsKeeps
  <1>5. Keeps(p, s)
    <2> DEFINE u == [p.snd EXCEPT !.dsp = FALSE, !.secondary = "File", !.running = TRUE,
                                  !.state = "File", !.holder = c]
    <2>1. u \in Sounds
      BY <1>3 DEF Sounds, Streams
    <2>2. s = [p EXCEPT !.snd = u]
      BY <1>2, <1>3 DEF DaemonStates, Sounds
    <2>3. /\ u.bound = p.snd.bound /\ u.cut = p.snd.cut /\ u.fault = p.snd.fault
          /\ u.secondary = "File" /\ ~u.dsp /\ u.running /\ u.state = "File" /\ u.holder = c
      BY <1>3 DEF Sounds
    <2> HIDE DEF u, s
    <2>4. ASSUME Fine(p) PROVE Routing(u) /\ u.bound = None
      BY <1>2, <2>3, <2>4, GatewayAssumption DEF Rested, Free, Routing, Streams, Gatewayed, Own
    <2>5. Keeps(p, [p EXCEPT !.snd = u])
      BY <1>2, <2>1, <2>3, <2>4, OwnStreamKeeps
    <2> QED BY <2>2, <2>5
  <1> HIDE DEF s, t
  <1> QED BY <1>1, <1>2, <1>4, <1>5, KeepsOn

LEMMA LoopbackStartKeeps ==
    ASSUME NEW c \in Client, Good(d), LoopbackStart(c)
    PROVE  Keeps(d, d')
  <1> DEFINE p == EpStopped(d)
             s == [p EXCEPT !.snd.running = TRUE, !.snd.state = "Loopback", !.snd.holder = c]
             u == [p.snd EXCEPT !.running = TRUE, !.state = "Loopback", !.holder = c]
  <1>1. d' = p \/ d' = s
    BY DEF LoopbackStart
  <1>2. Keeps(d, p) /\ p \in DaemonStates /\ (Fine(p) => Rested(p))
    BY EpStoppedKeeps
  <1> HIDE DEF p
  <1>3. p.snd \in Sounds
    BY <1>2 DEF DaemonStates
  <1>4. u \in Sounds /\ s = [p EXCEPT !.snd = u]
    BY <1>2, <1>3 DEF Sounds, Streams, DaemonStates
  <1>5. /\ u.bound = p.snd.bound /\ u.cut = p.snd.cut /\ u.fault = p.snd.fault
        /\ u.secondary = p.snd.secondary /\ u.dsp = p.snd.dsp
        /\ u.running /\ u.state = "Loopback" /\ u.holder = c
    BY <1>3 DEF Sounds
  <1> HIDE DEF u, s
  <1>6. ASSUME Fine(p) PROVE Routing(u) /\ u.bound = None
    BY <1>2, <1>5, <1>6, GatewayAssumption DEF Rested, Free, Routing, Streams, Gatewayed, Own
  <1>7. Keeps(p, [p EXCEPT !.snd = u])
    BY <1>2, <1>4, <1>5, <1>6, OwnStreamKeeps
  <1> QED BY <1>1, <1>2, <1>4, <1>7, KeepsOn

LEMMA MembufStartKeeps ==
    ASSUME NEW c \in Client, Good(d), MembufStart(c)
    PROVE  Keeps(d, d')
  <1>1. PICK resize \in BOOLEAN, volume \in BOOLEAN, opens \in BOOLEAN, starts \in BOOLEAN :
            LET m == Checked([d EXCEPT !.snd.membuf = TRUE],
                             ~(resize /\ d.snd.state = "Membuf"), "MembufFreed")
                q == [EpStopped(m) EXCEPT !.snd.secondary = "Membuf"]
            IN  d' = IF ~opens THEN q
                     ELSE IF ~starts THEN [q EXCEPT !.snd.secondary = None]
                     ELSE [q EXCEPT !.snd.running = TRUE, !.snd.state = "Membuf",
                                    !.snd.volume = volume, !.snd.holder = c]
    BY DEF MembufStart
  <1> DEFINE v == [d.snd EXCEPT !.membuf = TRUE]
             e == [d EXCEPT !.snd = v]
             ok == ~(resize /\ d.snd.state = "Membuf")
             m == Checked(e, ok, "MembufFreed")
             p == EpStopped(m)
             q == [p EXCEPT !.snd.secondary = "Membuf"]
             s == [q EXCEPT !.snd.secondary = None]
             t == [q EXCEPT !.snd.running = TRUE, !.snd.state = "Membuf",
                            !.snd.volume = volume, !.snd.holder = c]
  <1>2. d \in DaemonStates /\ d.snd \in Sounds /\ (Fine(d) => Agree(d))
    BY DEF Good, DaemonStates
  <1>3. e = [d EXCEPT !.snd.membuf = TRUE]
    BY <1>2 DEF DaemonStates
  <1>4. d' = q \/ d' = s \/ d' = t
    BY <1>1, <1>3
  <1>5. v \in Sounds /\ v.membuf /\ v.fault = d.snd.fault /\ v.state = d.snd.state
        /\ v.bound = d.snd.bound /\ v.cut = d.snd.cut
    BY <1>2 DEF Sounds
  <1>6. Fine(d) => Routing(v)
    BY <1>2 DEF Agree, Routing, Sounds
  <1>7. Keeps(d, e) /\ e \in DaemonStates /\ e.snd = v
    <2> HIDE DEF v
    <2>1. e \in DaemonStates /\ e.snd = v
      BY <1>2, <1>5 DEF DaemonStates
    <2>2. Keeps(d, e)
      BY <1>5, <1>6, OneStreamKeeps
    <2> QED BY <2>1, <2>2
  <1> HIDE DEF v, e
  <1>8. ok \in BOOLEAN
    OBVIOUS
  <1> HIDE DEF ok
  <1>9. /\ m \in DaemonStates /\ Follows(e, m) /\ (Fine(m) => m = e)
    BY <1>7, <1>8, CheckedIs
  <1> HIDE DEF m
  <1>10. Keeps(e, m)
    BY <1>7, <1>9, FollowsKeeps DEF Keeps, Good
  <1>11. Keeps(d, m)
    BY <1>7, <1>10, KeepsOn
  <1>12. Keeps(m, p) /\ p \in DaemonStates /\ Follows(m, p) /\ (Fine(p) => Rested(p))
    BY <1>11, EpStoppedKeeps DEF Keeps
  <1>13. p.snd.membuf
    BY <1>5, <1>7, <1>9, <1>12 DEF Follows, Kept
  <1> HIDE DEF p
  <1>14. p.snd \in Sounds
    BY <1>12 DEF DaemonStates
  <1>15. Keeps(p, q)
    <2> DEFINE u == [p.snd EXCEPT !.secondary = "Membuf"]
    <2>1. u \in Sounds /\ q = [p EXCEPT !.snd = u]
      BY <1>12, <1>14 DEF Sounds, DaemonStates
    <2>2. /\ u.bound = p.snd.bound /\ u.cut = p.snd.cut /\ u.fault = p.snd.fault
          /\ u.membuf = p.snd.membuf /\ u.secondary = "Membuf" /\ u.dsp = p.snd.dsp
          /\ u.running = p.snd.running /\ u.state = p.snd.state /\ u.holder = p.snd.holder
      BY <1>14 DEF Sounds
    <2> HIDE DEF u, q
    <2>3. ASSUME Fine(p) PROVE Routing(u) /\ u.bound = None
      BY <1>12, <1>13, <2>2, <2>3, GatewayAssumption
         DEF Rested, Free, Routing, Streams, Gatewayed, Own
    <2>4. Keeps(p, [p EXCEPT !.snd = u])
      BY <1>12, <2>1, <2>2, <2>3, OwnStreamKeeps
    <2> QED BY <2>1, <2>4
  <1>16. Keeps(p, s)
    <2> DEFINE u == [p.snd EXCEPT !.secondary = None]
    <2>1. u \in Sounds /\ s = [p EXCEPT !.snd = u]
      BY <1>12, <1>14 DEF Sounds, DaemonStates
    <2>2. /\ u.bound = p.snd.bound /\ u.cut = p.snd.cut /\ u.fault = p.snd.fault
          /\ u.secondary = None /\ u.dsp = p.snd.dsp
          /\ u.running = p.snd.running /\ u.state = p.snd.state /\ u.holder = p.snd.holder
      BY <1>14 DEF Sounds
    <2> HIDE DEF u, s
    <2>3. ASSUME Fine(p) PROVE Routing(u) /\ u.bound = None
      BY <1>12, <2>2, <2>3, GatewayAssumption
         DEF Rested, Free, Routing, Streams, Gatewayed, Own
    <2>4. Keeps(p, [p EXCEPT !.snd = u])
      BY <1>12, <2>1, <2>2, <2>3, OwnStreamKeeps
    <2> QED BY <2>1, <2>4
  <1>17. Keeps(p, t)
    <2> DEFINE u == [p.snd EXCEPT !.secondary = "Membuf", !.running = TRUE, !.state = "Membuf",
                                  !.volume = volume, !.holder = c]
    <2>1. u \in Sounds
      BY <1>14 DEF Sounds, Streams
    <2>2. t = [p EXCEPT !.snd = u]
      BY <1>12, <1>14 DEF Sounds, DaemonStates
    <2>3. /\ u.bound = p.snd.bound /\ u.cut = p.snd.cut /\ u.fault = p.snd.fault
          /\ u.membuf = p.snd.membuf /\ u.secondary = "Membuf" /\ u.dsp = p.snd.dsp
          /\ u.running /\ u.state = "Membuf" /\ u.holder = c
      BY <1>14 DEF Sounds
    <2> HIDE DEF u, t
    <2>4. ASSUME Fine(p) PROVE Routing(u) /\ u.bound = None
      BY <1>12, <1>13, <2>3, <2>4, GatewayAssumption
         DEF Rested, Free, Routing, Streams, Gatewayed, Own
    <2>5. Keeps(p, [p EXCEPT !.snd = u])
      BY <1>12, <2>1, <2>3, <2>4, OwnStreamKeeps
    <2> QED BY <2>2, <2>5
  <1> HIDE DEF q, s, t
  <1>18. Keeps(d, p)
    BY <1>11, <1>12, KeepsOn
  <1> QED BY <1>4, <1>15, <1>16, <1>17, <1>18, KeepsOn

LEMMA MembufClearKeeps ==
    ASSUME Good(d), MembufClear
    PROVE  Keeps(d, d')
  <1> DEFINE p == IF d.snd.state = "Membuf" THEN EpRelease(d, "Membuf") ELSE d
             ok == p.snd.secondary # "Membuf"
             k == Checked(p, ok, "MembufFreed")
             t == [k EXCEPT !.snd.membuf = FALSE]
             u == [k.snd EXCEPT !.membuf = FALSE]
  <1>1. d' = t
    BY DEF MembufClear
  <1>2. d \in DaemonStates /\ (Fine(d) => Agree(d)) /\ (Fine(d) => Releasable(d, d.snd.state))
    BY AgreeChanged, LooseReleasable DEF Good
  <1>3. Keeps(d, p)
    <2>1. CASE d.snd.state = "Membuf"
      <3>1. "Membuf" \in Idle \cup Streams
        BY DEF Streams
      <3> DEFINE q == EpRelease(d, "Membuf")
      <3>2. q \in DaemonStates /\ Follows(d, q) /\ (Fine(q) => Rested(q))
        BY <1>2, <2>1, <3>1, EpReleaseRests
      <3> HIDE DEF q
      <3>3. Keeps(d, q)
        BY <3>2, RestedAgrees, FollowsKeeps
      <3> QED BY <2>1, <3>3 DEF q
    <2>2. CASE d.snd.state # "Membuf"
      <3>1. NoneConnects(d, d)
        BY DEF NoneConnects
      <3> QED BY <2>2, <3>1 DEF Keeps
    <2> QED BY <2>1, <2>2
  <1> HIDE DEF p
  <1>4. p \in DaemonStates /\ (Fine(p) => Agree(p)) /\ ok \in BOOLEAN
    BY <1>3 DEF Keeps, Good
  <1> HIDE DEF ok
  <1>5. k \in DaemonStates /\ Follows(p, k) /\ (Fine(k) => ok /\ k = p)
    BY <1>4, CheckedIs
  <1> HIDE DEF k
  <1>6. k.snd \in Sounds
    BY <1>5 DEF DaemonStates
  <1>7. u \in Sounds /\ t = [k EXCEPT !.snd = u]
    BY <1>5, <1>6 DEF Sounds, DaemonStates
  <1>8. /\ u.bound = k.snd.bound /\ u.cut = k.snd.cut /\ u.fault = k.snd.fault
        /\ u.secondary = k.snd.secondary /\ u.dsp = k.snd.dsp
        /\ u.running = k.snd.running /\ u.state = k.snd.state /\ u.holder = k.snd.holder
    BY <1>6 DEF Sounds
  <1> HIDE DEF u, t
  <1>9. ASSUME Fine(k) PROVE Routing(u)
    <2>1. Routing(k.snd) /\ k.snd.secondary # "Membuf"
      BY <1>4, <1>5, <1>9 DEF Agree, ok
    <2> QED BY <1>8, <2>1 DEF Routing
  <1>10. Keeps(p, k)
    BY <1>4, <1>5, FollowsKeeps
  <1>11. Keeps(k, [k EXCEPT !.snd = u])
    BY <1>7, <1>8, <1>9, <1>10, OneStreamKeeps DEF Keeps
  <1> QED BY <1>1, <1>3, <1>7, <1>10, <1>11, KeepsOn

LEMMA SetSnoopFileKeeps ==
    ASSUME Good(d), SetSnoopFile
    PROVE  Keeps(d, d')
  <1>1. PICK new \in {"none", "installed"} :
            d' = [Checked(d, d.snd.snoop # "dangling", "SnoopFreed") EXCEPT !.snd.snoop = new]
    BY DEF SetSnoopFile
  <1> DEFINE ok == d.snd.snoop # "dangling"
             k == Checked(d, ok, "SnoopFreed")
             t == [k EXCEPT !.snd.snoop = new]
             u == [k.snd EXCEPT !.snoop = new]
  <1>2. d' = t
    BY <1>1
  <1>3. d \in DaemonStates /\ (Fine(d) => Agree(d)) /\ ok \in BOOLEAN
    BY DEF Good
  <1> HIDE DEF ok
  <1>4. k \in DaemonStates /\ Follows(d, k) /\ (Fine(k) => k = d)
    BY <1>3, CheckedIs
  <1> HIDE DEF k
  <1>5. k.snd \in Sounds
    BY <1>4 DEF DaemonStates
  <1>6. u \in Sounds /\ t = [k EXCEPT !.snd = u]
    BY <1>4, <1>5 DEF Sounds, DaemonStates
  <1>7. /\ u.bound = k.snd.bound /\ u.cut = k.snd.cut /\ u.fault = k.snd.fault
        /\ u.secondary = k.snd.secondary /\ u.dsp = k.snd.dsp /\ u.membuf = k.snd.membuf
        /\ u.running = k.snd.running /\ u.state = k.snd.state /\ u.holder = k.snd.holder
    BY <1>5 DEF Sounds
  <1> HIDE DEF u, t
  <1>8. ASSUME Fine(k) PROVE Routing(u)
    <2>1. Routing(k.snd)
      BY <1>3, <1>4, <1>8 DEF Agree
    <2> QED BY <1>7, <2>1 DEF Routing
  <1>9. Keeps(d, k)
    BY <1>3, <1>4, FollowsKeeps
  <1>10. Keeps(k, [k EXCEPT !.snd = u])
    BY <1>6, <1>7, <1>8, <1>9, OneStreamKeeps DEF Keeps
  <1> QED BY <1>2, <1>6, <1>9, <1>10, KeepsOn

\* Audio is opened, by either side: a stop that was still to be reported is
\* forgotten.
LEMMA OpenedChanges ==
    ASSUME NEW a \in Gateway, NEW audio \in {"Connecting", "Connected"}, Good(d), Fine(d),
           d.ag[a].conn = "Connected", d.ag[a].audio = "Disconnected"
    PROVE  LET q == Opened(d, a, audio) IN
           /\ q \in DaemonStates /\ NoneConnects(d, q) /\ Fine(q)
           /\ AudioChanged(q, a)
           /\ q.ag[a].audio = audio
  <1> DEFINE q == Opened(d, a, audio)
             g == OpenedOf(d.ag[a], audio)
             u == [d.snd EXCEPT !.cut = @ \/ d.ag[a].stop]
  <1>1. /\ d \in DaemonStates /\ d.snd \in Sounds /\ Agree(d) /\ audio \in Links
        /\ d.ag[a] \in Gateways
    BY DEF Good, DaemonStates, Links
  <1>2. /\ q \in DaemonStates /\ q.snd = u /\ q.ag[a] = g
        /\ \A b \in Gateway \ {a} : q.ag[b] = d.ag[b]
    BY <1>1, OpenedIs
  <1>3. /\ g.conn = d.ag[a].conn /\ g.audio = audio /\ (g.watched <=> audio = "Connecting")
        /\ g.bind = d.ag[a].bind /\ g.streams = d.ag[a].streams /\ ~g.stop
        /\ g.unbind = d.ag[a].unbind
    BY <1>1 DEF OpenedOf, Gateways
  <1>4. /\ u.bound = d.snd.bound /\ u.fault = d.snd.fault /\ u.membuf = d.snd.membuf
        /\ u.secondary = d.snd.secondary /\ u.dsp = d.snd.dsp
        /\ u.running = d.snd.running /\ u.state = d.snd.state /\ u.holder = d.snd.holder
        /\ u.cut <=> d.snd.cut \/ d.ag[a].stop
    BY <1>1 DEF Sounds, Gateways
  <1> HIDE DEF q, g, u
  <1>5. NoneConnects(d, q)
    BY <1>2, <1>3 DEF NoneConnects
  <1>6. Fine(q)
    BY <1>2, <1>4 DEF Fine
  <1>7. Routing(d.snd) /\ Whole(d.snd, d.ag[a], a)
    BY <1>1 DEF Agree
  <1>8. Routing(u)
    BY <1>4, <1>7 DEF Routing, Whole, Fits, Claims, Streaming
  <1>9. ~d.ag[a].streams
    BY <1>7 DEF Whole, Fits, Linked
  <1>10. Fits(u, g, a) /\ Feeds(u, g, a)
    <2>1. Linked(g) /\ Persists(g)
      BY <1>3, <1>9 DEF Linked, Persists
    <2>2. Claims(u, g, a)
      BY <1>3, <1>4, <1>7, <1>9 DEF Whole, Fits, Claims, Waiting, Streaming
    <2>3. Feeds(u, g, a)
      BY <1>4, <1>7, <1>9 DEF Whole, Feeds, Streaming
    <2> QED BY <2>1, <2>2, <2>3 DEF Fits
  <1>11. \A b \in Gateway \ {a} : Whole(u, d.ag[b], b)
    BY <1>1, <1>4 DEF Agree, Whole, Fits, Claims, Awaits, Feeds, Waiting, Streaming
  <1>12. AudioChanged(q, a)
    BY <1>2, <1>8, <1>10, <1>11 DEF AudioChanged, Whole
  <1> QED BY <1>2, <1>3, <1>5, <1>6, <1>12 DEF q

LEMMA OpenAudioKeeps ==
    ASSUME NEW a \in Gateway, Good(d), OpenAudio(a)
    PROVE  Keeps(d, d')
  <1> DEFINE p == Opened(d, a, "Connecting")
             q == [p EXCEPT !.ag[a].told = "Connecting"]
             g == [p.ag[a] EXCEPT !.told = "Connecting"]
  <1>1. /\ d.ag[a].conn = "Connected" /\ d.ag[a].audio = "Disconnected" /\ Fine(d)
        /\ d' = q
    BY DEF OpenAudio, Ok, Fine
  <1>2. /\ p \in DaemonStates /\ NoneConnects(d, p) /\ Fine(p) /\ AudioChanged(p, a)
        /\ p.ag[a].audio = "Connecting"
    BY <1>1, OpenedChanges
  <1> HIDE DEF p
  <1>3. Agree(p)
    BY <1>2 DEF AudioChanged, Agree, Whole, Awaits
  <1>4. p.ag[a] \in Gateways
    BY <1>2 DEF DaemonStates
  <1>5. g \in Gateways /\ q = [p EXCEPT !.ag[a] = g]
    BY <1>2, <1>4 DEF Gateways, DaemonStates, Links
  <1>6. /\ g.conn = p.ag[a].conn /\ g.audio = p.ag[a].audio /\ g.watched = p.ag[a].watched
        /\ g.bind = p.ag[a].bind /\ g.streams = p.ag[a].streams /\ g.stop = p.ag[a].stop
        /\ g.unbind = p.ag[a].unbind
    BY <1>4 DEF Gateways
  <1> HIDE DEF g, q
  <1>7. Whole(p.snd, g, a)
    BY <1>3, <1>6 DEF Agree, Whole, Fits, Linked, Persists, Claims, Awaits, Feeds
  <1>8. Good(p)
    BY <1>2, <1>3 DEF Good
  <1>9. Keeps(p, [p EXCEPT !.ag[a] = g])
    BY <1>5, <1>6, <1>7, <1>8, OneGatewayKeeps
  <1> QED BY <1>1, <1>2, <1>5, <1>8, <1>9, KeepsOn DEF Keeps

LEMMA CloseAudioKeeps ==
    ASSUME NEW a \in Gateway, Good(d), CloseAudio(a)
    PROVE  Keeps(d, d')
  <1> DEFINE p == IF d.ag[a].streams THEN EpRelease(d, d.snd.state) ELSE d
             s == SndClose(p, a)
             q == NotifyAudioConnection(s, a, FALSE)
  <1>1. d' = q
    BY DEF CloseAudio
  <1>2. /\ d \in DaemonStates /\ d.snd.state \in Idle \cup Streams
        /\ Fine(d) => Agree(d) /\ Releasable(d, d.snd.state)
    BY AgreeChanged, LooseReleasable DEF Good, DaemonStates, Sounds
  <1>3. p \in DaemonStates /\ Follows(d, p) /\ (Fine(p) => Agree(p))
    <2>1. CASE d.ag[a].streams
      <3> DEFINE t == EpRelease(d, d.snd.state)
      <3>1. t \in DaemonStates /\ Follows(d, t) /\ (Fine(t) => Rested(t))
        BY <1>2, EpReleaseRests
      <3> HIDE DEF t
      <3>2. Fine(t) => Agree(t)
        BY <3>1, RestedAgrees
      <3> QED BY <2>1, <3>1, <3>2 DEF t
    <2>2. CASE ~d.ag[a].streams
      BY <1>2, <2>2, FollowsItself
    <2> QED BY <2>1, <2>2
  <1> HIDE DEF p
  <1>4. s \in DaemonStates /\ Follows(p, s) /\ (AudioChanged(p, a) => AudioChanged(s, a))
    BY <1>3, SndCloseChanges
  <1>5. Fine(s) => AudioChanged(s, a)
    <2> HIDE DEF s
    <2> QED BY <1>3, <1>4, AgreeChanged DEF Follows
  <1> HIDE DEF s
  <1>6. q \in DaemonStates /\ Follows(s, q) /\ (Fine(q) => Agree(q))
    BY <1>4, <1>5, AudioConnectionAgrees
  <1> HIDE DEF q
  <1>7. Follows(d, q)
    BY <1>3, <1>4, <1>6, FollowsOn
  <1> QED BY <1>1, <1>6, <1>7, FollowsKeeps

LEMMA AudioInboundKeeps ==
    ASSUME NEW a \in Gateway, Good(d), AudioInbound(a)
    PROVE  Keeps(d, d')
  <1>1. PICK starts \in BOOLEAN : d' = NotifyAudioConnection(Opened(d, a, "Connected"), a, starts)
    BY DEF AudioInbound
  <1> DEFINE p == Opened(d, a, "Connected")
             q == NotifyAudioConnection(p, a, starts)
  <1>2. d.ag[a].conn = "Connected" /\ d.ag[a].audio = "Disconnected" /\ Fine(d)
    BY DEF AudioInbound, Ok, Fine
  <1>3. p \in DaemonStates /\ NoneConnects(d, p) /\ Fine(p) /\ AudioChanged(p, a)
    BY <1>2, OpenedChanges
  <1> HIDE DEF p
  <1>4. q \in DaemonStates /\ Follows(p, q) /\ (Fine(q) => Agree(q))
    BY <1>3, AudioConnectionAgrees
  <1> HIDE DEF q
  <1>5. Keeps(p, q)
    BY <1>4, FollowsKeeps
  <1>6. NoneConnects(d, q)
    BY <1>3, <1>5 DEF Keeps, NoneConnects
  <1> QED BY <1>1, <1>5, <1>6 DEF Keeps, p, q

LEMMA AudioAnsweredKeeps ==
    ASSUME NEW a \in Gateway, Good(d), AudioAnswered(a)
    PROVE  Keeps(d, d')
  <1>1. PICK audio \in {"Connected", "Disconnected"}, starts \in BOOLEAN :
            d' = NotifyAudioConnection(
                    [d EXCEPT !.ag[a].audio = audio, !.ag[a].watched = FALSE], a, starts)
    BY DEF AudioAnswered
  <1> DEFINE g == [d.ag[a] EXCEPT !.audio = audio, !.watched = FALSE]
             p == [d EXCEPT !.ag[a] = g]
             q == NotifyAudioConnection(p, a, starts)
  <1>2. /\ d \in DaemonStates /\ d.ag[a] \in Gateways /\ d.ag[a].watched /\ Fine(d) /\ Agree(d)
    BY DEF Good, DaemonStates, AudioAnswered, Ok, Fine
  <1>3. g \in Gateways /\ p = [d EXCEPT !.ag[a].audio = audio, !.ag[a].watched = FALSE]
    BY <1>2 DEF Gateways, DaemonStates, Links
  <1>4. /\ g.conn = d.ag[a].conn /\ g.audio = audio /\ ~g.watched
        /\ g.bind = d.ag[a].bind /\ g.streams = d.ag[a].streams /\ g.stop = d.ag[a].stop
        /\ g.unbind = d.ag[a].unbind
    BY <1>2 DEF Gateways
  <1> HIDE DEF g
  <1>5. /\ p \in DaemonStates /\ p.snd = d.snd /\ p.ag[a] = g
        /\ \A b \in Gateway \ {a} : p.ag[b] = d.ag[b]
    BY <1>2, <1>3 DEF DaemonStates
  <1>6. d' = q
    BY <1>1, <1>3
  <1> HIDE DEF p
  <1>7. Whole(d.snd, d.ag[a], a)
    BY <1>2 DEF Agree
  <1>8. Fits(d.snd, g, a) /\ Feeds(d.snd, g, a)
    BY <1>2, <1>4, <1>7 DEF Whole, Fits, Linked, Persists, Claims, Feeds
  <1>9. AudioChanged(p, a)
    BY <1>2, <1>5, <1>8 DEF AudioChanged, Agree, Whole
  <1>10. q \in DaemonStates /\ Follows(p, q) /\ (Fine(q) => Agree(q))
    BY <1>5, <1>9, AudioConnectionAgrees
  <1> HIDE DEF q
  <1>11. Keeps(p, q)
    BY <1>10, FollowsKeeps
  <1>12. NoneConnects(d, q)
    BY <1>4, <1>5, <1>11 DEF Keeps, NoneConnects
  <1> QED BY <1>6, <1>11, <1>12 DEF Keeps

LEMMA InboundKeeps ==
    ASSUME NEW a \in Gateway, Good(d), Inbound(a)
    PROVE  Keeps(d, d')
  <1> DEFINE g == [d.ag[a] EXCEPT !.exists = TRUE, !.conn = "Connecting"]
             p == [d EXCEPT !.ag[a] = g]
             q == NotifyConnection(p, a)
  <1>1. d \in DaemonStates /\ d.ag[a] \in Gateways /\ (Fine(d) => Agree(d))
    BY DEF Good, DaemonStates
  <1>2. g \in Gateways /\ p = [d EXCEPT !.ag[a].exists = TRUE, !.ag[a].conn = "Connecting"]
    BY <1>1 DEF Gateways, DaemonStates, Links
  <1>3. d.ag[a].conn = "Disconnected" /\ d' = q
    BY <1>2 DEF Inbound
  <1>4. /\ g.conn = "Connecting" /\ g.audio = d.ag[a].audio /\ g.watched = d.ag[a].watched
        /\ g.bind = d.ag[a].bind /\ g.streams = d.ag[a].streams /\ g.stop = d.ag[a].stop
        /\ g.unbind = d.ag[a].unbind
    BY <1>1 DEF Gateways
  <1> HIDE DEF g
  <1>5. Fine(d) => Whole(d.snd, g, a)
    BY <1>1, <1>3, <1>4 DEF Agree, Whole, Fits, Linked, Persists, Claims, Awaits, Feeds
  <1>6. Keeps(d, p)
    BY <1>2, <1>4, <1>5, OneGatewayKeeps
  <1> HIDE DEF p
  <1>7. p \in DaemonStates /\ (Fine(p) => LinkChanged(p, a))
    BY <1>6, AgreeLinked DEF Keeps, Good
  <1>8. q \in DaemonStates /\ Follows(p, q) /\ (Fine(q) => Agree(q))
    BY <1>7, ConnectionAgrees
  <1> HIDE DEF q
  <1> QED BY <1>3, <1>6, <1>8, FollowsKeeps, KeepsOn

\* Who may connect.
Admitted(r, a) == "acceptunknown" \in r.on \/ r.ag[a].owner # None \/ r.ag[a].known

\* A stranger that has just connected is disconnected before anything else.
LEMMA ConnectionAdmits ==
    ASSUME NEW r \in DaemonStates, NEW a \in Gateway, Fine(r) => LinkChanged(r, a)
    PROVE  NotifyConnection(r, a).ag[a].conn = "Connected" => Admitted(r, a)
  <1> DEFINE q == NotifyConnection(r, a)
             s == SessionDisconnect(r, a)
  <1>1. CASE Unwelcome(r, a)
    <2>1. /\ s \in DaemonStates /\ Follows(r, s) /\ s.ag[a].conn = "Disconnected"
          /\ LinkChanged(r, a) => LinkChanged(s, a)
      BY SessionDisconnectChanges
    <2>2. q = LinkHeard(s, a)
      BY <1>1 DEF NotifyConnection
    <2> HIDE DEF s, q
    <2>3. Fine(s) => LinkChanged(s, a)
      BY <2>1 DEF Follows
    <2>4. Follows(s, LinkHeard(s, a))
      BY <2>1, <2>3, LinkHeardAgrees
    <2>5. q.ag[a].conn = "Disconnected"
      BY <2>1, <2>2, <2>4 DEF Follows, Kept
    <2> QED BY <2>5 DEF q
  <1>2. CASE ~Unwelcome(r, a)
    <2>1. Follows(r, q)
      BY ConnectionAgrees
    <2> HIDE DEF q
    <2>2. q.ag[a].conn = "Connected" => r.ag[a].conn # "Disconnected"
      BY <2>1 DEF Follows, Kept
    <2>3. q.ag[a].conn = "Connected" => Admitted(r, a)
      BY <1>2, <2>2 DEF Unwelcome, Admitted
    <2> QED BY <2>3 DEF q
  <1> QED BY <1>1, <1>2

LEMMA EstablishedKeeps ==
    ASSUME NEW a \in Gateway, Good(d), Established(a)
    PROVE  /\ Good(d')
           /\ \A b \in Gateway : d'.ag[b].conn = "Connected" /\ d.ag[b].conn # "Connected" =>
                 Admitted(d, b)
  <1> DEFINE g == [d.ag[a] EXCEPT !.conn = "Connected"]
             p == [d EXCEPT !.ag[a] = g]
             q == NotifyConnection(p, a)
  <1>1. d \in DaemonStates /\ d.ag[a] \in Gateways /\ (Fine(d) => Agree(d))
    BY DEF Good, DaemonStates
  <1>2. g \in Gateways /\ p = [d EXCEPT !.ag[a].conn = "Connected"]
    BY <1>1 DEF Gateways, DaemonStates, Links
  <1>3. d.ag[a].conn = "Connecting" /\ d' = q
    BY <1>2 DEF Established
  <1>4. /\ g.conn = "Connected" /\ g.audio = d.ag[a].audio /\ g.watched = d.ag[a].watched
        /\ g.bind = d.ag[a].bind /\ g.streams = d.ag[a].streams /\ g.stop = d.ag[a].stop
        /\ g.unbind = d.ag[a].unbind /\ g.owner = d.ag[a].owner /\ g.known = d.ag[a].known
    BY <1>1 DEF Gateways
  <1> HIDE DEF g
  <1>5. Fine(d) => Whole(d.snd, g, a)
    BY <1>1, <1>4 DEF Agree, Whole, Fits, Linked, Persists, Claims, Awaits, Feeds
  <1>6. /\ Good(p) /\ p.ag[a] = g /\ p.on = d.on
        /\ \A b \in Gateway \ {a} : p.ag[b] = d.ag[b]
    BY <1>1, <1>2, <1>5, OneGatewayGood
  <1> HIDE DEF p
  <1>7. p \in DaemonStates /\ (Fine(p) => LinkChanged(p, a))
    BY <1>6, AgreeLinked DEF Good
  <1>8. /\ q \in DaemonStates /\ Follows(p, q) /\ (Fine(q) => Agree(q))
        /\ q.ag[a].conn = "Connected" => Admitted(p, a)
    BY <1>7, ConnectionAgrees, ConnectionAdmits
  <1> HIDE DEF q
  <1>9. Keeps(p, q)
    BY <1>8, FollowsKeeps
  <1>10. q.ag[a].conn = "Connected" => Admitted(d, a)
    BY <1>4, <1>6, <1>8 DEF Admitted
  <1>11. \A b \in Gateway \ {a} : q.ag[b].conn = "Connected" => d.ag[b].conn = "Connected"
    BY <1>6, <1>9 DEF Keeps, NoneConnects
  <1> QED BY <1>3, <1>9, <1>10, <1>11 DEF Keeps

\* The stream and the audio hear of the loss before the connection does.
LEMMA LinkLostKeeps ==
    ASSUME NEW a \in Gateway, Good(d), LinkLost(a)
    PROVE  Keeps(d, d')
  <1> DEFINE g == [d.ag[a] EXCEPT !.audio = "Disconnected", !.watched = FALSE, !.streams = FALSE]
             p == [d EXCEPT !.ag[a] = g]
             stop == d.ag[a].stop \/ d.ag[a].streams
             voice == d.ag[a].voice \/ d.ag[a].audio # "Disconnected"
             h == HandleAbort(p, a, stop, voice)
             q == Parts(h, a)
  <1>1. d \in DaemonStates /\ d.ag[a] \in Gateways /\ Fine(d) /\ Agree(d)
    BY DEF Good, DaemonStates, LinkLost, Ok, Fine
  <1>2. g \in Gateways
    BY <1>1 DEF Gateways, Links
  <1>3. d' = q
    BY <1>1 DEF LinkLost, DaemonStates
  <1>4. /\ g.conn = d.ag[a].conn /\ g.audio = "Disconnected" /\ ~g.watched
        /\ g.bind = d.ag[a].bind /\ ~g.streams /\ g.stop = d.ag[a].stop
        /\ g.unbind = d.ag[a].unbind
    BY <1>1 DEF Gateways
  <1>5. stop \in BOOLEAN /\ voice \in BOOLEAN
    OBVIOUS
  <1> HIDE DEF g
  <1>6. /\ p \in DaemonStates /\ p.snd = d.snd /\ p.ag[a] = g
        /\ \A b \in Gateway \ {a} : p.ag[b] = d.ag[b]
    BY <1>1, <1>2 DEF DaemonStates
  <1> HIDE DEF p
  <1>7. Routing(d.snd) /\ Whole(d.snd, d.ag[a], a)
    BY <1>1 DEF Agree
  <1>8. Fits(d.snd, g, a)
    BY <1>4, <1>7 DEF Whole, Fits, Linked, Persists, Claims
  <1>9. Loose(p)
    BY <1>1, <1>6, <1>8 DEF Loose, Agree, Whole
  <1>10. \A b \in Gateway \ {a} : Awaits(p.snd, p.ag[b], b) /\ Feeds(p.snd, p.ag[b], b)
    BY <1>1, <1>6 DEF Agree, Whole
  <1>11. stop => p.snd.running
    BY <1>6, <1>7 DEF Whole, Fits, Claims, Streaming, Routing, Streams
  <1>12. ~stop => ~p.ag[a].stop /\ Feeds(p.snd, p.ag[a], a)
    BY <1>4, <1>6, <1>7 DEF Whole, Feeds
  <1>13. voice \/ Awaits(p.snd, p.ag[a], a)
    BY <1>4, <1>6, <1>7 DEF Whole, Awaits
  <1> HIDE DEF stop, voice
  <1>14. h \in DaemonStates /\ Follows(p, h) /\ (Fine(h) => Agree(h))
    BY <1>5, <1>6, <1>9, <1>10, <1>11, <1>12, <1>13, HandleAbortAgrees
  <1> HIDE DEF h
  <1>15. h.ag[a].audio = "Disconnected"
    BY <1>4, <1>6, <1>14 DEF Follows, Quiet
  <1>16. q \in DaemonStates /\ Follows(h, q) /\ (Fine(q) => Agree(q))
    BY <1>14, <1>15, PartsAgrees
  <1> HIDE DEF q
  <1>17. Keeps(p, q)
    BY <1>14, <1>16, FollowsOn, FollowsKeeps
  <1>18. NoneConnects(d, q)
    BY <1>4, <1>6, <1>17 DEF Keeps, NoneConnects
  <1> QED BY <1>3, <1>17, <1>18 DEF Keeps

LEMMA AbortTimeoutKeeps ==
    ASSUME NEW a \in Gateway, Good(d), AbortTimeout(a)
    PROVE  Keeps(d, d')
  <1> DEFINE stop == d.ag[a].stop
             voice == d.ag[a].voice
             q == HandleAbort(d, a, stop, voice)
  <1>1. d \in DaemonStates /\ d.ag[a] \in Gateways /\ Fine(d) /\ Agree(d)
    BY DEF Good, DaemonStates, AbortTimeout, Ok, Fine
  <1>2. d' = q
    BY DEF AbortTimeout
  <1>3. stop \in BOOLEAN /\ voice \in BOOLEAN
    BY <1>1 DEF Gateways
  <1>4. Routing(d.snd) /\ Whole(d.snd, d.ag[a], a) /\ Loose(d)
    BY <1>1 DEF Agree, Loose, Whole
  <1>5. \A b \in Gateway \ {a} : Awaits(d.snd, d.ag[b], b) /\ Feeds(d.snd, d.ag[b], b)
    BY <1>1 DEF Agree, Whole
  <1>6. stop => d.snd.running
    BY <1>4 DEF Whole, Fits, Claims, Streaming, Routing, Streams
  <1>7. (~stop => ~d.ag[a].stop /\ Feeds(d.snd, d.ag[a], a)) /\ Awaits(d.snd, d.ag[a], a)
    BY <1>4 DEF Whole
  <1> HIDE DEF stop, voice
  <1>8. q \in DaemonStates /\ Follows(d, q) /\ (Fine(q) => Agree(q))
    BY <1>1, <1>3, <1>4, <1>5, <1>6, <1>7, HandleAbortAgrees
  <1> HIDE DEF q
  <1> QED BY <1>2, <1>8, FollowsKeeps

LEMMA PeerDisconnectedKeeps ==
    ASSUME NEW c \in Client, Good(d), PeerDisconnected(c)
    PROVE  Keeps(d, d')
  <1> DEFINE held == HeldBy(d, c)
             n == Cardinality(held)
  <1>1. PICK order \in SetToSeqs(held) : d' = FoldLeft(PeerNotified, d, order)
    BY DEF PeerDisconnected
  <1>2. held \subseteq Gateway \cup {"stream"}
    BY DEF HeldBy
  <1>3. order \in [1 .. n -> held]
    BY <1>1 DEF SetToSeqs
  <1> HIDE DEF held
  <1>4. n \in Nat
    <2>1. IsFiniteSet(Gateway \cup {"stream"})
      BY GatewayAssumption, FS_AddElement
    <2>2. IsFiniteSet(held)
      BY <1>2, <2>1, FS_Subset
    <2> QED BY <2>2, FS_CardinalityType
  <1> HIDE DEF n
  <1>5. order \in [1 .. n -> Gateway \cup {"stream"}]
    BY <1>2, <1>3
  <1> DEFINE q == FoldLeft(PeerNotified, d, order)
  <1>6. Good(q) /\ NoneConnects(d, q)
    BY <1>4, <1>5, PeerGood
  <1> HIDE DEF q
  <1>7. Keeps(d, q)
    BY <1>6 DEF Keeps
  <1> QED BY <1>1, <1>7 DEF q

-----------------------------------------------------------------------------
(* The specification.                                                        *)

LEMMA InitGood == Init => IInv
  <1> SUFFICES ASSUME Init PROVE IInv
    OBVIOUS
  <1>1. PICK on \in SUBSET Options :
            d = [ag |-> [a \in Gateway |-> GatewayInit], on |-> on, snd |-> SoundInit]
    BY DEF Init
  <1>2. GatewayInit \in Gateways /\ Apart(GatewayInit)
    BY DEF GatewayInit, Gateways, Links, Apart, Linked
  <1>3. /\ SoundInit \in Sounds /\ SoundInit.state = "Stopped" /\ Free(SoundInit)
    BY DEF SoundInit, Sounds, Idle, Free
  <1>4. d.ag = [a \in Gateway |-> GatewayInit] /\ d.snd = SoundInit
    BY <1>1
  <1>5. d \in DaemonStates
    BY <1>1, <1>2, <1>3 DEF DaemonStates
  <1>6. Rested(d)
    BY <1>2, <1>3, <1>4 DEF Rested
  <1> QED BY <1>5, <1>6, RestedAgrees DEF IInv

\* A connection only comes about for whom it may.
Admits == \A a \in Gateway : d'.ag[a].conn = "Connected" /\ d.ag[a].conn # "Connected" =>
             Admitted(d, a)

LEMMA NextKeeps == IInv /\ [Next]_d => IInv' /\ Admits
  <1> SUFFICES ASSUME IInv, [Next]_d PROVE IInv' /\ Admits
    OBVIOUS
  <1>1. Good(d)
    BY DEF IInv, Good
  <1>2. ASSUME Keeps(d, d') PROVE IInv' /\ Admits
    BY <1>2 DEF Keeps, Good, NoneConnects, IInv, Admits
  <1>3. CASE UNCHANGED d
    <2>1. Keeps(d, d')
      BY <1>1, <1>3 DEF Keeps, NoneConnects
    <2> QED BY <1>2, <2>1
  <1>4. ASSUME NEW c \in Client, AddDevice(c) PROVE IInv' /\ Admits
    BY <1>1, <1>2, <1>4, AddDeviceKeeps
  <1>5. ASSUME NEW c \in Client, RemoveDevice(c) PROVE IInv' /\ Admits
    BY <1>1, <1>2, <1>5, RemoveDeviceKeeps
  <1>6. ASSUME NEW c \in Client, PeerDisconnected(c) PROVE IInv' /\ Admits
    BY <1>1, <1>2, <1>6, PeerDisconnectedKeeps
  <1>7. ASSUME NEW c \in Client, FileStart(c) PROVE IInv' /\ Admits
    BY <1>1, <1>2, <1>7, FileStartKeeps
  <1>8. ASSUME NEW c \in Client, LoopbackStart(c) PROVE IInv' /\ Admits
    BY <1>1, <1>2, <1>8, LoopbackStartKeeps
  <1>9. ASSUME NEW c \in Client, MembufStart(c) PROVE IInv' /\ Admits
    BY <1>1, <1>2, <1>9, MembufStartKeeps
  <1>10. ASSUME NEW a \in Gateway, SetKnown(a) PROVE IInv' /\ Admits
    BY <1>1, <1>2, <1>10, SetKnownKeeps
  <1>11. ASSUME NEW a \in Gateway, Connect(a) PROVE IInv' /\ Admits
    BY <1>1, <1>2, <1>11, ConnectKeeps
  <1>12. ASSUME NEW a \in Gateway, Disconnect(a) PROVE IInv' /\ Admits
    BY <1>1, <1>2, <1>12, DisconnectKeeps
  <1>13. ASSUME NEW a \in Gateway, OpenAudio(a) PROVE IInv' /\ Admits
    BY <1>1, <1>2, <1>13, OpenAudioKeeps
  <1>14. ASSUME NEW a \in Gateway, CloseAudio(a) PROVE IInv' /\ Admits
    BY <1>1, <1>2, <1>14, CloseAudioKeeps
  <1>15. ASSUME NEW a \in Gateway, AudioGatewayStart(a) PROVE IInv' /\ Admits
    BY <1>1, <1>2, <1>15, AudioGatewayStartKeeps
  <1>16. ASSUME NEW a \in Gateway, Inbound(a) PROVE IInv' /\ Admits
    BY <1>1, <1>2, <1>16, InboundKeeps
  <1>17. ASSUME NEW a \in Gateway, Established(a) PROVE IInv' /\ Admits
    BY <1>1, <1>17, EstablishedKeeps DEF Good, IInv, Admits
  <1>18. ASSUME NEW a \in Gateway, LinkLost(a) PROVE IInv' /\ Admits
    BY <1>1, <1>2, <1>18, LinkLostKeeps
  <1>19. ASSUME NEW a \in Gateway, Destroyed(a) PROVE IInv' /\ Admits
    BY <1>1, <1>2, <1>19, DestroyedKeeps
  <1>20. ASSUME NEW a \in Gateway, AudioInbound(a) PROVE IInv' /\ Admits
    BY <1>1, <1>2, <1>20, AudioInboundKeeps
  <1>21. ASSUME NEW a \in Gateway, AudioAnswered(a) PROVE IInv' /\ Admits
    BY <1>1, <1>2, <1>21, AudioAnsweredKeeps
  <1>22. ASSUME NEW a \in Gateway, AudioLost(a) PROVE IInv' /\ Admits
    BY <1>1, <1>2, <1>22, AudioLostKeeps
  <1>23. ASSUME NEW a \in Gateway, AbortTimeout(a) PROVE IInv' /\ Admits
    BY <1>1, <1>2, <1>23, AbortTimeoutKeeps
  <1>24. CASE Stop
    BY <1>1, <1>2, <1>24, StopKeeps
  <1>25. CASE MembufClear
    BY <1>1, <1>2, <1>25, MembufClearKeeps
  <1>26. CASE SetSnoopFile
    BY <1>1, <1>2, <1>26, SetSnoopFileKeeps
  <1>27. CASE SoundFails
    BY <1>1, <1>2, <1>27, SoundFailsKeeps
  <1> QED BY <1>3, <1>4, <1>5, <1>6, <1>7, <1>8, <1>9, <1>10, <1>11, <1>12, <1>13, <1>14, <1>15,
             <1>16, <1>17, <1>18, <1>19, <1>20, <1>21, <1>22, <1>23, <1>24, <1>25, <1>26, <1>27
          DEF Next

\* The stream, every gateway and what they have pending agree in every state
\* that no assertion has ended, whatever the methods called, the events and the
\* clients that go (EpRelease, EpAudioGateway, NotifyAudioConnection,
\* NotifyConnection, DbusPeerImpl::Disconnected).
THEOREM Invariance == Spec => []IInv
  <1>1. Init => IInv
    BY InitGood
  <1>2. IInv /\ [Next]_d => IInv'
    BY NextKeeps
  <1> QED BY <1>1, <1>2, PTL DEF Spec

LEMMA AgreeSaysAll == IInv => AudioAgrees
  <1> SUFFICES ASSUME IInv, Ok PROVE AudioAgrees
    BY DEF AudioAgrees, StreamHasAudio, AudioOnlyWhenConnected
  <1>1. d \in DaemonStates /\ d.snd \in Sounds /\ Agree(d)
    BY DEF IInv, Ok, Fine, DaemonStates
  <1>2. Routing(d.snd) /\ \A a \in Gateway : Whole(d.snd, d.ag[a], a)
    BY <1>1 DEF Agree
  <1>3. ASSUME d.snd.state = "AudioGateway"
        PROVE  d.ag[d.snd.bound].streams \/ d.ag[d.snd.bound].stop \/ d.snd.cut
    <2>1. d.snd.bound \in Gateway
      BY <1>1, <1>2, <1>3 DEF Sounds, Routing, Gatewayed
    <2>2. Feeds(d.snd, d.ag[d.snd.bound], d.snd.bound)
      BY <1>2, <2>1 DEF Whole
    <2> QED BY <1>3, <2>2 DEF Feeds, Streaming
  <1>4. \A a \in Gateway : d.ag[a].bind <=> d.snd.state = "Connecting" /\ d.snd.bound = a
    BY <1>2 DEF Whole, Fits, Claims, Waiting
  <1>5. StreamHasAudio
    BY <1>2, <1>3, <1>4 DEF StreamHasAudio, Routing, Gatewayed, Own
  <1>6. AudioOnlyWhenConnected
    BY <1>2 DEF AudioOnlyWhenConnected, Whole, Fits, Linked, Persists, Claims, Streaming
  <1> QED BY <1>5, <1>6 DEF AudioAgrees

\* What is streamed with, who waits for whom, who holds the stream, and which
\* audio may be open agree, with any number of gateways and clients (EpRelease,
\* EpAudioGateway, NotifyAudioConnection).
THEOREM AudioAlwaysAgrees == Spec => []AudioAgrees
  BY Invariance, AgreeSaysAll, PTL

\* No order of methods, events and lost clients fails an assertion about a
\* gateway: what can fail is about memory buffers, or filters around them
\* (EpRelease, MembufStart, MembufClear, SetSnoopFile).
THEOREM OnlyMembufMayFault == Spec => []OnlyMembufFaults
  <1>1. IInv => OnlyMembufFaults
    BY DEF IInv, DaemonStates, Sounds, OnlyMembufFaults
  <1> QED BY <1>1, Invariance, PTL

\* A device that nobody has claimed or knows does not come to be connected
\* unless unknown devices are accepted (NotifyConnection).
THEOREM StrangersAlwaysRefused == Spec => StrangersRefused
  <1> DEFINE Refusal == [\A a \in Gateway :
          d'.ag[a].conn = "Connected" /\ d.ag[a].conn # "Connected" =>
             "acceptunknown" \in d.on \/ d.ag[a].owner # None \/ d.ag[a].known]_d
  <1>1. IInv /\ [Next]_d => Refusal
    BY NextKeeps DEF Admits, Admitted
  <1> QED BY <1>1, Invariance, PTL DEF Spec, StrangersRefused

-----------------------------------------------------------------------------
(***************************************************************************)
(* The settings (HfpdSettings).                                            *)
(***************************************************************************)
\* The configuration in memory and the file: each section is there once, and
\* nothing comes from below the user's file.
Values == {NoValue, "true", "false", "alsa"}
Names == {"daemon", "dsp", "audio", "devices"}

Tuple == [value : Values, layer : {2, 3}, lowest : {2, 3}]
Section == [name : Names, tuples : UNION {[K -> Tuple] : K \in SUBSET Keys}]
Lines == [name : Names, lines : UNION {[K -> Values] : K \in SUBSET Keys}]

Once(seq) == \A i, j \in 1 .. Len(seq) : seq[i].name = seq[j].name => i = j

Configurations == {m \in Seq(Section) : Once(m)}
Files == {f \in Seq(Lines) : Once(f)}

Value(m, n, k) == Get(m, n, k, NoValue)

\* FindSection finds the section of a name, if there is one.
LEMMA Found ==
    ASSUME NEW m \in Configurations, NEW n \in Names
    PROVE  LET i == FindSection(m, n) IN
           \/ i = 0 /\ \A j \in 1 .. Len(m) : m[j].name # n
           \/ i \in 1 .. Len(m) /\ m[i].name = n /\ \A j \in 1 .. Len(m) : m[j].name = n => j = i
  <1> DEFINE I == {j \in 1 .. Len(m) : m[j].name = n}
  <1>1. FindSection(m, n) = IF I # {} THEN Min(I) ELSE 0
    BY DEF FindSection, SelectInSeq
  <1>2. CASE I = {}
    BY <1>1, <1>2
  <1>3. CASE I # {}
    <2>1. PICK j \in I : TRUE
      BY <1>3
    <2>2. j \in Int /\ I = {j}
      BY <2>1 DEF Configurations, Once
    <2>3. Min(I) = j
      BY <2>2 DEF Min
    <2> QED BY <1>1, <1>3, <2>1, <2>2, <2>3
  <1> QED BY <1>2, <1>3

LEMMA ValueIs ==
    ASSUME NEW m \in Configurations, NEW n \in Names, NEW k \in Keys
    PROVE  /\ Value(m, n, k) \in Values
           /\ \A i \in 1 .. Len(m) : m[i].name = n =>
                 Value(m, n, k) = IF k \in DOMAIN m[i].tuples THEN m[i].tuples[k].value ELSE NoValue
           /\ (\A i \in 1 .. Len(m) : m[i].name # n) => Value(m, n, k) = NoValue
  <1> DEFINE i == FindSection(m, n)
  <1>1. \/ i = 0 /\ \A j \in 1 .. Len(m) : m[j].name # n
        \/ i \in 1 .. Len(m) /\ m[i].name = n /\ \A j \in 1 .. Len(m) : m[j].name = n => j = i
    BY Found
  <1>2. Value(m, n, k) = IF i = 0 \/ k \notin DOMAIN m[i].tuples THEN NoValue
                         ELSE IF m[i].tuples[k].value = NoValue THEN NoValue ELSE m[i].tuples[k].value
    BY DEF Value, Get
  <1>3. \A j \in 1 .. Len(m) : m[j] \in Section
    BY DEF Configurations
  <1> HIDE DEF i
  <1>4. \A j \in 1 .. Len(m), x \in Keys :
           x \in DOMAIN m[j].tuples => m[j].tuples[x].value \in Values
    BY <1>3 DEF Section, Tuple
  <1>5. CASE i = 0 /\ \A j \in 1 .. Len(m) : m[j].name # n
    <2>1. Value(m, n, k) = NoValue
      BY <1>2, <1>5
    <2>2. Value(m, n, k) \in Values
      BY <2>1 DEF Values
    <2> QED BY <2>1, <2>2, <1>5, Zenon
  <1>6. CASE i \in 1 .. Len(m) /\ m[i].name = n /\ \A j \in 1 .. Len(m) : m[j].name = n => j = i
    <2>1. i # 0
      BY <1>6
    <2>2. Value(m, n, k) = IF k \in DOMAIN m[i].tuples THEN m[i].tuples[k].value ELSE NoValue
      BY <1>2, <2>1
    <2>3. Value(m, n, k) \in Values
      <3>1. CASE k \in DOMAIN m[i].tuples
        BY <2>2, <3>1, <1>4, <1>6
      <3>2. CASE k \notin DOMAIN m[i].tuples
        BY <2>2, <3>2 DEF Values
      <3> QED BY <3>1, <3>2
    <2> QED BY <2>2, <2>3, <1>6, Zenon
  <1> QED BY <1>1, <1>5, <1>6

\* What Get returns when a default is given.
LEMMA GetIs ==
    ASSUME NEW m, NEW n, NEW k, NEW default
    PROVE  Get(m, n, k, default) = IF Value(m, n, k) = NoValue THEN default ELSE Value(m, n, k)
  BY DEF Value, Get

LEMMA SectionThere ==
    ASSUME NEW m \in Configurations, NEW n \in Names
    PROVE  LET c == WithSection(m, n)  i == FindSection(c, n) IN
           /\ c \in Configurations
           /\ i \in 1 .. Len(c)
           /\ c[i].name = n
           /\ \A x \in Names : \A k \in Keys : Value(c, x, k) = Value(m, x, k)
  <1> DEFINE c == WithSection(m, n)
  <1> DEFINE s == [name |-> n, tuples |-> NoTuples]
  <1> DEFINE l == Len(m)
  <1>1. CASE FindSection(m, n) # 0
    <2>1. c = m
      BY <1>1 DEF WithSection
    <2> QED BY <1>1, <2>1, Found
  <1>2. CASE FindSection(m, n) = 0
    <2>1. c = Append(m, s)
      BY <1>2 DEF WithSection
    <2>2. s \in Section /\ s.name = n /\ DOMAIN s.tuples = {}
      BY DEF Section, NoTuples
    <2>3. \A j \in 1 .. l : m[j].name # n
      BY <1>2, Found
    <2>4. l \in Nat /\ m \in Seq(Section) /\ Once(m)
      BY DEF Configurations
    <2> HIDE DEF s
    <2>5. /\ c \in Seq(Section)
          /\ Len(c) = l + 1
          /\ \A j \in 1 .. l : c[j] = m[j]
          /\ c[l + 1] = s
      BY <2>1, <2>2, <2>4
    <2> HIDE DEF c, l
    <2>6. Once(c)
      <3> SUFFICES ASSUME NEW i \in 1 .. l + 1, NEW j \in 1 .. l + 1, c[i].name = c[j].name
                   PROVE  i = j
        BY <2>5 DEF Once
      <3> QED BY <2>2, <2>3, <2>4, <2>5 DEF Once, l
    <2>7. c \in Configurations
      BY <2>5, <2>6 DEF Configurations
    <2>8. \A j \in 1 .. l + 1 : c[j].name = n => j = l + 1
      BY <2>2, <2>3, <2>4, <2>5
    <2>9. FindSection(c, n) = l + 1
      BY <2>2, <2>4, <2>5, <2>7, <2>8, Found
    <2>10. ASSUME NEW x \in Names, NEW k \in Keys
           PROVE  Value(c, x, k) = Value(m, x, k)
      <3>1. CASE x = n
        <4>1. Value(c, x, k) = NoValue
          BY <2>2, <2>4, <2>5, <2>7, <3>1, ValueIs
        <4>2. Value(m, x, k) = NoValue
          BY <2>3, <3>1, ValueIs DEF l
        <4> QED BY <4>1, <4>2
      <3>2. CASE \E i \in 1 .. l : m[i].name = x
        <4>1. PICK i \in 1 .. l : m[i].name = x
          BY <3>2
        <4>2. i \in 1 .. Len(c) /\ c[i] = m[i]
          BY <2>4, <2>5, <4>1
        <4> QED BY <2>7, <4>1, <4>2, ValueIs DEF l
      <3>3. CASE x # n /\ \A i \in 1 .. l : m[i].name # x
        <4>1. \A i \in 1 .. Len(c) : c[i].name # x
          BY <2>2, <2>4, <2>5, <3>3
        <4> QED BY <2>7, <3>3, <4>1, ValueIs DEF l
      <3> QED BY <3>1, <3>2, <3>3
    <2> QED BY <2>2, <2>4, <2>5, <2>7, <2>9, <2>10 DEF c
  <1> QED BY <1>1, <1>2

\* Set and Delete change one value.
LEMMA ChangedDoes ==
    ASSUME NEW m \in Configurations, NEW n \in Names, NEW k \in Keys, NEW v \in Values,
           NEW keeps \in BOOLEAN, keeps \/ v = NoValue
    PROVE  LET q == Changed(m, n, k, v, keeps) IN
           /\ q \in Configurations
           /\ \A x \in Names : \A y \in Keys :
                 Value(q, x, y) = IF x = n /\ y = k THEN v ELSE Value(m, x, y)
  <1> DEFINE c == WithSection(m, n)
  <1> DEFINE i == FindSection(c, n)
  <1> DEFINE lowest == IF k \in DOMAIN c[i].tuples THEN c[i].tuples[k].lowest ELSE Newest
  <1> DEFINE tuple == [value |-> v, layer |-> Newest, lowest |-> lowest]
  <1> DEFINE stays == keeps \/ lowest # Newest
  <1> DEFINE new == IF stays THEN With(c[i].tuples, k, tuple) ELSE Without(c[i].tuples, k)
  <1> DEFINE q == Changed(m, n, k, v, keeps)
  <1>1. /\ c \in Configurations /\ i \in 1 .. Len(c) /\ c[i].name = n
        /\ \A x \in Names : \A y \in Keys : Value(c, x, y) = Value(m, x, y)
    BY SectionThere
  <1>2. q = [c EXCEPT ![i].tuples = new]
    BY DEF Changed
  <1>3. c \in Seq(Section) /\ Once(c)
    BY <1>1 DEF Configurations
  <1> HIDE DEF q, c, i
  <1>4. c[i] \in Section
    BY <1>1, <1>3
  <1>5. lowest \in {2, 3}
    BY <1>4 DEF Section, Tuple, Newest
  <1>6. tuple \in Tuple /\ tuple.value = v
    BY <1>5 DEF Tuple, Newest
  <1> HIDE DEF lowest, tuple, stays
  <1>7. PICK D \in SUBSET Keys : c[i].tuples \in [D -> Tuple]
    BY <1>4 DEF Section
  <1>8. new \in UNION {[K -> Tuple] : K \in SUBSET Keys}
    <2>1. CASE stays
      <3>1. new \in [D \cup {k} -> Tuple]
        BY <1>6, <1>7, <2>1 DEF With
      <3> QED BY <3>1
    <2>2. CASE ~stays
      <3>1. new \in [D \ {k} -> Tuple]
        BY <1>7, <2>2 DEF Without, Restrict
      <3> QED BY <3>1
    <2> QED BY <2>1, <2>2
  <1>9. \A y \in Keys :
           (IF y \in DOMAIN new THEN new[y].value ELSE NoValue)
              = IF y = k THEN v
                ELSE IF y \in DOMAIN c[i].tuples THEN c[i].tuples[y].value ELSE NoValue
    <2>1. CASE stays
      BY <1>6, <1>7, <2>1 DEF With
    <2>2. CASE ~stays
      <3>1. v = NoValue
        BY <2>2 DEF stays
      <3> QED BY <1>7, <2>2, <3>1 DEF Without, Restrict
    <2> QED BY <2>1, <2>2
  <1> HIDE DEF new
  <1> DEFINE s == [c[i] EXCEPT !.tuples = new]
  <1>10. s \in Section /\ s.name = n /\ s.tuples = new
    BY <1>1, <1>4, <1>8 DEF Section
  <1>11. q = [c EXCEPT ![i] = s]
    BY <1>2
  <1> HIDE DEF s
  <1>12. /\ q \in Seq(Section) /\ Len(q) = Len(c)
         /\ q[i] = s
         /\ \A j \in 1 .. Len(c) : j # i => q[j] = c[j]
    BY <1>1, <1>3, <1>10, <1>11
  <1>13. \A j \in 1 .. Len(c) : q[j].name = c[j].name
    BY <1>1, <1>10, <1>12
  <1>14. q \in Configurations
    BY <1>3, <1>12, <1>13 DEF Configurations, Once
  <1>15. ASSUME NEW x \in Names, NEW y \in Keys
         PROVE  Value(q, x, y) = IF x = n /\ y = k THEN v ELSE Value(m, x, y)
    <2>1. Value(m, x, y) = Value(c, x, y)
      BY <1>1
    <2>2. CASE x = n
      <3>1. Value(q, x, y) = IF y \in DOMAIN new THEN new[y].value ELSE NoValue
        BY <1>1, <1>10, <1>12, <1>14, <2>2, ValueIs
      <3>2. Value(c, x, y) = IF y \in DOMAIN c[i].tuples THEN c[i].tuples[y].value ELSE NoValue
        BY <1>1, <2>2, ValueIs
      <3> QED BY <1>9, <2>1, <2>2, <3>1, <3>2
    <2>3. CASE x # n /\ \E j \in 1 .. Len(c) : c[j].name = x
      <3>1. PICK j \in 1 .. Len(c) : c[j].name = x
        BY <2>3
      <3>2. j \in 1 .. Len(q) /\ q[j] = c[j]
        BY <1>1, <1>12, <2>3, <3>1
      <3>3. /\ Value(q, x, y) = IF y \in DOMAIN c[j].tuples THEN c[j].tuples[y].value ELSE NoValue
            /\ Value(c, x, y) = IF y \in DOMAIN c[j].tuples THEN c[j].tuples[y].value ELSE NoValue
        BY <1>1, <1>14, <3>1, <3>2, ValueIs
      <3> QED BY <2>1, <2>3, <3>3
    <2>4. CASE x # n /\ \A j \in 1 .. Len(c) : c[j].name # x
      <3>1. \A j \in 1 .. Len(q) : q[j].name # x
        BY <1>12, <1>13, <2>4
      <3>2. Value(q, x, y) = NoValue /\ Value(c, x, y) = NoValue
        BY <1>1, <1>14, <2>4, <3>1, ValueIs
      <3> QED BY <2>1, <2>4, <3>2
    <2> QED BY <2>2, <2>3, <2>4
  <1> QED BY <1>14, <1>15 DEF q

(***************************************************************************)
(* What is written is read back.  Written goes through the sections, which *)
(* FoldLeft does through their numbers, as above.                          *)
(***************************************************************************)

LEMMA MaxIsMax ==
    ASSUME NEW s
    PROVE  Max(s) = Max(s)
  BY DEF Max, Max

\* What FoldLeft is defined by, for the numbers in D.
LinesFold(r, seq, D, g) ==
    g = [s \in SUBSET D |-> IF s = {} THEN r ELSE WithLines(g[s \ {Max(s)}], seq[Max(s)])]

LEMMA LinesFoldIs ==
    ASSUME NEW r, NEW seq
    PROVE  FoldLeft(WithLines, r, seq)
              = (CHOOSE g : LinesFold(r, seq, DOMAIN seq, g))[DOMAIN seq]
  BY DEF FoldLeft, MapThenFoldSet, LinesFold

LEMMA LinesFoldExists ==
    ASSUME NEW r, NEW seq, NEW n \in Nat
    PROVE  \E g : LinesFold(r, seq, 1 .. n, g)
  <1> DEFINE Exists(D) == \E g : LinesFold(r, seq, D, g)
             T == {D \in SUBSET (1 .. n) : ~Exists(D)}
  <1>1. T = {}
    <2> SUFFICES ASSUME T # {} PROVE FALSE
      OBVIOUS
    <2> DEFINE all == 1 .. n
    <2>1. IsFiniteSet(all)
      BY FS_Interval
    <2>2. PICK D \in T : \A u \in T : u \subseteq D => u = D
      <3>1. T \subseteq SUBSET all
        OBVIOUS
      <3> HIDE DEF Exists, T, all
      <3> QED BY <2>1, <3>1, LeastSet
    <2>3. CASE D = {}
      <3> DEFINE g == [s \in SUBSET D |-> r]
      <3>1. LinesFold(r, seq, D, g)
        BY <2>3 DEF LinesFold
      <3> QED BY <2>2, <3>1
    <2>4. CASE D # {}
      <3> DEFINE m == Max(D)
                 E == D \ {m}
      <3>1. D \in SUBSET (1 .. n) /\ m \in D /\ \A y \in D : y <= m
        BY <2>2, <2>4, MaxIsLast, MaxIsMax
      <3> HIDE DEF m
      <3>2. E \notin T
        BY <2>2, <3>1
      <3>3. Exists(E)
        <4> HIDE DEF Exists
        <4> QED BY <2>2, <3>2
      <3>4. PICK h : LinesFold(r, seq, E, h)
        BY <3>3
      <3>5. ASSUME NEW s \in SUBSET D, m \in s
            PROVE  Max(s) = m
        <4>0. s \in SUBSET (1 .. n) /\ s # {}
          BY <3>1, <3>5
        <4>1. Max(s) \in s /\ \A y \in s : y <= Max(s)
          BY <4>0, MaxIsLast, MaxIsMax
        <4> DEFINE x == Max(s)
        <4> HIDE DEF x
        <4>2. x \in Nat /\ m \in Nat /\ m <= x /\ x <= m
          <5>1. x \in s /\ \A y \in s : y <= x
            BY <4>1 DEF x
          <5> QED BY <3>1, <3>5, <5>1
        <4> QED BY <4>2 DEF x
      <3> DEFINE g == [s \in SUBSET D |-> IF s \subseteq E THEN h[s]
                                          ELSE WithLines(h[s \ {m}], seq[m])]
      <3>6. LinesFold(r, seq, D, g)
        <4>1. ASSUME NEW s \in SUBSET D
              PROVE  g[s] = IF s = {} THEN r
                            ELSE WithLines(g[s \ {Max(s)}], seq[Max(s)])
          <5>1. CASE s = {}
            <6>1. g[s] = h[s] /\ h[s] = r
              BY <3>4, <5>1 DEF LinesFold
            <6> QED BY <5>1, <6>1
          <5>2. CASE s # {} /\ s \subseteq E
            <6>1. h[s] = WithLines(h[s \ {Max(s)}], seq[Max(s)])
              BY <3>4, <5>2 DEF LinesFold
            <6>2. g[s] = h[s] /\ g[s \ {Max(s)}] = h[s \ {Max(s)}]
              BY <5>2
            <6> HIDE DEF g
            <6> QED BY <5>2, <6>1, <6>2
          <5>3. CASE ~(s \subseteq E)
            <6>1. m \in s
              BY <5>3
            <6>2. Max(s) = m
              BY <3>5, <6>1
            <6>3. g[s] = WithLines(h[s \ {m}], seq[m]) /\ g[s \ {m}] = h[s \ {m}]
              BY <5>3
            <6> HIDE DEF g
            <6> QED BY <5>3, <6>1, <6>2, <6>3
          <5> QED BY <5>1, <5>2, <5>3
        <4>2. g = [s \in SUBSET D |-> g[s]]
          OBVIOUS
        <4> HIDE DEF g
        <4> QED BY <4>1, <4>2 DEF LinesFold
      <3> QED BY <2>2, <3>6
    <2> QED BY <2>3, <2>4
  <1>2. (1 .. n) \notin T
    BY <1>1
  <1> QED BY <1>2

HasLines(s) == DOMAIN s.lines # {}

\* f is made of those sections with the numbers in s that have lines.
Collects(f, seq, s) ==
    /\ f \in Seq(Lines)
    /\ Once(f)
    /\ \A i \in 1 .. Len(f) : \E j \in s : f[i] = seq[j] /\ HasLines(seq[j])
    /\ \A j \in s : HasLines(seq[j]) => \E i \in 1 .. Len(f) : f[i] = seq[j]

LEMMA WithLinesCollects ==
    ASSUME NEW f, NEW seq, NEW s, NEW m, m \notin s, Collects(f, seq, s),
           seq[m] \in Lines, \A j \in s : seq[j].name # seq[m].name
    PROVE  Collects(WithLines(f, seq[m]), seq, s \cup {m})
  <1> DEFINE q == WithLines(f, seq[m])
             x == seq[m]
             l == Len(f)
  <1>1. CASE ~HasLines(x)
    <2>1. q = f
      BY <1>1 DEF WithLines, HasLines
    <2> QED BY <1>1, <2>1 DEF Collects
  <1>2. CASE HasLines(x)
    <2>1. q = Append(f, x)
      BY <1>2 DEF WithLines, HasLines
    <2>2. f \in Seq(Lines) /\ x \in Lines /\ l \in Nat /\ Once(f)
      BY DEF Collects
    <2>3. /\ q \in Seq(Lines)
          /\ Len(q) = l + 1
          /\ \A i \in 1 .. l : q[i] = f[i]
          /\ q[l + 1] = x
      BY <2>1, <2>2
    <2>4. \A i \in 1 .. l : \E j \in s : f[i] = seq[j] /\ HasLines(seq[j])
      BY DEF Collects
    <2>5. \A j \in s : HasLines(seq[j]) => \E i \in 1 .. l : f[i] = seq[j]
      BY DEF Collects
    <2>6. \A i, j \in 1 .. l : f[i].name = f[j].name => i = j
      BY <2>2 DEF Once
    <2>7. \A i \in 1 .. l : f[i].name # x.name
      BY <2>4
    <2> HIDE DEF q, x, l
    <2>8. Once(q)
      <3> SUFFICES ASSUME NEW i \in 1 .. l + 1, NEW j \in 1 .. l + 1, q[i].name = q[j].name
                   PROVE  i = j
        BY <2>3 DEF Once
      <3> QED BY <2>2, <2>3, <2>6, <2>7
    <2>9. \A i \in 1 .. l + 1 : \E j \in s \cup {m} : q[i] = seq[j] /\ HasLines(seq[j])
      <3> TAKE i \in 1 .. l + 1
      <3>1. CASE i \in 1 .. l
        BY <2>3, <2>4, <3>1
      <3>2. CASE i = l + 1
        BY <2>3, <1>2, <3>2 DEF x
      <3> QED BY <2>2, <3>1, <3>2
    <2>10. \A j \in s \cup {m} : HasLines(seq[j]) => \E i \in 1 .. l + 1 : q[i] = seq[j]
      <3> SUFFICES ASSUME NEW j \in s \cup {m}, HasLines(seq[j])
                   PROVE  \E i \in 1 .. l + 1 : q[i] = seq[j]
        OBVIOUS
      <3>1. CASE j \in s
        <4>1. PICK i \in 1 .. l : f[i] = seq[j]
          BY <2>5, <3>1
        <4>2. i \in 1 .. l + 1
          BY <2>2, <4>1
        <4> QED BY <2>3, <4>1, <4>2
      <3>2. CASE j = m
        <4>1. l + 1 \in 1 .. l + 1
          BY <2>2
        <4> QED BY <2>3, <3>2, <4>1 DEF x
      <3> QED BY <3>1, <3>2
    <2> QED BY <2>3, <2>8, <2>9, <2>10 DEF Collects, q
  <1> QED BY <1>1, <1>2

LEMMA FoldCollects ==
    ASSUME NEW n \in Nat, NEW seq \in [1 .. n -> Lines],
           \A i, j \in 1 .. n : seq[i].name = seq[j].name => i = j
    PROVE  Collects(FoldLeft(WithLines, <<>>, seq), seq, 1 .. n)
  <1> DEFINE g == CHOOSE h : LinesFold(<<>>, seq, 1 .. n, h)
             T == {s \in SUBSET (1 .. n) : ~Collects(g[s], seq, s)}
  <1>1. LinesFold(<<>>, seq, 1 .. n, g)
    BY LinesFoldExists
  <1>2. DOMAIN seq = 1 .. n
    OBVIOUS
  <1>3. FoldLeft(WithLines, <<>>, seq) = g[1 .. n]
    BY <1>2, LinesFoldIs
  <1> HIDE DEF g
  <1>4. T = {}
    <2> SUFFICES ASSUME T # {} PROVE FALSE
      OBVIOUS
    <2> DEFINE all == 1 .. n
    <2>1. IsFiniteSet(all)
      BY FS_Interval
    <2>2. PICK s \in T : \A t \in T : t \subseteq s => t = s
      <3>1. T \subseteq SUBSET all
        OBVIOUS
      <3> HIDE DEF T, all
      <3> QED BY <2>1, <3>1, LeastSet
    <2>3. CASE s = {}
      <3>1. g[s] = <<>>
        BY <1>1, <2>2, <2>3 DEF LinesFold
      <3>2. Collects(<<>>, seq, s)
        BY <2>3 DEF Collects, Once
      <3> QED BY <2>2, <3>1, <3>2
    <2>4. CASE s # {}
      <3> DEFINE m == Max(s)
                 t == s \ {m}
      <3>1. s \in SUBSET (1 .. n) /\ m \in s
        BY <2>2, <2>4, MaxIsLast, MaxIsMax
      <3>2. g[s] = WithLines(g[t], seq[m])
        BY <1>1, <2>4, <3>1 DEF LinesFold
      <3> HIDE DEF m
      <3>3. Collects(g[t], seq, t)
        BY <2>2, <3>1
      <3>4. /\ m \notin t
            /\ seq[m] \in Lines
            /\ \A j \in t : seq[j].name # seq[m].name
        BY <3>1
      <3>5. t \cup {m} = s
        BY <3>1
      <3> HIDE DEF t
      <3>6. Collects(g[s], seq, s)
        <4> DEFINE h == g[t]
        <4>1. Collects(h, seq, t)
          BY <3>3
        <4> HIDE DEF h
        <4>2. Collects(WithLines(h, seq[m]), seq, t \cup {m})
          BY <3>4, <4>1, WithLinesCollects
        <4> QED BY <3>2, <3>5, <4>2 DEF h
      <3> QED BY <2>2, <3>6
    <2> QED BY <2>3, <2>4
  <1>5. Collects(g[1 .. n], seq, 1 .. n)
    BY <1>4
  <1> QED BY <1>3, <1>5

LEMMA LoadedDoes ==
    ASSUME NEW f \in Files
    PROVE  /\ Loaded(f) \in Configurations
           /\ Len(Loaded(f)) = Len(f)
           /\ \A i \in 1 .. Len(f) :
                 /\ Loaded(f)[i].name = f[i].name
                 /\ DOMAIN Loaded(f)[i].tuples = DOMAIN f[i].lines
                 /\ \A k \in DOMAIN f[i].lines :
                       Loaded(f)[i].tuples[k].value = f[i].lines[k]
  <1> DEFINE Sec(i) == [name |-> f[i].name,
                        tuples |-> [k \in DOMAIN f[i].lines |->
                            [value |-> f[i].lines[k], layer |-> 2, lowest |-> 2]]]
             l == Len(f)
             q == [i \in 1 .. l |-> Sec(i)]
  <1>1. l \in Nat /\ f \in Seq(Lines) /\ Once(f) /\ DOMAIN f = 1 .. l
    BY DEF Files
  <1>2. \A i \in 1 .. l : Sec(i) \in Section
    <2> TAKE i \in 1 .. l
    <2>1. f[i] \in Lines
      BY <1>1
    <2>2. PICK K \in SUBSET Keys : f[i].lines \in [K -> Values]
      BY <2>1 DEF Lines
    <2>3. Sec(i).tuples \in [K -> Tuple]
      BY <2>2 DEF Tuple
    <2> QED BY <2>1, <2>3 DEF Lines, Section
  <1>3. \A i \in 1 .. l :
           /\ Sec(i).name = f[i].name
           /\ DOMAIN Sec(i).tuples = DOMAIN f[i].lines
           /\ \A k \in DOMAIN f[i].lines : Sec(i).tuples[k].value = f[i].lines[k]
    OBVIOUS
  <1>4. Loaded(f) = <<>> \o q
    BY <1>1 DEF Loaded, Load, UserLayer
  <1> HIDE DEF Sec, l
  <1>5. q \in Seq(Section) /\ Len(q) = l
    BY <1>1, <1>2
  <1>6. Loaded(f) = q
    <2> HIDE DEF q
    <2> QED BY <1>4, <1>5
  <1>7. \A i \in 1 .. l : q[i] = Sec(i)
    OBVIOUS
  <1> HIDE DEF q
  <1>8. Once(q)
    BY <1>1, <1>3, <1>5, <1>7 DEF Once, l
  <1> QED BY <1>3, <1>5, <1>6, <1>7, <1>8 DEF Configurations, l

\* Save, and reading it back, keep every value.
LEMMA WrittenDoes ==
    ASSUME NEW m \in Configurations
    PROVE  LET f == Written(m, UserLayer) IN
           /\ f \in Files
           /\ \A n \in Names : \A k \in Keys : Value(Loaded(f), n, k) = Value(m, n, k)
  <1> DEFINE l == Len(m)
             Filled(t) == {k \in DOMAIN t.tuples : Writes(t.tuples[k], UserLayer)}
             Line(t) == [name |-> t.name, lines |-> [k \in Filled(t) |-> t.tuples[k].value]]
             seq == [i \in 1 .. l |-> Line(m[i])]
             f == FoldLeft(WithLines, <<>>, seq)
             q == Loaded(f)
  <1>1. l \in Nat /\ m \in Seq(Section) /\ Once(m) /\ DOMAIN m = 1 .. l
    BY DEF Configurations
  <1>2. Written(m, UserLayer) = f
    BY <1>1 DEF Written
  <1>3. \A i \in 1 .. l :
           /\ Line(m[i]) \in Lines
           /\ Line(m[i]).name = m[i].name
           /\ DOMAIN Line(m[i]).lines
                 = {k \in DOMAIN m[i].tuples : m[i].tuples[k].value # NoValue}
           /\ \A k \in DOMAIN Line(m[i]).lines : Line(m[i]).lines[k] = m[i].tuples[k].value
    <2> TAKE i \in 1 .. l
    <2>1. m[i] \in Section
      BY <1>1
    <2>2. PICK K \in SUBSET Keys : m[i].tuples \in [K -> Tuple]
      BY <2>1 DEF Section
    <2>3. Filled(m[i]) = {k \in DOMAIN m[i].tuples : m[i].tuples[k].value # NoValue}
      <3> SUFFICES ASSUME NEW k \in K
                   PROVE  Writes(m[i].tuples[k], UserLayer)
                             <=> m[i].tuples[k].value # NoValue
        BY <2>2
      <3>1. m[i].tuples[k].layer \in {2, 3} /\ m[i].tuples[k].lowest \in {2, 3}
        BY <2>2 DEF Tuple
      <3> QED BY <3>1 DEF Writes, UserLayer
    <2> DEFINE W == Filled(m[i])
    <2>4. W \subseteq K
      BY <2>2
    <2>5. DOMAIN Line(m[i]).lines = W /\ \A k \in W : Line(m[i]).lines[k] = m[i].tuples[k].value
      OBVIOUS
    <2> HIDE DEF W
    <2>6. [k \in W |-> m[i].tuples[k].value] \in [W -> Values]
      BY <2>2, <2>4 DEF Tuple
    <2>7. Line(m[i]) \in Lines
      <3>1. m[i].name \in Names
        BY <2>1 DEF Section
      <3>2. W \in SUBSET Keys
        BY <2>4
      <3> QED BY <2>6, <3>1, <3>2 DEF Lines, W
    <2> QED BY <2>3, <2>5, <2>7 DEF W
  <1> HIDE DEF Line, Filled
  <1>4. seq \in [1 .. l -> Lines] /\ \A i \in 1 .. l : seq[i] = Line(m[i])
    BY <1>3
  <1> HIDE DEF seq
  <1>5. \A i, j \in 1 .. l : seq[i].name = seq[j].name => i = j
    BY <1>1, <1>3, <1>4 DEF Once, l
  <1> HIDE DEF l
  <1>6. Collects(f, seq, 1 .. l)
    BY <1>1, <1>4, <1>5, FoldCollects
  <1> HIDE DEF f
  <1>7. f \in Files
    BY <1>6 DEF Collects, Files
  <1>8. q \in Configurations
    BY <1>7, LoadedDoes
  <1>9. ASSUME NEW n \in Names, NEW k \in Keys
        PROVE  Value(q, n, k) = Value(m, n, k)
    <2>1. CASE \E j \in 1 .. l : m[j].name = n
      <3>1. PICK j \in 1 .. l : m[j].name = n
        BY <2>1
      <3>2. Value(m, n, k) = IF k \in DOMAIN m[j].tuples THEN m[j].tuples[k].value
                             ELSE NoValue
        BY <3>1, ValueIs DEF l
      <3>3. CASE HasLines(seq[j])
        <4>1. PICK i \in 1 .. Len(f) : f[i] = seq[j]
          BY <1>6, <3>3 DEF Collects
        <4>2. /\ i \in 1 .. Len(q)
              /\ q[i].name = n
              /\ DOMAIN q[i].tuples = DOMAIN seq[j].lines
              /\ \A x \in DOMAIN seq[j].lines : q[i].tuples[x].value = seq[j].lines[x]
          <5>1. f[i].name = n
            BY <1>3, <1>4, <3>1, <4>1
          <5> QED BY <1>7, <4>1, <5>1, LoadedDoes
        <4>3. Value(q, n, k) = IF k \in DOMAIN q[i].tuples THEN q[i].tuples[k].value
                               ELSE NoValue
          BY <1>8, <4>2, ValueIs
        <4>4. /\ DOMAIN seq[j].lines
                    = {x \in DOMAIN m[j].tuples : m[j].tuples[x].value # NoValue}
              /\ \A x \in DOMAIN seq[j].lines : seq[j].lines[x] = m[j].tuples[x].value
          BY <1>3, <1>4, <3>1
        <4> QED BY <3>2, <4>2, <4>3, <4>4
      <3>4. CASE ~HasLines(seq[j])
        <4>1. Value(m, n, k) = NoValue
          BY <1>3, <1>4, <3>1, <3>2, <3>4 DEF HasLines
        <4>2. ASSUME NEW i \in 1 .. Len(q), q[i].name = n
              PROVE  FALSE
          <5>1. i \in 1 .. Len(f) /\ f[i].name = n
            BY <1>7, <4>2, LoadedDoes
          <5>2. PICK h \in 1 .. l : f[i] = seq[h] /\ HasLines(seq[h])
            BY <1>6, <5>1 DEF Collects
          <5>3. seq[h].name = seq[j].name
            BY <1>3, <1>4, <3>1, <5>1, <5>2
          <5> QED BY <1>5, <3>1, <3>4, <5>2, <5>3
        <4>3. Value(q, n, k) = NoValue
          BY <1>8, <4>2, ValueIs
        <4> QED BY <4>1, <4>3
      <3> QED BY <3>3, <3>4
    <2>2. CASE \A j \in 1 .. l : m[j].name # n
      <3>1. Value(m, n, k) = NoValue
        BY <2>2, ValueIs DEF l
      <3>2. ASSUME NEW i \in 1 .. Len(q), q[i].name = n
            PROVE  FALSE
        <4>1. i \in 1 .. Len(f) /\ f[i].name = n
          BY <1>7, <3>2, LoadedDoes
        <4>2. PICK h \in 1 .. l : f[i] = seq[h]
          BY <1>6, <4>1 DEF Collects
        <4> QED BY <1>3, <1>4, <2>2, <4>1, <4>2
      <3>3. Value(q, n, k) = NoValue
        BY <1>8, <3>2, ValueIs
      <3> QED BY <3>1, <3>3
    <2> QED BY <2>1, <2>2
  <1> QED BY <1>2, <1>7, <1>9

(***************************************************************************)
(* The daemon.                                                             *)
(***************************************************************************)

Lives ==
    [autosave : Values, acceptunknown : Values, scoenabled : Values, denoise : Values,
     driver : Values, known : BOOLEAN, reconnect : BOOLEAN]

Daemons ==
    [file : Files, mem : Configurations, live : Lives, filter : Values, owner : BOOLEAN,
     latest : Spellings, filed : Spellings,
     dirty : BOOLEAN, torn : BOOLEAN, refused : SUBSET Keys,
     retry : Calls \cup {NoCall}, changed : BOOLEAN, owed : Int, result : {"ok", "error"},
     stranger : BOOLEAN, failures : Int]

Now(m, k) == InForce(m)[k]

\* With autosave nothing is left to be saved.
Saves(r) == r.live.autosave = "true" => ~r.dirty

\* What is reported is what the configuration says, but for refused changes.
Valued(r) ==
    \A k \in Keys \ Spellings : k \notin r.refused => Now(r.mem, k) = r.live[k]

\* The gateway: under the spelling that was set latest is what it does, and
\* under the code's own there is nothing of one that is not known.
Listed(r) ==
    /\ r.live.known /\ r.latest \notin r.refused =>
          /\ Now(r.mem, r.latest) # NoValue
          /\ r.live.reconnect <=> Now(r.mem, r.latest) = "true"
    /\ "device" \notin r.refused /\ Now(r.mem, "device") # NoValue => r.live.known

Reported(r) == Valued(r) /\ Listed(r)

\* What the configuration says is in the file, once it has been saved.
Filed(r) ==
    ~r.dirty /\ ~r.torn =>
        /\ \A k \in Keys : k \notin r.refused => Now(Loaded(r.file), k) = Now(r.mem, k)
        /\ r.latest \notin r.refused => r.filed = r.latest

Filtered(r) == "denoise" \in r.refused \/ r.filter = r.live.denoise

Agreed(r) == Saves(r) /\ Reported(r) /\ Filed(r) /\ Filtered(r)

\* SetAutoReconnect(true), which may be for a gateway neither known nor claimed.
StrangersCall == <<"reconnect", TRUE>>

\* A call that is dispatched again is owed one answer, but for the stranger's.
Owing(r) ==
    /\ r.retry = NoCall => r.owed = 0 \/ r.stranger
    /\ r.retry # NoCall /\ r.owed # 1 =>
          r.retry = StrangersCall /\ ~r.owner /\ ~r.live.known

\* A call that has changed what is in force before it could be answered does so
\* again, or finds it changed.
Took(call, live) ==
    \/ IsRepeated(call)
    \/ /\ call[1] \in {"autosave", "acceptunknown", "scoenabled"}
       /\ live[call[1]] = call[2]
    \/ call = <<"reconnect", FALSE>> /\ ~live.reconnect

TookEffect(r) == Took(r.retry, r.live)

SettingsInv(r) == r \in Daemons /\ Agreed(r) /\ Owing(r)

LEMMA NoValueIs == NoValue \notin {"true", "false", "alsa"}
  BY Zenon DEF NoValue

\* In force is the value in the section of the setting, or the default.
LEMMA NowIs ==
    ASSUME NEW m \in Configurations, NEW k \in Keys
    PROVE  /\ SectionOf[k] \in Names
           /\ Default[k] \in Values
           /\ Now(m, k) = IF Value(m, SectionOf[k], k) = NoValue THEN Default[k]
                          ELSE Value(m, SectionOf[k], k)
           /\ Now(m, k) \in Values
  <1>1. SectionOf[k] \in Names
    BY DEF SectionOf, Keys, Spellings, Names
  <1>2. Default[k] \in Values
    BY DEF Default, Keys, Spellings, Values
  <1>3. Now(m, k) = Get(m, SectionOf[k], k, Default[k])
    BY DEF Now, InForce
  <1>4. Value(m, SectionOf[k], k) \in Values
    BY <1>1, ValueIs
  <1> QED BY <1>1, <1>2, <1>3, <1>4, GetIs

LEMMA SetDoes ==
    ASSUME NEW m \in Configurations, NEW k \in Keys, NEW v \in Values
    PROVE  LET q == Set(m, SectionOf[k], k, v) IN
           /\ q \in Configurations
           /\ Now(q, k) = IF v = NoValue THEN Default[k] ELSE v
           /\ \A y \in Keys : y # k => Now(q, y) = Now(m, y)
  <1> DEFINE n == SectionOf[k]
             q == Set(m, n, k, v)
  <1>1. n \in Names
    BY NowIs
  <1> HIDE DEF n
  <1>2. /\ q \in Configurations
        /\ \A x \in Names : \A y \in Keys :
              Value(q, x, y) = IF x = n /\ y = k THEN v ELSE Value(m, x, y)
    <2>1. ASSUME NEW b \in BOOLEAN, b \/ v = NoValue, q = Changed(m, n, k, v, b)
          PROVE  /\ q \in Configurations
                 /\ \A x \in Names : \A y \in Keys :
                       Value(q, x, y) = IF x = n /\ y = k THEN v ELSE Value(m, x, y)
      BY <1>1, <2>1, ChangedDoes
    <2> HIDE DEF q
    <2>2. q = Changed(m, n, k, v, TRUE)
      BY DEF Set, q
    <2> QED BY <2>1, <2>2, Zenon
  <1> HIDE DEF q
  <1>3. Now(q, k) = IF v = NoValue THEN Default[k] ELSE v
    BY <1>1, <1>2, NowIs DEF n
  <1>4. ASSUME NEW y \in Keys, y # k
        PROVE  Now(q, y) = Now(m, y)
    <2>1. Value(q, SectionOf[y], y) = Value(m, SectionOf[y], y)
      BY <1>2, <1>4, NowIs
    <2> QED BY <1>2, <2>1, NowIs
  <1> QED BY <1>2, <1>3, <1>4 DEF q, n

LEMMA DeleteDoes ==
    ASSUME NEW m \in Configurations, NEW k \in Keys
    PROVE  LET q == Delete(m, SectionOf[k], k) IN
           /\ q \in Configurations
           /\ Now(q, k) = Default[k]
           /\ \A y \in Keys : y # k => Now(q, y) = Now(m, y)
  <1> DEFINE n == SectionOf[k]
             q == Delete(m, n, k)
  <1>1. n \in Names
    BY NowIs
  <1> HIDE DEF n
  <1>2. /\ q \in Configurations
        /\ \A x \in Names : \A y \in Keys :
              Value(q, x, y) = IF x = n /\ y = k THEN NoValue ELSE Value(m, x, y)
    <2>1. NoValue \in Values
      BY DEF Values
    <2>2. ASSUME NEW b \in BOOLEAN, q = Changed(m, n, k, NoValue, b)
          PROVE  /\ q \in Configurations
                 /\ \A x \in Names : \A y \in Keys :
                       Value(q, x, y) = IF x = n /\ y = k THEN NoValue ELSE Value(m, x, y)
      BY <1>1, <2>1, <2>2, ChangedDoes
    <2> HIDE DEF q
    <2>3. q = Changed(m, n, k, NoValue, FALSE)
      BY DEF Delete, q
    <2> QED BY <2>2, <2>3, Zenon
  <1> HIDE DEF q
  <1>3. Now(q, k) = Default[k]
    BY <1>1, <1>2, NowIs DEF n
  <1>4. ASSUME NEW y \in Keys, y # k
        PROVE  Now(q, y) = Now(m, y)
    <2>1. Value(q, SectionOf[y], y) = Value(m, SectionOf[y], y)
      BY <1>2, <1>4, NowIs
    <2> QED BY <1>2, <2>1, NowIs
  <1> QED BY <1>2, <1>3, <1>4 DEF q, n

LEMMA ReadBack ==
    ASSUME NEW m \in Configurations
    PROVE  LET f == Written(m, UserLayer) IN
           /\ f \in Files
           /\ \A k \in Keys : Now(Loaded(f), k) = Now(m, k)
  <1> DEFINE f == Written(m, UserLayer)
             q == Loaded(f)
  <1>1. f \in Files /\ \A n \in Names : \A k \in Keys : Value(q, n, k) = Value(m, n, k)
    BY WrittenDoes
  <1> HIDE DEF f
  <1>2. q \in Configurations
    BY <1>1, LoadedDoes
  <1> HIDE DEF q
  <1>3. \A k \in Keys : Now(q, k) = Now(m, k)
    BY <1>1, <1>2, NowIs
  <1> QED BY <1>1, <1>3 DEF f, q

\* What saving leaves alone.
Same(r, s) ==
    /\ s.live = r.live /\ s.filter = r.filter /\ s.owner = r.owner
    /\ s.retry = r.retry /\ s.owed = r.owed /\ s.result = r.result
    /\ s.stranger = r.stranger /\ s.failures = r.failures /\ s.changed = r.changed

LEMMA SaveConfigDoes ==
    ASSUME NEW r \in Daemons, NEW force \in BOOLEAN, NEW bad
    PROVE  LET s == SaveConfig(r, force, bad) IN
           /\ s \in Daemons
           /\ Same(r, s) /\ s.mem = r.mem /\ s.refused = r.refused /\ s.latest = r.latest
           /\ ~WritesNow(r, force) => s.dirty
           /\ WritesNow(r, force) /\ CannotWrite(bad) =>
                 /\ s.dirty = r.dirty
                 /\ s.torn \/ (s.torn = r.torn /\ s.file = r.file /\ s.filed = r.filed)
           /\ WritesNow(r, force) /\ ~CannotWrite(bad) =>
                 /\ ~s.dirty /\ s.filed = s.latest
                 /\ \A k \in Keys : Now(Loaded(s.file), k) = Now(s.mem, k)
  <1> DEFINE f == Written(r.mem, UserLayer)
             s == SaveConfig(r, force, bad)
  <1>1. r.mem \in Configurations
    BY DEF Daemons
  <1>2. f \in Files /\ \A k \in Keys : Now(Loaded(f), k) = Now(r.mem, k)
    BY <1>1, ReadBack
  <1> HIDE DEF f
  <1>3. CASE ~WritesNow(r, force)
    <2>1. s = [r EXCEPT !.dirty = TRUE]
      BY <1>3 DEF SaveConfig
    <2> HIDE DEF s
    <2>2. /\ s \in Daemons /\ s.dirty /\ Same(r, s) /\ s.mem = r.mem
          /\ s.refused = r.refused /\ s.latest = r.latest
      BY <2>1 DEF Daemons, Same
    <2> QED BY <1>3, <2>2 DEF s
  <1>4. CASE WritesNow(r, force) /\ "open" \in bad
    <2>1. s = r
      BY <1>4 DEF SaveConfig
    <2>2. CannotWrite(bad)
      BY <1>4 DEF CannotWrite
    <2> QED BY <1>4, <2>1, <2>2 DEF Same
  <1>5. CASE WritesNow(r, force) /\ "open" \notin bad /\ "write" \in bad
    <2>1. s = [r EXCEPT !.file = <<>>, !.torn = TRUE]
      BY <1>5 DEF SaveConfig
    <2>2. <<>> \in Files
      BY DEF Files, Once
    <2>3. CannotWrite(bad)
      BY <1>5 DEF CannotWrite
    <2> HIDE DEF s
    <2>4. /\ s \in Daemons /\ Same(r, s) /\ s.mem = r.mem /\ s.refused = r.refused
          /\ s.latest = r.latest
          /\ s.dirty = r.dirty /\ s.torn
      BY <2>1, <2>2 DEF Daemons, Same
    <2> QED BY <1>5, <2>3, <2>4 DEF s
  <1>6. CASE WritesNow(r, force) /\ "open" \notin bad /\ "write" \notin bad
    <2>1. s = [r EXCEPT !.dirty = FALSE, !.torn = FALSE, !.file = f,
                       !.filed = r.latest]
      BY <1>6 DEF SaveConfig, f
    <2>2. ~CannotWrite(bad)
      BY <1>6 DEF CannotWrite
    <2> HIDE DEF s
    <2>3. /\ s \in Daemons /\ Same(r, s) /\ s.mem = r.mem /\ s.refused = r.refused
          /\ s.latest = r.latest
          /\ ~s.dirty /\ s.file = f /\ s.filed = s.latest
      BY <1>2, <2>1 DEF Daemons, Same
    <2> QED BY <1>2, <1>6, <2>2, <2>3 DEF s
  <1> QED BY <1>3, <1>4, <1>5, <1>6

\* The spelling that was set latest, after a change of k to v.
LatestSet(r, k, v) == IF k \in Spellings /\ v # NoValue THEN k ELSE r.latest

\* s is r after changes of k, the last to the value v, saved or not.
Alters(r, s, k, v, force, bad) ==
    /\ s \in Daemons
    /\ Same(r, s)
    /\ Now(s.mem, k) = v
    /\ \A y \in Keys : y # k => Now(s.mem, y) = Now(r.mem, y)
    /\ s.refused = IF SaveFails(r, force, bad) THEN r.refused \cup {k} ELSE r.refused \ {k}
    /\ Filed(r) => Filed(s)
    /\ WritesNow(r, force) /\ ~r.dirty => ~s.dirty
    /\ WritesNow(r, force) /\ ~CannotWrite(bad) => ~s.dirty

\* s is r after one change.
Stores(r, s, k, v, force, bad) ==
    Alters(r, s, k, v, force, bad) /\ s.latest = LatestSet(r, k, v)

\* r with another configuration, before it is saved.
Edited(r, m, l, refused) == [r EXCEPT !.mem = m, !.latest = l, !.refused = refused]

LEMMA ChangeIsSaved ==
    ASSUME NEW r \in Daemons, NEW k \in Keys, NEW force \in BOOLEAN, NEW bad,
           NEW m \in Configurations, \A y \in Keys : y # k => Now(m, y) = Now(r.mem, y),
           NEW l, l = LatestSet(r, k, Now(m, k)),
           NEW x, x = Edited(r, m, l, Refused(r, k, force, bad))
    PROVE  Stores(r, SaveConfig(x, force, bad), k, Now(m, k), force, bad)
  <1> DEFINE refused == Refused(r, k, force, bad)
             s == SaveConfig(x, force, bad)
             writes == WritesNow(r, force)
             cannot == CannotWrite(bad)
  <1>1. refused \in SUBSET Keys
    BY DEF Daemons, Refused
  <1>2. SaveFails(r, force, bad) <=> writes /\ cannot
    BY DEF SaveFails
  <1>3. /\ \A y \in Keys : y # k => (y \in refused <=> y \in r.refused)
        /\ k \in refused <=> writes /\ cannot
    BY <1>2 DEF Refused
  <1>4. refused = IF SaveFails(r, force, bad) THEN r.refused \cup {k} ELSE r.refused \ {k}
    BY DEF Refused
  <1> HIDE DEF refused
  <1>15. l \in Spellings /\ l \in Keys /\ (l # k => l = r.latest)
    BY DEF LatestSet, Daemons, Keys
  <1>5. /\ x \in Daemons /\ x.mem = m /\ x.refused = refused /\ x.latest = l
        /\ Same(r, x) /\ x.dirty = r.dirty /\ x.torn = r.torn
        /\ x.file = r.file /\ x.filed = r.filed
    BY <1>1, <1>15 DEF Daemons, Same, refused, Edited
  <1>6. WritesNow(x, force) <=> writes
    BY <1>5 DEF WritesNow, Same
  <1>7. /\ s \in Daemons /\ Same(x, s) /\ s.mem = x.mem /\ s.refused = x.refused
        /\ s.latest = x.latest
        /\ ~writes => s.dirty
        /\ writes /\ cannot =>
              /\ s.dirty = x.dirty
              /\ s.torn \/ (s.torn = x.torn /\ s.file = x.file /\ s.filed = x.filed)
        /\ writes /\ ~cannot =>
              /\ ~s.dirty /\ s.filed = s.latest
              /\ \A y \in Keys : Now(Loaded(s.file), y) = Now(s.mem, y)
    <2> HIDE DEF writes, cannot
    <2> QED BY <1>5, <1>6, SaveConfigDoes DEF cannot
  <1> HIDE DEF s, writes, cannot
  <1>8. s \in Daemons /\ Same(r, s)
    BY <1>5, <1>7 DEF Same
  <1>9. ASSUME Filed(r)
        PROVE  Filed(s)
    <2> SUFFICES ASSUME ~s.dirty, ~s.torn
                 PROVE  /\ \A y \in Keys : y \notin s.refused =>
                               Now(Loaded(s.file), y) = Now(s.mem, y)
                        /\ s.latest \notin s.refused => s.filed = s.latest
      BY DEF Filed
    <2>1. CASE writes /\ ~cannot
      BY <1>7, <2>1
    <2>2. CASE writes /\ cannot
      <3>1. ~r.dirty /\ ~r.torn /\ s.file = r.file /\ s.filed = r.filed
        BY <1>5, <1>7, <2>2
      <3>2. ASSUME NEW y \in Keys, y \notin s.refused
            PROVE  Now(Loaded(s.file), y) = Now(s.mem, y)
        <4>1. y # k /\ y \notin r.refused
          BY <1>3, <1>5, <1>7, <2>2, <3>2
        <4>2. Now(Loaded(r.file), y) = Now(r.mem, y)
          BY <1>9, <3>1, <4>1 DEF Filed
        <4> QED BY <1>5, <1>7, <3>1, <4>1, <4>2
      <3>3. ASSUME s.latest \notin s.refused
            PROVE  s.filed = s.latest
        <4>1. l # k /\ l \notin r.refused
          BY <1>3, <1>5, <1>7, <1>15, <2>2, <3>3
        <4> QED BY <1>5, <1>7, <1>9, <1>15, <3>1, <4>1 DEF Filed
      <3> QED BY <3>2, <3>3
    <2> QED BY <1>7, <2>1, <2>2
  <1>10. writes /\ ~r.dirty => ~s.dirty
    BY <1>5, <1>7
  <1>11. writes /\ ~cannot => ~s.dirty
    BY <1>7
  <1>12. /\ Now(s.mem, k) = Now(m, k)
         /\ \A y \in Keys : y # k => Now(s.mem, y) = Now(r.mem, y)
         /\ s.refused = refused /\ s.latest = LatestSet(r, k, Now(m, k))
    BY <1>5, <1>7
  <1>13. Stores(r, s, k, Now(m, k), force, bad)
    BY <1>4, <1>8, <1>9, <1>10, <1>11, <1>12 DEF Stores, Alters, writes, cannot
  <1> QED BY <1>13 DEF s

LEMMA StoredDoes ==
    ASSUME NEW r \in Daemons, NEW k \in Keys, NEW v \in Values, k \in Spellings => v # NoValue,
           NEW force \in BOOLEAN, NEW bad
    PROVE  Stores(r, Stored(r, k, v, force, bad), k,
                  IF v = NoValue THEN Default[k] ELSE v, force, bad)
  <1> DEFINE m == Set(r.mem, SectionOf[k], k, v)
             l == IF k \in Spellings THEN k ELSE r.latest
             x == [r EXCEPT !.mem = m, !.latest = l, !.refused = Refused(r, k, force, bad)]
  <1>1. r.mem \in Configurations
    BY DEF Daemons
  <1>2. /\ m \in Configurations
        /\ Now(m, k) = IF v = NoValue THEN Default[k] ELSE v
        /\ \A y \in Keys : y # k => Now(m, y) = Now(r.mem, y)
    BY <1>1, SetDoes
  <1>3. Stored(r, k, v, force, bad) = SaveConfig(x, force, bad)
    BY DEF Stored
  <1> HIDE DEF m
  <1>5. l = LatestSet(r, k, Now(m, k))
    BY <1>2 DEF LatestSet
  <1> HIDE DEF l
  <1>6. x = Edited(r, m, l, Refused(r, k, force, bad))
    BY DEF Edited
  <1> HIDE DEF x
  <1>4. Stores(r, Stored(r, k, v, force, bad), k, Now(m, k), force, bad)
    BY <1>2, <1>3, <1>5, <1>6, ChangeIsSaved
  <1> QED BY <1>2, <1>4

LEMMA ForgottenDoes ==
    ASSUME NEW r \in Daemons, NEW k \in Spellings, NEW bad
    PROVE  Stores(r, Forgotten(r, k, bad), k, NoValue, FALSE, bad)
  <1> DEFINE m == Delete(r.mem, SectionOf[k], k)
             no == FALSE
             l == r.latest
             x == [r EXCEPT !.mem = m, !.refused = Refused(r, k, no, bad)]
  <1>1. r.mem \in Configurations /\ k \in Keys /\ Default[k] = NoValue
    BY DEF Daemons, Keys, Spellings, Default
  <1>2. /\ m \in Configurations
        /\ Now(m, k) = NoValue
        /\ \A y \in Keys : y # k => Now(m, y) = Now(r.mem, y)
    BY <1>1, DeleteDoes
  <1>3. Forgotten(r, k, bad) = SaveConfig(x, no, bad)
    BY DEF Forgotten
  <1> HIDE DEF m
  <1>6. x = Edited(r, m, l, Refused(r, k, no, bad))
    BY DEF Daemons, Edited
  <1> HIDE DEF x
  <1>4. l = LatestSet(r, k, Now(m, k)) /\ no \in BOOLEAN
    BY <1>2 DEF LatestSet
  <1> HIDE DEF no, l
  <1>5. Stores(r, Forgotten(r, k, bad), k, Now(m, k), no, bad)
    BY <1>1, <1>2, <1>3, <1>4, <1>6, ChangeIsSaved
  <1> QED BY <1>2, <1>5 DEF no

\* q has what s has been saved with.
Carries(s, q) ==
    /\ q \in Daemons
    /\ q.mem = s.mem /\ q.file = s.file /\ q.dirty = s.dirty /\ q.torn = s.torn
    /\ q.latest = s.latest /\ q.filed = s.filed
    /\ s.refused \subseteq q.refused

\* A gateway that is as it was, while something else is changed or a change of
\* it has been refused.
Untouched(r, q, k) ==
    /\ k \notin Spellings \/ k \in q.refused
    /\ q.live.known = r.live.known /\ q.live.reconnect = r.live.reconnect

LEMMA ListedStays ==
    ASSUME NEW r \in Daemons, Listed(r), NEW k \in Keys, NEW v, NEW force, NEW bad, NEW s,
           Stores(r, s, k, v, force, bad), NEW q, Carries(s, q), Untouched(r, q, k)
    PROVE  Listed(q)
  <1>1. \A y \in Keys : y # k /\ y \notin q.refused => y \notin r.refused
    BY DEF Carries, Stores, Alters
  <1>2. \A y \in Keys : y # k => Now(q.mem, y) = Now(r.mem, y)
    BY DEF Stores, Alters, Carries
  <1>3. Spellings \subseteq Keys /\ "device" \in Spellings
    BY DEF Keys, Spellings
  <1>4. ASSUME q.live.known, q.latest \notin q.refused
        PROVE  /\ Now(q.mem, q.latest) # NoValue
               /\ q.live.reconnect <=> Now(q.mem, q.latest) = "true"
    <2>1. q.latest = LatestSet(r, k, v) /\ r.latest \in Spellings
      BY DEF Carries, Stores, Alters, Daemons
    <2>2. q.latest # k /\ q.latest = r.latest
      BY <1>4, <2>1 DEF LatestSet, Untouched
    <2>3. /\ r.live.known /\ r.latest \notin r.refused
          /\ Now(q.mem, r.latest) = Now(r.mem, r.latest)
      BY <1>1, <1>2, <1>3, <1>4, <2>1, <2>2 DEF Untouched
    <2> QED BY <2>2, <2>3 DEF Listed, Untouched
  <1>5. ASSUME "device" \notin q.refused, Now(q.mem, "device") # NoValue
        PROVE  q.live.known
    <2>1. "device" # k
      BY <1>3, <1>5 DEF Untouched
    <2>2. "device" \notin r.refused /\ Now(r.mem, "device") # NoValue
      BY <1>1, <1>2, <1>3, <1>5, <2>1
    <2> QED BY <2>2 DEF Listed, Untouched
  <1> QED BY <1>4, <1>5 DEF Listed

\* A saved change of k that what is in force follows keeps both in agreement.
LEMMA AltersAgrees ==
    ASSUME NEW r \in Daemons, Saves(r), Reported(r), Filed(r),
           NEW k \in Keys, NEW v, NEW force, NEW bad, NEW s,
           Alters(r, s, k, v, force, bad), NEW q, Carries(s, q), Filtered(q),
           q.live.autosave = "true" => r.live.autosave = "true" \/ ~q.dirty,
           \A y \in Keys \ Spellings : y # k => q.live[y] = r.live[y],
           k \notin Spellings => k \in q.refused \/ q.live[k] = v,
           Listed(q)
    PROVE  Agreed(q)
  <1>1. Saves(q)
    <2> SUFFICES ASSUME q.live.autosave = "true", q.dirty
                 PROVE  FALSE
      BY DEF Saves
    <2>1. r.live.autosave = "true" /\ ~r.dirty
      BY DEF Saves
    <2>2. WritesNow(r, force)
      BY <2>1 DEF WritesNow
    <2> QED BY <2>1, <2>2 DEF Alters, Carries
  <1>2. \A y \in Keys : y \notin q.refused => y \notin s.refused
    BY DEF Carries
  <1>3. \A y \in Keys : y # k /\ y \notin q.refused => y \notin r.refused
    BY <1>2 DEF Alters
  <1>4. /\ Now(q.mem, k) = v
        /\ \A y \in Keys : y # k => Now(q.mem, y) = Now(r.mem, y)
    BY DEF Alters, Carries
  <1>5. Valued(q)
    <2> SUFFICES ASSUME NEW y \in Keys \ Spellings, y \notin q.refused
                 PROVE  Now(q.mem, y) = q.live[y]
      BY DEF Valued
    <2>1. CASE y = k
      BY <1>4, <2>1
    <2>2. CASE y # k
      BY <1>3, <1>4, <2>2 DEF Reported, Valued
    <2> QED BY <2>1, <2>2
  <1>6. Filed(q)
    <2>1. Filed(s)
      BY DEF Alters
    <2>2. q.latest \notin q.refused => s.latest \notin s.refused
      BY DEF Carries
    <2> QED BY <1>2, <2>1, <2>2 DEF Filed, Carries
  <1> QED BY <1>1, <1>5, <1>6 DEF Agreed, Reported

LEMMA ChangeAgrees ==
    ASSUME NEW r \in Daemons, Saves(r), Reported(r), Filed(r),
           NEW k \in Keys, NEW v, NEW force, NEW bad, NEW s,
           Stores(r, s, k, v, force, bad), NEW q, Carries(s, q), Filtered(q),
           q.live.autosave = "true" => r.live.autosave = "true" \/ ~q.dirty,
           \A y \in Keys \ Spellings : y # k => q.live[y] = r.live[y],
           k \notin Spellings => k \in q.refused \/ q.live[k] = v,
           Listed(q) \/ Untouched(r, q, k)
    PROVE  Agreed(q)
  <1>1. Listed(q)
    BY ListedStays DEF Reported
  <1>2. Alters(r, s, k, v, force, bad)
    BY DEF Stores
  <1> QED BY <1>1, <1>2, AltersAgrees

LEMMA AgreedStays ==
    ASSUME NEW r, Agreed(r), NEW q, q.live = r.live, q.filter = r.filter, q.mem = r.mem,
           q.file = r.file, q.latest = r.latest, q.filed = r.filed,
           q.dirty = r.dirty, q.torn = r.torn, q.refused = r.refused
    PROVE  Agreed(q)
  BY DEF Agreed, Saves, Reported, Valued, Listed, Filed, Filtered

\* A call that is owed its answer.
Asked(r) == r \in Daemons /\ Agreed(r) /\ r.retry \in Calls /\ r.owed = 1

\* What an error leaves changed, by this dispatch of the call or by an earlier one.
Excused(r, x) ==
    /\ x.live = r.live \/ x.live = [r.live EXCEPT !.scoenabled = "false"]
    /\ x.filter = r.filter \/ "denoise" \in x.refused
    /\ r.changed => IsRepeated(r.retry)

ToldSo(r, q) == q.retry = NoCall /\ q.result = "error" => Excused(r, q)

\* A call that goes on, and has changed what is in force, has had its effect.
Holds(r) == r.changed => TookEffect(r)
Effective(r, x) == r.changed \/ ChangesForce(r, x) => TookEffect(x)

ToldTruly(r, q) == ToldSo(r, q) /\ (q.retry # NoCall => Effective(r, q))

LEMMA AnsweredDoes ==
    ASSUME NEW x, Asked(x), NEW result \in {"ok", "error"}, NEW bad
    PROVE  LET q == Answered(x, result, bad) IN
           /\ SettingsInv(q)
           /\ q.live = x.live /\ q.owner = x.owner
           /\ q.filter = x.filter /\ q.refused = x.refused
           /\ q.retry = NoCall => q.result = result
           /\ "reply" \notin bad => q.retry = NoCall
           /\ q.retry # NoCall => q = x
  <1> DEFINE q == Answered(x, result, bad)
  <1>1. x.retry # NoCall
    BY CallAssumption DEF Asked
  <1>2. CASE "reply" \in bad
    <2>1. q = x
      BY <1>2 DEF Answered
    <2> HIDE DEF q
    <2> QED BY <1>1, <1>2, <2>1 DEF Asked, SettingsInv, Owing, q
  <1>3. CASE "reply" \notin bad
    <2>0. x \in Daemons /\ x.owed - 1 = 0
      BY DEF Asked
    <2>1. q = [x EXCEPT !.retry = NoCall, !.owed = 0, !.result = result]
      BY <1>3, <2>0 DEF Answered, Asked
    <2> HIDE DEF q
    <2>5. q \in Daemons
      <3> DEFINE y == [x EXCEPT !.owed = 0]
      <3>1. y \in Daemons
        BY <2>0 DEF Daemons
      <3>2. q = [y EXCEPT !.retry = NoCall, !.result = result]
        BY <2>0, <2>1 DEF Daemons
      <3> HIDE DEF y
      <3> QED BY <3>1, <3>2 DEF Daemons
    <2>2. /\ q \in Daemons /\ q.retry = NoCall /\ q.owed = 0 /\ q.result = result
          /\ q.live = x.live /\ q.owner = x.owner
          /\ q.filter = x.filter /\ q.mem = x.mem
          /\ q.file = x.file /\ q.latest = x.latest /\ q.filed = x.filed
          /\ q.dirty = x.dirty /\ q.torn = x.torn /\ q.refused = x.refused
      BY <2>0, <2>1, <2>5 DEF Daemons
    <2>3. Agreed(q)
      BY <2>2, AgreedStays DEF Asked
    <2> QED BY <2>2, <2>3 DEF SettingsInv, Owing, q
  <1> QED BY <1>2, <1>3

\* An answered call is settled, and an error has changed nothing.
LEMMA OkDoes ==
    ASSUME NEW r, NEW x, Asked(x), NEW bad, "reply" \in bad => Effective(r, x)
    PROVE  SettingsInv(Success(x, bad)) /\ ToldTruly(r, Success(x, bad))
  BY AnsweredDoes DEF Success, ToldTruly, ToldSo

LEMMA ErrorDoes ==
    ASSUME NEW r, NEW x, Asked(x), NEW bad, Effective(r, x), Excused(r, x)
    PROVE  SettingsInv(Error(x, bad)) /\ ToldTruly(r, Error(x, bad))
  BY AnsweredDoes DEF Error, ToldTruly, ToldSo, Excused

\* A dispatch that changes nothing leaves the call as effective as it was.
LEMMA EffectiveStill ==
    ASSUME NEW r, Holds(r), NEW x, x.retry = r.retry, x.live = r.live, x.filter = r.filter
    PROVE  Effective(r, x)
  BY DEF Holds, Effective, ChangesForce, TookEffect

\* A call that has not had its effect has changed nothing yet.
LEMMA NothingYet ==
    ASSUME NEW r, Holds(r), NEW call, r.retry = call,
           call[1] \notin {"known", "denoise", "reconnect"},
           \/ call[1] \notin {"autosave", "acceptunknown", "scoenabled"}
           \/ r.live[call[1]] # call[2]
    PROVE  ~r.changed
  <1>1. ASSUME NEW on \in BOOLEAN, call = <<"reconnect", on>>
        PROVE  FALSE
    <2>1. call[1] = "reconnect"
      BY <1>1
    <2> QED BY <2>1
  <1> QED BY <1>1 DEF Holds, TookEffect, Took, IsRepeated

\* A change keeps the call asked for.
LEMMA StoredAsked ==
    ASSUME NEW r, Asked(r), NEW k, NEW v, NEW force, NEW bad, NEW s,
           Stores(r, s, k, v, force, bad), NEW q, Carries(s, q), Agreed(q),
           q.retry = s.retry, q.owed = s.owed
    PROVE  Asked(q)
  BY DEF Asked, Stores, Alters, Same, Carries

LEMMA FileFirstDoes ==
    ASSUME NEW r, Asked(r), NEW k \in {"autosave", "acceptunknown"},
           NEW v \in {"true", "false"}, NEW force \in BOOLEAN,
           k = "autosave" /\ v = "true" => force, NEW bad,
           Holds(r), r.retry = <<k, v>>
    PROVE  LET q == FileFirst(r, k, v, force, bad) IN SettingsInv(q) /\ ToldTruly(r, q)
  <1> DEFINE s == Stored(r, k, v, force, bad)
             q == FileFirst(r, k, v, force, bad)
             w == [s EXCEPT !.live[k] = v]
             writes == WritesNow(r, force)
  <1>1. r \in Daemons /\ Agreed(r) /\ r.live \in Lives
    BY DEF Asked, Daemons
  <1>2. /\ k \in Keys /\ k \notin Spellings /\ k # "denoise"
        /\ v \in Values /\ v # NoValue
    BY NoValueIs DEF Keys, Spellings, Values
  <1>3. Stores(r, s, k, v, force, bad)
    BY <1>1, <1>2, StoredDoes
  <1>4. CASE r.live[k] = v
    <2>1. q = Success(r, bad)
      BY <1>4 DEF FileFirst
    <2> QED BY <2>1, EffectiveStill, OkDoes
  <1>5. CASE r.live[k] # v /\ SaveFails(r, force, bad)
    <2>1. q = Error(s, bad)
      BY <1>5 DEF FileFirst
    <2> HIDE DEF s, q
    <2>2. s \in Daemons /\ s.live = r.live /\ s.filter = r.filter /\ k \in s.refused
      BY <1>3, <1>5 DEF Stores, Alters, Same
    <2>3. Carries(s, s)
      BY <2>2 DEF Carries
    <2>4. Filtered(s)
      BY <1>1, <1>2, <1>3, <2>2 DEF Agreed, Filtered, Stores, Alters
    <2>5. Agreed(s)
      <3>1. Untouched(r, s, k)
        BY <2>2 DEF Untouched
      <3>2. s.live.autosave = "true" => r.live.autosave = "true" \/ ~s.dirty
        BY <2>2
      <3> QED BY <1>1, <1>2, <1>3, <2>2, <2>3, <2>4, <3>1, <3>2, ChangeAgrees DEF Agreed
    <2>6. Asked(s)
      BY <1>3, <2>3, <2>5, StoredAsked
    <2>7. Effective(r, s) /\ Excused(r, s)
      <3> DEFINE call == <<k, v>>
      <3>1. call[1] = k /\ call[2] = v /\ r.retry = call
        OBVIOUS
      <3> HIDE DEF call
      <3>2. ~r.changed
        BY <1>5, <3>1, NothingYet
      <3>3. s.retry = r.retry
        BY <1>3 DEF Stores, Alters, Same
      <3> QED BY <2>2, <3>2, <3>3, EffectiveStill DEF Excused
    <2>8. SettingsInv(q) /\ ToldTruly(r, q)
      <3> HIDE DEF Asked
      <3> QED BY <2>1, <2>6, <2>7, ErrorDoes
    <2> QED BY <2>8 DEF q
  <1>6. CASE r.live[k] # v /\ ~SaveFails(r, force, bad)
    <2>1. q = Success(w, bad)
      BY <1>6 DEF FileFirst
    <2> HIDE DEF s, q
    <2>2. s \in Daemons /\ s.live = r.live /\ s.filter = r.filter /\ s.live \in Lives
      BY <1>1, <1>3 DEF Stores, Alters, Same
    <2>3. /\ w \in Daemons /\ w.live = [r.live EXCEPT ![k] = v]
          /\ w.mem = s.mem /\ w.file = s.file /\ w.latest = s.latest
          /\ w.filed = s.filed /\ w.dirty = s.dirty /\ w.torn = s.torn
          /\ w.refused = s.refused /\ w.retry = s.retry /\ w.owed = s.owed
          /\ w.filter = s.filter
      <3>1. [s.live EXCEPT ![k] = v] \in Lives
        BY <1>2, <2>2 DEF Lives
      <3> QED BY <2>2, <3>1 DEF Daemons
    <2> HIDE DEF w
    <2>4. /\ w.live[k] = v
          /\ \A y \in Keys \ Spellings : y # k => w.live[y] = r.live[y]
          /\ w.live.known = r.live.known /\ w.live.reconnect = r.live.reconnect
          /\ w.live.denoise = r.live.denoise
          /\ k # "autosave" => w.live.autosave = r.live.autosave
      BY <1>1, <1>2, <2>3 DEF Lives, Keys, Spellings
    <2>5. Carries(s, w)
      BY <2>3 DEF Carries
    <2>6. Filtered(w)
      BY <1>1, <1>2, <1>3, <2>2, <2>3, <2>4 DEF Agreed, Filtered, Stores, Alters
    <2>7. w.live.autosave = "true" => r.live.autosave = "true" \/ ~w.dirty
      <3>1. CASE k = "autosave" /\ v = "true"
        <4>1. writes /\ ~CannotWrite(bad)
          BY <1>6, <3>1 DEF WritesNow, SaveFails
        <4> QED BY <1>3, <2>3, <4>1 DEF Stores, Alters
      <3>2. CASE k # "autosave"
        BY <2>4, <3>2
      <3>3. CASE k = "autosave" /\ v = "false"
        BY <2>4, <3>3
      <3> QED BY <3>1, <3>2, <3>3
    <2>8. Agreed(w)
      <3>1. Untouched(r, w, k)
        BY <1>2, <2>4 DEF Untouched
      <3> QED BY <1>1, <1>2, <1>3, <2>4, <2>5, <2>6, <2>7, <3>1, ChangeAgrees DEF Agreed
    <2>9. Asked(w)
      BY <1>3, <2>3, <2>5, <2>8, StoredAsked
    <2>10. Effective(r, w)
      <3> DEFINE call == <<k, v>>
      <3>1. call[1] = k /\ call[2] = v /\ r.retry = call
        OBVIOUS
      <3> HIDE DEF call
      <3>2. w.retry = call
        BY <1>3, <2>3, <3>1 DEF Stores, Alters, Same
      <3> QED BY <2>4, <3>1, <3>2 DEF Effective, TookEffect, Took
    <2> QED BY <2>1, <2>9, <2>10, OkDoes DEF q
  <1> QED BY <1>4, <1>5, <1>6

\* A change that could not be saved: k is refused, and nothing else happens.
LEMMA RefusedDoes ==
    ASSUME NEW r \in Daemons, Saves(r), Reported(r), Filed(r), r.retry \in Calls, r.owed = 1,
           NEW k \in Keys, k = "denoise" \/ Filtered(r), NEW v, NEW force, NEW bad, NEW s,
           Stores(r, s, k, v, force, bad), SaveFails(r, force, bad)
    PROVE  /\ Asked(s) /\ s.live = r.live /\ k \in s.refused
           /\ s.retry = r.retry /\ s.filter = r.filter
  <1>1. s \in Daemons /\ s.live = r.live /\ s.filter = r.filter /\ k \in s.refused
    BY DEF Stores, Alters, Same
  <1>2. Carries(s, s)
    BY <1>1 DEF Carries
  <1>3. Filtered(s)
    <2>1. "denoise" \in Keys
      BY DEF Keys, Spellings
    <2> QED BY <1>1, <2>1 DEF Filtered, Stores, Alters
  <1>6. Untouched(r, s, k)
    BY <1>1 DEF Untouched
  <1>4. Agreed(s)
    BY <1>1, <1>2, <1>3, <1>6, ChangeAgrees
  <1>5. s.retry = r.retry /\ s.owed = r.owed
    BY DEF Stores, Alters, Same
  <1> QED BY <1>1, <1>4, <1>5 DEF Asked

LEMMA AskedIs ==
    ASSUME NEW r, Asked(r)
    PROVE  /\ r \in Daemons /\ r.live \in Lives /\ r.retry \in Calls /\ r.owed = 1
           /\ Agreed(r) /\ Saves(r) /\ Reported(r) /\ Filed(r) /\ Filtered(r)
  <1>1. r \in Daemons /\ r.retry \in Calls /\ r.owed = 1 /\ Agreed(r)
    BY DEF Asked
  <1> QED BY <1>1 DEF Agreed, Daemons

\* s, with the value v of k in force.
Enforced(s, k, v) == [s EXCEPT !.live[k] = v]

\* A change of a setting with a value, k, that was saved and put in force.
LEMMA PutInForce ==
    ASSUME NEW r \in Daemons, Saves(r), Reported(r), Filed(r), r.retry \in Calls, r.owed = 1,
           NEW k \in {"scoenabled", "denoise", "driver"}, k = "denoise" \/ Filtered(r),
           NEW v \in Values, k = "denoise" => r.filter = v,
           NEW force, NEW bad, NEW s, Stores(r, s, k, v, force, bad)
    PROVE  LET w == Enforced(s, k, v) IN
           Asked(w) /\ w.retry = r.retry /\ w.live[k] = v
  <1> DEFINE w == Enforced(s, k, v)
  <1>1. k \in Keys /\ k \notin Spellings /\ k # "autosave"
    BY DEF Keys, Spellings
  <1>2. /\ s \in Daemons /\ s.live = r.live /\ s.filter = r.filter /\ s.live \in Lives
        /\ s.retry = r.retry /\ s.owed = r.owed
    BY DEF Stores, Alters, Same, Daemons
  <1>3. [s.live EXCEPT ![k] = v] \in Lives
    BY <1>2 DEF Lives
  <1>4. /\ w \in Daemons /\ w.live = [r.live EXCEPT ![k] = v]
        /\ w.mem = s.mem /\ w.file = s.file /\ w.latest = s.latest /\ w.filed = s.filed
        /\ w.dirty = s.dirty /\ w.torn = s.torn
        /\ w.refused = s.refused /\ w.retry = r.retry /\ w.owed = r.owed /\ w.filter = r.filter
    BY <1>2, <1>3 DEF Daemons, Enforced
  <1> HIDE DEF w
  <1>5. r.live \in Lives
    BY <1>2
  <1>6. /\ w.live[k] = v
        /\ \A y \in Keys \ Spellings : y # k => w.live[y] = r.live[y]
        /\ w.live.known = r.live.known /\ w.live.reconnect = r.live.reconnect
        /\ k # "denoise" => w.live.denoise = r.live.denoise
        /\ w.live.autosave = r.live.autosave
    BY <1>1, <1>4, <1>5 DEF Lives, Keys, Spellings
  <1>7. Carries(s, w)
    BY <1>4 DEF Carries
  <1>8. Filtered(w)
    <2>1. CASE k = "denoise"
      BY <1>4, <1>6, <2>1 DEF Filtered
    <2>2. CASE k # "denoise"
      <3>1. "denoise" \in r.refused => "denoise" \in w.refused
        BY <1>4, <2>2 DEF Stores, Alters
      <3> QED BY <1>4, <1>6, <2>2, <3>1 DEF Filtered
    <2> QED BY <2>1, <2>2
  <1>9. w.live.autosave = "true" => r.live.autosave = "true" \/ ~w.dirty
    BY <1>6
  <1>10. Agreed(w)
    <2>1. Untouched(r, w, k)
      BY <1>1, <1>6 DEF Untouched
    <2> QED BY <1>1, <1>6, <1>7, <1>8, <1>9, <2>1, ChangeAgrees
  <1>11. Asked(w)
    BY <1>4, <1>10 DEF Asked
  <1> QED BY <1>4, <1>6, <1>11 DEF w

LEMMA ScoEnabledDoes ==
    ASSUME NEW r, Asked(r), NEW v \in {"true", "false"}, NEW bad,
           Holds(r), r.retry = <<"scoenabled", v>>
    PROVE  LET q == ScoEnabled(r, v, bad) IN SettingsInv(q) /\ ToldTruly(r, q)
  <1> DEFINE s == Stored(r, "scoenabled", v, FALSE, bad)
             q == ScoEnabled(r, v, bad)
  <1>1. /\ r \in Daemons /\ r.live \in Lives /\ r.retry \in Calls /\ r.owed = 1
        /\ Agreed(r) /\ Saves(r) /\ Reported(r) /\ Filed(r) /\ Filtered(r)
    BY AskedIs
  <1>2. "scoenabled" \in Keys /\ v \in Values /\ v # NoValue
    BY NoValueIs DEF Keys, Spellings, Values
  <1>3. Stores(r, s, "scoenabled", v, FALSE, bad)
    BY <1>1, <1>2, StoredDoes, Zenon
  <1> HIDE DEF s
  <1>8. r.live.scoenabled # v => ~r.changed
    <2> DEFINE call == <<"scoenabled", v>>
    <2>1. call[1] = "scoenabled" /\ call[2] = v /\ r.retry = call
      OBVIOUS
    <2> HIDE DEF call
    <2> QED BY <2>1, NothingYet
  <1>4. CASE r.live.scoenabled = v
    <2>1. q = Success(r, bad)
      BY <1>4 DEF ScoEnabled
    <2> QED BY <2>1, EffectiveStill, OkDoes
  <1>5. CASE r.live.scoenabled # v /\ ~Relistens(v, bad)
    <2>1. q = Error(r, bad)
      BY <1>5 DEF ScoEnabled
    <2>2. Effective(r, r) /\ Excused(r, r)
      BY <1>5, <1>8, EffectiveStill DEF Excused
    <2> QED BY <2>1, <2>2, ErrorDoes
  <1>6. CASE r.live.scoenabled # v /\ Relistens(v, bad) /\ SaveFails(r, FALSE, bad)
    <2> DEFINE u == IF Relistens(r.live.scoenabled, bad) THEN r.live.scoenabled ELSE v
               w == [s EXCEPT !.live.scoenabled = u]
    <2>1. /\ Asked(s) /\ s.live = r.live /\ "scoenabled" \in s.refused
          /\ s.retry = r.retry /\ s.filter = r.filter
      <3> DEFINE force == FALSE
      <3>1. Stores(r, s, "scoenabled", v, force, bad) /\ SaveFails(r, force, bad)
        BY <1>3, <1>6
      <3> HIDE DEF force
      <3> QED BY <1>1, <1>2, <3>1, RefusedDoes
    <2>2. q = Error(w, bad)
      BY <1>6, <2>1 DEF ScoEnabled, s
    <2>3. /\ u \in Values
          /\ u = r.live.scoenabled \/ u = "false"
      BY <1>1, <1>2, <1>6 DEF Relistens, Lives
    <2> HIDE DEF u
    <2>4. s \in Daemons /\ s.live \in Lives
      BY <2>1, AskedIs
    <2>5. w.live = [r.live EXCEPT !.scoenabled = u]
      BY <2>1, <2>4 DEF Daemons
    <2>6. w.live = r.live \/ w.live = [r.live EXCEPT !.scoenabled = "false"]
      <3>1. CASE u = r.live.scoenabled
        <4>1. [r.live EXCEPT !.scoenabled = r.live.scoenabled] = r.live
          BY <1>1 DEF Lives
        <4> QED BY <2>5, <3>1, <4>1
      <3>2. CASE u = "false"
        BY <2>5, <3>2
      <3> QED BY <2>3, <3>1, <3>2
    <2>7. Asked(w)
      <3>1. w.live \in Lives
        BY <1>1, <2>3, <2>5 DEF Lives
      <3>2. /\ w \in Daemons /\ w.filter = s.filter /\ w.mem = s.mem
            /\ w.file = s.file /\ w.latest = s.latest /\ w.filed = s.filed
            /\ w.dirty = s.dirty /\ w.torn = s.torn
            /\ w.refused = s.refused /\ w.retry = s.retry /\ w.owed = s.owed
        BY <2>3, <2>4 DEF Daemons, Lives
      <3>3. /\ \A y \in Keys \ Spellings : y # "scoenabled" => w.live[y] = s.live[y]
            /\ w.live.known = s.live.known /\ w.live.reconnect = s.live.reconnect
            /\ w.live.denoise = s.live.denoise /\ w.live.autosave = s.live.autosave
        BY <1>1, <2>1, <2>5 DEF Lives, Keys, Spellings
      <3> HIDE DEF w
      <3>4. Agreed(s)
        BY <2>1 DEF Asked
      <3>5. Reported(w)
        <4>1. Valued(s) /\ Listed(s)
          BY <3>4 DEF Agreed, Reported
        <4>2. Valued(w)
          BY <2>1, <3>2, <3>3, <4>1 DEF Valued
        <4>3. Listed(w)
          BY <3>2, <3>3, <4>1 DEF Listed
        <4> QED BY <4>2, <4>3 DEF Reported
      <3>6. Saves(w) /\ Filed(w) /\ Filtered(w)
        BY <3>2, <3>3, <3>4 DEF Agreed, Saves, Filed, Filtered
      <3> QED BY <2>1, <3>2, <3>5, <3>6 DEF Asked, Agreed
    <2>9. w.filter = r.filter /\ w.retry = r.retry /\ w.live.scoenabled = u
      BY <1>1, <2>1, <2>3, <2>4, <2>5 DEF Daemons, Lives
    <2> HIDE DEF w
    <2>10. Excused(r, w)
      BY <1>6, <1>8, <2>6, <2>9 DEF Excused
    <2>11. Effective(r, w)
      <3>1. u = v \/ u = r.live.scoenabled
        BY DEF u
      <3>2. CASE u = v
        <4> DEFINE call == <<"scoenabled", v>>
        <4>1. call[1] = "scoenabled" /\ call[2] = v /\ r.retry = call
          OBVIOUS
        <4> HIDE DEF call
        <4> QED BY <2>9, <3>2, <4>1 DEF Effective, TookEffect, Took
      <3>3. CASE u = r.live.scoenabled
        <4>1. w.live = r.live
          <5>1. [r.live EXCEPT !.scoenabled = r.live.scoenabled] = r.live
            BY <1>1 DEF Lives
          <5> QED BY <2>5, <3>3, <5>1
        <4> QED BY <2>9, <4>1, EffectiveStill
      <3> QED BY <3>1, <3>2, <3>3
    <2>8. SettingsInv(Error(w, bad)) /\ ToldTruly(r, Error(w, bad))
      BY <2>7, <2>10, <2>11, ErrorDoes
    <2> QED BY <2>2, <2>8
  <1>7. CASE r.live.scoenabled # v /\ Relistens(v, bad) /\ ~SaveFails(r, FALSE, bad)
    <2>1. q = Success([s EXCEPT !.live.scoenabled = v], bad)
      BY <1>7 DEF ScoEnabled, s
    <2> DEFINE w == Enforced(s, "scoenabled", v)
    <2>2. Asked(w) /\ w.retry = r.retry /\ w.live["scoenabled"] = v
      <3> DEFINE force == FALSE
      <3>1. Stores(r, s, "scoenabled", v, force, bad)
        BY <1>3
      <3> HIDE DEF force
      <3> QED BY <1>1, <1>2, <3>1, PutInForce
    <2>4. q = Success(w, bad)
      BY <2>1 DEF Enforced
    <2> HIDE DEF w, q
    <2>3. Effective(r, w)
      <3> DEFINE call == <<"scoenabled", v>>
      <3>1. call[1] = "scoenabled" /\ call[2] = v /\ r.retry = call
        OBVIOUS
      <3> HIDE DEF call
      <3> QED BY <2>2, <3>1 DEF Effective, TookEffect, Took
    <2> QED BY <2>2, <2>3, <2>4, OkDoes DEF q
  <1> QED BY <1>4, <1>5, <1>6, <1>7

LEMMA DenoiseDoes ==
    ASSUME NEW r, Asked(r), NEW v \in {"true", "false"}, NEW bad,
           r.retry = <<"denoise", v>>
    PROVE  LET q == Denoise(r, v, bad) IN SettingsInv(q) /\ ToldTruly(r, q)
  <1> DEFINE p == [r EXCEPT !.filter = v]
             s == Stored(p, "denoise", v, FALSE, bad)
             q == Denoise(r, v, bad)
  <1>1. /\ r \in Daemons /\ r.live \in Lives /\ r.retry \in Calls /\ r.owed = 1
        /\ Agreed(r) /\ Saves(r) /\ Reported(r) /\ Filed(r) /\ Filtered(r)
    BY AskedIs
  <1>2. "denoise" \in Keys /\ v \in Values /\ v # NoValue
    BY NoValueIs DEF Keys, Spellings, Values
  <1>3. /\ p \in Daemons /\ p.live = r.live /\ p.retry = r.retry /\ p.owed = r.owed
        /\ p.mem = r.mem /\ p.file = r.file /\ p.latest = r.latest /\ p.filed = r.filed
        /\ p.dirty = r.dirty /\ p.torn = r.torn
        /\ p.refused = r.refused /\ p.filter = v
    BY <1>1, <1>2 DEF Daemons
  <1>4. SaveFails(r, FALSE, bad) <=> SaveFails(p, FALSE, bad)
    BY <1>3 DEF SaveFails, WritesNow
  <1> HIDE DEF p
  <1>5. Saves(p) /\ Reported(p) /\ Filed(p)
    BY <1>1, <1>3 DEF Saves, Reported, Valued, Listed, Filed
  <1>6. Stores(p, s, "denoise", v, FALSE, bad)
    BY <1>2, <1>3, StoredDoes, Zenon
  <1> HIDE DEF s
  <1>10. IsRepeated(r.retry) /\ \A x : x.retry = r.retry => Effective(r, x)
    <2> DEFINE call == <<"denoise", v>>
    <2>1. call[1] = "denoise" /\ r.retry = call
      OBVIOUS
    <2> HIDE DEF call
    <2>2. IsRepeated(r.retry)
      BY <2>1 DEF IsRepeated
    <2> QED BY <2>2 DEF Effective, TookEffect, Took
  <1>7. CASE "sound" \in bad
    <2>1. q = Error(r, bad)
      BY <1>7 DEF Denoise
    <2>2. Effective(r, r) /\ Excused(r, r)
      BY <1>10 DEF Excused
    <2> QED BY <2>1, <2>2, ErrorDoes
  <1>8. CASE "sound" \notin bad /\ SaveFails(r, FALSE, bad)
    <2>1. q = Error(s, bad)
      BY <1>8 DEF Denoise, s, p
    <2>2. Asked(s) /\ s.live = p.live /\ "denoise" \in s.refused /\ s.retry = p.retry
      <3>1. p.retry \in Calls /\ p.owed = 1 /\ SaveFails(p, FALSE, bad)
        BY <1>1, <1>3, <1>4, <1>8
      <3> DEFINE force == FALSE
      <3>2. Stores(p, s, "denoise", v, force, bad) /\ SaveFails(p, force, bad)
        BY <1>6, <3>1
      <3> HIDE DEF force
      <3> QED BY <1>2, <1>3, <1>5, <3>1, <3>2, RefusedDoes
    <2>3. Effective(r, s) /\ Excused(r, s)
      BY <1>3, <1>10, <2>2 DEF Excused
    <2> QED BY <2>1, <2>2, <2>3, ErrorDoes
  <1>9. CASE "sound" \notin bad /\ ~SaveFails(r, FALSE, bad)
    <2>1. q = Success([s EXCEPT !.live.denoise = v], bad)
      BY <1>9 DEF Denoise, s, p
    <2> DEFINE w == Enforced(s, "denoise", v)
    <2>2. Asked(w) /\ w.retry = p.retry /\ w.live["denoise"] = v
      <3> DEFINE force == FALSE
                 k == "denoise"
                 u == Enforced(s, k, v)
      <3>1. Stores(p, s, k, v, force, bad)
        BY <1>6
      <3>2. k = "denoise" /\ k \in {"scoenabled", "denoise", "driver"}
        OBVIOUS
      <3> HIDE DEF force, k
      <3>3. p.retry \in Calls /\ p.owed = 1
        BY <1>1, <1>3
      <3>4. /\ p \in Daemons /\ v \in Values
            /\ k = "denoise" \/ Filtered(p)
            /\ k = "denoise" => p.filter = v
        BY <1>2, <1>3, <3>2
      <3>5. Asked(u) /\ u.retry = p.retry /\ u.live[k] = v
        BY <1>5, <3>1, <3>2, <3>3, <3>4, PutInForce
      <3> QED BY <3>5 DEF k
    <2>4. q = Success(w, bad)
      BY <2>1 DEF Enforced
    <2> HIDE DEF w, q
    <2>3. Effective(r, w)
      BY <1>3, <1>10, <2>2
    <2> QED BY <2>2, <2>3, <2>4, OkDoes DEF q
  <1> QED BY <1>7, <1>8, <1>9

LEMMA DriverDoes ==
    ASSUME NEW r, Asked(r), NEW v \in {NoValue, "alsa"}, NEW bad,
           Holds(r), r.retry = <<"driver", v>>
    PROVE  LET q == Driver(r, v, bad) IN SettingsInv(q) /\ ToldTruly(r, q)
  <1> DEFINE s == Stored(r, "driver", v, FALSE, bad)
             q == Driver(r, v, bad)
             w == [s EXCEPT !.refused = @ \cup {"driver"}]
  <1>1. /\ r \in Daemons /\ r.live \in Lives /\ r.retry \in Calls /\ r.owed = 1
        /\ Agreed(r) /\ Saves(r) /\ Reported(r) /\ Filed(r) /\ Filtered(r)
    BY AskedIs
  <1>2. /\ "driver" \in Keys /\ "driver" \notin Spellings /\ v \in Values
        /\ Default["driver"] = NoValue
    BY DEF Keys, Spellings, Values, Default
  <1>3. Stores(r, s, "driver", v, FALSE, bad)
    <2>1. Stores(r, s, "driver", IF v = NoValue THEN Default["driver"] ELSE v, FALSE, bad)
      BY <1>1, <1>2, StoredDoes, Zenon
    <2> HIDE DEF s
    <2> QED BY <1>2, <2>1
  <1> HIDE DEF s
  <1>8. ~r.changed
    <2> DEFINE call == <<"driver", v>>
    <2>1. call[1] = "driver" /\ r.retry = call
      OBVIOUS
    <2> HIDE DEF call
    <2> QED BY <2>1, NothingYet
  <1>4. CASE "sound" \in bad
    <2>1. q = Error(r, bad)
      BY <1>4 DEF Driver
    <2>2. Effective(r, r) /\ Excused(r, r)
      BY <1>8, EffectiveStill DEF Excused
    <2> QED BY <2>1, <2>2, ErrorDoes
  <1>5. CASE "sound" \notin bad /\ SaveFails(r, FALSE, bad)
    <2>1. q = Error(s, bad)
      BY <1>5 DEF Driver, s
    <2>2. Asked(s) /\ s.live = r.live /\ s.retry = r.retry /\ s.filter = r.filter
      <3> DEFINE force == FALSE
      <3>1. Stores(r, s, "driver", v, force, bad) /\ SaveFails(r, force, bad)
        BY <1>3, <1>5
      <3> HIDE DEF force
      <3> QED BY <1>1, <1>2, <3>1, RefusedDoes
    <2>3. Effective(r, s) /\ Excused(r, s)
      BY <1>8, <2>2, EffectiveStill DEF Excused
    <2> QED BY <2>1, <2>2, <2>3, ErrorDoes
  <1>6. CASE "sound" \notin bad /\ ~SaveFails(r, FALSE, bad) /\ "reply" \in bad
    <2>1. q = w
      BY <1>6 DEF Driver, s
    <2>2. /\ s \in Daemons /\ s.live = r.live /\ s.filter = r.filter
          /\ s.retry = r.retry /\ s.owed = r.owed
      BY <1>3 DEF Stores, Alters, Same
    <2>3. /\ w \in Daemons /\ w.live = s.live /\ w.filter = s.filter /\ w.mem = s.mem
          /\ w.file = s.file /\ w.latest = s.latest /\ w.filed = s.filed
          /\ w.dirty = s.dirty /\ w.torn = s.torn
          /\ w.refused = s.refused \cup {"driver"} /\ w.retry = s.retry /\ w.owed = s.owed
      BY <1>2, <2>2 DEF Daemons
    <2> HIDE DEF w, q
    <2>4. Carries(s, w)
      BY <2>3 DEF Carries
    <2>5. Filtered(w)
      <3>1. "denoise" \in r.refused => "denoise" \in s.refused
        BY <1>3 DEF Stores, Alters
      <3> QED BY <1>1, <2>2, <2>3, <3>1 DEF Filtered
    <2>6. Agreed(w)
      <3>1. w.live = r.live /\ "driver" \in w.refused /\ Untouched(r, w, "driver")
        BY <2>2, <2>3 DEF Untouched
      <3> QED BY <1>1, <1>2, <1>3, <2>4, <2>5, <3>1, ChangeAgrees
    <2>7. w.retry # NoCall
      BY <1>1, <2>2, <2>3, CallAssumption
    <2>8. Effective(r, w)
      BY <2>2, <2>3, EffectiveStill
    <2>9. ToldTruly(r, w)
      BY <2>7, <2>8 DEF ToldTruly, ToldSo
    <2> QED BY <1>1, <2>1, <2>2, <2>3, <2>6, <2>7, <2>9 DEF SettingsInv, Owing, q
  <1>7. CASE "sound" \notin bad /\ ~SaveFails(r, FALSE, bad) /\ "reply" \notin bad
    <2>1. q = Success([s EXCEPT !.live.driver = v], bad)
      BY <1>7 DEF Driver, s
    <2>2. Asked(Enforced(s, "driver", v)) /\ "reply" \notin bad
      <3> DEFINE force == FALSE
      <3>1. Stores(r, s, "driver", v, force, bad)
        BY <1>3
      <3> HIDE DEF force
      <3> QED BY <1>1, <1>2, <1>7, <3>1, PutInForce
    <2> QED BY <2>1, <2>2, OkDoes DEF Enforced
  <1> QED BY <1>4, <1>5, <1>6, <1>7

\* The settings with a value of their own.
Others(r, q) == \A y \in Keys \ Spellings : q.live[y] = r.live[y]

\* The same for a gateway, with its reconnection: under the spelling k is set
\* what it does, or nothing is left.
LEMMA DeviceAgrees ==
    ASSUME NEW r \in Daemons, Agreed(r),
           NEW k \in Spellings, NEW v, NEW bad, NEW s, Stores(r, s, k, v, FALSE, bad),
           NEW q, Carries(s, q), q.refused = s.refused, q.filter = r.filter, Others(r, q),
           \/ Untouched(r, q, k)
           \/ v # NoValue /\ q.live.known /\ (q.live.reconnect <=> v = "true")
           \/ v = NoValue /\ ~q.live.known /\ (k = "device" \/ ~r.live.known)
    PROVE  Agreed(q)
  <1>1. Saves(r) /\ Reported(r) /\ Filed(r) /\ Filtered(r) /\ Listed(r)
    BY DEF Agreed, Reported
  <1>2. /\ k \in Keys /\ "device" \in Keys
        /\ "denoise" \in Keys \ Spellings /\ "autosave" \in Keys \ Spellings
    BY DEF Keys, Spellings
  <1>3. q.live.denoise = r.live.denoise /\ q.live.autosave = r.live.autosave
    BY <1>2 DEF Others
  <1>4. "denoise" \in r.refused => "denoise" \in q.refused
    BY <1>2 DEF Stores, Alters
  <1>5. Filtered(q)
    BY <1>1, <1>3, <1>4 DEF Filtered
  <1>6. \A y \in Keys \ Spellings : y # k => q.live[y] = r.live[y]
    BY DEF Others
  <1>7. q.live.autosave = "true" => r.live.autosave = "true" \/ ~q.dirty
    BY <1>3
  <1>8. /\ Now(q.mem, k) = v
        /\ \A y \in Keys : y # k => Now(q.mem, y) = Now(r.mem, y)
        /\ \A y \in Keys : y # k => (y \in q.refused <=> y \in r.refused)
        /\ q.latest = LatestSet(r, k, v)
    BY DEF Stores, Alters, Carries
  <1>9. CASE v # NoValue /\ q.live.known /\ (q.live.reconnect <=> v = "true")
    <2>1. q.latest = k
      BY <1>8, <1>9 DEF LatestSet
    <2>2. Listed(q)
      BY <1>8, <1>9, <2>1 DEF Listed
    <2> DEFINE force == FALSE
    <2>3. Stores(r, s, k, v, force, bad)
      OBVIOUS
    <2> HIDE DEF force
    <2> QED BY <1>1, <1>2, <1>5, <1>6, <1>7, <2>2, <2>3, ChangeAgrees
  <1>10. CASE v = NoValue /\ ~q.live.known /\ (k = "device" \/ ~r.live.known)
    <2>1. ~("device" \notin q.refused /\ Now(q.mem, "device") # NoValue)
      BY <1>1, <1>2, <1>8, <1>10 DEF Listed
    <2>2. Listed(q)
      BY <1>10, <2>1 DEF Listed
    <2> DEFINE force == FALSE
    <2>3. Stores(r, s, k, v, force, bad)
      OBVIOUS
    <2> HIDE DEF force
    <2> QED BY <1>1, <1>2, <1>5, <1>6, <1>7, <2>2, <2>3, ChangeAgrees
  <1>11. CASE Untouched(r, q, k)
    <2> DEFINE force == FALSE
    <2>3. Stores(r, s, k, v, force, bad)
      OBVIOUS
    <2> HIDE DEF force
    <2> QED BY <1>1, <1>2, <1>5, <1>6, <1>7, <1>11, <2>3, ChangeAgrees
  <1> QED BY <1>9, <1>10, <1>11

LEMMA KnownSet ==
    ASSUME NEW r \in Daemons, NEW on \in BOOLEAN
    PROVE  LET q == [r EXCEPT !.live.known = on] IN
           /\ q \in Daemons /\ Others(r, q)
           /\ q.live.known = on /\ q.live.reconnect = r.live.reconnect
           /\ q.mem = r.mem /\ q.file = r.file /\ q.latest = r.latest
           /\ q.filed = r.filed /\ q.dirty = r.dirty /\ q.torn = r.torn
           /\ q.refused = r.refused /\ q.filter = r.filter /\ q.retry = r.retry
           /\ q.owed = r.owed /\ q.owner = r.owner /\ q.result = r.result
           /\ q.stranger = r.stranger
  <1> DEFINE k == [r.live EXCEPT !.known = on]
             q == [r EXCEPT !.live.known = on]
  <1>1. r.live \in Lives
    BY DEF Daemons
  <1>2. /\ k \in Lives /\ k.known = on /\ k.reconnect = r.live.reconnect
        /\ \A y \in Keys \ Spellings : k[y] = r.live[y]
    BY <1>1 DEF Lives, Keys, Spellings
  <1>3. q = [r EXCEPT !.live = k]
    OBVIOUS
  <1> HIDE DEF k, q
  <1>4. /\ q \in Daemons /\ q.live = k
        /\ q.mem = r.mem /\ q.file = r.file /\ q.latest = r.latest /\ q.filed = r.filed
        /\ q.dirty = r.dirty /\ q.torn = r.torn
        /\ q.refused = r.refused /\ q.filter = r.filter /\ q.retry = r.retry
        /\ q.owed = r.owed /\ q.owner = r.owner /\ q.result = r.result
        /\ q.stranger = r.stranger
    BY <1>2, <1>3 DEF Daemons
  <1>5. Others(r, q)
    BY <1>2, <1>4 DEF Others
  <1> QED BY <1>2, <1>4, <1>5 DEF q

LEMMA ReconnectSet ==
    ASSUME NEW r \in Daemons, NEW on \in BOOLEAN
    PROVE  LET q == [r EXCEPT !.live.reconnect = on] IN
           /\ q \in Daemons /\ Others(r, q)
           /\ q.live.reconnect = on /\ q.live.known = r.live.known
           /\ q.mem = r.mem /\ q.file = r.file /\ q.latest = r.latest
           /\ q.filed = r.filed /\ q.dirty = r.dirty /\ q.torn = r.torn
           /\ q.refused = r.refused /\ q.filter = r.filter /\ q.retry = r.retry
           /\ q.owed = r.owed /\ q.owner = r.owner /\ q.result = r.result
           /\ q.stranger = r.stranger /\ q.changed = r.changed
  <1> DEFINE k == [r.live EXCEPT !.reconnect = on]
             q == [r EXCEPT !.live.reconnect = on]
  <1>1. r.live \in Lives
    BY DEF Daemons
  <1>2. /\ k \in Lives /\ k.reconnect = on /\ k.known = r.live.known
        /\ \A y \in Keys \ Spellings : k[y] = r.live[y]
    BY <1>1 DEF Lives, Keys, Spellings
  <1>3. q = [r EXCEPT !.live = k]
    OBVIOUS
  <1> HIDE DEF k, q
  <1>4. /\ q \in Daemons /\ q.live = k
        /\ q.mem = r.mem /\ q.file = r.file /\ q.latest = r.latest /\ q.filed = r.filed
        /\ q.dirty = r.dirty /\ q.torn = r.torn
        /\ q.refused = r.refused /\ q.filter = r.filter /\ q.retry = r.retry
        /\ q.owed = r.owed /\ q.owner = r.owner /\ q.result = r.result
        /\ q.stranger = r.stranger /\ q.changed = r.changed
    BY <1>2, <1>3 DEF Daemons
  <1>5. Others(r, q)
    BY <1>2, <1>4 DEF Others
  <1> QED BY <1>2, <1>4, <1>5 DEF q

LEMMA KnownDoes ==
    ASSUME NEW r, Asked(r), NEW on \in BOOLEAN, NEW bad, r.retry = <<"known", on>>
    PROVE  LET q == Known(r, on, bad) IN SettingsInv(q) /\ ToldTruly(r, q)
  <1> DEFINE s == IF on THEN Stored(r, "device", Reconnect(r), FALSE, bad)
                  ELSE Forgotten(r, "device", bad)
             q == Known(r, on, bad)
             v == IF on THEN Reconnect(r) ELSE NoValue
             w == [s EXCEPT !.live.known = on]
  <1>1. /\ r \in Daemons /\ r.live \in Lives /\ r.retry \in Calls /\ r.owed = 1
        /\ Agreed(r) /\ Saves(r) /\ Reported(r) /\ Filed(r) /\ Filtered(r)
    BY AskedIs
  <1>2. "device" \in Keys /\ "device" \in Spellings
    BY DEF Keys, Spellings
  <1>9. IsRepeated(r.retry) /\ \A x : x.retry = r.retry => Effective(r, x)
    <2> DEFINE call == <<"known", on>>
    <2>1. call[1] = "known" /\ r.retry = call
      OBVIOUS
    <2> HIDE DEF call
    <2>2. IsRepeated(r.retry)
      BY <2>1 DEF IsRepeated
    <2> QED BY <2>2 DEF Effective, TookEffect, Took
  <1>3. /\ Reconnect(r) \in Values /\ Reconnect(r) # NoValue
        /\ Reconnect(r) = "true" <=> r.live.reconnect
    BY NoValueIs DEF Reconnect, Values
  <1>4. Stores(r, s, "device", v, FALSE, bad)
    <2>1. CASE on
      <3> DEFINE x == Reconnect(r)
      <3>1. x \in Values /\ x # NoValue
        BY <1>3
      <3> HIDE DEF x
      <3>2. Stores(r, Stored(r, "device", x, FALSE, bad), "device",
                   IF x = NoValue THEN Default["device"] ELSE x, FALSE, bad)
        BY <1>1, <1>2, <3>1, StoredDoes, Zenon
      <3>3. Stores(r, Stored(r, "device", x, FALSE, bad), "device", x, FALSE, bad)
        BY <3>1, <3>2
      <3> QED BY <2>1, <3>3 DEF x
    <2>2. CASE ~on
      <3>1. Stores(r, Forgotten(r, "device", bad), "device", NoValue, FALSE, bad)
        BY <1>1, <1>2, ForgottenDoes, Zenon
      <3> QED BY <2>2, <3>1
    <2> QED BY <2>1, <2>2
  <1>5. /\ v # NoValue <=> on
        /\ on => (v = "true" <=> r.live.reconnect)
    BY <1>3
  <1>6. q = IF SaveFails(r, FALSE, bad) THEN Error(s, bad) ELSE Success(w, bad)
    BY DEF Known
  <1> HIDE DEF s, v, q
  <1>7. CASE SaveFails(r, FALSE, bad)
    <2>1. Asked(s) /\ s.live = r.live /\ s.retry = r.retry /\ s.filter = r.filter
      <3> DEFINE force == FALSE
      <3>1. Stores(r, s, "device", v, force, bad) /\ SaveFails(r, force, bad)
        BY <1>4, <1>7
      <3> HIDE DEF force
      <3> QED BY <1>1, <1>2, <3>1, RefusedDoes
    <2>2. Effective(r, s) /\ Excused(r, s)
      BY <1>9, <2>1 DEF Excused
    <2> QED BY <1>6, <1>7, <2>1, <2>2, ErrorDoes DEF q
  <1>8. CASE ~SaveFails(r, FALSE, bad)
    <2>1. /\ s \in Daemons /\ s.live = r.live /\ s.filter = r.filter
          /\ s.retry = r.retry /\ s.owed = r.owed
      BY <1>4 DEF Stores, Alters, Same
    <2>2. /\ w \in Daemons /\ Others(s, w)
          /\ w.live.known = on /\ w.live.reconnect = s.live.reconnect
          /\ w.mem = s.mem /\ w.file = s.file /\ w.latest = s.latest
          /\ w.filed = s.filed /\ w.dirty = s.dirty /\ w.torn = s.torn
          /\ w.refused = s.refused /\ w.filter = s.filter /\ w.retry = s.retry
          /\ w.owed = s.owed
      BY <2>1, KnownSet
    <2> HIDE DEF w
    <2>3. Carries(s, w) /\ Others(r, w)
      BY <2>1, <2>2 DEF Carries, Others
    <2>4. Agreed(w)
      <3> DEFINE k == "device"
      <3>1. \/ v # NoValue /\ w.live.known /\ (w.live.reconnect <=> v = "true")
            \/ v = NoValue /\ ~w.live.known /\ k = "device"
        BY <1>5, <2>1, <2>2
      <3>2. Stores(r, s, k, v, FALSE, bad) /\ k \in Spellings
        BY <1>2, <1>4
      <3> HIDE DEF k
      <3>3. w.refused = s.refused /\ w.filter = r.filter
        BY <2>1, <2>2
      <3> QED BY <1>1, <2>3, <3>1, <3>2, <3>3, DeviceAgrees
    <2>5. Asked(w)
      BY <1>1, <2>1, <2>2, <2>4 DEF Asked
    <2>6. Effective(r, w)
      BY <1>9, <2>1, <2>2
    <2> QED BY <1>6, <1>8, <2>5, <2>6, OkDoes DEF q, w
  <1> QED BY <1>7, <1>8

\* DoSetAutoReconnect, for a call or for a disconnection by the user.
LEMMA ReconnectDoes ==
    ASSUME NEW r \in Daemons, Agreed(r), NEW on \in BOOLEAN, NEW bad
    PROVE  LET q == DoSetAutoReconnect(r, on, bad) IN
           /\ q \in Daemons /\ Agreed(q)
           /\ q.retry = r.retry /\ q.owed = r.owed /\ q.owner = r.owner
           /\ q.stranger = r.stranger /\ q.result = r.result /\ q.changed = r.changed
           /\ q.live.known = r.live.known /\ q.filter = r.filter
           /\ ReconnectFails(r, on, bad) => q.live = r.live
           /\ ~ReconnectFails(r, on, bad) => q.live.reconnect = on
           /\ \A k \in Keys \ Spellings : q.live[k] = r.live[k]
  <1> DEFINE stores == r.live.known /\ on # r.live.reconnect
             x == IF on THEN "true" ELSE "false"
             s == IF stores THEN Stored(r, "device", x, FALSE, bad) ELSE r
             q == DoSetAutoReconnect(r, on, bad)
             w == [s EXCEPT !.live.reconnect = on]
  <1>1. r.live \in Lives /\ Saves(r) /\ Reported(r) /\ Filed(r) /\ Filtered(r)
    BY DEF Agreed, Daemons
  <1>2. "device" \in Keys /\ "device" \in Spellings
    BY DEF Keys, Spellings
  <1>3. x \in Values /\ x # NoValue /\ (x = "true" <=> on)
    BY NoValueIs DEF Values
  <1>4. q = IF ReconnectFails(r, on, bad) THEN s ELSE w
    BY DEF DoSetAutoReconnect
  <1>5. ReconnectFails(r, on, bad) <=> stores /\ SaveFails(r, FALSE, bad)
    BY DEF ReconnectFails
  <1> HIDE DEF x, q
  <1>6. CASE stores
    <2>1. Stores(r, s, "device", x, FALSE, bad)
      <3>1. Stores(r, Stored(r, "device", x, FALSE, bad), "device",
                   IF x = NoValue THEN Default["device"] ELSE x, FALSE, bad)
        BY <1>1, <1>2, <1>3, StoredDoes, Zenon
      <3> QED BY <1>3, <1>6, <3>1
    <2> HIDE DEF s
    <2>2. /\ s \in Daemons /\ s.live = r.live /\ s.filter = r.filter
          /\ s.retry = r.retry /\ s.owed = r.owed /\ s.owner = r.owner
          /\ s.stranger = r.stranger /\ s.result = r.result /\ s.changed = r.changed
      BY <2>1 DEF Stores, Alters, Same
    <2>3. CASE SaveFails(r, FALSE, bad)
      <3> DEFINE k == "device"
      <3>1. Untouched(r, s, k)
        BY <2>1, <2>2, <2>3 DEF Stores, Alters, Untouched
      <3>2. Carries(s, s) /\ Others(r, s)
        BY <2>2 DEF Carries, Others
      <3>4. Stores(r, s, k, x, FALSE, bad) /\ k \in Spellings
        BY <1>2, <2>1
      <3> HIDE DEF k
      <3>3. Agreed(s)
        BY <2>2, <3>1, <3>2, <3>4, DeviceAgrees
      <3> QED BY <1>4, <1>5, <1>6, <2>2, <2>3, <3>2, <3>3 DEF q, Others
    <2>4. CASE ~SaveFails(r, FALSE, bad)
      <3>1. /\ w \in Daemons /\ Others(s, w)
            /\ w.live.known = s.live.known /\ w.live.reconnect = on
            /\ w.mem = s.mem /\ w.file = s.file /\ w.latest = s.latest
            /\ w.filed = s.filed /\ w.dirty = s.dirty /\ w.torn = s.torn
            /\ w.refused = s.refused /\ w.filter = s.filter /\ w.retry = s.retry
            /\ w.owed = s.owed /\ w.owner = s.owner /\ w.result = s.result
            /\ w.stranger = s.stranger /\ w.changed = s.changed
        BY <2>2, ReconnectSet
      <3> HIDE DEF w
      <3>2. Carries(s, w) /\ Others(r, w)
        BY <2>2, <3>1 DEF Carries, Others
      <3>3. x # NoValue /\ w.live.known /\ (w.live.reconnect <=> x = "true")
        BY <1>3, <1>6, <2>2, <3>1
      <3> DEFINE k == "device"
      <3>6. Stores(r, s, k, x, FALSE, bad) /\ k \in Spellings
        BY <1>2, <2>1
      <3> HIDE DEF k
      <3>7. w.refused = s.refused /\ w.filter = r.filter
        BY <2>2, <3>1
      <3>4. Agreed(w)
        BY <3>2, <3>3, <3>6, <3>7, DeviceAgrees
      <3>5. q = w
        BY <1>4, <1>5, <2>4
      <3> QED BY <1>5, <2>2, <2>4, <3>1, <3>2, <3>4, <3>5 DEF q, Others
    <2> QED BY <2>3, <2>4
  <1>7. CASE ~stores
    <2>1. s = r
      BY <1>7
    <2>2. q = w /\ ~ReconnectFails(r, on, bad)
      BY <1>4, <1>5, <1>7
    <2>9. w = [r EXCEPT !.live.reconnect = on]
      BY <2>1
    <2> HIDE DEF w, s
    <2>3. /\ w \in Daemons /\ Others(r, w)
          /\ w.live.known = r.live.known /\ w.live.reconnect = on
          /\ w.mem = r.mem /\ w.file = r.file /\ w.latest = r.latest
          /\ w.filed = r.filed /\ w.dirty = r.dirty /\ w.torn = r.torn
          /\ w.refused = r.refused /\ w.filter = r.filter /\ w.retry = r.retry
          /\ w.owed = r.owed /\ w.owner = r.owner /\ w.result = r.result
          /\ w.stranger = r.stranger /\ w.changed = r.changed
      BY <2>9, ReconnectSet
    <2>4. w.live.known => w.live.reconnect = r.live.reconnect
      BY <1>7, <2>3
    <2>5. "autosave" \in Keys \ Spellings /\ "denoise" \in Keys \ Spellings
      BY DEF Keys, Spellings
    <2>6. w.live.autosave = r.live.autosave /\ w.live.denoise = r.live.denoise
      BY <2>3, <2>5 DEF Others
    <2>7. Reported(w)
      <3>1. Valued(w)
        BY <1>1, <2>3 DEF Reported, Valued, Others
      <3>2. Listed(w)
        BY <1>1, <2>3, <2>4 DEF Reported, Listed
      <3> QED BY <3>1, <3>2 DEF Reported
    <2>8. Saves(w) /\ Filed(w) /\ Filtered(w)
      BY <1>1, <2>3, <2>6 DEF Saves, Filed, Filtered
    <2> QED BY <2>2, <2>3, <2>7, <2>8 DEF Agreed, q, Others
  <1> QED BY <1>6, <1>7

\* SetAutoReconnect: a call that is owed its answer, or one for a gateway neither
\* known nor claimed, which may have had it.
AskedBack(r, on) ==
    /\ r \in Daemons /\ Agreed(r) /\ r.retry = <<"reconnect", on>>
    /\ r.owed = 1 \/ (on /\ ~r.owner /\ ~r.live.known)

LEMMA UnclaimedDoes ==
    ASSUME NEW r, NEW on \in BOOLEAN, AskedBack(r, on),
           on, ~r.owner, ~r.live.known, NEW bad
    PROVE  LET q == Unclaimed(r, bad) IN SettingsInv(q) /\ ToldTruly(r, q)
  <1> DEFINE x == [r EXCEPT !.stranger = TRUE]
             s == Error(x, bad)
             q == Unclaimed(r, bad)
             owed == r.owed - 1
             result == IF r.owed = 1 THEN "error" ELSE r.result
  <1>1. r \in Daemons /\ Agreed(r) /\ r.retry = StrangersCall /\ r.owed \in Int
    BY DEF AskedBack, Daemons, StrangersCall
  <1>2. r.retry \in Calls /\ r.retry # NoCall
    <2>1. StrangersCall \in Calls
      BY DEF Calls, Switches, StrangersCall
    <2> QED BY <1>1, <2>1, CallAssumption
  <1>5. IsRepeated(r.retry) /\ \A u : u.retry = r.retry => Effective(r, u)
    BY <1>1 DEF IsRepeated, Effective, TookEffect, Took, StrangersCall
  <1>3. CASE "reply" \in bad
    <2>1. q = r
      BY <1>3 DEF Unclaimed
    <2> QED BY <1>1, <1>2, <1>5, <2>1 DEF SettingsInv, Owing, ToldTruly, ToldSo
  <1>4. CASE "reply" \notin bad
    <2>1. /\ x \in Daemons /\ x.stranger /\ x.live = r.live /\ x.owner = r.owner
          /\ x.retry = r.retry /\ x.owed = r.owed /\ x.result = r.result
          /\ x.filter = r.filter /\ x.mem = r.mem
          /\ x.file = r.file /\ x.latest = r.latest /\ x.filed = r.filed
          /\ x.dirty = r.dirty /\ x.torn = r.torn /\ x.refused = r.refused
      BY <1>1 DEF Daemons
    <2>2. owed \in Int /\ result \in {"ok", "error"}
      BY <1>1 DEF Daemons
    <2>3. s = [x EXCEPT !.retry = NoCall, !.owed = owed, !.result = result]
      BY <1>4, <2>1 DEF Error, Answered
    <2> DEFINE p == [s EXCEPT !.retry = r.retry]
               u == Success(s, bad)
    <2>4. q = IF "again" \in bad THEN p ELSE u
      BY <1>4 DEF Unclaimed
    <2> HIDE DEF x, s, owed, result, q
    <2>5. s \in Daemons
      <3> DEFINE y == [x EXCEPT !.owed = owed]
      <3>1. y \in Daemons
        BY <2>1, <2>2 DEF Daemons
      <3>2. s = [y EXCEPT !.retry = NoCall, !.result = result]
        BY <2>1, <2>3 DEF Daemons
      <3> HIDE DEF y
      <3> QED BY <2>2, <3>1, <3>2 DEF Daemons
    <2>6. /\ s.live = r.live /\ s.owner = r.owner /\ s.stranger /\ s.retry = NoCall
          /\ s.filter = r.filter /\ s.mem = r.mem
          /\ s.file = r.file /\ s.latest = r.latest /\ s.filed = r.filed
          /\ s.dirty = r.dirty /\ s.torn = r.torn /\ s.refused = r.refused
      BY <2>1, <2>3 DEF Daemons
    <2>7. CASE "again" \in bad
      <3>1. /\ p \in Daemons /\ p.live = r.live /\ p.owner = r.owner /\ p.retry = r.retry
            /\ p.filter = r.filter /\ p.mem = r.mem
            /\ p.file = r.file /\ p.latest = r.latest /\ p.filed = r.filed
            /\ p.dirty = r.dirty /\ p.torn = r.torn /\ p.refused = r.refused
        BY <1>2, <2>5, <2>6 DEF Daemons
      <3> HIDE DEF p
      <3>2. Agreed(p)
        BY <1>1, <3>1, AgreedStays
      <3>3. SettingsInv(p) /\ ToldTruly(r, p)
        BY <1>1, <1>2, <1>5, <3>1, <3>2 DEF SettingsInv, Owing, ToldTruly, ToldSo
      <3> QED BY <2>4, <2>7, <3>3 DEF q
    <2>8. CASE "again" \notin bad
      <3> DEFINE left == s.owed - 1
                 told == IF s.owed = 1 THEN "ok" ELSE s.result
      <3>1. left \in Int /\ told \in {"ok", "error"}
        BY <2>5 DEF Daemons
      <3>2. u = [s EXCEPT !.retry = NoCall, !.owed = left, !.result = told]
        BY <1>4 DEF Success, Answered
      <3> HIDE DEF left, told, u
      <3>3. u \in Daemons
        <4> DEFINE y == [s EXCEPT !.owed = left]
        <4>1. y \in Daemons
          BY <2>5, <3>1 DEF Daemons
        <4>2. u = [y EXCEPT !.retry = NoCall, !.result = told]
          BY <2>5, <3>2 DEF Daemons
        <4> HIDE DEF y
        <4> QED BY <3>1, <4>1, <4>2 DEF Daemons
      <3>4. /\ u.live = r.live /\ u.stranger /\ u.retry = NoCall
            /\ u.filter = r.filter /\ u.mem = r.mem
            /\ u.file = r.file /\ u.latest = r.latest /\ u.filed = r.filed
            /\ u.dirty = r.dirty /\ u.torn = r.torn /\ u.refused = r.refused
        BY <2>5, <2>6, <3>2 DEF Daemons
      <3>5. Agreed(u)
        BY <1>1, <3>4, AgreedStays
      <3>6. SettingsInv(u) /\ ToldTruly(r, u)
        BY <1>5, <3>3, <3>4, <3>5 DEF SettingsInv, Owing, ToldTruly, ToldSo, Excused
      <3> QED BY <2>4, <2>8, <3>6 DEF q
    <2> QED BY <2>7, <2>8
  <1> QED BY <1>3, <1>4

LEMMA AutoReconnectDoes ==
    ASSUME NEW r, NEW on \in BOOLEAN, AskedBack(r, on), NEW bad, Holds(r)
    PROVE  LET q == AutoReconnect(r, on, bad) IN SettingsInv(q) /\ ToldTruly(r, q)
  <1> DEFINE q == AutoReconnect(r, on, bad)
             s == DoSetAutoReconnect(r, on, bad)
  <1>1. CASE on /\ ~r.owner /\ ~r.live.known
    <2>1. q = Unclaimed(r, bad)
      BY <1>1 DEF AutoReconnect
    <2>2. SettingsInv(Unclaimed(r, bad)) /\ ToldTruly(r, Unclaimed(r, bad))
      BY <1>1, UnclaimedDoes
    <2> QED BY <2>1, <2>2
  <1>2. CASE ~(on /\ ~r.owner /\ ~r.live.known)
    <2>1. q = IF ReconnectFails(r, on, bad) THEN Error(s, bad) ELSE Success(s, bad)
      BY <1>2 DEF AutoReconnect
    <2>2. r \in Daemons /\ Agreed(r) /\ r.owed = 1 /\ r.retry = <<"reconnect", on>>
      BY <1>2 DEF AskedBack
    <2>3. <<"reconnect", on>> \in Calls
      BY DEF Calls, Switches
    <2>4. /\ s \in Daemons /\ Agreed(s) /\ s.retry = r.retry /\ s.owed = r.owed
          /\ s.filter = r.filter
          /\ ReconnectFails(r, on, bad) => s.live = r.live
          /\ ~ReconnectFails(r, on, bad) => s.live.reconnect = on
      BY <2>2, ReconnectDoes
    <2> HIDE DEF s, q
    <2>5. Asked(s)
      BY <2>2, <2>3, <2>4 DEF Asked
    <2>6. CASE ReconnectFails(r, on, bad)
      <3>1. s.live = r.live
        BY <2>4, <2>6
      <3>3. Effective(r, s)
        BY <2>4, <3>1, EffectiveStill
      <3>4. r.changed => IsRepeated(r.retry)
        <4> SUFFICES ASSUME r.changed PROVE IsRepeated(r.retry)
          OBVIOUS
        <4>1. on # r.live.reconnect
          BY <2>6 DEF ReconnectFails
        <4>2. CASE on
          BY <2>2, <4>2 DEF IsRepeated
        <4>3. CASE ~on
          <5>1. r.retry[1] = "reconnect" /\ r.live.reconnect
            BY <2>2, <4>1, <4>3 DEF Daemons, Lives
          <5> QED BY <5>1 DEF Holds, TookEffect, Took
        <4> QED BY <4>2, <4>3
      <3>5. Excused(r, s)
        BY <2>4, <3>1, <3>4 DEF Excused
      <3>2. SettingsInv(Error(s, bad)) /\ ToldTruly(r, Error(s, bad))
        BY <2>5, <3>3, <3>5, ErrorDoes
      <3> QED BY <2>1, <2>6, <3>2 DEF q
    <2>7. CASE ~ReconnectFails(r, on, bad)
      <3>1. s.live.reconnect = on /\ s.retry = <<"reconnect", on>>
        BY <2>2, <2>4, <2>7
      <3>2. Effective(r, s)
        <4>1. CASE on
          BY <3>1, <4>1 DEF Effective, TookEffect, Took, IsRepeated
        <4>2. CASE ~on
          <5>1. on = FALSE
            BY <4>2
          <5> QED BY <3>1, <5>1 DEF Effective, TookEffect, Took
        <4> QED BY <4>1, <4>2
      <3>3. SettingsInv(Success(s, bad)) /\ ToldTruly(r, Success(s, bad))
        BY <2>5, <3>2, OkDoes
      <3> QED BY <2>1, <2>7, <3>3 DEF q
    <2> QED BY <2>6, <2>7
  <1> QED BY <1>1, <1>2

\* A change and another of the same setting are one change.
LEMMA AltersTwice ==
    ASSUME NEW r, NEW s, NEW u, NEW k, NEW v, NEW w, NEW bad, NEW worse,
           Alters(r, s, k, v, FALSE, bad), Alters(s, u, k, w, FALSE, worse)
    PROVE  Alters(r, u, k, w, FALSE, worse)
  <1>1. WritesNow(r, FALSE) <=> WritesNow(s, FALSE)
    BY DEF Alters, Same, WritesNow
  <1>2. SaveFails(r, FALSE, worse) <=> SaveFails(s, FALSE, worse)
    BY <1>1, Zenon DEF SaveFails
  <1>3. u.refused = IF SaveFails(r, FALSE, worse) THEN r.refused \cup {k} ELSE r.refused \ {k}
    <2>1. s.refused = r.refused \cup {k} \/ s.refused = r.refused \ {k}
      BY DEF Alters
    <2>2. u.refused = IF SaveFails(s, FALSE, worse) THEN s.refused \cup {k} ELSE s.refused \ {k}
      BY DEF Alters
    <2> QED BY <1>2, <2>1, <2>2
  <1>4. \A y \in Keys : y # k => Now(u.mem, y) = Now(r.mem, y)
    BY DEF Alters
  <1>5. u \in Daemons /\ Same(r, u) /\ Now(u.mem, k) = w /\ (Filed(r) => Filed(u))
    BY DEF Alters, Same
  <1>6. WritesNow(r, FALSE) /\ ~r.dirty => ~u.dirty
    BY <1>1 DEF Alters
  <1>7. WritesNow(r, FALSE) /\ ~CannotWrite(worse) => ~u.dirty
    BY <1>1 DEF Alters
  <1> QED BY <1>3, <1>4, <1>5, <1>6, <1>7 DEF Alters

\* AddDevice.
LEMMA OwnerSet ==
    ASSUME NEW r \in Daemons, NEW on \in BOOLEAN
    PROVE  LET q == [r EXCEPT !.owner = on] IN
           /\ q \in Daemons /\ q.live = r.live
           /\ q.mem = r.mem /\ q.file = r.file /\ q.latest = r.latest
           /\ q.filed = r.filed /\ q.dirty = r.dirty /\ q.torn = r.torn
           /\ q.refused = r.refused /\ q.filter = r.filter /\ q.retry = r.retry
           /\ q.owed = r.owed /\ q.owner = on
  BY DEF Daemons

LEMMA AddedDoes ==
    ASSUME NEW r, Asked(r), NEW addr \in Spellings, NEW setknown \in BOOLEAN, NEW bad,
           Holds(r), r.retry = <<"add", addr, setknown>>
    PROVE  LET q == Added(r, addr, setknown, bad) IN SettingsInv(q) /\ ToldTruly(r, q)
  <1> DEFINE stores == setknown /\ ~r.live.known
             x == Reconnect(r)
             s == IF stores THEN Stored(r, addr, x, FALSE, bad) ELSE r
             worse == IF "again" \in bad THEN {"write"} ELSE {}
             undo == IF stores THEN Forgotten(s, addr, worse) ELSE s
             claimed == s.owner \/ "reply" \notin bad
             o == [s EXCEPT !.owner = claimed]
             known == s.live.known \/ setknown
             y == [s EXCEPT !.owner = TRUE]
             w == [y EXCEPT !.live.known = known]
             q == Added(r, addr, setknown, bad)
             fails == stores /\ SaveFails(r, FALSE, bad)
  <1>1. /\ r \in Daemons /\ r.live \in Lives /\ r.retry \in Calls /\ r.owed = 1
        /\ Agreed(r) /\ Saves(r) /\ Reported(r) /\ Filed(r) /\ Filtered(r)
    BY AskedIs
  <1>2. addr \in Keys
    BY DEF Keys
  <1>3. x \in Values /\ x # NoValue /\ (x = "true" <=> r.live.reconnect)
    BY NoValueIs DEF Reconnect, Values
  <1>4. q = IF fails THEN Error([s EXCEPT !.owner = @ \/ "reply" \notin bad], bad)
            ELSE IF "reply" \in bad THEN undo
            ELSE Success([s EXCEPT !.owner = TRUE, !.live.known = @ \/ setknown], bad)
    BY DEF Added
  <1> HIDE DEF x, q, worse
  <1>5. stores => Stores(r, s, addr, x, FALSE, bad)
    <2> SUFFICES ASSUME stores PROVE Stores(r, s, addr, x, FALSE, bad)
      OBVIOUS
    <2>1. Stores(r, Stored(r, addr, x, FALSE, bad), addr,
                 IF x = NoValue THEN Default[addr] ELSE x, FALSE, bad)
      BY <1>1, <1>2, <1>3, StoredDoes, Zenon
    <2> QED BY <1>3, <2>1
  <1>6. ~stores => s = r
    OBVIOUS
  <1>7. stores => undo = Forgotten(s, addr, worse)
    OBVIOUS
  <1>8. ~stores => undo = r
    OBVIOUS
  <1> HIDE DEF s, undo
  <1>9. /\ s \in Daemons /\ s.live = r.live /\ s.filter = r.filter
        /\ s.retry = r.retry /\ s.owed = r.owed
    BY <1>1, <1>5, <1>6 DEF Stores, Alters, Same
  <1>10. s.owner \in BOOLEAN /\ s.live.known \in BOOLEAN /\ s.live \in Lives
    BY <1>1, <1>9 DEF Daemons, Lives
  <1>14. ~r.changed
    <2> DEFINE call == <<"add", addr, setknown>>
    <2>1. call[1] = "add" /\ r.retry = call
      OBVIOUS
    <2> HIDE DEF call
    <2> QED BY <2>1, NothingYet
  <1>11. CASE fails
    <2>1. Asked(s) /\ s.live = r.live /\ addr \in s.refused
      <3> DEFINE force == FALSE
      <3>1. Stores(r, s, addr, x, force, bad) /\ SaveFails(r, force, bad)
        BY <1>5, <1>11
      <3> HIDE DEF force
      <3> QED BY <1>1, <1>2, <3>1, RefusedDoes
    <2>2. [s EXCEPT !.owner = @ \/ "reply" \notin bad] = o
      OBVIOUS
    <2>3. claimed \in BOOLEAN
      BY <1>10
    <2> HIDE DEF claimed
    <2>4. /\ o \in Daemons /\ o.live = s.live /\ o.mem = s.mem
          /\ o.file = s.file /\ o.latest = s.latest /\ o.filed = s.filed
          /\ o.dirty = s.dirty /\ o.torn = s.torn /\ o.refused = s.refused
          /\ o.filter = s.filter /\ o.retry = s.retry /\ o.owed = s.owed
      BY <1>9, <2>3, OwnerSet
    <2> DEFINE e == Error(o, bad)
    <2>5. q = e
      BY <1>4, <1>11, <2>2
    <2> HIDE DEF o
    <2>6. Agreed(o)
      BY <2>1, <2>4, AgreedStays DEF Asked
    <2>7. Asked(o)
      BY <2>1, <2>4, <2>6 DEF Asked
    <2>9. Effective(r, o) /\ Excused(r, o)
      BY <1>9, <1>14, <2>4, EffectiveStill DEF Excused
    <2>8. SettingsInv(e) /\ ToldTruly(r, e)
      BY <2>7, <2>9, ErrorDoes
    <2> QED BY <2>5, <2>8 DEF q
  <1>12. CASE ~fails /\ "reply" \in bad
    <2>1. q = undo
      BY <1>4, <1>12
    <2>2. CASE ~stores
      <3>1. q = r
        BY <1>8, <2>1, <2>2
      <3>2. r.retry # NoCall
        BY <1>1, CallAssumption
      <3>3. ToldTruly(r, r)
        BY <3>2, EffectiveStill DEF ToldTruly, ToldSo
      <3> QED BY <1>1, <3>1, <3>2, <3>3 DEF SettingsInv, Owing, q
    <2>3. CASE stores
      <3>1. Stores(s, undo, addr, NoValue, FALSE, worse)
        BY <1>7, <1>9, <2>3, ForgottenDoes, Zenon
      <3>2. Alters(r, undo, addr, NoValue, FALSE, worse)
        BY <1>5, <2>3, <3>1, AltersTwice DEF Stores
      <3>3. /\ undo \in Daemons /\ undo.live = r.live /\ undo.filter = r.filter
            /\ undo.retry = r.retry /\ undo.owed = r.owed
        BY <3>2 DEF Alters, Same
      <3>4. Carries(undo, undo)
        BY <3>3 DEF Carries
      <3>5. Listed(undo)
        <4>1. ~undo.live.known
          BY <2>3, <3>3
        <4>2. ASSUME "device" \notin undo.refused, Now(undo.mem, "device") # NoValue
              PROVE  FALSE
          <5>1. "device" \in Keys /\ addr # "device"
            BY <3>2, <4>2 DEF Alters, Keys, Spellings
          <5>2. "device" \notin r.refused /\ Now(r.mem, "device") # NoValue
            BY <3>2, <4>2, <5>1 DEF Alters
          <5> QED BY <1>1, <2>3, <5>2 DEF Reported, Listed
        <4> QED BY <4>1, <4>2 DEF Listed
      <3>6. Filtered(undo)
        <4>1. "denoise" \in Keys /\ addr # "denoise"
          BY DEF Keys, Spellings
        <4> QED BY <1>1, <3>2, <3>3, <4>1 DEF Alters, Filtered
      <3>7. Agreed(undo)
        BY <1>1, <1>2, <3>2, <3>3, <3>4, <3>5, <3>6, AltersAgrees
      <3>8. undo.retry # NoCall
        BY <1>1, <3>3, CallAssumption
      <3>9. ToldTruly(r, undo)
        BY <3>3, <3>8, EffectiveStill DEF ToldTruly, ToldSo
      <3> QED BY <1>1, <2>1, <3>3, <3>7, <3>8, <3>9 DEF SettingsInv, Owing, q
    <2> QED BY <2>2, <2>3
  <1>13. CASE ~fails /\ "reply" \notin bad
    <2>1. [s EXCEPT !.owner = TRUE, !.live.known = @ \/ setknown] = w
      BY <1>9 DEF Daemons
    <2>2. known \in BOOLEAN
      BY <1>10
    <2> DEFINE yes == TRUE
    <2>3. y = [s EXCEPT !.owner = yes] /\ yes \in BOOLEAN
      OBVIOUS
    <2> HIDE DEF known, y, yes
    <2>4. /\ y \in Daemons /\ y.live = s.live /\ y.mem = s.mem
          /\ y.file = s.file /\ y.latest = s.latest /\ y.filed = s.filed
          /\ y.dirty = s.dirty /\ y.torn = s.torn /\ y.refused = s.refused
          /\ y.filter = s.filter /\ y.retry = s.retry /\ y.owed = s.owed
      BY <1>9, <2>3, OwnerSet
    <2>5. /\ w \in Daemons /\ Others(y, w)
          /\ w.live.known = known /\ w.live.reconnect = y.live.reconnect
          /\ w.mem = y.mem /\ w.file = y.file /\ w.latest = y.latest /\ w.filed = y.filed
          /\ w.dirty = y.dirty /\ w.torn = y.torn /\ w.refused = y.refused
          /\ w.filter = y.filter /\ w.retry = y.retry /\ w.owed = y.owed
      BY <2>2, <2>4, KnownSet
    <2> DEFINE e == Success(w, bad)
    <2>6. q = e
      BY <1>4, <1>13, <2>1
    <2> HIDE DEF w
    <2>7. Others(r, w)
      BY <1>9, <2>4, <2>5 DEF Others
    <2>8. Agreed(w)
      <3>1. CASE stores
        <4>1. x # NoValue /\ w.live.known /\ (w.live.reconnect <=> x = "true")
          BY <1>3, <1>9, <2>4, <2>5, <3>1 DEF known
        <4>2. Carries(s, w)
          BY <2>4, <2>5 DEF Carries
        <4>3. w.refused = s.refused /\ w.filter = r.filter
          BY <1>9, <2>4, <2>5
        <4> QED BY <1>1, <1>5, <2>7, <3>1, <4>1, <4>2, <4>3, DeviceAgrees
      <3>2. CASE ~stores
        <4>1. s = r
          BY <1>6, <3>2
        <4>2. (w.live.known <=> r.live.known) /\ w.live.reconnect = r.live.reconnect
          BY <2>4, <2>5, <3>2, <4>1 DEF known
        <4>3. /\ w.mem = r.mem /\ w.file = r.file /\ w.latest = r.latest /\ w.filed = r.filed
              /\ w.dirty = r.dirty /\ w.torn = r.torn
              /\ w.refused = r.refused /\ w.filter = r.filter
          BY <2>4, <2>5, <4>1
        <4>4. "autosave" \in Keys \ Spellings /\ "denoise" \in Keys \ Spellings
          BY DEF Keys, Spellings
        <4>5. w.live.autosave = r.live.autosave /\ w.live.denoise = r.live.denoise
          BY <2>7, <4>4 DEF Others
        <4>6. Valued(w)
          BY <1>1, <2>7, <4>3 DEF Reported, Valued, Others
        <4>8. Listed(w)
          BY <1>1, <4>2, <4>3 DEF Reported, Listed
        <4>7. Saves(w) /\ Filed(w) /\ Filtered(w)
          BY <1>1, <4>3, <4>5 DEF Saves, Filed, Filtered
        <4> QED BY <4>6, <4>7, <4>8 DEF Agreed, Reported
      <3> QED BY <3>1, <3>2
    <2>9. Asked(w)
      BY <1>1, <1>9, <2>4, <2>5, <2>8 DEF Asked
    <2>10. SettingsInv(e) /\ ToldTruly(r, e)
      BY <1>13, <2>9, OkDoes
    <2> QED BY <2>6, <2>10 DEF q
  <1> QED BY <1>11, <1>12, <1>13

LEMMA RemovedDoes ==
    ASSUME NEW r, Asked(r), NEW bad, Holds(r)
    PROVE  LET q == Success([r EXCEPT !.owner = @ /\ "reply" \in bad], bad)
           IN SettingsInv(q) /\ ToldTruly(r, q)
  <1> DEFINE on == r.owner /\ "reply" \in bad
             x == [r EXCEPT !.owner = on]
             q == Success(x, bad)
  <1>1. r \in Daemons /\ Agreed(r) /\ on \in BOOLEAN
    BY DEF Asked, Daemons
  <1> HIDE DEF on
  <1>2. /\ x \in Daemons /\ x.live = r.live /\ x.mem = r.mem
        /\ x.file = r.file /\ x.latest = r.latest /\ x.filed = r.filed
        /\ x.dirty = r.dirty /\ x.torn = r.torn /\ x.refused = r.refused
        /\ x.filter = r.filter /\ x.retry = r.retry /\ x.owed = r.owed
    BY <1>1, OwnerSet
  <1> HIDE DEF x
  <1>3. Agreed(x)
    BY <1>1, <1>2, AgreedStays
  <1>4. Asked(x)
    BY <1>2, <1>3 DEF Asked
  <1>6. Effective(r, x)
    BY <1>2, EffectiveStill
  <1>5. SettingsInv(q) /\ ToldTruly(r, q)
    BY <1>4, <1>6, OkDoes
  <1> QED BY <1>5 DEF x, on

LEMMA SavedDoes ==
    ASSUME NEW r, Asked(r), NEW bad, Holds(r), r.retry = <<"save">>
    PROVE  LET s == SaveConfig(r, TRUE, bad)
               q == IF CannotWrite(bad) THEN Error(s, bad) ELSE Success(s, bad)
           IN SettingsInv(q) /\ ToldTruly(r, q)
  <1> DEFINE force == TRUE
             s == SaveConfig(r, force, bad)
             q == IF CannotWrite(bad) THEN Error(s, bad) ELSE Success(s, bad)
  <1>1. /\ r \in Daemons /\ r.live \in Lives /\ r.retry \in Calls /\ r.owed = 1
        /\ Agreed(r) /\ Saves(r) /\ Reported(r) /\ Filed(r) /\ Filtered(r)
    BY AskedIs
  <1>2. WritesNow(r, force) /\ force \in BOOLEAN
    BY DEF WritesNow
  <1> HIDE DEF force
  <1>3. /\ s \in Daemons
        /\ Same(r, s) /\ s.mem = r.mem /\ s.refused = r.refused /\ s.latest = r.latest
        /\ CannotWrite(bad) =>
              /\ s.dirty = r.dirty
              /\ s.torn \/ (s.torn = r.torn /\ s.file = r.file /\ s.filed = r.filed)
        /\ ~CannotWrite(bad) =>
              /\ ~s.dirty /\ s.filed = s.latest
              /\ \A k \in Keys : Now(Loaded(s.file), k) = Now(s.mem, k)
    BY <1>1, <1>2, SaveConfigDoes
  <1> HIDE DEF s
  <1>4. s.live = r.live /\ s.filter = r.filter /\ s.retry = r.retry /\ s.owed = r.owed
    BY <1>3 DEF Same
  <1>5. Saves(s) /\ Filtered(s)
    BY <1>1, <1>3, <1>4 DEF Saves, Filtered
  <1>6. Reported(s)
    BY <1>1, <1>3, <1>4 DEF Reported, Valued, Listed
  <1>7. Filed(s)
    BY <1>1, <1>3 DEF Filed
  <1>8. Asked(s)
    BY <1>1, <1>3, <1>4, <1>5, <1>6, <1>7 DEF Asked, Agreed
  <1>12. ~r.changed
    <2> DEFINE call == <<"save">>
    <2>1. call[1] = "save" /\ r.retry = call
      OBVIOUS
    <2> HIDE DEF call
    <2> QED BY <2>1, NothingYet
  <1>13. Effective(r, s) /\ Excused(r, s)
    BY <1>4, <1>12, EffectiveStill DEF Excused
  <1>9. SettingsInv(Error(s, bad)) /\ ToldTruly(r, Error(s, bad))
    BY <1>8, <1>13, ErrorDoes
  <1>10. SettingsInv(Success(s, bad)) /\ ToldTruly(r, Success(s, bad))
    BY <1>8, <1>13, OkDoes
  <1>11. SettingsInv(q) /\ ToldTruly(r, q)
    BY <1>9, <1>10
  <1> QED BY <1>11 DEF s, force

\* A daemon that has just been started.
LEMMA DaemonDoes ==
    ASSUME NEW f \in Files, NEW l \in Spellings
    PROVE  Daemon(f, l) \in Daemons /\ Agreed(Daemon(f, l))
  <1> DEFINE m == Loaded(f)
             now == InForce(m)
             last == LastOf(now, l)
             live == Live(now, l)
             q == Daemon(f, l)
  <1>1. m \in Configurations
    BY LoadedDoes
  <1> HIDE DEF m
  <1>2. \A k \in Keys : now[k] = Now(m, k) /\ Now(m, k) \in Values
    BY <1>1, NowIs DEF Now
  <1> HIDE DEF now
  <1>3. /\ "autosave" \in Keys /\ "acceptunknown" \in Keys /\ "scoenabled" \in Keys
        /\ "denoise" \in Keys /\ "driver" \in Keys
        /\ "device" \in Keys /\ "alias" \in Keys
    BY DEF Keys, Spellings
  <1>4. /\ now.autosave \in Values /\ now.acceptunknown \in Values /\ now.scoenabled \in Values
        /\ now.denoise \in Values /\ now.driver \in Values
    BY <1>2, <1>3
  <1>11. last \in Spellings /\ (IsListed(now) => now[last] # NoValue)
    BY DEF LastOf, IsListed, Spellings
  <1>5. /\ live \in Lives
        /\ live.autosave = now.autosave /\ live.acceptunknown = now.acceptunknown
        /\ live.scoenabled = now.scoenabled /\ live.denoise = now.denoise
        /\ live.driver = now.driver
        /\ live.known <=> IsListed(now)
        /\ live.reconnect <=> now[last] = "true"
    BY <1>4 DEF Lives, Live, IsListed
  <1> HIDE DEF last
  <1>6. /\ q.file = f /\ q.mem = m /\ q.live = live /\ q.filter = now.denoise
        /\ q.latest = last /\ q.filed = last
        /\ ~q.dirty /\ ~q.torn /\ q.refused = {}
    BY DEF Daemon, m, now, last
  <1>7. q \in Daemons
    <2> HIDE DEF live
    <2>1. q = [file |-> f, mem |-> m, latest |-> last, filed |-> last, live |-> live,
               filter |-> now.denoise, owner |-> FALSE,
               dirty |-> FALSE, torn |-> FALSE, refused |-> {}, retry |-> NoCall,
               changed |-> FALSE, owed |-> 0,
               result |-> "ok", stranger |-> FALSE, failures |-> 0]
      BY DEF Daemon, m, now, live, last
    <2> HIDE DEF q
    <2> QED BY <1>1, <1>4, <1>5, <1>11, <2>1 DEF Daemons
  <1> HIDE DEF live, q
  <1>8. Saves(q) /\ Filtered(q)
    BY <1>5, <1>6 DEF Saves, Filtered
  <1>9. Reported(q)
    <2>1. ASSUME NEW k \in Keys \ Spellings
          PROVE  Now(q.mem, k) = q.live[k]
      <3>1. k \in {"autosave", "acceptunknown", "scoenabled", "denoise", "driver"}
        BY DEF Keys, Spellings
      <3>2. live[k] = now[k]
        BY <1>5, <3>1
      <3> QED BY <1>2, <1>6, <3>2
    <2>2. last \in Keys /\ now[last] = Now(q.mem, last) /\ now["device"] = Now(q.mem, "device")
      BY <1>2, <1>3, <1>6, <1>11 DEF Keys
    <2>3. Now(q.mem, "device") # NoValue => IsListed(now)
      BY <2>2 DEF IsListed, Spellings
    <2>4. Listed(q)
      BY <1>5, <1>6, <1>11, <2>2, <2>3 DEF Listed
    <2> QED BY <2>1, <2>4 DEF Reported, Valued
  <1>10. Filed(q)
    BY <1>6 DEF Filed, m
  <1> QED BY <1>7, <1>8, <1>9, <1>10 DEF Agreed, q

\* A call that has changed what is in force is still to be answered.
Steady(r) == SettingsInv(r) /\ (r.changed => Pending(r) /\ TookEffect(r))

\* A call as it is dispatched, for the first time or again: the state r in which
\* a handler begins to answer it.
Begun(r, call) ==
    /\ r \in Daemons /\ Agreed(r) /\ r.retry = call
    /\ r.live = conf.live /\ r.owner = conf.owner /\ r.filter = conf.filter
    /\ r.changed = conf.changed /\ (conf.changed => conf.retry = call) /\ Holds(r)
    /\ call # StrangersCall => Asked(r)
    /\ r.owed = 1 \/ (~r.owner /\ ~r.live.known)

LEMMA CalledDoes ==
    ASSUME Steady(conf), NEW call \in Calls, NEW bad,
           conf.retry \in {NoCall, call}
    PROVE  Begun(Called(call, bad), call)
  <1> DEFINE owed == IF conf.retry = NoCall THEN 1 ELSE conf.owed
             failures == conf.failures + (IF bad = {} THEN 0 ELSE 1)
             r == Called(call, bad)
             y == [[conf EXCEPT !.owed = owed] EXCEPT !.failures = failures]
  <1>1. conf \in Daemons /\ Agreed(conf) /\ Owing(conf)
    BY DEF Steady, SettingsInv
  <1>2. r = [conf EXCEPT !.retry = call, !.owed = owed, !.stranger = FALSE, !.failures = failures]
    BY DEF Called
  <1>3. owed \in Int /\ failures \in Int
    BY <1>1 DEF Daemons
  <1>4. owed # 1 => conf.retry # NoCall /\ conf.owed # 1
    OBVIOUS
  <1> HIDE DEF owed, failures, r
  <1>5. y \in Daemons
    BY <1>1, <1>3 DEF Daemons
  <1>6. r = [y EXCEPT !.retry = call, !.stranger = FALSE]
    BY <1>1, <1>2 DEF Daemons
  <1> HIDE DEF y
  <1>7. r \in Daemons
    BY <1>5, <1>6 DEF Daemons
  <1>8. /\ r.retry = call /\ r.owed = owed /\ r.live = conf.live /\ r.owner = conf.owner
        /\ r.changed = conf.changed /\ r.filter = conf.filter /\ r.mem = conf.mem
        /\ r.file = conf.file /\ r.latest = conf.latest /\ r.filed = conf.filed
        /\ r.dirty = conf.dirty /\ r.torn = conf.torn /\ r.refused = conf.refused
    BY <1>1, <1>2 DEF Daemons
  <1>9. Agreed(r)
    BY <1>1, <1>8, AgreedStays
  <1>10. r.owed # 1 => call = StrangersCall /\ ~r.owner /\ ~r.live.known
    BY <1>1, <1>4, <1>8 DEF Owing, StrangersCall
  <1>11. conf.changed => conf.retry = call
    BY DEF Steady, Pending
  <1>12. Holds(r)
    BY <1>8, <1>11 DEF Holds, Steady, TookEffect
  <1> QED BY <1>7, <1>8, <1>9, <1>10, <1>11, <1>12 DEF r, Asked, Begun

\* What a handler does with the call asked for in r.
Settles(r, q) == SettingsInv(q) /\ ToldTruly(r, q)

\* Every step keeps the invariant, and a call that ends with an error has
\* changed nothing that is in force.
Passes(r, q) == Steady(q) /\ ToldSo(r, q)

LEMMA CallDoes ==
    ASSUME Steady(conf), NEW call \in Calls, NEW bad, NEW q,
           Dispatched(call, q),
           Settles(Called(call, bad), q)
    PROVE  Passes(conf, conf')
  <1> DEFINE r == Called(call, bad)
             c == Pending(q) /\ (conf.changed \/ ChangesForce(conf, q))
             p == [q EXCEPT !.changed = c]
  <1>1. conf.retry \in {NoCall, call} /\ conf' = p
    BY DEF Dispatched
  <1>2. Begun(r, call)
    BY <1>1, CalledDoes
  <1> HIDE DEF r
  <1>3. q \in Daemons /\ Agreed(q) /\ Owing(q) /\ ToldSo(r, q) /\ (Pending(q) => Effective(r, q))
    BY DEF r, Settles, SettingsInv, ToldTruly, Pending
  <1>4. ChangesForce(conf, q) <=> ChangesForce(r, q)
    BY <1>2 DEF Begun, ChangesForce
  <1>5. c \in BOOLEAN
    BY <1>3 DEF Daemons, Pending
  <1>6. c => Pending(q) /\ TookEffect(q)
    BY <1>2, <1>3, <1>4 DEF Begun, Effective
  <1> HIDE DEF c
  <1>7. /\ p \in Daemons /\ p.changed = c /\ p.live = q.live /\ p.owner = q.owner
        /\ p.filter = q.filter /\ p.mem = q.mem
        /\ p.file = q.file /\ p.latest = q.latest /\ p.filed = q.filed
        /\ p.dirty = q.dirty /\ p.torn = q.torn /\ p.refused = q.refused
        /\ p.retry = q.retry /\ p.owed = q.owed /\ p.result = q.result
        /\ p.stranger = q.stranger
    BY <1>3, <1>5 DEF Daemons
  <1> HIDE DEF p
  <1>8. Agreed(p)
    BY <1>3, <1>7, AgreedStays
  <1>9. Owing(p)
    BY <1>3, <1>7 DEF Owing
  <1>10. p.changed => Pending(p) /\ TookEffect(p)
    BY <1>6, <1>7 DEF Pending, TookEffect, Took
  <1>11. ToldSo(conf, p)
    BY <1>2, <1>3, <1>7 DEF ToldSo, Excused, Begun
  <1> QED BY <1>1, <1>7, <1>8, <1>9, <1>10, <1>11 DEF Passes, Steady, SettingsInv

LEMMA CallAsks ==
    ASSUME Steady(conf), NEW call \in Calls, NEW bad, NEW q,
           Dispatched(call, q), call # StrangersCall
    PROVE  LET r == Called(call, bad) IN Asked(r) /\ Holds(r) /\ r.retry = call
  <1> DEFINE r == Called(call, bad)
  <1>1. conf.retry \in {NoCall, call}
    BY DEF Dispatched
  <1>2. Begun(r, call)
    BY <1>1, CalledDoes
  <1> HIDE DEF r
  <1>3. Asked(r) /\ Holds(r) /\ r.retry = call
    BY <1>2 DEF Begun
  <1> QED BY <1>3 DEF r

LEMMA SetAutoSaveDoes ==
    ASSUME Steady(conf), SetAutoSave
    PROVE  Passes(conf, conf')
  <1>1. PICK v \in {"true", "false"}, bad \in Bad(Saving) :
           Dispatched(<<"autosave", v>>,
               FileFirst(Called(<<"autosave", v>>, bad), "autosave", v, v = "true", bad))
    BY DEF SetAutoSave, Switches
  <1> DEFINE call == <<"autosave", v>>
             force == v = "true"
             r == Called(call, bad)
             q == FileFirst(r, "autosave", v, force, bad)
  <1>2. call \in Calls /\ call # StrangersCall
    BY DEF Calls, Switches, Values, StrangersCall
  <1>3. Dispatched(call, q) /\ force \in BOOLEAN /\ (v = "true" => force)
    BY <1>1
  <1> HIDE DEF call, force, q
  <1>4. Asked(r) /\ Holds(r) /\ r.retry = call
    BY <1>2, <1>3, CallAsks
  <1> HIDE DEF r
  <1>5. Settles(r, q)
    BY <1>3, <1>4, FileFirstDoes DEF Settles, q, call
  <1> QED BY <1>2, <1>3, <1>5, CallDoes DEF r

LEMMA SetAcceptUnknownDoes ==
    ASSUME Steady(conf), SetAcceptUnknown
    PROVE  Passes(conf, conf')
  <1>1. PICK v \in {"true", "false"}, bad \in Bad(Saving) :
           Dispatched(<<"acceptunknown", v>>, FileFirst(Called(<<"acceptunknown", v>>, bad), "acceptunknown", v, FALSE, bad))
    BY DEF SetAcceptUnknown, Switches
  <1> DEFINE call == <<"acceptunknown", v>>
             r == Called(call, bad)
             q == FileFirst(r, "acceptunknown", v, FALSE, bad)
  <1>2. call \in Calls /\ call # StrangersCall
    BY DEF Calls, Switches, Values, StrangersCall
  <1>3. Dispatched(call, q)
    BY <1>1
  <1> HIDE DEF call, q
  <1>4. Asked(r) /\ Holds(r) /\ r.retry = call
    BY <1>2, <1>3, CallAsks
  <1> HIDE DEF r
  <1>5. Settles(r, q)
    <2> DEFINE force == FALSE
    <2>1. q = FileFirst(r, "acceptunknown", v, force, bad) /\ force \in BOOLEAN
      BY DEF q
    <2> HIDE DEF force
    <2> QED BY <1>4, <2>1, FileFirstDoes DEF Settles, call
  <1> QED BY <1>2, <1>3, <1>5, CallDoes DEF r

LEMMA SetScoEnabledDoes ==
    ASSUME Steady(conf), SetScoEnabled
    PROVE  Passes(conf, conf')
  <1>1. PICK v \in {"true", "false"}, bad \in Bad(Saving \cup {"listen"}) :
           Dispatched(<<"scoenabled", v>>, ScoEnabled(Called(<<"scoenabled", v>>, bad), v, bad))
    BY DEF SetScoEnabled, Switches
  <1> DEFINE call == <<"scoenabled", v>>
             r == Called(call, bad)
             q == ScoEnabled(r, v, bad)
  <1>2. call \in Calls /\ call # StrangersCall
    BY DEF Calls, Switches, Values, StrangersCall
  <1>3. Dispatched(call, q)
    BY <1>1
  <1> HIDE DEF call, q
  <1>4. Asked(r) /\ Holds(r) /\ r.retry = call
    BY <1>2, <1>3, CallAsks
  <1> HIDE DEF r
  <1>5. Settles(r, q)
    BY <1>4, ScoEnabledDoes DEF Settles, q, call
  <1> QED BY <1>2, <1>3, <1>5, CallDoes DEF r

LEMMA SetDenoiseDoes ==
    ASSUME Steady(conf), SetDenoise
    PROVE  Passes(conf, conf')
  <1>1. PICK v \in {"true", "false"}, bad \in Bad(Saving \cup {"sound"}) :
           Dispatched(<<"denoise", v>>, Denoise(Called(<<"denoise", v>>, bad), v, bad))
    BY DEF SetDenoise, Switches
  <1> DEFINE call == <<"denoise", v>>
             r == Called(call, bad)
             q == Denoise(r, v, bad)
  <1>2. call \in Calls /\ call # StrangersCall
    BY DEF Calls, Switches, Values, StrangersCall
  <1>3. Dispatched(call, q)
    BY <1>1
  <1> HIDE DEF call, q
  <1>4. Asked(r) /\ Holds(r) /\ r.retry = call
    BY <1>2, <1>3, CallAsks
  <1> HIDE DEF r
  <1>5. Settles(r, q)
    BY <1>4, DenoiseDoes DEF Settles, q, call
  <1> QED BY <1>2, <1>3, <1>5, CallDoes DEF r

LEMMA SetDriverDoes ==
    ASSUME Steady(conf), SetDriver
    PROVE  Passes(conf, conf')
  <1>1. PICK v \in {NoValue, "alsa"}, bad \in Bad(Saving \cup {"sound"}) :
           Dispatched(<<"driver", v>>, Driver(Called(<<"driver", v>>, bad), v, bad))
    BY DEF SetDriver
  <1> DEFINE call == <<"driver", v>>
             r == Called(call, bad)
             q == Driver(r, v, bad)
  <1>2. call \in Calls /\ call # StrangersCall
    BY DEF Calls, Switches, Values, StrangersCall
  <1>3. Dispatched(call, q)
    BY <1>1
  <1> HIDE DEF call, q
  <1>4. Asked(r) /\ Holds(r) /\ r.retry = call
    BY <1>2, <1>3, CallAsks
  <1> HIDE DEF r
  <1>5. Settles(r, q)
    BY <1>4, DriverDoes DEF Settles, q, call
  <1> QED BY <1>2, <1>3, <1>5, CallDoes DEF r

LEMMA SetKnownDoes ==
    ASSUME Steady(conf), SetGatewayKnown
    PROVE  Passes(conf, conf')
  <1>1. PICK on \in BOOLEAN, bad \in Bad(Saving) :
           Dispatched(<<"known", on>>, Known(Called(<<"known", on>>, bad), on, bad))
    BY DEF SetGatewayKnown
  <1> DEFINE call == <<"known", on>>
             r == Called(call, bad)
             q == Known(r, on, bad)
  <1>2. call \in Calls /\ call # StrangersCall
    BY DEF Calls, Switches, Values, StrangersCall
  <1>3. Dispatched(call, q)
    BY <1>1
  <1> HIDE DEF call, q
  <1>4. Asked(r) /\ Holds(r) /\ r.retry = call
    BY <1>2, <1>3, CallAsks
  <1> HIDE DEF r
  <1>5. Settles(r, q)
    BY <1>4, KnownDoes DEF Settles, q, call
  <1> QED BY <1>2, <1>3, <1>5, CallDoes DEF r

LEMMA AddDeviceDoes ==
    ASSUME Steady(conf), AddGateway
    PROVE  Passes(conf, conf')
  <1>1. PICK addr \in Spellings, on \in BOOLEAN, bad \in Bad(Saving \cup {"again"}) :
           Dispatched(<<"add", addr, on>>, Added(Called(<<"add", addr, on>>, bad), addr, on, bad))
    BY DEF AddGateway
  <1> DEFINE call == <<"add", addr, on>>
             r == Called(call, bad)
             q == Added(r, addr, on, bad)
  <1>2. call \in Calls /\ call # StrangersCall
    BY DEF Calls, Switches, Values, StrangersCall
  <1>3. Dispatched(call, q)
    BY <1>1
  <1> HIDE DEF call, q
  <1>4. Asked(r) /\ Holds(r) /\ r.retry = call
    BY <1>2, <1>3, CallAsks
  <1> HIDE DEF r
  <1>5. Settles(r, q)
    BY <1>4, AddedDoes DEF Settles, q, call
  <1> QED BY <1>2, <1>3, <1>5, CallDoes DEF r

LEMMA RemoveDeviceDoes ==
    ASSUME Steady(conf), RemoveGateway
    PROVE  Passes(conf, conf')
  <1>1. PICK bad \in Bad({"reply"}) :
           Dispatched(<<"remove">>, Success([Called(<<"remove">>, bad) EXCEPT !.owner = @ /\ "reply" \in bad], bad))
    BY DEF RemoveGateway
  <1> DEFINE call == <<"remove">>
             r == Called(call, bad)
             q == Success([r EXCEPT !.owner = @ /\ "reply" \in bad], bad)
  <1>2. call \in Calls /\ call # StrangersCall
    BY DEF Calls, Switches, Values, StrangersCall
  <1>3. Dispatched(call, q)
    BY <1>1
  <1> HIDE DEF call, q
  <1>4. Asked(r) /\ Holds(r) /\ r.retry = call
    BY <1>2, <1>3, CallAsks
  <1> HIDE DEF r
  <1>5. Settles(r, q)
    BY <1>4, RemovedDoes DEF Settles, q, call
  <1> QED BY <1>2, <1>3, <1>5, CallDoes DEF r

LEMMA SaveSettingsDoes ==
    ASSUME Steady(conf), SaveSettings
    PROVE  Passes(conf, conf')
  <1>1. PICK bad \in Bad(Saving) :
           Dispatched(<<"save">>, (LET s == SaveConfig(Called(<<"save">>, bad), TRUE, bad) IN
            IF CannotWrite(bad) THEN Error(s, bad) ELSE Success(s, bad)))
    BY DEF SaveSettings
  <1> DEFINE call == <<"save">>
             r == Called(call, bad)
             q == (LET s == SaveConfig(r, TRUE, bad) IN
            IF CannotWrite(bad) THEN Error(s, bad) ELSE Success(s, bad))
  <1>2. call \in Calls /\ call # StrangersCall
    BY DEF Calls, Switches, Values, StrangersCall
  <1>3. Dispatched(call, q)
    BY <1>1
  <1> HIDE DEF call, q
  <1>4. Asked(r) /\ Holds(r) /\ r.retry = call
    BY <1>2, <1>3, CallAsks
  <1> HIDE DEF r
  <1>5. Settles(r, q)
    BY <1>4, SavedDoes DEF Settles, q, call
  <1> QED BY <1>2, <1>3, <1>5, CallDoes DEF r

LEMMA SetAutoReconnectDoes ==
    ASSUME Steady(conf), SetAutoReconnect
    PROVE  Passes(conf, conf')
  <1>1. PICK on \in BOOLEAN, bad \in Bad(Saving \cup {"again"}) :
           Dispatched(<<"reconnect", on>>,
               AutoReconnect(Called(<<"reconnect", on>>, bad), on, bad))
    BY DEF SetAutoReconnect
  <1> DEFINE call == <<"reconnect", on>>
             r == Called(call, bad)
             q == AutoReconnect(r, on, bad)
  <1>2. call \in Calls /\ (call = StrangersCall => on)
    BY DEF Calls, Switches, StrangersCall
  <1>3. Dispatched(call, q)
    BY <1>1
  <1>4. call = <<"reconnect", on>>
    OBVIOUS
  <1> HIDE DEF call, q
  <1>5. conf.retry \in {NoCall, call}
    BY <1>3 DEF Dispatched
  <1>6. Begun(r, call)
    BY <1>2, <1>5, CalledDoes
  <1> HIDE DEF r
  <1>7. AskedBack(r, on) /\ Holds(r)
    BY <1>2, <1>4, <1>6 DEF AskedBack, Asked, Begun
  <1>8. Settles(r, q)
    BY <1>7, AutoReconnectDoes DEF Settles, q
  <1> QED BY <1>2, <1>3, <1>8, CallDoes DEF r

LEMMA OwnerGoneDoes ==
    ASSUME Steady(conf), OwnerGone
    PROVE  Passes(conf, conf')
  <1> DEFINE on == conf.live.reconnect /\ conf.live.known
             r == [conf EXCEPT !.live.reconnect = on]
             none == FALSE
             x == [r EXCEPT !.owner = none]
             q == [x EXCEPT !.result = "ok"]
  <1>1. conf \in Daemons /\ Agreed(conf) /\ Owing(conf) /\ conf.live \in Lives
    BY DEF Steady, SettingsInv, Daemons
  <1>2. conf' = q
    <2>1. conf' = [conf EXCEPT !.owner = FALSE, !.live.reconnect = @ /\ conf.live.known,
                               !.result = "ok"]
      BY DEF OwnerGone
    <2> QED BY <1>1, <2>1 DEF Daemons
  <1>3. on \in BOOLEAN /\ none \in BOOLEAN /\ ~none
    BY <1>1 DEF Lives
  <1>4. (on => conf.live.reconnect) /\ (conf.live.known => (on <=> conf.live.reconnect))
    BY <1>1 DEF Lives
  <1> HIDE DEF on, none
  <1>5. /\ r \in Daemons /\ Others(conf, r)
        /\ r.live.known = conf.live.known /\ r.live.reconnect = on /\ r.mem = conf.mem
        /\ r.file = conf.file /\ r.latest = conf.latest /\ r.filed = conf.filed
        /\ r.dirty = conf.dirty /\ r.torn = conf.torn /\ r.refused = conf.refused
        /\ r.filter = conf.filter /\ r.retry = conf.retry /\ r.owed = conf.owed
        /\ r.stranger = conf.stranger
    BY <1>1, <1>3, ReconnectSet
  <1>12. r.changed = conf.changed
    BY <1>1 DEF Daemons
  <1> HIDE DEF r
  <1>6. /\ x \in Daemons /\ x.live = r.live /\ x.mem = r.mem
        /\ x.file = r.file /\ x.latest = r.latest /\ x.filed = r.filed
        /\ x.dirty = r.dirty /\ x.torn = r.torn /\ x.refused = r.refused
        /\ x.filter = r.filter /\ x.retry = r.retry /\ x.owed = r.owed /\ x.owner = none
    BY <1>3, <1>5, OwnerSet
  <1>7. x.stranger = r.stranger /\ x.changed = r.changed
    BY <1>5 DEF Daemons
  <1> HIDE DEF x
  <1>8. /\ q \in Daemons /\ q.live = r.live /\ q.result = "ok" /\ q.mem = r.mem
        /\ q.file = r.file /\ q.latest = r.latest /\ q.filed = r.filed
        /\ q.dirty = r.dirty /\ q.torn = r.torn /\ q.refused = r.refused
        /\ q.filter = r.filter /\ q.retry = r.retry /\ q.owed = r.owed /\ q.owner = none
        /\ q.stranger = r.stranger /\ q.changed = r.changed
    BY <1>6, <1>7 DEF Daemons
  <1> HIDE DEF q
  <1>13. "autosave" \in Keys \ Spellings /\ "denoise" \in Keys \ Spellings
         /\ "scoenabled" \in Keys \ Spellings /\ "acceptunknown" \in Keys \ Spellings
    BY DEF Keys, Spellings
  <1>14. /\ r.live.autosave = conf.live.autosave /\ r.live.denoise = conf.live.denoise
         /\ \A k \in {"autosave", "acceptunknown", "scoenabled"} : r.live[k] = conf.live[k]
    BY <1>5, <1>13 DEF Others
  <1>9. Agreed(r)
    <2>1. Saves(conf) /\ Valued(conf) /\ Listed(conf) /\ Filed(conf) /\ Filtered(conf)
      BY <1>1 DEF Agreed, Reported
    <2>2. Valued(r)
      BY <1>5, <2>1 DEF Valued, Others
    <2>3. Listed(r)
      BY <1>4, <1>5, <2>1 DEF Listed
    <2>4. Saves(r) /\ Filed(r) /\ Filtered(r)
      BY <1>5, <1>14, <2>1 DEF Saves, Filed, Filtered
    <2> QED BY <2>2, <2>3, <2>4 DEF Agreed, Reported
  <1>10. Agreed(q)
    BY <1>8, <1>9, AgreedStays
  <1>11. Owing(q)
    BY <1>1, <1>3, <1>5, <1>8 DEF Owing
  <1>15. TookEffect(conf) => TookEffect(q)
    <2> DEFINE call == conf.retry
    <2>1. q.retry = call /\ conf.retry = call
      BY <1>5, <1>8
    <2>2. ~conf.live.reconnect => ~q.live.reconnect
      BY <1>4, <1>5, <1>8
    <2>3. \A k \in {"autosave", "acceptunknown", "scoenabled"} : q.live[k] = conf.live[k]
      BY <1>8, <1>14
    <2> HIDE DEF call
    <2> QED BY <2>1, <2>2, <2>3 DEF TookEffect, Took
  <1>16. q.changed => Pending(q) /\ TookEffect(q)
    BY <1>5, <1>8, <1>12, <1>15 DEF Steady, Pending
  <1>17. ToldSo(conf, q)
    BY <1>8 DEF ToldSo
  <1> QED BY <1>2, <1>8, <1>10, <1>11, <1>16, <1>17 DEF Passes, Steady, SettingsInv

LEMMA UserDisconnectsDoes ==
    ASSUME Steady(conf), UserDisconnects
    PROVE  Passes(conf, conf')
  <1>1. PICK bad \in Bad({"open", "write"}) :
           /\ conf.live.reconnect
           /\ conf' = [DoSetAutoReconnect(conf, FALSE, bad)
                         EXCEPT !.failures = @ + (IF bad = {} THEN 0 ELSE 1), !.result = "ok"]
    BY Zenon DEF UserDisconnects
  <1> DEFINE on == FALSE
             r == DoSetAutoReconnect(conf, on, bad)
             failures == r.failures + (IF bad = {} THEN 0 ELSE 1)
             x == [r EXCEPT !.failures = failures]
             q == [x EXCEPT !.result = "ok"]
  <1>2. conf \in Daemons /\ Agreed(conf) /\ Owing(conf) /\ on \in BOOLEAN /\ ~on
    BY DEF Steady, SettingsInv
  <1>3. conf' = [r EXCEPT !.failures = failures, !.result = "ok"]
    BY <1>1
  <1> HIDE DEF on
  <1>4. /\ r \in Daemons /\ Agreed(r)
        /\ r.retry = conf.retry /\ r.owed = conf.owed /\ r.owner = conf.owner
        /\ r.stranger = conf.stranger /\ r.live.known = conf.live.known
        /\ r.changed = conf.changed
        /\ ReconnectFails(conf, on, bad) => r.live = conf.live
        /\ ~ReconnectFails(conf, on, bad) => r.live.reconnect = on
        /\ \A k \in Keys \ Spellings : r.live[k] = conf.live[k]
    BY <1>2, ReconnectDoes
  <1>14. \A k \in {"autosave", "acceptunknown", "scoenabled"} : k \in Keys \ Spellings
    BY DEF Keys, Spellings
  <1>15. TookEffect(conf) => TookEffect(r)
    <2>1. ~conf.live.reconnect => ~r.live.reconnect
      BY <1>2, <1>4
    <2> HIDE DEF r
    <2> QED BY <1>4, <1>14, <2>1 DEF TookEffect, Took
  <1> HIDE DEF r
  <1>5. failures \in Int
    BY <1>4 DEF Daemons
  <1> HIDE DEF failures
  <1>6. x \in Daemons
    BY <1>4, <1>5 DEF Daemons
  <1>7. conf' = q
    BY <1>3, <1>4 DEF Daemons
  <1>12. /\ x.live = r.live /\ x.mem = r.mem
         /\ x.file = r.file /\ x.latest = r.latest /\ x.filed = r.filed /\ x.dirty = r.dirty
         /\ x.torn = r.torn /\ x.refused = r.refused /\ x.filter = r.filter
         /\ x.retry = r.retry /\ x.owed = r.owed /\ x.owner = r.owner
         /\ x.stranger = r.stranger /\ x.changed = r.changed
    BY <1>4 DEF Daemons
  <1> HIDE DEF x
  <1>8. q \in Daemons
    BY <1>6 DEF Daemons
  <1>9. /\ q.live = r.live /\ q.result = "ok" /\ q.mem = r.mem
        /\ q.file = r.file /\ q.latest = r.latest /\ q.filed = r.filed
        /\ q.dirty = r.dirty /\ q.torn = r.torn /\ q.refused = r.refused
        /\ q.filter = r.filter /\ q.retry = r.retry /\ q.owed = r.owed /\ q.owner = r.owner
        /\ q.stranger = r.stranger /\ q.changed = r.changed
    BY <1>6, <1>12 DEF Daemons
  <1> HIDE DEF q
  <1>10. Agreed(q)
    BY <1>4, <1>9, AgreedStays
  <1>11. Owing(q)
    BY <1>2, <1>4, <1>9 DEF Owing
  <1>16. TookEffect(r) => TookEffect(q)
    BY <1>9 DEF TookEffect, Took
  <1>17. q.changed => Pending(q) /\ TookEffect(q)
    BY <1>4, <1>9, <1>15, <1>16 DEF Steady, Pending
  <1>18. ToldSo(conf, q)
    BY <1>9 DEF ToldSo
  <1> QED BY <1>7, <1>8, <1>10, <1>11, <1>17, <1>18 DEF Passes, Steady, SettingsInv

LEMMA StartedDoes ==
    ASSUME NEW f \in Files, NEW l \in Spellings, NEW failures \in Int
    PROVE  LET q == [Daemon(f, l) EXCEPT !.failures = failures] IN
           Steady(q) /\ q.result = "ok"
  <1> DEFINE r == Daemon(f, l)
             q == [r EXCEPT !.failures = failures]
  <1>1. r \in Daemons /\ Agreed(r)
    BY DaemonDoes
  <1>2. r.retry = NoCall /\ r.owed = 0 /\ r.result = "ok" /\ ~r.changed
    BY DEF Daemon
  <1> HIDE DEF r
  <1>3. /\ q \in Daemons /\ q.live = r.live /\ q.result = r.result /\ q.mem = r.mem
        /\ q.file = r.file /\ q.latest = r.latest /\ q.filed = r.filed
        /\ q.dirty = r.dirty /\ q.torn = r.torn /\ q.refused = r.refused
        /\ q.filter = r.filter /\ q.retry = r.retry /\ q.owed = r.owed
        /\ q.changed = r.changed
    BY <1>1 DEF Daemons
  <1> HIDE DEF q
  <1>4. Agreed(q)
    BY <1>1, <1>3, AgreedStays
  <1>5. Owing(q)
    BY <1>2, <1>3 DEF Owing
  <1> QED BY <1>2, <1>3, <1>4, <1>5 DEF Steady, SettingsInv, q, r

LEMMA RestartDoes ==
    ASSUME Steady(conf), Restart
    PROVE  Passes(conf, conf')
  <1>1. conf.file \in Files /\ conf.filed \in Spellings /\ conf.failures \in Int
    BY DEF Steady, SettingsInv, Daemons
  <1>2. conf' = [Daemon(conf.file, conf.filed) EXCEPT !.failures = conf.failures]
    BY DEF Restart
  <1>3. Steady(conf') /\ conf'.result = "ok"
    BY <1>1, <1>2, StartedDoes
  <1> QED BY <1>3 DEF Passes, ToldSo

LEMMA SettingsStart ==
    ASSUME SettingsInit
    PROVE  Steady(conf)
  <1>1. <<>> \in Files /\ "device" \in Spellings
    BY DEF Files, Once, Spellings
  <1>2. conf = Daemon(<<>>, "device")
    BY DEF SettingsInit
  <1>3. conf \in Daemons /\ Agreed(conf)
    BY <1>1, <1>2, DaemonDoes
  <1>4. conf.retry = NoCall /\ conf.owed = 0 /\ ~conf.changed
    BY <1>2 DEF Daemon
  <1> QED BY <1>3, <1>4 DEF Steady, SettingsInv, Owing

LEMMA SettingsStep ==
    ASSUME Steady(conf), SettingsNext
    PROVE  Passes(conf, conf')
  BY SetAutoSaveDoes, SetAcceptUnknownDoes, SetScoEnabledDoes, SetDenoiseDoes, SetDriverDoes,
     SetKnownDoes, SetAutoReconnectDoes, AddDeviceDoes, RemoveDeviceDoes, SaveSettingsDoes,
     OwnerGoneDoes, UserDisconnectsDoes, RestartDoes, Zenon DEF SettingsNext

Settled == Steady(conf)

LEMMA AlwaysSettled ==
    SettingsSpec => []Settled
  <1>1. SettingsInit => Settled
    BY SettingsStart DEF Settled
  <1>2. Settled /\ [SettingsNext]_conf => Settled'
    <2>1. CASE Settled /\ SettingsNext
      BY <2>1, SettingsStep DEF Settled, Passes
    <2>2. CASE Settled /\ UNCHANGED conf
      BY <2>2 DEF Settled
    <2> QED BY <2>1, <2>2
  <1> QED BY <1>1, <1>2, PTL DEF SettingsSpec

\* What a restart would put in force is what is in force now, when it has been
\* saved and no change of it was refused since; a gateway that was forgotten can
\* only come back in the spelling of a client's (SaveConfig, SetKnown, AddDevice
\* and each setter of hfpd/objects.cpp, ConfigHandler::Save and Load).
THEOREM SettingsAlwaysSurvive ==
    SettingsSpec => []SettingsSurvive
  <1>1. Settled => SettingsSurvive
    <2> SUFFICES ASSUME Steady(conf) PROVE SettingsSurvive
      BY DEF Settled
    <2> DEFINE saved == InForce(Loaded(conf.file))
               last == LastOf(saved, conf.filed)
               again == Live(saved, conf.filed)
    <2>1. /\ conf \in Daemons /\ Saves(conf) /\ Valued(conf) /\ Listed(conf)
          /\ Filed(conf) /\ Filtered(conf)
      BY DEF Steady, SettingsInv, Agreed, Reported
    <2>2. ASSUME ~conf.dirty, ~conf.torn, NEW k \in Keys, k \notin conf.refused
          PROVE  saved[k] = Now(conf.mem, k)
      BY <2>1, <2>2 DEF Filed, Now
    <2> HIDE DEF saved
    <2>5. /\ \A k \in Keys \ Spellings : again[k] = saved[k]
          /\ again.known <=> saved["device"] # NoValue \/ saved["alias"] # NoValue
          /\ again.reconnect = (saved[last] = "true")
      BY DEF Live, Keys, Spellings, IsListed
    <2>6. saved[conf.filed] # NoValue => last = conf.filed
      BY DEF LastOf
    <2> HIDE DEF last, again
    <2>3. ASSUME ~conf.dirty, ~conf.torn, NEW k \in Keys \ (conf.refused \cup Spellings)
          PROVE  again[k] = conf.live[k]
      BY <2>1, <2>2, <2>3, <2>5 DEF Valued
    <2>4. ASSUME ~conf.dirty, ~conf.torn, conf.latest \notin conf.refused, conf.live.known
          PROVE  again.known /\ again.reconnect = conf.live.reconnect
      <3>1. conf.latest \in Keys /\ conf.latest \in {"device", "alias"}
        BY <2>1 DEF Daemons, Keys, Spellings
      <3>2. conf.filed = conf.latest /\ saved[conf.latest] = Now(conf.mem, conf.latest)
        BY <2>1, <2>2, <2>4, <3>1 DEF Filed
      <3>3. /\ saved[conf.latest] # NoValue
            /\ conf.live.reconnect <=> saved[conf.latest] = "true"
        BY <2>1, <2>4, <3>2 DEF Listed
      <3>4. conf.live.reconnect \in BOOLEAN
        BY <2>1 DEF Daemons, Lives
      <3>5. last = conf.latest
        BY <2>6, <3>2, <3>3
      <3> QED BY <2>5, <3>1, <3>3, <3>4, <3>5
    <2>7. ASSUME ~conf.dirty, ~conf.torn, "device" \notin conf.refused, again.known
          PROVE  conf.live.known \/ saved.alias # NoValue
      <3>1. "device" \in Keys
        BY DEF Keys, Spellings
      <3>2. saved["device"] = Now(conf.mem, "device")
        BY <2>2, <2>7, <3>1
      <3> QED BY <2>1, <2>5, <2>7, <3>2 DEF Listed
    <2> QED BY <2>1, <2>3, <2>4, <2>7 DEF SettingsSurvive, Saves, Filtered, saved, again
  <1> QED BY <1>1, AlwaysSettled, PTL

\* Each call is answered once, however often it is dispatched, but for
\* SetAutoReconnect for a gateway neither known nor claimed (DbusDispatch,
\* AudioGateway::SetAutoReconnect).
THEOREM AlwaysAnsweredOnce ==
    SettingsSpec => []AnsweredOnce
  <1>1. Settled => AnsweredOnce
    BY DEF Settled, Steady, SettingsInv, Owing, AnsweredOnce
  <1> QED BY <1>1, AlwaysSettled, PTL

\* A call that ends with an error has changed nothing that is in force, at none
\* of its dispatches, but that SCO stays disabled when it cannot be listened for
\* again, that the filter is not configured back, and that a call that took
\* effect without having been answered may fail when it is repeated (each setter
\* of hfpd/objects.cpp, DbusDispatch).
THEOREM ErrorsNeverChange ==
    SettingsSpec => ErrorsChangeNothing
  <1> DEFINE Step == conf'.retry = NoCall /\ conf'.result = "error"
                        => /\ \/ conf'.live = conf.live
                              \/ conf'.live = [conf.live EXCEPT !.scoenabled = "false"]
                           /\ conf'.filter = conf.filter \/ "denoise" \in conf'.refused
                           /\ conf.changed => IsRepeated(conf.retry)
  <1>1. Settled /\ [SettingsNext]_conf => [Step]_conf
    <2> SUFFICES ASSUME Steady(conf), SettingsNext PROVE Step
      BY DEF Settled
    <2>1. ToldSo(conf, conf')
      BY SettingsStep DEF Passes
    <2> QED BY <2>1 DEF ToldSo, Excused
  <1>2. ErrorsChangeNothing <=> [][Step]_conf
    BY DEF ErrorsChangeNothing
  <1> HIDE DEF Step
  <1> QED BY <1>1, <1>2, AlwaysSettled, PTL DEF SettingsSpec
=============================================================================
