-------------------------- MODULE SoundManagerProofs --------------------------
(***************************************************************************)
(* The endpoints that stream are the ends of a running pump, the card is   *)
(* open for a stream only, and filters are prepared where they stand: for  *)
(* any cards, endpoints and filters, whatever calls fail, and whatever the *)
(* client does when it hears that the stream has ended.                    *)
(***************************************************************************)
EXTENDS SoundManager, SequenceTheorems, TLAPS

\* What the invariant says of a state of the sound system, part by part.
Known ==
    {"bottom", "top", "running", "bottomAsync", "topAsync", "streaming",
     "primary", "primaryOpen", "opened", "chain", "prepared", "lossAtBottom",
     "dsp", "dspEnabled", "dspInstalled", "muteSoft"}

Flags(r) ==
    /\ Known \subseteq DOMAIN r
    /\ {r.running, r.bottomAsync, r.topAsync, r.primaryOpen} \subseteq BOOLEAN

\* The pump has started the endpoints that can be, at a time when it runs.
Asked(r) ==
    /\ r.bottomAsync <=> r.running /\ HasClock(r.bottom)
    /\ r.topAsync <=> r.running /\ HasClock(r.top)

Heard(r) == {e \in {r.bottom, r.top} : r.running /\ HasClock(e)}

\* The ends are two different endpoints, and a pump that runs has both.
Ends(r) ==
    /\ r.primary \in Cards \cup {None}
    /\ r.bottom \in Cards \cup {None, Null}
    /\ r.top \in Secondaries \cup {None, Loop}
    /\ r.running => None \notin {r.bottom, r.top, r.primary}

Opens(r) == r.opened = {c \in {r.primary} : r.primaryOpen}

Streams(r) == Flags(r) /\ Asked(r) /\ r.streaming = Heard(r) /\ Ends(r) /\ Opens(r)

-----------------------------------------------------------------------------
(* The pump.                                                               *)

LEMMA Membership ==
    ASSUME NEW x, NEW e, NEW S, x = (e \in S)
    PROVE  x \in BOOLEAN /\ (x <=> e \in S)
  <1>1. CASE e \in S
    <2>1. (e \in S) = TRUE
      BY <1>1
    <2> QED BY <1>1, <2>1
  <1>2. CASE e \notin S
    <2>1. (e \in S) = FALSE
      BY <1>2
    <2> QED BY <1>2, <2>1
  <1> QED BY <1>1, <1>2

LEMMA Distinction ==
    ASSUME NEW b \in Cards \cup {None, Null}, NEW t \in Secondaries \cup {None, Loop},
           None \notin {b, t}
    PROVE  b # t
  BY EndpointsAssumption, Loop # Null DEF Secondaries, Loop, Null

\* __Stop, also after an endpoint has failed.
LEMMA StoppedStreams ==
    ASSUME NEW r, Flags(r), Asked(r), Ends(r), Opens(r), r.streaming \subseteq Heard(r)
    PROVE  LET u == Stopped(r) IN
           /\ Streams(u) /\ ~u.running
           /\ u.primaryOpen = r.primaryOpen
           /\ u.primary = r.primary
  <1> DEFINE u == Stopped(r)
  <1>1. CASE ~r.running
    <2>1. u = r
      BY <1>1 DEF Stopped
    <2>2. Heard(r) = {}
      BY <1>1 DEF Heard
    <2> QED BY <1>1, <2>1, <2>2 DEF Streams
  <1>2. CASE r.running
    <2>1. /\ Known \subseteq DOMAIN u
          /\ u.bottom = r.bottom /\ u.top = r.top /\ u.running = FALSE
          /\ u.bottomAsync = FALSE /\ u.topAsync = FALSE
          /\ u.streaming = r.streaming \ Started(r)
          /\ u.primary = r.primary /\ u.primaryOpen = r.primaryOpen
          /\ u.opened = r.opened
      BY <1>2 DEF Stopped, Flags, Known
    <2> HIDE DEF u
    <2>2. Heard(r) \subseteq Started(r)
      BY <1>2 DEF Heard, Started, Asked
    <2>3. u.streaming = {} /\ Heard(u) = {}
      BY <2>1, <2>2 DEF Heard
    <2>4. Flags(u) /\ Asked(u)
      BY <2>1 DEF Flags, Asked
    <2>5. Ends(u) /\ Opens(u)
      BY <2>1 DEF Ends, Opens
    <2> QED BY <2>1, <2>3, <2>4, <2>5 DEF Streams, u
  <1> QED BY <1>1, <1>2 DEF Flags

\* SetBottom and SetTop.
LEMMA SetBottomStreams ==
    ASSUME NEW r, NEW e \in Cards \cup {None, Null}, NEW bad, Streams(r), r.running => e # None
    PROVE  LET u == SetBottom(r, e, bad) IN
           /\ Streams(u)
           /\ u.running = r.running
           /\ u.primaryOpen = r.primaryOpen
           /\ u.primary = r.primary
  <1> DEFINE u == SetBottom(r, e, bad)
             v == [r EXCEPT !.bottom = e]
  <1>1. CASE u = r
    BY <1>1
  <1>2. CASE u = Stopped(v) /\ ~r.running
    <2>1. /\ Known \subseteq DOMAIN v
          /\ v.bottom = e /\ v.top = r.top /\ v.running = r.running
          /\ v.bottomAsync = r.bottomAsync /\ v.topAsync = r.topAsync
          /\ v.streaming = r.streaming
          /\ v.primary = r.primary /\ v.primaryOpen = r.primaryOpen
          /\ v.opened = r.opened
      BY DEF Streams, Flags, Known
    <2>2. Stopped(v) = v
      BY <1>2, <2>1 DEF Stopped
    <2> HIDE DEF v
    <2>3. Flags(v) /\ Asked(v)
      BY <1>2, <2>1 DEF Streams, Flags, Asked
    <2>4. v.streaming = Heard(v)
      BY <1>2, <2>1 DEF Streams, Heard
    <2>5. Ends(v) /\ Opens(v)
      BY <1>2, <2>1 DEF Streams, Ends, Opens
    <2> QED BY <1>2, <2>1, <2>2, <2>3, <2>4, <2>5 DEF Streams
  <1>3. CASE /\ r.running /\ e # r.bottom /\ e # None
             /\ u = [r EXCEPT !.bottom = e, !.bottomAsync = HasClock(e),
                              !.streaming = (@ \ {x \in {r.bottom} : r.bottomAsync})
                                             \cup {x \in {e} : HasClock(x)},
                              !.bottomStrikes = 0]
    <2>1. /\ Known \subseteq DOMAIN u
          /\ u.bottom = e /\ u.top = r.top /\ u.running = r.running
          /\ u.bottomAsync = HasClock(e) /\ u.topAsync = r.topAsync
          /\ u.streaming = (r.streaming \ {x \in {r.bottom} : r.bottomAsync})
                            \cup {x \in {e} : HasClock(x)}
          /\ u.primary = r.primary /\ u.primaryOpen = r.primaryOpen
          /\ u.opened = r.opened
      BY <1>3 DEF Streams, Flags, Known
    <2> HIDE DEF u
    <2>2. r.bottom # r.top
      BY <1>3, Distinction DEF Streams, Ends
    <2>3. /\ u.bottomAsync \in BOOLEAN
          /\ u.bottomAsync <=> HasClock(e)
      <3>1. u.bottomAsync = HasClock(e)
        BY <2>1
      <3> QED BY <3>1, Membership DEF HasClock
    <2>6. Flags(u) /\ Asked(u)
      BY <1>3, <2>1, <2>3 DEF Streams, Flags, Asked
    <2>4. u.streaming = Heard(u)
      BY <1>3, <2>1, <2>2 DEF Streams, Heard, Asked
    <2>5. Ends(u) /\ Opens(u)
      BY <1>3, <2>1 DEF Streams, Ends, Opens
    <2> QED BY <2>1, <2>6, <2>4, <2>5 DEF Streams, u
  <1>4. r.running \in BOOLEAN
    BY DEF Streams, Flags
  <1> QED BY <1>1, <1>2, <1>3, <1>4 DEF SetBottom

LEMMA SetTopStreams ==
    ASSUME NEW r, NEW e \in Secondaries \cup {None, Loop}, NEW bad, Streams(r),
           r.running => e # None
    PROVE  LET u == SetTop(r, e, bad) IN
           /\ Streams(u)
           /\ u.running = r.running
           /\ u.primaryOpen = r.primaryOpen
           /\ u.primary = r.primary
  <1> DEFINE u == SetTop(r, e, bad)
             v == [r EXCEPT !.top = e]
  <1>1. CASE u = r
    BY <1>1
  <1>2. CASE u = Stopped(v) /\ ~r.running
    <2>1. /\ Known \subseteq DOMAIN v
          /\ v.bottom = r.bottom /\ v.top = e /\ v.running = r.running
          /\ v.bottomAsync = r.bottomAsync /\ v.topAsync = r.topAsync
          /\ v.streaming = r.streaming
          /\ v.primary = r.primary /\ v.primaryOpen = r.primaryOpen
          /\ v.opened = r.opened
      BY DEF Streams, Flags, Known
    <2>2. Stopped(v) = v
      BY <1>2, <2>1 DEF Stopped
    <2> HIDE DEF v
    <2>3. Flags(v) /\ Asked(v)
      BY <1>2, <2>1 DEF Streams, Flags, Asked
    <2>4. v.streaming = Heard(v)
      BY <1>2, <2>1 DEF Streams, Heard
    <2>5. Ends(v) /\ Opens(v)
      BY <1>2, <2>1 DEF Streams, Ends, Opens
    <2> QED BY <1>2, <2>1, <2>2, <2>3, <2>4, <2>5 DEF Streams
  <1>3. CASE /\ r.running /\ e # r.top /\ e # None
             /\ u = [r EXCEPT !.top = e, !.topAsync = HasClock(e),
                              !.streaming = (@ \ {x \in {r.top} : r.topAsync})
                                             \cup {x \in {e} : HasClock(x)},
                              !.topStrikes = 0]
    <2>1. /\ Known \subseteq DOMAIN u
          /\ u.bottom = r.bottom /\ u.top = e /\ u.running = r.running
          /\ u.bottomAsync = r.bottomAsync /\ u.topAsync = HasClock(e)
          /\ u.streaming = (r.streaming \ {x \in {r.top} : r.topAsync})
                            \cup {x \in {e} : HasClock(x)}
          /\ u.primary = r.primary /\ u.primaryOpen = r.primaryOpen
          /\ u.opened = r.opened
      BY <1>3 DEF Streams, Flags, Known
    <2> HIDE DEF u
    <2>2. r.bottom # r.top
      BY <1>3, Distinction DEF Streams, Ends
    <2>3. /\ u.topAsync \in BOOLEAN
          /\ u.topAsync <=> HasClock(e)
      <3>1. u.topAsync = HasClock(e)
        BY <2>1
      <3> QED BY <3>1, Membership DEF HasClock
    <2>6. Flags(u) /\ Asked(u)
      BY <1>3, <2>1, <2>3 DEF Streams, Flags, Asked
    <2>4. u.streaming = Heard(u)
      BY <1>3, <2>1, <2>2 DEF Streams, Heard, Asked
    <2>5. Ends(u) /\ Opens(u)
      BY <1>3, <2>1 DEF Streams, Ends, Opens
    <2> QED BY <2>1, <2>6, <2>4, <2>5 DEF Streams, u
  <1>4. r.running \in BOOLEAN
    BY DEF Streams, Flags
  <1> QED BY <1>1, <1>2, <1>3, <1>4 DEF SetTop

\* Start.
LEMMA StartsEndpointsStreams ==
    ASSUME NEW r, NEW bad, Flags(r), Ends(r), Opens(r), r.running,
           r.bottomAsync = FALSE, r.topAsync = FALSE, r.streaming = {}
    PROVE  LET u == StartsEndpoints(r, bad) IN
           /\ Streams(u)
           /\ u.primaryOpen = r.primaryOpen
           /\ u.primary = r.primary
  <1> DEFINE v == [r EXCEPT !.bottomAsync = HasClock(r.bottom),
                            !.streaming = @ \cup {e \in {r.bottom} : HasClock(e)}]
             w == [v EXCEPT !.topAsync = HasClock(v.top),
                            !.streaming = @ \cup {e \in {v.top} : HasClock(e)}]
  <1>1. /\ Known \subseteq DOMAIN v
        /\ v.bottom = r.bottom /\ v.top = r.top /\ v.running = r.running
        /\ v.bottomAsync = HasClock(r.bottom) /\ v.topAsync = FALSE
        /\ v.streaming = {e \in {r.bottom} : HasClock(e)}
        /\ v.primary = r.primary /\ v.primaryOpen = r.primaryOpen
        /\ v.opened = r.opened
    BY DEF Flags, Known
  <1>2. /\ Known \subseteq DOMAIN w
        /\ w.bottom = r.bottom /\ w.top = r.top /\ w.running = r.running
        /\ w.bottomAsync = HasClock(r.bottom) /\ w.topAsync = HasClock(r.top)
        /\ w.streaming = {e \in {r.bottom} : HasClock(e)} \cup {e \in {r.top} : HasClock(e)}
        /\ w.primary = r.primary /\ w.primaryOpen = r.primaryOpen
        /\ w.opened = r.opened
    <2>1. Known \subseteq DOMAIN v
      BY <1>1
    <2>2. /\ Known \subseteq DOMAIN w
          /\ w.bottom = v.bottom /\ w.top = v.top /\ w.running = v.running
          /\ w.bottomAsync = v.bottomAsync /\ w.topAsync = HasClock(v.top)
          /\ w.streaming = v.streaming \cup {e \in {v.top} : HasClock(e)}
          /\ w.primary = v.primary /\ w.primaryOpen = v.primaryOpen
          /\ w.opened = v.opened
      <3> HIDE DEF v
      <3> QED BY <2>1 DEF Known
    <2> HIDE DEF v, w
    <2> QED BY <1>1, <2>2
  <1> DEFINE a == Stopped(r)
             b == Stopped(v)
  <1>3. /\ Known \subseteq DOMAIN a
        /\ a.bottom = r.bottom /\ a.top = r.top /\ a.running = FALSE
        /\ a.bottomAsync = FALSE /\ a.topAsync = FALSE
        /\ a.streaming = {}
        /\ a.primary = r.primary /\ a.primaryOpen = r.primaryOpen
        /\ a.opened = r.opened
    BY DEF Stopped, Flags, Known
  <1>4. /\ Known \subseteq DOMAIN b
        /\ b.bottom = r.bottom /\ b.top = r.top /\ b.running = FALSE
        /\ b.bottomAsync = FALSE /\ b.topAsync = FALSE
        /\ b.streaming = {}
        /\ b.primary = r.primary /\ b.primaryOpen = r.primaryOpen
        /\ b.opened = r.opened
    <2>1. Known \subseteq DOMAIN v
      BY <1>1
    <2>2. /\ Known \subseteq DOMAIN b
          /\ b.bottom = v.bottom /\ b.top = v.top /\ b.running = FALSE
          /\ b.bottomAsync = FALSE /\ b.topAsync = FALSE
          /\ b.streaming = v.streaming \ Started(v)
          /\ b.primary = v.primary /\ b.primaryOpen = v.primaryOpen
          /\ b.opened = v.opened
      <3>1. v.running
        BY <1>1
      <3> HIDE DEF v
      <3> QED BY <2>1, <3>1 DEF Stopped, Known
    <2>3. v.streaming \subseteq Started(v)
      <3> HIDE DEF v
      <3> QED BY <1>1 DEF Started
    <2> HIDE DEF v, b
    <2> QED BY <1>1, <2>2, <2>3
  <1>5. StartsEndpoints(r, bad) \in {a, b, w}
    BY DEF StartsEndpoints
  <1> DEFINE Out(u) == /\ Streams(u)
                       /\ u.primaryOpen = r.primaryOpen
                       /\ u.primary = r.primary
  <1>6. ASSUME NEW u, \/ u = a
                     \/ u = b
        PROVE  Out(u)
    <2> HIDE DEF v, a, b
    <2>1. /\ Known \subseteq DOMAIN u
          /\ u.bottom = r.bottom /\ u.top = r.top /\ u.running = FALSE
          /\ u.bottomAsync = FALSE /\ u.topAsync = FALSE
          /\ u.streaming = {}
          /\ u.primary = r.primary /\ u.primaryOpen = r.primaryOpen
          /\ u.opened = r.opened
      BY <1>3, <1>4, <1>6
    <2>2. Flags(u) /\ Asked(u)
      BY <2>1 DEF Flags, Asked
    <2>3. Ends(u) /\ Opens(u) /\ u.streaming = Heard(u)
      BY <2>1 DEF Ends, Opens, Heard
    <2> QED BY <2>1, <2>2, <2>3 DEF Streams
  <1>7. Out(w)
    <2> HIDE DEF v, w
    <2>1. /\ w.bottomAsync \in BOOLEAN /\ w.topAsync \in BOOLEAN
          /\ w.bottomAsync <=> HasClock(r.bottom)
          /\ w.topAsync <=> HasClock(r.top)
      <3>1. w.bottomAsync = HasClock(r.bottom) /\ w.topAsync = HasClock(r.top)
        BY <1>2
      <3>2. /\ w.bottomAsync \in BOOLEAN
            /\ w.bottomAsync <=> HasClock(r.bottom)
        BY <3>1, Membership DEF HasClock
      <3>3. /\ w.topAsync \in BOOLEAN
            /\ w.topAsync <=> HasClock(r.top)
        BY <3>1, Membership DEF HasClock
      <3> QED BY <3>2, <3>3
    <2>2. Flags(w) /\ Asked(w)
      BY <1>2, <2>1 DEF Flags, Asked
    <2>3. Ends(w) /\ Opens(w)
      BY <1>2 DEF Ends, Opens
    <2>4. w.streaming = Heard(w)
      BY <1>2 DEF Heard
    <2> QED BY <1>2, <2>2, <2>3, <2>4 DEF Streams
  <1> HIDE DEF v, w, a, b
  <1> QED BY <1>5, <1>6, <1>7

LEMMA PumpStartStreams ==
    ASSUME NEW r, NEW bad, Streams(r), r.primary # None
    PROVE  LET u == PumpStart(r, bad) IN
           /\ Streams(u)
           /\ u.primaryOpen = r.primaryOpen
           /\ u.primary = r.primary
  <1> DEFINE d == Directions(r.bottom, r.top, FALSE, FALSE)
             v == [r EXCEPT !.up = d.up, !.down = d.down]
             w == [r EXCEPT !.up = d.up, !.down = d.down,
                            !.watchdog = TRUE,
                            !.prepared = @ \cup ToSet(r.chain),
                            !.running = TRUE,
                            !.bottomStrikes = 0, !.topStrikes = 0]
             u == PumpStart(r, bad)
  <1> HIDE DEF d
  <1>1. CASE u = r
    BY <1>1
  <1>2. CASE u = v
    <2>1. /\ Known \subseteq DOMAIN v
          /\ v.bottom = r.bottom /\ v.top = r.top /\ v.running = r.running
          /\ v.bottomAsync = r.bottomAsync /\ v.topAsync = r.topAsync
          /\ v.streaming = r.streaming
          /\ v.primary = r.primary /\ v.primaryOpen = r.primaryOpen
          /\ v.opened = r.opened
      BY DEF Streams, Flags, Known
    <2> HIDE DEF v
    <2>2. Flags(v) /\ Asked(v)
      BY <2>1 DEF Streams, Flags, Asked
    <2>3. Ends(v) /\ Opens(v) /\ v.streaming = Heard(v)
      BY <2>1 DEF Streams, Ends, Opens, Heard
    <2> QED BY <1>2, <2>1, <2>2, <2>3 DEF Streams
  <1>3. CASE /\ ~r.running /\ r.bottom # None /\ r.top # None
             /\ u = StartsEndpoints(w, bad)
    <2>1. /\ Known \subseteq DOMAIN w
          /\ w.bottom = r.bottom /\ w.top = r.top /\ w.running = TRUE
          /\ w.bottomAsync = r.bottomAsync /\ w.topAsync = r.topAsync
          /\ w.streaming = r.streaming
          /\ w.primary = r.primary /\ w.primaryOpen = r.primaryOpen
          /\ w.opened = r.opened
      BY DEF Streams, Flags, Known
    <2> HIDE DEF w
    <2>2. w.bottomAsync = FALSE /\ w.topAsync = FALSE
      BY <1>3, <2>1 DEF Streams, Asked, Flags
    <2>3. w.streaming = {}
      BY <1>3, <2>1 DEF Streams, Heard
    <2>4. Flags(w)
      BY <2>1, <2>2 DEF Streams, Flags
    <2>5. Ends(w) /\ Opens(w)
      BY <1>3, <2>1 DEF Streams, Ends, Opens
    <2> HIDE DEF u
    <2> QED BY <1>3, <2>1, <2>2, <2>3, <2>4, <2>5, StartsEndpointsStreams, ZenonT(30) DEF u
  <1> QED BY <1>1, <1>2, <1>3 DEF PumpStart, Configures, d

-----------------------------------------------------------------------------
(* The filters and the card.                                               *)

\* What a step on the filters leaves alone.
Same(r, u) ==
    /\ Known \subseteq DOMAIN u
    /\ u.bottom = r.bottom /\ u.top = r.top /\ u.running = r.running
    /\ u.bottomAsync = r.bottomAsync /\ u.topAsync = r.topAsync
    /\ u.streaming = r.streaming
    /\ u.primary = r.primary /\ u.primaryOpen = r.primaryOpen
    /\ u.opened = r.opened

LEMMA SameStreams ==
    ASSUME NEW r, NEW u, Streams(r), Same(r, u)
    PROVE  Streams(u)
  <1>1. Flags(u) /\ Asked(u)
    BY DEF Streams, Flags, Asked, Same
  <1>2. Ends(u) /\ Opens(u) /\ u.streaming = Heard(u)
    BY DEF Streams, Ends, Opens, Heard, Same
  <1> QED BY <1>1, <1>2 DEF Streams

LEMMA FaultSame ==
    ASSUME NEW r, NEW name, Known \subseteq DOMAIN r
    PROVE  Same(r, Fault(r, name))
  BY DEF Fault, Same, Known

LEMMA AddFilterSame ==
    ASSUME NEW r, NEW f, NEW i, NEW bad, Known \subseteq DOMAIN r
    PROVE  Same(r, AddFilter(r, f, i, bad))
  BY DEF AddFilter, Same, Known

LEMMA RemoveFilterSame ==
    ASSUME NEW r, NEW f, Known \subseteq DOMAIN r
    PROVE  Same(r, RemoveFilter(r, f))
  BY DEF RemoveFilter, Same, Known

LEMMA DspInstallSame ==
    ASSUME NEW r, NEW bad, Known \subseteq DOMAIN r
    PROVE  Same(r, DspInstall(r, bad))
  <1>1. CASE DspInstall(r, bad) = Fault(r, "NoDsp")
    BY <1>1, FaultSame
  <1>2. CASE DspInstall(r, bad) = r
    BY <1>2 DEF Same
  <1>3. CASE DspInstall(r, bad) =
             [AddFilter(r, Dsp, 1, bad) EXCEPT !.dspInstalled = TRUE, !.lossAtBottom = FALSE]
    <2> DEFINE a == AddFilter(r, Dsp, 1, bad)
    <2>1. Same(r, a)
      BY AddFilterSame
    <2> HIDE DEF a
    <2>2. Same(r, [a EXCEPT !.dspInstalled = TRUE, !.lossAtBottom = FALSE])
      BY <2>1 DEF Same, Known
    <2> QED BY <1>3, <2>2 DEF a
  <1> QED BY <1>1, <1>2, <1>3 DEF DspInstall

LEMMA DspRemoveSame ==
    ASSUME NEW r, Known \subseteq DOMAIN r
    PROVE  Same(r, DspRemove(r))
  <1>1. CASE DspRemove(r) = r
    BY <1>1 DEF Same
  <1>2. CASE DspRemove(r) =
             [RemoveFilter(r, Dsp) EXCEPT !.dspInstalled = FALSE, !.lossAtBottom = TRUE]
    <2> DEFINE a == RemoveFilter(r, Dsp)
    <2>1. Same(r, a)
      BY RemoveFilterSame
    <2> HIDE DEF a
    <2>2. Same(r, [a EXCEPT !.dspInstalled = FALSE, !.lossAtBottom = TRUE])
      BY <2>1 DEF Same, Known
    <2> QED BY <1>2, <2>2 DEF a
  <1> QED BY <1>1, <1>2 DEF DspRemove

LEMMA OpenPrimaryStreams ==
    ASSUME NEW r, Streams(r), ~r.primaryOpen
    PROVE  LET u == OpenPrimary(r) IN
           Streams(u) /\ u.primaryOpen /\ u.running = r.running /\ u.primary = r.primary
  <1> DEFINE u == OpenPrimary(r)
  <1>1. /\ Known \subseteq DOMAIN u
        /\ u.bottom = r.bottom /\ u.top = r.top /\ u.running = r.running
        /\ u.bottomAsync = r.bottomAsync /\ u.topAsync = r.topAsync
        /\ u.streaming = r.streaming
        /\ u.primary = r.primary /\ u.primaryOpen = TRUE
        /\ u.opened = r.opened \cup {r.primary}
    BY DEF OpenPrimary, Streams, Flags, Known
  <1> HIDE DEF u
  <1>2. Flags(u) /\ Asked(u)
    BY <1>1 DEF Streams, Flags, Asked
  <1>3. Ends(u) /\ Opens(u) /\ u.streaming = Heard(u)
    BY <1>1 DEF Streams, Ends, Opens, Heard
  <1> QED BY <1>1, <1>2, <1>3 DEF Streams, u

LEMMA ClosePrimaryStreams ==
    ASSUME NEW r, Streams(r), ~r.running
    PROVE  LET u == ClosePrimary(r) IN
           Streams(u) /\ ~u.primaryOpen /\ ~u.running /\ u.primary = r.primary
  <1> DEFINE v == [r EXCEPT !.primaryOpen = FALSE,
                            !.opened = @ \ {r.primary},
                            !.streaming = @ \ {r.primary},
                            !.streamUp = FALSE, !.streamDn = FALSE]
             w == IF ~r.primaryOpen THEN r ELSE v
  <1>1. /\ Known \subseteq DOMAIN v
        /\ v.bottom = r.bottom /\ v.top = r.top /\ v.running = r.running
        /\ v.bottomAsync = r.bottomAsync /\ v.topAsync = r.topAsync
        /\ v.streaming = r.streaming \ {r.primary}
        /\ v.primary = r.primary /\ v.primaryOpen = FALSE
        /\ v.opened = r.opened \ {r.primary}
    BY DEF Streams, Flags, Known
  <1> HIDE DEF v
  <1>2. r.streaming = {}
    BY DEF Streams, Heard
  <1>3. Flags(v) /\ Asked(v)
    BY <1>1 DEF Streams, Flags, Asked
  <1>4. Ends(v) /\ Opens(v) /\ v.streaming = Heard(v)
    BY <1>1, <1>2 DEF Streams, Ends, Opens, Heard
  <1>5. Streams(w) /\ ~w.primaryOpen /\ ~w.running /\ w.primary = r.primary
    BY <1>1, <1>3, <1>4 DEF Streams
  <1>6. ClosePrimary(r) = DspRemove(w)
    BY DEF ClosePrimary, v
  <1> HIDE DEF w
  <1>7. Same(w, DspRemove(w))
    BY <1>5, DspRemoveSame DEF Streams, Flags
  <1>8. Streams(DspRemove(w))
    BY <1>5, <1>7, SameStreams
  <1> QED BY <1>5, <1>6, <1>7, <1>8 DEF Same

-----------------------------------------------------------------------------
(* The list of filters.                                                    *)

Distinct(q) == \A i, j \in 1 .. Len(q) : q[i] = q[j] => i = j

AnyFilter == Filters \cup {Dsp, Mute}

\* A list of filters with the two that have their places at these.
Chained(q) ==
    /\ q \in Seq(AnyFilter)
    /\ Distinct(q)
    /\ Dsp \in ToSet(q) => q[1] = Dsp
    /\ Mute \in ToSet(q) => q[Len(q)] = Mute

LEMMA ElementsOf ==
    ASSUME NEW q \in Seq(AnyFilter)
    PROVE  /\ Len(q) \in Nat
           /\ \A x : x \in ToSet(q) <=> \E i \in 1 .. Len(q) : q[i] = x
  <1>1. DOMAIN q = 1 .. Len(q) /\ Len(q) \in Nat
    OBVIOUS
  <1> QED BY <1>1 DEF ToSet

\* InsertAt and RemoveAt, element by element.
LEMMA InsertedElements ==
    ASSUME NEW q \in Seq(AnyFilter), NEW f \in AnyFilter, NEW k \in 1 .. Len(q) + 1
    PROVE  LET u == InsertAt(q, k, f) IN
           /\ u \in Seq(AnyFilter)
           /\ Len(u) = Len(q) + 1
           /\ \A i \in 1 .. Len(q) + 1 :
                 u[i] = IF i < k THEN q[i] ELSE IF i = k THEN f ELSE q[i - 1]
  <1> DEFINE v == SubSeq(q, 1, k - 1)
             w == SubSeq(q, k, Len(q))
             x == v \o <<f>>
             u == InsertAt(q, k, f)
  <1>1. Len(q) \in Nat /\ \A i \in 1 .. Len(q) : q[i] \in AnyFilter
    OBVIOUS
  <1>2. /\ v \in Seq(AnyFilter)
        /\ Len(v) = k - 1
        /\ \A i \in 1 .. k - 1 : v[i] = q[i]
    BY <1>1, SubSeqProperties
  <1>3. /\ w \in Seq(AnyFilter)
        /\ Len(w) = Len(q) - k + 1
        /\ \A i \in 1 .. Len(q) - k + 1 : w[i] = q[k + i - 1]
    BY <1>1, SubSeqProperties
  <1>4. <<f>> \in Seq(AnyFilter) /\ Len(<<f>>) = 1 /\ <<f>>[1] = f
    OBVIOUS
  <1>5. u = x \o w
    BY DEF InsertAt
  <1> HIDE DEF v, w, u
  <1>6. /\ x \in Seq(AnyFilter)
        /\ Len(x) = k
        /\ \A i \in 1 .. k : x[i] = IF i <= k - 1 THEN v[i] ELSE <<f>>[i - (k - 1)]
    <2>1. /\ v \o <<f>> \in Seq(AnyFilter)
          /\ Len(v \o <<f>>) = Len(v) + Len(<<f>>)
          /\ \A i \in 1 .. Len(v) + Len(<<f>>) :
                (v \o <<f>>)[i] = IF i <= Len(v) THEN v[i] ELSE <<f>>[i - Len(v)]
      BY <1>2, <1>4, ConcatProperties
    <2> QED BY <1>1, <1>2, <1>4, <2>1
  <1> HIDE DEF x
  <1>7. /\ u \in Seq(AnyFilter)
        /\ Len(u) = Len(q) + 1
        /\ \A i \in 1 .. Len(q) + 1 : u[i] = IF i <= k THEN x[i] ELSE w[i - k]
    <2>1. /\ x \o w \in Seq(AnyFilter)
          /\ Len(x \o w) = Len(x) + Len(w)
          /\ \A i \in 1 .. Len(x) + Len(w) :
                (x \o w)[i] = IF i <= Len(x) THEN x[i] ELSE w[i - Len(x)]
      BY <1>3, <1>6, ConcatProperties
    <2>2. Len(x) + Len(w) = Len(q) + 1 /\ Len(x) = k
      BY <1>1, <1>3, <1>6
    <2> QED BY <1>5, <2>1, <2>2
  <1>8. ASSUME NEW i \in 1 .. Len(q) + 1
        PROVE  u[i] = IF i < k THEN q[i] ELSE IF i = k THEN f ELSE q[i - 1]
    <2>1. CASE i < k
      <3>1. i \in 1 .. k /\ i \in 1 .. k - 1 /\ i <= k - 1
        BY <1>1, <2>1
      <3> QED BY <1>2, <1>6, <1>7, <2>1, <3>1
    <2>2. CASE i = k
      <3>1. k \in 1 .. k /\ ~(k <= k - 1) /\ k - (k - 1) = 1
        BY <1>1
      <3> QED BY <1>4, <1>6, <1>7, <2>2, <3>1
    <2>3. CASE i > k
      <3>1. i - k \in 1 .. Len(q) - k + 1 /\ k + (i - k) - 1 = i - 1 /\ ~(i <= k)
        BY <1>1, <2>3
      <3>2. u[i] = w[i - k]
        BY <1>7, <3>1
      <3>3. w[i - k] = q[k + (i - k) - 1]
        BY <1>3, <3>1
      <3> QED BY <1>1, <2>3, <3>1, <3>2, <3>3
    <2> QED BY <1>1, <2>1, <2>2, <2>3
  <1> QED BY <1>7, <1>8 DEF u

LEMMA UnlinkedElements ==
    ASSUME NEW q \in Seq(AnyFilter), NEW f \in ToSet(q)
    PROVE  LET u == Unlinked(q, f) IN
           \E k \in 1 .. Len(q) :
              /\ q[k] = f
              /\ u \in Seq(AnyFilter)
              /\ Len(u) = Len(q) - 1
              /\ \A i \in 1 .. Len(q) - 1 : u[i] = IF i < k THEN q[i] ELSE q[i + 1]
  <1> DEFINE k == CHOOSE i \in 1 .. Len(q) : q[i] = f
             v == SubSeq(q, 1, k - 1)
             w == SubSeq(q, k + 1, Len(q))
             u == Unlinked(q, f)
  <1>1. k \in 1 .. Len(q) /\ q[k] = f
    BY ElementsOf
  <1>2. u = v \o w
    BY DEF Unlinked, RemoveAt
  <1> HIDE DEF k
  <1>3. Len(q) \in Nat /\ \A i \in 1 .. Len(q) : q[i] \in AnyFilter
    OBVIOUS
  <1>4. /\ v \in Seq(AnyFilter)
        /\ Len(v) = k - 1
        /\ \A i \in 1 .. k - 1 : v[i] = q[i]
    BY <1>1, <1>3, SubSeqProperties
  <1>5. /\ w \in Seq(AnyFilter)
        /\ Len(w) = Len(q) - k
        /\ \A i \in 1 .. Len(q) - k : w[i] = q[k + i]
    BY <1>1, <1>3, SubSeqProperties
  <1> HIDE DEF v, w, u
  <1>6. /\ u \in Seq(AnyFilter)
        /\ Len(u) = Len(q) - 1
        /\ \A i \in 1 .. Len(q) - 1 : u[i] = IF i <= k - 1 THEN v[i] ELSE w[i - (k - 1)]
    <2>1. /\ v \o w \in Seq(AnyFilter)
          /\ Len(v \o w) = Len(v) + Len(w)
          /\ \A i \in 1 .. Len(v) + Len(w) :
                (v \o w)[i] = IF i <= Len(v) THEN v[i] ELSE w[i - Len(v)]
      BY <1>4, <1>5, ConcatProperties
    <2>2. Len(v) + Len(w) = Len(q) - 1
      BY <1>1, <1>3, <1>4, <1>5
    <2> QED BY <1>2, <1>4, <2>1, <2>2
  <1>7. ASSUME NEW i \in 1 .. Len(q) - 1
        PROVE  u[i] = IF i < k THEN q[i] ELSE q[i + 1]
    <2>1. CASE i < k
      <3>1. i \in 1 .. k - 1 /\ i <= k - 1
        BY <1>1, <1>3, <2>1
      <3> QED BY <1>4, <1>6, <2>1, <3>1
    <2>2. CASE ~(i < k)
      <3>1. i - (k - 1) \in 1 .. Len(q) - k /\ k + (i - (k - 1)) = i + 1 /\ ~(i <= k - 1)
        BY <1>1, <1>3, <2>2
      <3>2. u[i] = w[i - (k - 1)]
        BY <1>6, <3>1
      <3> QED BY <1>5, <2>2, <3>1, <3>2
    <2> QED BY <2>1, <2>2
  <1> QED BY <1>1, <1>6, <1>7 DEF u

LEMMA InsertedChain ==
    ASSUME NEW q, Chained(q), NEW f \in AnyFilter, f \notin ToSet(q),
           NEW k \in 1 .. Len(q) + 1,
           f = Dsp => k = 1,
           f = Mute => k = Len(q) + 1,
           Dsp \in ToSet(q) => k # 1,
           Mute \in ToSet(q) => k # Len(q) + 1
    PROVE  LET u == InsertAt(q, k, f) IN
           Chained(u) /\ ToSet(u) = ToSet(q) \cup {f}
  <1> DEFINE u == InsertAt(q, k, f)
             n == Len(q)
  <1>1. q \in Seq(AnyFilter)
    BY DEF Chained
  <1>2. /\ u \in Seq(AnyFilter)
        /\ Len(u) = n + 1
        /\ \A i \in 1 .. n + 1 :
              u[i] = IF i < k THEN q[i] ELSE IF i = k THEN f ELSE q[i - 1]
    BY <1>1, InsertedElements
  <1> HIDE DEF u
  <1>3. n \in Nat /\ k \in 1 .. n + 1 /\ \A x : x \in ToSet(q) <=> \E i \in 1 .. n : q[i] = x
    BY <1>1, ElementsOf
  <1>4. \A x : x \in ToSet(u) <=> \E i \in 1 .. n + 1 : u[i] = x
    BY <1>2, ElementsOf
  <1> HIDE DEF n
  <1>5. ToSet(u) = ToSet(q) \cup {f}
    <2>1. ASSUME NEW i \in 1 .. n + 1
          PROVE  u[i] \in ToSet(q) \cup {f}
      <3>1. CASE i < k
        <4>1. i \in 1 .. n
          BY <1>3, <3>1
        <4> QED BY <1>2, <1>3, <3>1, <4>1
      <3>2. CASE i = k
        BY <1>2, <3>2
      <3>3. CASE i > k
        <4>1. i - 1 \in 1 .. n /\ ~(i < k) /\ i # k
          BY <1>3, <3>3
        <4> QED BY <1>2, <1>3, <4>1
      <3> QED BY <1>3, <3>1, <3>2, <3>3
    <2>2. f \in ToSet(u)
      BY <1>2, <1>3, <1>4
    <2>3. ASSUME NEW i \in 1 .. n
          PROVE  q[i] \in ToSet(u)
      <3>1. CASE i < k
        <4>1. i \in 1 .. n + 1 /\ u[i] = q[i]
          BY <1>2, <1>3, <3>1
        <4> QED BY <1>4, <4>1
      <3>2. CASE ~(i < k)
        <4>1. i + 1 \in 1 .. n + 1 /\ u[i + 1] = q[i]
          BY <1>2, <1>3, <3>2
        <4> QED BY <1>4, <4>1
      <3> QED BY <3>1, <3>2
    <2> QED BY <1>3, <1>4, <2>1, <2>2, <2>3
  <1>6. Distinct(u)
    <2> SUFFICES ASSUME NEW i \in 1 .. n + 1, NEW j \in 1 .. n + 1, i < j, u[i] = u[j]
                 PROVE  FALSE
      BY <1>2, <1>3 DEF Distinct
    <2>1. \A a, b \in 1 .. n : q[a] = q[b] => a = b
      BY DEF Chained, Distinct, n
    <2>2. \A a \in 1 .. n : q[a] # f
      BY <1>3
    <2>3. CASE j < k
      BY <1>2, <1>3, <2>1, <2>3
    <2>4. CASE j = k
      BY <1>2, <1>3, <2>2, <2>4
    <2>5. CASE j > k /\ i = k
      <3>1. j - 1 \in 1 .. n
        BY <1>3, <2>5
      <3> QED BY <1>2, <1>3, <2>2, <2>5, <3>1
    <2>6. CASE j > k /\ i < k
      <3>1. j - 1 \in 1 .. n /\ i \in 1 .. n /\ i # j - 1
        BY <1>3, <2>6
      <3> QED BY <1>2, <1>3, <2>1, <2>6, <3>1
    <2>7. CASE j > k /\ i > k
      <3>1. j - 1 \in 1 .. n /\ i - 1 \in 1 .. n /\ i - 1 # j - 1
        BY <1>3, <2>7
      <3> QED BY <1>2, <1>3, <2>1, <2>7, <3>1, SMTT(30)
    <2> QED BY <1>3, <2>3, <2>4, <2>5, <2>6, <2>7
  <1>7. ASSUME Dsp \in ToSet(u) PROVE u[1] = Dsp
    <2>1. CASE Dsp = f
      BY <1>2, <1>3, <2>1
    <2>2. CASE Dsp \in ToSet(q)
      <3>1. q[1] = Dsp
        BY <2>2 DEF Chained
      <3> QED BY <1>2, <1>3, <2>2, <3>1
    <2> QED BY <1>5, <1>7, <2>1, <2>2
  <1>8. ASSUME Mute \in ToSet(u) PROVE u[Len(u)] = Mute
    <2>1. CASE Mute = f
      BY <1>2, <1>3, <2>1 DEF n
    <2>2. CASE Mute \in ToSet(q)
      <3>1. q[n] = Mute
        BY <2>2 DEF Chained, n
      <3>2. n + 1 \in 1 .. n + 1 /\ ~(n + 1 < k) /\ n + 1 # k /\ (n + 1) - 1 = n
        BY <1>3, <2>2 DEF n
      <3> QED BY <1>2, <3>1, <3>2
    <2> QED BY <1>5, <1>8, <2>1, <2>2
  <1>9. Chained(u)
    BY <1>2, <1>6, <1>7, <1>8 DEF Chained
  <1> QED BY <1>5, <1>9 DEF u

LEMMA UnlinkedChain ==
    ASSUME NEW q, Chained(q), NEW f \in ToSet(q)
    PROVE  LET u == Unlinked(q, f) IN
           Chained(u) /\ ToSet(u) = ToSet(q) \ {f}
  <1> DEFINE u == Unlinked(q, f)
             n == Len(q)
  <1>1. q \in Seq(AnyFilter)
    BY DEF Chained
  <1>2. PICK k \in 1 .. n :
           /\ q[k] = f
           /\ u \in Seq(AnyFilter)
           /\ Len(u) = n - 1
           /\ \A i \in 1 .. n - 1 : u[i] = IF i < k THEN q[i] ELSE q[i + 1]
    BY <1>1, UnlinkedElements
  <1> HIDE DEF u
  <1>3. n \in Nat /\ \A x : x \in ToSet(q) <=> \E i \in 1 .. n : q[i] = x
    BY <1>1, ElementsOf
  <1>4. \A x : x \in ToSet(u) <=> \E i \in 1 .. n - 1 : u[i] = x
    BY <1>2, ElementsOf
  <1>5. \A i, j \in 1 .. n : q[i] = q[j] => i = j
    BY DEF Chained, Distinct
  <1>6. /\ Dsp \in ToSet(q) => q[1] = Dsp
        /\ Mute \in ToSet(q) => q[n] = Mute
    BY DEF Chained
  <1> HIDE DEF n
  <1>7. ToSet(u) = ToSet(q) \ {f}
    <2>1. ASSUME NEW i \in 1 .. n - 1
          PROVE  u[i] \in ToSet(q) \ {f}
      <3>1. CASE i < k
        <4>1. i \in 1 .. n /\ u[i] = q[i] /\ i # k
          BY <1>2, <1>3, <3>1
        <4> QED BY <1>2, <1>3, <1>5, <4>1
      <3>2. CASE ~(i < k)
        <4>1. i + 1 \in 1 .. n /\ u[i] = q[i + 1] /\ i + 1 # k
          BY <1>2, <1>3, <3>2
        <4> QED BY <1>2, <1>3, <1>5, <4>1
      <3> QED BY <3>1, <3>2
    <2>2. ASSUME NEW i \in 1 .. n, q[i] # f
          PROVE  q[i] \in ToSet(u)
      <3>1. CASE i < k
        <4>1. i \in 1 .. n - 1 /\ u[i] = q[i]
          BY <1>2, <1>3, <3>1
        <4> QED BY <1>4, <4>1
      <3>2. CASE i > k
        <4>1. i - 1 \in 1 .. n - 1 /\ u[i - 1] = q[i]
          BY <1>2, <1>3, <3>2
        <4> QED BY <1>4, <4>1
      <3> QED BY <1>2, <1>3, <2>2, <3>1, <3>2
    <2> QED BY <1>3, <1>4, <2>1, <2>2
  <1>8. Distinct(u)
    <2> SUFFICES ASSUME NEW i \in 1 .. n - 1, NEW j \in 1 .. n - 1, i < j, u[i] = u[j]
                 PROVE  FALSE
      BY <1>2, <1>3 DEF Distinct
    <2>1. CASE j < k
      BY <1>2, <1>3, <1>5, <2>1
    <2>2. CASE ~(j < k) /\ i < k
      <3>1. j + 1 \in 1 .. n /\ i \in 1 .. n /\ i # j + 1
        BY <1>3
      <3> QED BY <1>2, <1>5, <2>2, <3>1
    <2>3. CASE ~(i < k)
      <3>1. j + 1 \in 1 .. n /\ i + 1 \in 1 .. n /\ i + 1 # j + 1 /\ ~(j < k)
        BY <1>3, <2>3
      <3> QED BY <1>2, <1>5, <2>3, <3>1
    <2> QED BY <2>1, <2>2, <2>3
  <1>9. ASSUME Dsp \in ToSet(u) PROVE u[1] = Dsp
    <2>1. Dsp # f /\ q[1] = Dsp
      BY <1>6, <1>7, <1>9
    <2>2. n - 1 >= 1
      BY <1>3, <1>4, <1>9
    <2>3. 1 \in 1 .. n - 1 /\ 1 < k
      BY <1>2, <1>3, <2>1, <2>2
    <2> QED BY <1>2, <2>1, <2>3
  <1>10. ASSUME Mute \in ToSet(u) PROVE u[Len(u)] = Mute
    <2>1. Mute # f /\ q[n] = Mute
      BY <1>6, <1>7, <1>10
    <2>2. n - 1 >= 1
      BY <1>3, <1>4, <1>10
    <2>3. n - 1 \in 1 .. n - 1 /\ ~(n - 1 < k) /\ (n - 1) + 1 = n
      BY <1>2, <1>3, <2>1, <2>2
    <2> QED BY <1>2, <2>1, <2>3
  <1>11. Chained(u)
    BY <1>2, <1>8, <1>9, <1>10 DEF Chained
  <1> QED BY <1>7, <1>11 DEF u

-----------------------------------------------------------------------------
(* The filters in place, and prepared while the pump runs.                 *)

Lined(r) ==
    /\ Chained(r.chain)
    /\ r.prepared = IF r.running THEN ToSet(r.chain) ELSE {}

\* What the manager notes of its own two filters.
Marked(r) ==
    /\ {r.dsp, r.dspEnabled, r.dspInstalled, r.muteSoft, r.lossAtBottom} \subseteq BOOLEAN
    /\ r.dspInstalled <=> Dsp \in ToSet(r.chain)
    /\ r.muteSoft <=> Mute \in ToSet(r.chain)
    /\ r.lossAtBottom <=> ~r.dspInstalled

DspUsed(r) == r.dspInstalled => r.dsp /\ r.dspEnabled

Stacked(r) == Lined(r) /\ Marked(r) /\ DspUsed(r)

SameMarks(r, u) ==
    /\ u.chain = r.chain
    /\ u.dsp = r.dsp /\ u.dspEnabled = r.dspEnabled /\ u.dspInstalled = r.dspInstalled
    /\ u.muteSoft = r.muteSoft /\ u.lossAtBottom = r.lossAtBottom

SameStack(r, u) == SameMarks(r, u) /\ u.prepared = r.prepared /\ u.running = r.running

LEMMA SameMarksStacked ==
    ASSUME NEW r, NEW u, Stacked(r), SameMarks(r, u),
           u.prepared = IF u.running THEN ToSet(u.chain) ELSE {}
    PROVE  Stacked(u)
  <1>1. Lined(u)
    BY DEF Stacked, Lined, SameMarks
  <1>2. Marked(u) /\ DspUsed(u)
    BY DEF Stacked, Marked, DspUsed, SameMarks
  <1> QED BY <1>1, <1>2 DEF Stacked

LEMMA SameStackStacked ==
    ASSUME NEW r, NEW u, Stacked(r), SameStack(r, u)
    PROVE  Stacked(u)
  <1>1. u.prepared = IF u.running THEN ToSet(u.chain) ELSE {}
    BY DEF Stacked, Lined, SameStack, SameMarks
  <1> QED BY <1>1, SameMarksStacked DEF SameStack

LEMMA StoppedStacked ==
    ASSUME NEW r, Flags(r), Stacked(r)
    PROVE  Stacked(Stopped(r))
  <1> DEFINE u == Stopped(r)
  <1>1. CASE ~r.running
    BY <1>1 DEF Stopped
  <1>2. CASE r.running
    <2>1. /\ SameMarks(r, u)
          /\ u.running = FALSE
          /\ u.prepared = r.prepared \ ToSet(r.chain)
      BY <1>2 DEF Stopped, Flags, Known, SameMarks
    <2> HIDE DEF u
    <2>2. u.prepared = {}
      BY <1>2, <2>1 DEF Stacked, Lined
    <2>3. Stacked(u)
      BY <2>1, <2>2, SameMarksStacked
    <2> QED BY <2>3 DEF u
  <1> QED BY <1>1, <1>2 DEF Flags

LEMMA SetBottomStack ==
    ASSUME NEW r, NEW e, NEW bad, Flags(r), r.running => e # None
    PROVE  SameStack(r, SetBottom(r, e, bad))
  <1> DEFINE u == SetBottom(r, e, bad)
             v == [r EXCEPT !.bottom = e]
  <1>1. CASE u = r
    BY <1>1 DEF SameStack, SameMarks
  <1>2. CASE u = Stopped(v) /\ ~r.running
    <2>1. SameStack(r, v) /\ ~v.running
      BY <1>2 DEF Flags, Known, SameStack, SameMarks
    <2>2. Stopped(v) = v
      BY <2>1 DEF Stopped
    <2> HIDE DEF v
    <2> QED BY <1>2, <2>1, <2>2
  <1>3. CASE u = [r EXCEPT !.bottom = e, !.bottomAsync = HasClock(e),
                           !.streaming = (@ \ {x \in {r.bottom} : r.bottomAsync})
                                          \cup {x \in {e} : HasClock(x)},
                           !.bottomStrikes = 0]
    BY <1>3 DEF Flags, Known, SameStack, SameMarks
  <1> QED BY <1>1, <1>2, <1>3 DEF SetBottom

LEMMA SetTopStack ==
    ASSUME NEW r, NEW e, NEW bad, Flags(r), r.running => e # None
    PROVE  SameStack(r, SetTop(r, e, bad))
  <1> DEFINE u == SetTop(r, e, bad)
             v == [r EXCEPT !.top = e]
  <1>1. CASE u = r
    BY <1>1 DEF SameStack, SameMarks
  <1>2. CASE u = Stopped(v) /\ ~r.running
    <2>1. SameStack(r, v) /\ ~v.running
      BY <1>2 DEF Flags, Known, SameStack, SameMarks
    <2>2. Stopped(v) = v
      BY <2>1 DEF Stopped
    <2> HIDE DEF v
    <2> QED BY <1>2, <2>1, <2>2
  <1>3. CASE u = [r EXCEPT !.top = e, !.topAsync = HasClock(e),
                           !.streaming = (@ \ {x \in {r.top} : r.topAsync})
                                          \cup {x \in {e} : HasClock(x)},
                           !.topStrikes = 0]
    BY <1>3 DEF Flags, Known, SameStack, SameMarks
  <1> QED BY <1>1, <1>2, <1>3 DEF SetTop

\* However the endpoints start, the filters are prepared iff the pump runs.
LEMMA StartsEndpointsStack ==
    ASSUME NEW r, NEW bad, Flags(r), r.running, r.prepared = ToSet(r.chain)
    PROVE  LET u == StartsEndpoints(r, bad) IN
           /\ SameMarks(r, u)
           /\ u.prepared = IF u.running THEN ToSet(u.chain) ELSE {}
  <1> DEFINE v == [r EXCEPT !.bottomAsync = HasClock(r.bottom),
                            !.streaming = @ \cup {e \in {r.bottom} : HasClock(e)}]
             w == [v EXCEPT !.topAsync = HasClock(v.top),
                            !.streaming = @ \cup {e \in {v.top} : HasClock(e)}]
             Out(u) == /\ SameMarks(r, u)
                       /\ u.prepared = IF u.running THEN ToSet(u.chain) ELSE {}
  <1>1. SameStack(r, v) /\ Known \subseteq DOMAIN v
    BY DEF Flags, Known, SameStack, SameMarks
  <1> HIDE DEF v
  <1>2. SameStack(v, w)
    BY <1>1 DEF Known, SameStack, SameMarks
  <1> HIDE DEF w
  <1>3. Out(w)
    BY <1>1, <1>2 DEF SameStack, SameMarks
  <1>4. ASSUME NEW x, SameStack(r, x), Known \subseteq DOMAIN x
        PROVE  Out(Stopped(x))
    <2>1. x.running /\ x.prepared = ToSet(x.chain)
      BY <1>4 DEF SameStack, SameMarks
    <2> DEFINE u == Stopped(x)
    <2>2. /\ SameMarks(x, u)
          /\ u.running = FALSE
          /\ u.prepared = x.prepared \ ToSet(x.chain)
      BY <1>4, <2>1 DEF Stopped, Known, SameMarks
    <2> HIDE DEF u
    <2>3. Out(u)
      BY <1>4, <2>1, <2>2 DEF SameStack, SameMarks
    <2> QED BY <2>3 DEF u
  <1>5. SameStack(r, r) /\ Known \subseteq DOMAIN r
    BY DEF SameStack, SameMarks, Flags
  <1>6. Out(Stopped(r)) /\ Out(Stopped(v))
    BY <1>1, <1>4, <1>5
  <1>7. StartsEndpoints(r, bad) \in {Stopped(r), Stopped(v), w}
    BY DEF StartsEndpoints, v, w
  <1> QED BY <1>3, <1>6, <1>7

LEMMA PumpStartStacked ==
    ASSUME NEW r, NEW bad, Flags(r), Stacked(r)
    PROVE  Stacked(PumpStart(r, bad))
  <1> DEFINE d == Directions(r.bottom, r.top, FALSE, FALSE)
             v == [r EXCEPT !.up = d.up, !.down = d.down]
             w == [r EXCEPT !.up = d.up, !.down = d.down,
                            !.watchdog = TRUE,
                            !.prepared = @ \cup ToSet(r.chain),
                            !.running = TRUE,
                            !.bottomStrikes = 0, !.topStrikes = 0]
             u == PumpStart(r, bad)
  <1> HIDE DEF d
  <1>1. CASE u = r
    BY <1>1
  <1>2. CASE u = v
    <2>1. SameStack(r, v)
      BY DEF Flags, Known, SameStack, SameMarks
    <2> QED BY <1>2, <2>1, SameStackStacked
  <1>3. CASE ~r.running /\ u = StartsEndpoints(w, bad)
    <2>1. /\ SameMarks(r, w)
          /\ Flags(w)
          /\ w.running = TRUE
          /\ w.prepared = r.prepared \cup ToSet(r.chain)
      BY DEF Flags, Known, SameMarks
    <2> HIDE DEF w
    <2>2. w.prepared = ToSet(w.chain)
      BY <1>3, <2>1 DEF Stacked, Lined, SameMarks
    <2>3. /\ SameMarks(w, u)
          /\ u.prepared = IF u.running THEN ToSet(u.chain) ELSE {}
      BY <1>3, <2>1, <2>2, StartsEndpointsStack
    <2>4. SameMarks(r, u)
      BY <2>1, <2>3 DEF SameMarks
    <2> QED BY <2>3, <2>4, SameMarksStacked
  <1> QED BY <1>1, <1>2, <1>3 DEF PumpStart, d

\* What AddFilter and RemoveFilter leave alone.
OtherMarks(r, u) ==
    /\ u.dsp = r.dsp /\ u.dspEnabled = r.dspEnabled /\ u.dspInstalled = r.dspInstalled
    /\ u.muteSoft = r.muteSoft /\ u.lossAtBottom = r.lossAtBottom
    /\ u.running = r.running

LEMMA AddFilterLined ==
    ASSUME NEW r, NEW bad, Flags(r), Lined(r), Accepts(r, bad),
           NEW f \in AnyFilter, f \notin ToSet(r.chain),
           NEW k \in 1 .. Len(r.chain) + 1,
           f = Dsp => k = 1,
           f = Mute => k = Len(r.chain) + 1,
           Dsp \in ToSet(r.chain) => k # 1,
           Mute \in ToSet(r.chain) => k # Len(r.chain) + 1
    PROVE  LET u == AddFilter(r, f, k, bad) IN
           /\ Lined(u)
           /\ ToSet(u.chain) = ToSet(r.chain) \cup {f}
           /\ OtherMarks(r, u)
  <1> DEFINE u == AddFilter(r, f, k, bad)
  <1>1. /\ u.chain = InsertAt(r.chain, k, f)
        /\ u.prepared = IF r.running THEN r.prepared \cup {f} ELSE r.prepared
        /\ OtherMarks(r, u)
    BY DEF AddFilter, Flags, Known, OtherMarks
  <1> HIDE DEF u
  <1>2. Chained(r.chain)
    BY DEF Lined
  <1>3. Chained(u.chain) /\ ToSet(u.chain) = ToSet(r.chain) \cup {f}
    BY <1>1, <1>2, InsertedChain
  <1>4. Lined(u)
    BY <1>1, <1>3 DEF Lined, OtherMarks
  <1> QED BY <1>1, <1>3, <1>4 DEF u

LEMMA RemoveFilterLined ==
    ASSUME NEW r, Flags(r), Lined(r), NEW f \in ToSet(r.chain)
    PROVE  LET u == RemoveFilter(r, f) IN
           /\ Lined(u)
           /\ ToSet(u.chain) = ToSet(r.chain) \ {f}
           /\ OtherMarks(r, u)
  <1> DEFINE u == RemoveFilter(r, f)
  <1>1. /\ u.chain = Unlinked(r.chain, f)
        /\ u.prepared = IF r.running THEN r.prepared \ {f} ELSE r.prepared
        /\ OtherMarks(r, u)
    BY DEF RemoveFilter, Flags, Known, OtherMarks
  <1> HIDE DEF u
  <1>2. Chained(r.chain)
    BY DEF Lined
  <1>3. Chained(u.chain) /\ ToSet(u.chain) = ToSet(r.chain) \ {f}
    BY <1>1, <1>2, UnlinkedChain
  <1>4. Lined(u)
    BY <1>1, <1>3 DEF Lined, OtherMarks
  <1> QED BY <1>1, <1>3, <1>4 DEF u

LEMMA ChainLength ==
    ASSUME NEW q, Chained(q)
    PROVE  /\ Len(q) \in Nat
           /\ \A f \in ToSet(q) : Len(q) >= 1
           /\ Dsp \in ToSet(q) /\ Mute \in ToSet(q) => Len(q) >= 2
  <1>1. Len(q) \in Nat /\ \A x : x \in ToSet(q) <=> \E i \in 1 .. Len(q) : q[i] = x
    BY ElementsOf DEF Chained
  <1>2. Dsp # Mute
    BY DEF Dsp, Mute
  <1>3. ASSUME Dsp \in ToSet(q), Mute \in ToSet(q) PROVE Len(q) # 1
    BY <1>2, <1>3 DEF Chained
  <1> QED BY <1>1, <1>3

LEMMA DspInstallStacked ==
    ASSUME NEW r, NEW bad, Flags(r), Lined(r), Marked(r), ~r.dspInstalled
    PROVE  LET u == DspInstall(r, bad) IN
           /\ Lined(u) /\ Marked(u)
           /\ u.dsp = r.dsp /\ u.dspEnabled = r.dspEnabled
           /\ u.dspInstalled => r.dsp
  <1> DEFINE a == AddFilter(r, Dsp, 1, bad)
             v == [a EXCEPT !.dspInstalled = TRUE, !.lossAtBottom = FALSE]
             u == DspInstall(r, bad)
             Out(x) == /\ Lined(x) /\ Marked(x)
                       /\ x.dsp = r.dsp /\ x.dspEnabled = r.dspEnabled
                       /\ x.dspInstalled => r.dsp
  <1>1. CASE u = Fault(r, "NoDsp")
    <2> DEFINE x == Fault(r, "NoDsp")
    <2>1. SameStack(r, x)
      BY DEF Fault, Flags, Known, SameStack, SameMarks
    <2> HIDE DEF x
    <2>2. Lined(x) /\ Marked(x)
      BY <2>1 DEF SameStack, SameMarks, Lined, Marked
    <2>3. Out(x)
      BY <2>1, <2>2 DEF SameStack, SameMarks
    <2> QED BY <1>1, <2>3 DEF x
  <1>2. CASE u = r
    BY <1>2
  <1>3. CASE r.dsp /\ Accepts(r, bad) /\ u = v
    <2>1. Dsp \in AnyFilter /\ Dsp # Mute
      BY DEF AnyFilter, Dsp, Mute
    <2>2. Dsp \notin ToSet(r.chain)
      BY DEF Marked
    <2>3. Len(r.chain) \in Nat /\ \A f \in ToSet(r.chain) : Len(r.chain) >= 1
      BY ChainLength DEF Lined
    <2>4. 1 \in 1 .. Len(r.chain) + 1 /\ (Mute \in ToSet(r.chain) => 1 # Len(r.chain) + 1)
      BY <2>3
    <2>5. /\ Lined(a)
          /\ ToSet(a.chain) = ToSet(r.chain) \cup {Dsp}
          /\ OtherMarks(r, a)
      BY <1>3, <2>1, <2>2, <2>4, AddFilterLined
    <2>6. Known \subseteq DOMAIN a
      BY AddFilterSame DEF Same, Flags
    <2> HIDE DEF a
    <2>7. /\ v.chain = a.chain /\ v.prepared = a.prepared /\ v.running = a.running
          /\ v.dsp = a.dsp /\ v.dspEnabled = a.dspEnabled /\ v.muteSoft = a.muteSoft
          /\ v.dspInstalled = TRUE /\ v.lossAtBottom = FALSE
      BY <2>6 DEF Known
    <2> HIDE DEF v
    <2>8. Lined(v)
      BY <2>5, <2>7 DEF Lined
    <2>9. Marked(v)
      <3>1. /\ Dsp \in ToSet(v.chain)
            /\ Mute \in ToSet(v.chain) <=> Mute \in ToSet(r.chain)
        BY <2>1, <2>5, <2>7
      <3>2. /\ v.dsp = r.dsp /\ v.dspEnabled = r.dspEnabled /\ v.muteSoft = r.muteSoft
            /\ v.dspInstalled = TRUE /\ v.lossAtBottom = FALSE
        BY <2>5, <2>7 DEF OtherMarks
      <3> HIDE DEF Out
      <3> QED BY <3>1, <3>2 DEF Marked
    <2>10. Out(v)
      BY <1>3, <2>5, <2>7, <2>8, <2>9 DEF OtherMarks
    <2> QED BY <1>3, <2>10
  <1> QED BY <1>1, <1>2, <1>3 DEF DspInstall

LEMMA DspRemoveStacked ==
    ASSUME NEW r, Flags(r), Stacked(r)
    PROVE  LET u == DspRemove(r) IN
           /\ Stacked(u)
           /\ ~u.dspInstalled
           /\ u.dsp = r.dsp /\ u.dspEnabled = r.dspEnabled
  <1> DEFINE a == RemoveFilter(r, Dsp)
             v == [a EXCEPT !.dspInstalled = FALSE, !.lossAtBottom = TRUE]
             u == DspRemove(r)
  <1>1. CASE ~r.dspInstalled
    BY <1>1 DEF DspRemove
  <1>2. CASE r.dspInstalled
    <2>0. u = v
      BY <1>2 DEF DspRemove
    <2>1. Dsp \in ToSet(r.chain) /\ Dsp # Mute
      BY <1>2 DEF Stacked, Marked, Dsp, Mute
    <2>2. /\ Lined(a)
          /\ ToSet(a.chain) = ToSet(r.chain) \ {Dsp}
          /\ OtherMarks(r, a)
      BY <2>1, RemoveFilterLined DEF Stacked
    <2>3. Known \subseteq DOMAIN a
      BY RemoveFilterSame DEF Same, Flags
    <2> HIDE DEF a, u
    <2>4. /\ v.chain = a.chain /\ v.prepared = a.prepared /\ v.running = a.running
          /\ v.dsp = a.dsp /\ v.dspEnabled = a.dspEnabled /\ v.muteSoft = a.muteSoft
          /\ v.dspInstalled = FALSE /\ v.lossAtBottom = TRUE
      BY <2>3 DEF Known
    <2> HIDE DEF v
    <2>5. Lined(v)
      BY <2>2, <2>4 DEF Lined
    <2>6. Marked(v) /\ DspUsed(v)
      BY <2>1, <2>2, <2>4 DEF Stacked, Marked, OtherMarks, DspUsed
    <2>7. Stacked(v) /\ ~v.dspInstalled /\ v.dsp = r.dsp /\ v.dspEnabled = r.dspEnabled
      BY <2>2, <2>4, <2>5, <2>6 DEF Stacked, OtherMarks
    <2> QED BY <2>0, <2>7 DEF u
  <1> QED BY <1>1, <1>2 DEF Stacked, Marked

LEMMA OpenPrimaryStacked ==
    ASSUME NEW r, Flags(r), Stacked(r)
    PROVE  Stacked(OpenPrimary(r))
  <1>1. SameStack(r, OpenPrimary(r))
    BY DEF OpenPrimary, Flags, Known, SameStack, SameMarks
  <1> QED BY <1>1, SameStackStacked

LEMMA ClosePrimaryStacked ==
    ASSUME NEW r, Streams(r), ~r.running, Stacked(r)
    PROVE  Stacked(ClosePrimary(r))
  <1> DEFINE v == [r EXCEPT !.primaryOpen = FALSE,
                            !.opened = @ \ {r.primary},
                            !.streaming = @ \ {r.primary},
                            !.streamUp = FALSE, !.streamDn = FALSE]
             w == IF ~r.primaryOpen THEN r ELSE v
  <1>1. SameStack(r, v) /\ Flags(v)
    BY DEF Streams, Flags, Known, SameStack, SameMarks
  <1> HIDE DEF v
  <1>2. Stacked(w) /\ Flags(w)
    BY <1>1, SameStackStacked DEF Streams
  <1>3. ClosePrimary(r) = DspRemove(w)
    BY DEF ClosePrimary, v
  <1> QED BY <1>2, <1>3, DspRemoveStacked

-----------------------------------------------------------------------------
(* The functions of the manager.                                           *)

Sound(r) == Streams(r) /\ Stacked(r)

\* A step that changes none of the fields of the invariant.
Alike(r, u) == Same(r, u) /\ SameStack(r, u)

LEMMA AlikeSound ==
    ASSUME NEW r, NEW u, Sound(r), Alike(r, u)
    PROVE  /\ Sound(u)
           /\ u.running = r.running /\ u.primaryOpen = r.primaryOpen
           /\ u.primary = r.primary
  BY SameStreams, SameStackStacked DEF Sound, Alike, Same

LEMMA SoundFlags ==
    ASSUME NEW r, Sound(r)
    PROVE  /\ Flags(r) /\ Known \subseteq DOMAIN r
           /\ r.running \in BOOLEAN /\ r.primaryOpen \in BOOLEAN
  BY DEF Sound, Streams, Flags

LEMMA FaultSound ==
    ASSUME NEW r, NEW name, Sound(r)
    PROVE  LET u == Fault(r, name) IN
           /\ Sound(u)
           /\ u.running = r.running /\ u.primaryOpen = r.primaryOpen
           /\ u.primary = r.primary
  <1>1. Alike(r, Fault(r, name))
    BY SoundFlags, FaultSame DEF Fault, Known, Alike, SameStack, SameMarks
  <1> QED BY <1>1, AlikeSound

LEMMA StoppedSound ==
    ASSUME NEW r, Sound(r)
    PROVE  LET u == Stopped(r) IN
           /\ Sound(u) /\ ~u.running
           /\ u.primaryOpen = r.primaryOpen /\ u.primary = r.primary
  <1>1. Flags(r) /\ Asked(r) /\ Ends(r) /\ Opens(r) /\ r.streaming \subseteq Heard(r)
    BY DEF Sound, Streams
  <1> QED BY <1>1, StoppedStreams, StoppedStacked DEF Sound

LEMMA CloseSound ==
    ASSUME NEW r, Sound(r), ~r.running
    PROVE  LET u == ClosePrimary(r) IN
           Sound(u) /\ ~u.primaryOpen /\ ~u.running /\ u.primary = r.primary
  BY ClosePrimaryStreams, ClosePrimaryStacked DEF Sound

LEMMA OpenSound ==
    ASSUME NEW r, Sound(r), ~r.primaryOpen
    PROVE  LET u == OpenPrimary(r) IN
           Sound(u) /\ u.primaryOpen /\ u.running = r.running /\ u.primary = r.primary
  BY SoundFlags, OpenPrimaryStreams, OpenPrimaryStacked DEF Sound

LEMMA SetBottomSound ==
    ASSUME NEW r, NEW e \in Cards \cup {None, Null}, NEW bad, Sound(r), r.running => e # None
    PROVE  LET u == SetBottom(r, e, bad) IN
           /\ Sound(u)
           /\ u.running = r.running /\ u.primaryOpen = r.primaryOpen
           /\ u.primary = r.primary
  BY SoundFlags, SetBottomStreams, SetBottomStack, SameStackStacked DEF Sound

LEMMA SetTopSound ==
    ASSUME NEW r, NEW e \in Secondaries \cup {None, Loop}, NEW bad, Sound(r),
           r.running => e # None
    PROVE  LET u == SetTop(r, e, bad) IN
           /\ Sound(u)
           /\ u.running = r.running /\ u.primaryOpen = r.primaryOpen
           /\ u.primary = r.primary
  BY SoundFlags, SetTopStreams, SetTopStack, SameStackStacked DEF Sound

LEMMA PumpStartSound ==
    ASSUME NEW r, NEW bad, Sound(r), r.primary # None
    PROVE  LET u == PumpStart(r, bad) IN
           /\ Sound(u)
           /\ u.primaryOpen = r.primaryOpen /\ u.primary = r.primary
  BY SoundFlags, PumpStartStreams, PumpStartStacked DEF Sound

LEMMA DspRemoveSound ==
    ASSUME NEW r, Sound(r)
    PROVE  LET u == DspRemove(r) IN
           /\ Sound(u) /\ ~u.dspInstalled
           /\ u.dsp = r.dsp /\ u.dspEnabled = r.dspEnabled
           /\ u.running = r.running /\ u.primaryOpen = r.primaryOpen
           /\ u.primary = r.primary
  <1>1. Same(r, DspRemove(r))
    BY SoundFlags, DspRemoveSame
  <1>2. Streams(DspRemove(r))
    BY <1>1, SameStreams DEF Sound
  <1> QED BY <1>1, <1>2, SoundFlags, DspRemoveStacked DEF Sound, Same

LEMMA DspInstallSound ==
    ASSUME NEW r, NEW bad, Sound(r), ~r.dspInstalled
    PROVE  LET u == DspInstall(r, bad) IN
           /\ Streams(u) /\ Lined(u) /\ Marked(u)
           /\ r.dspEnabled => Sound(u)
           /\ ~u.dspInstalled => Sound(u)
           /\ u.dsp = r.dsp /\ u.dspEnabled = r.dspEnabled
           /\ u.dspInstalled => r.dsp
           /\ u.running = r.running /\ u.primaryOpen = r.primaryOpen
           /\ u.primary = r.primary
  <1> DEFINE u == DspInstall(r, bad)
  <1>1. Same(r, u)
    BY SoundFlags, DspInstallSame
  <1>2. /\ Lined(u) /\ Marked(u)
        /\ u.dsp = r.dsp /\ u.dspEnabled = r.dspEnabled
        /\ u.dspInstalled => r.dsp
    BY SoundFlags, DspInstallStacked DEF Sound, Stacked
  <1>3. Streams(u)
    BY <1>1, SameStreams DEF Sound
  <1> HIDE DEF u
  <1>4. ~u.dspInstalled => DspUsed(u)
    BY DEF DspUsed
  <1>5. r.dspEnabled => DspUsed(u)
    BY <1>2 DEF DspUsed
  <1> QED BY <1>1, <1>2, <1>3, <1>4, <1>5 DEF u, Same, Sound, Stacked

\* SetDriver, while nothing streams.
LEMMA DriverSetSound ==
    ASSUME NEW r, NEW card \in Cards, NEW bad, Sound(r), ~r.running
    PROVE  LET u == DriverSet(r, card, bad) IN
           /\ Sound(u) /\ ~u.running
           /\ u.primaryOpen => r.primaryOpen
  <1> DEFINE b == SetBottom(r, card, bad)
             c == ClosePrimary(b)
             v == [c EXCEPT !.primary = card, !.streamUp = FALSE, !.streamDn = FALSE]
  <1>1. Sound(b) /\ ~b.running
    BY SetBottomSound
  <1> HIDE DEF b
  <1>2. Sound(c) /\ ~c.running /\ ~c.primaryOpen
    BY <1>1, CloseSound
  <1> HIDE DEF c
  <1>3. /\ Known \subseteq DOMAIN v
        /\ v.bottom = c.bottom /\ v.top = c.top /\ v.running = c.running
        /\ v.bottomAsync = c.bottomAsync /\ v.topAsync = c.topAsync
        /\ v.streaming = c.streaming
        /\ v.primary = card /\ v.primaryOpen = c.primaryOpen
        /\ v.opened = c.opened
    BY <1>2, SoundFlags DEF Known
  <1>4. SameStack(c, v)
    BY <1>2, SoundFlags DEF Known, SameStack, SameMarks
  <1> HIDE DEF v
  <1>5. Flags(v) /\ Asked(v)
    BY <1>2, <1>3 DEF Sound, Streams, Flags, Asked
  <1>6. Ends(v) /\ Opens(v) /\ v.streaming = Heard(v)
    BY <1>2, <1>3 DEF Sound, Streams, Ends, Opens, Heard
  <1>7. Sound(v) /\ ~v.running /\ ~v.primaryOpen
    BY <1>2, <1>3, <1>4, <1>5, <1>6, SameStackStacked DEF Sound, Streams
  <1>8. DriverSet(r, card, bad) \in {r, v}
    BY DEF DriverSet, b, c, v
  <1> QED BY <1>7, <1>8

LEMMA PlacedSound ==
    ASSUME NEW r, NEW e, Sound(r)
    PROVE  LET u == Placed(r, e) IN
           /\ Sound(u)
           /\ u.running = r.running /\ u.primaryOpen = r.primaryOpen
           /\ u.primary = r.primary
  <1>1. ASSUME NEW x PROVE Alike(r, [r EXCEPT !.topLoop = x])
    <2> DEFINE u == [r EXCEPT !.topLoop = x]
    <2>1. Same(r, u)
      BY SoundFlags DEF Same, Known
    <2>2. SameStack(r, u)
      BY SoundFlags DEF SameStack, SameMarks, Known
    <2> QED BY <2>1, <2>2 DEF Alike
  <1>2. CASE r.top = e
    <2>1. Placed(r, e) = [r EXCEPT !.topLoop = (e = Loop)]
      BY <1>2 DEF Placed
    <2>2. Alike(r, Placed(r, e))
      BY <1>1, <2>1
    <2> QED BY <2>2, AlikeSound
  <1>3. CASE r.top # e
    BY <1>3 DEF Placed
  <1> QED BY <1>2, <1>3

LEMMA SecondarySetSound ==
    ASSUME NEW r, NEW e \in Secondaries \cup {None, Loop}, NEW bad, Sound(r),
           r.running => e # None
    PROVE  LET u == SecondarySet(r, e, bad) IN
           /\ Sound(u)
           /\ u.running = r.running /\ u.primaryOpen = r.primaryOpen
           /\ u.primary = r.primary
  <1> DEFINE t == SetTop(r, e, bad)
  <1>1. /\ Sound(t)
        /\ t.running = r.running /\ t.primaryOpen = r.primaryOpen
        /\ t.primary = r.primary
    BY SetTopSound
  <1>2. SecondarySet(r, e, bad) = Placed(t, e)
    BY DEF SecondarySet
  <1> HIDE DEF t
  <1> QED BY <1>1, <1>2, PlacedSound

LEMMA LoopbackSetSound ==
    ASSUME NEW r, NEW bad, Sound(r)
    PROVE  LET u == LoopbackSet(r, bad) IN
           /\ Sound(u)
           /\ u.running = r.running /\ u.primaryOpen = r.primaryOpen
           /\ u.primary = r.primary
  <1>1. None # Loop
    BY EndpointsAssumption
  <1> QED BY <1>1, SetTopSound, PlacedSound DEF LoopbackSet

\* Start, from the defaults to the pump.
LEMMA WithDefaultsSound ==
    ASSUME NEW r, NEW bad, Sound(r), ~r.running
    PROVE  LET u == WithDefaults(r, bad) IN
           /\ Sound(u) /\ ~u.running
           /\ u.primaryOpen => r.primaryOpen
  <1> DEFINE d == IF r.primary = None THEN DriverSet(r, DefaultCard, bad) ELSE r
  <1>1. Sound(d) /\ ~d.running /\ (d.primaryOpen => r.primaryOpen)
    BY CardsAssumption, DriverSetSound
  <1> HIDE DEF d
  <1>2. WithDefaults(r, bad) = WithLoop(d, bad)
    BY DEF WithDefaults, d
  <1>3. WithLoop(d, bad) \in {d, LoopbackSet(d, bad)}
    BY DEF WithLoop
  <1> QED BY <1>1, <1>2, <1>3, LoopbackSetSound

LEMMA RefitSound ==
    ASSUME NEW r, Sound(r), ~r.running
    PROVE  LET u == Refit(r) IN
           /\ Sound(u) /\ ~u.running
           /\ u.primaryOpen => r.primaryOpen
           /\ u.primary = r.primary
  <1>1. Refit(r) \in {r, ClosePrimary(r)}
    BY DEF Refit
  <1> QED BY <1>1, CloseSound

LEMMA WithDspSound ==
    ASSUME NEW r, Sound(r)
    PROVE  LET u == WithDsp(r) IN
           /\ Sound(u)
           /\ u.running = r.running /\ u.primaryOpen = r.primaryOpen
           /\ u.primary = r.primary
  <1>1. CASE WithDsp(r) = r
    BY <1>1
  <1>2. CASE WithDsp(r) = DspRemove(r)
    BY <1>2, DspRemoveSound
  <1>3. CASE r.dspEnabled /\ ~r.dspInstalled /\ WithDsp(r) = DspInstall(r, {})
    BY <1>3, DspInstallSound
  <1> QED BY <1>1, <1>2, <1>3 DEF WithDsp

LEMMA FailedSound ==
    ASSUME NEW r, NEW wasOpen \in BOOLEAN, Sound(r), ~r.running
    PROVE  LET u == Failed(r, wasOpen) IN
           /\ Sound(u) /\ ~u.running
           /\ u.primaryOpen => wasOpen
  BY CloseSound DEF Failed

LEMMA LaunchedSound ==
    ASSUME NEW r, NEW wasOpen \in BOOLEAN, Sound(r)
    PROVE  LET u == Launched(r, wasOpen) IN
           /\ Sound(u)
           /\ u.primaryOpen /\ ~u.running => wasOpen
  <1>1. ASSUME NEW x, NEW y
        PROVE  Alike(r, [r EXCEPT !.streamUp = x, !.streamDn = y])
    <2> DEFINE u == [r EXCEPT !.streamUp = x, !.streamDn = y]
    <2>1. Same(r, u)
      BY SoundFlags DEF Same, Known
    <2>2. SameStack(r, u)
      BY SoundFlags DEF SameStack, SameMarks, Known
    <2> QED BY <2>1, <2>2 DEF Alike
  <1>2. CASE r.running
    <2>1. Alike(r, Launched(r, wasOpen))
      BY <1>1, <1>2 DEF Launched
    <2> QED BY <1>2, <2>1, AlikeSound
  <1>3. CASE ~r.running
    <2>1. Launched(r, wasOpen) = Failed(r, wasOpen)
      BY <1>3 DEF Launched
    <2> QED BY <1>3, <2>1, FailedSound
  <1> QED BY <1>2, <1>3

LEMMA StartsFittedSound ==
    ASSUME NEW r, NEW bad, Sound(r), ~r.running, r.primary # None
    PROVE  LET u == StartsFitted(r, bad) IN
           /\ Sound(u)
           /\ u.primaryOpen /\ ~u.running => r.primaryOpen
  <1> DEFINE opens == ~r.muteSwap /\ ~r.primaryOpen
             o == IF opens THEN OpenPrimary(r) ELSE r
             d == WithDsp(o)
             p == Pumped(d, bad)
             u == StartsFitted(r, bad)
  <1>1. Sound(o) /\ o.primary = r.primary
    BY OpenSound
  <1>2. u \in {r, Fault(r, "PrimaryLost"), Launched(p, r.primaryOpen)}
    BY DEF StartsFitted
  <1> HIDE DEF o
  <1>3. Sound(d) /\ d.primary = r.primary
    BY <1>1, WithDspSound
  <1> HIDE DEF d
  <1>4. Sound(p)
    BY <1>3, PumpStartSound DEF Pumped
  <1> HIDE DEF p
  <1>5. r.primaryOpen \in BOOLEAN
    BY SoundFlags
  <1>6. CASE u = Launched(p, r.primaryOpen)
    BY <1>4, <1>5, <1>6, LaunchedSound
  <1>7. CASE u = Fault(r, "PrimaryLost")
    BY <1>7, FaultSound
  <1>8. CASE u = r
    BY <1>8
  <1> QED BY <1>2, <1>6, <1>7, <1>8

LEMMA StartsSound ==
    ASSUME NEW r, NEW bad, Sound(r), ~r.running
    PROVE  LET u == Starts(r, bad) IN
           /\ Sound(u)
           /\ u.primaryOpen /\ ~u.running => r.primaryOpen
  <1> DEFINE d == WithDefaults(r, bad)
             f == Refit(d)
  <1>1. Sound(d) /\ ~d.running /\ (d.primaryOpen => r.primaryOpen)
    BY WithDefaultsSound
  <1>2. Starts(r, bad) = StartsComplete(d, bad)
    BY DEF Starts
  <1> HIDE DEF d
  <1>3. /\ Sound(f) /\ ~f.running /\ f.primary = d.primary
        /\ f.primaryOpen => d.primaryOpen
    BY <1>1, RefitSound
  <1>4. \/ StartsComplete(d, bad) = d
        \/ d.primary # None /\ StartsComplete(d, bad) = StartsFitted(f, bad)
    BY DEF StartsComplete
  <1> HIDE DEF f
  <1>5. CASE StartsComplete(d, bad) = d
    BY <1>1, <1>2, <1>5
  <1>6. CASE d.primary # None /\ StartsComplete(d, bad) = StartsFitted(f, bad)
    BY <1>1, <1>2, <1>3, <1>6, StartsFittedSound
  <1> QED BY <1>4, <1>5, <1>6

LEMMA StopsSound ==
    ASSUME NEW r, Sound(r)
    PROVE  LET u == Stops(r) IN
           /\ Sound(u) /\ ~u.running
           /\ r.running => ~u.primaryOpen
           /\ ~r.running => u = r
  <1> DEFINE t == Stopped(r)
             v == [t EXCEPT !.streamUp = FALSE, !.streamDn = FALSE]
  <1>1. Sound(t) /\ ~t.running
    BY StoppedSound
  <1> HIDE DEF t
  <1>2. Same(t, v)
    BY <1>1, SoundFlags DEF Same, Known
  <1>3. SameStack(t, v)
    BY <1>1, SoundFlags DEF SameStack, SameMarks, Known
  <1> HIDE DEF v
  <1>4. Sound(v) /\ ~v.running
    BY <1>1, <1>2, <1>3, AlikeSound DEF Alike
  <1>5. Stops(r) = IF ~r.running THEN r ELSE ClosePrimary(v)
    BY DEF Stops, v, t
  <1>6. CASE r.running
    BY <1>4, <1>5, <1>6, CloseSound
  <1>7. CASE ~r.running
    BY <1>5, <1>7
  <1> QED BY <1>6, <1>7

\* What the client does when the stream has ended.
LEMMA ReactSound ==
    ASSUME NEW r, NEW how \in Reactions, NEW bad, Sound(r), ~r.running
    PROVE  Sound(React(r, how, bad))
  <1>1. CASE React(r, how, bad) = r
    BY <1>1
  <1>2. CASE React(r, how, bad) = SecondarySet(Stops(r), None, bad)
    <2>1. Sound(Stops(r)) /\ ~Stops(r).running
      BY StopsSound
    <2> QED BY <1>2, <2>1, SecondarySetSound
  <1>3. CASE React(r, how, bad) = Starts(r, bad)
    BY <1>3, StartsSound
  <1>4. CASE how \in Secondaries /\ React(r, how, bad) = Starts(SecondarySet(r, how, bad), bad)
    <2> DEFINE t == SecondarySet(r, how, bad)
    <2>1. Sound(t) /\ ~t.running
      BY <1>4, SecondarySetSound
    <2> HIDE DEF t
    <2>2. Sound(Starts(t, bad))
      BY <2>1, StartsSound
    <2> QED BY <1>4, <2>2 DEF t
  <1>5. React(r, how, bad) =
           IF how = "leave" THEN r
           ELSE IF how = "clear" THEN SecondarySet(Stops(r), None, bad)
           ELSE Starts(IF how = "restart" THEN r ELSE SecondarySet(r, how, bad), bad)
    BY DEF React
  <1>6. how \in {"leave", "restart", "clear"} \/ how \in Secondaries
    BY DEF Reactions
  <1>7. CASE how \in {"leave", "restart", "clear"}
    BY <1>1, <1>2, <1>3, <1>5, <1>7
  <1>8. CASE how \notin {"leave", "restart", "clear"}
    BY <1>4, <1>5, <1>6, <1>8
  <1> QED BY <1>7, <1>8

LEMMA PumpStoppedSound ==
    ASSUME NEW r, NEW offender, NEW how \in Reactions, NEW bad, Sound(r), ~r.running
    PROVE  LET u == PumpStopped(r, offender, how, bad) IN
           Sound(u) /\ (u.primaryOpen => u.running)
  <1> DEFINE c == IF offender = r.primary THEN ClosePrimary(r) ELSE r
             a == React(c, how, bad)
  <1>1. Sound(c) /\ ~c.running
    BY CloseSound
  <1>2. PumpStopped(r, offender, how, bad) = CloseUnused(a)
    BY DEF PumpStopped
  <1> HIDE DEF c
  <1>3. Sound(a)
    BY <1>1, ReactSound
  <1> HIDE DEF a
  <1>4. CASE ~a.running /\ a.primaryOpen
    BY <1>2, <1>3, <1>4, CloseSound DEF CloseUnused
  <1>5. CASE ~(~a.running /\ a.primaryOpen)
    BY <1>2, <1>3, <1>5 DEF CloseUnused
  <1> QED BY <1>4, <1>5

-----------------------------------------------------------------------------
(* Muting.                                                                 *)

\* The state between two calls of the manager.
Settled(r) == Sound(r) /\ (r.primaryOpen => r.running)

LEMMA HardMutesSettled ==
    ASSUME NEW r, NEW closes \in BOOLEAN, NEW bad, Settled(r)
    PROVE  Settled(HardMutes(r, closes, bad))
  <1> DEFINE b == SetBottom(r, Null, bad)
             v == [b EXCEPT !.muteSwap = TRUE, !.primaryOpen = FALSE,
                            !.opened = @ \ {r.primary}, !.streaming = @ \ {r.primary}]
             w == [b EXCEPT !.muteSwap = TRUE]
             u == HardMutes(r, closes, bad)
  <1> SUFFICES Settled(u)
    OBVIOUS
  <1>1. Null # None
    BY EndpointsAssumption
  <1>2. /\ Sound(b)
        /\ b.running = r.running /\ b.primaryOpen = r.primaryOpen
        /\ b.primary = r.primary
    BY <1>1, SetBottomSound DEF Settled
  <1>3. \/ u = r
        \/ u = Stops(r)
        \/ b.bottom = Null /\ u = v
        \/ u = w
    BY DEF HardMutes
  <1> HIDE DEF b, u
  <1>4. CASE b.bottom = Null /\ u = v
    <2>1. /\ Known \subseteq DOMAIN v
          /\ v.bottom = b.bottom /\ v.top = b.top /\ v.running = b.running
          /\ v.bottomAsync = b.bottomAsync /\ v.topAsync = b.topAsync
          /\ v.streaming = b.streaming \ {b.primary}
          /\ v.primary = b.primary /\ v.primaryOpen = FALSE
          /\ v.opened = b.opened \ {b.primary}
      BY <1>2, SoundFlags DEF Known
    <2>2. SameStack(b, v)
      BY <1>2, SoundFlags DEF SameStack, SameMarks, Known
    <2> HIDE DEF v
    <2>3. b.primary \notin Heard(b)
      BY <1>2, <1>4, EndpointsAssumption
         DEF Sound, Streams, Ends, Heard, HasClock, Secondaries
    <2>4. v.streaming = Heard(v)
      BY <1>2, <2>1, <2>3 DEF Sound, Streams, Heard
    <2>5. Flags(v) /\ Asked(v)
      BY <1>2, <2>1 DEF Sound, Streams, Flags, Asked
    <2>6. Ends(v) /\ Opens(v)
      BY <1>2, <2>1 DEF Sound, Streams, Ends, Opens
    <2>7. Stacked(v)
      BY <1>2, <2>2, SameStackStacked DEF Sound
    <2> QED BY <1>4, <2>1, <2>4, <2>5, <2>6, <2>7 DEF Settled, Sound, Streams
  <1>5. CASE u = w
    <2>1. Same(b, w)
      BY <1>2, SoundFlags DEF Same, Known
    <2>2. SameStack(b, w)
      BY <1>2, SoundFlags DEF SameStack, SameMarks, Known
    <2> QED BY <1>2, <1>5, <2>1, <2>2, AlikeSound DEF Alike, Settled
  <1>6. CASE u = Stops(r)
    BY <1>6, StopsSound, SoundFlags DEF Settled
  <1>7. CASE u = r
    BY <1>7
  <1> QED BY <1>3, <1>4, <1>5, <1>6, <1>7

LEMMA HardUnmutesSettled ==
    ASSUME NEW r, NEW bad, Settled(r)
    PROVE  Settled(HardUnmutes(r, bad))
  <1> DEFINE opens == r.running /\ ~r.primaryOpen
             o == IF opens THEN OpenPrimary(r) ELSE r
             b == SetBottom(o, r.primary, bad)
             v == [b EXCEPT !.muteSwap = FALSE]
             u == HardUnmutes(r, bad)
  <1>1. /\ Sound(o)
        /\ o.running = r.running /\ o.primary = r.primary
        /\ o.primaryOpen => o.running
    BY OpenSound DEF Settled
  <1>2. r.primary \in Cards \cup {None} /\ (r.running => r.primary # None)
    BY DEF Settled, Sound, Streams, Ends
  <1>3. u \in {r, Fault(r, "PrimaryLost"), b, v}
    BY DEF HardUnmutes
  <1> HIDE DEF o, u
  <1>4. /\ Sound(b)
        /\ b.primaryOpen => b.running
    BY <1>1, <1>2, SetBottomSound
  <1> HIDE DEF b
  <1>5. Settled(v)
    <2>1. Same(b, v)
      BY <1>4, SoundFlags DEF Same, Known
    <2>2. SameStack(b, v)
      BY <1>4, SoundFlags DEF SameStack, SameMarks, Known
    <2> QED BY <1>4, <2>1, <2>2, AlikeSound DEF Alike, Settled
  <1>6. Settled(Fault(r, "PrimaryLost"))
    BY FaultSound DEF Settled
  <1> HIDE DEF v
  <1> QED BY <1>3, <1>4, <1>5, <1>6 DEF Settled, u

LEMMA SoftMutesSettled ==
    ASSUME NEW r, NEW on \in BOOLEAN, NEW bad, Settled(r)
    PROVE  Settled(SoftMutes(r, on, bad))
  <1> DEFINE m == RemoveFilter(r, Mute)
             n == [m EXCEPT !.muteSoft = FALSE]
             off == IF r.muteSoft THEN n ELSE r
             a == AddFilter(off, Mute, Len(off.chain) + 1, bad)
             v == [a EXCEPT !.muteSoft = TRUE, !.muted = TRUE]
             w == [off EXCEPT !.muted = FALSE]
             u == SoftMutes(r, on, bad)
  <1>0. Dsp # Mute /\ Mute \in AnyFilter
    BY DEF Dsp, Mute, AnyFilter
  <1>1. \/ u \in {w, Fault(off, "MuteLost"), off}
        \/ Accepts(off, bad) /\ u = v
    BY DEF SoftMutes
  <1> HIDE DEF u
  <1>2. Settled(off) /\ Mute \notin ToSet(off.chain)
    <2>1. CASE r.muteSoft
      <3>1. Mute \in ToSet(r.chain)
        BY <2>1 DEF Settled, Sound, Stacked, Marked
      <3>2. /\ Lined(m)
            /\ ToSet(m.chain) = ToSet(r.chain) \ {Mute}
            /\ OtherMarks(r, m)
        BY <3>1, SoundFlags, RemoveFilterLined DEF Settled, Sound, Stacked
      <3>3. Same(r, m)
        BY SoundFlags, RemoveFilterSame DEF Settled
      <3> HIDE DEF m
      <3>4. /\ n.chain = m.chain /\ n.prepared = m.prepared /\ n.running = m.running
            /\ n.dsp = m.dsp /\ n.dspEnabled = m.dspEnabled
            /\ n.dspInstalled = m.dspInstalled /\ n.lossAtBottom = m.lossAtBottom
            /\ n.muteSoft = FALSE
        BY <3>3 DEF Same, Known
      <3>5. Same(r, n)
        BY <3>3 DEF Same, Known
      <3> HIDE DEF n
      <3>6. Lined(n)
        BY <3>2, <3>4 DEF Lined
      <3>7. Mute \notin ToSet(n.chain) /\ (Dsp \in ToSet(n.chain) <=> Dsp \in ToSet(r.chain))
        BY <1>0, <3>2, <3>4
      <3>8. Marked(n) /\ DspUsed(n)
        BY <3>2, <3>4, <3>7 DEF Marked, DspUsed, OtherMarks, Settled, Sound, Stacked
      <3>9. Streams(n)
        BY <3>5, SameStreams DEF Settled, Sound
      <3>10. Settled(n)
        BY <3>5, <3>6, <3>8, <3>9 DEF Settled, Sound, Stacked, Same
      <3> QED BY <2>1, <3>7, <3>10
    <2>2. CASE ~r.muteSoft
      BY <2>2 DEF Settled, Sound, Stacked, Marked
    <2> QED BY <2>1, <2>2 DEF Settled, Sound, Stacked, Marked
  <1> HIDE DEF off
  <1>3. Settled(w)
    <2>1. Same(off, w)
      BY <1>2, SoundFlags DEF Settled, Same, Known
    <2>2. SameStack(off, w)
      BY <1>2, SoundFlags DEF Settled, SameStack, SameMarks, Known
    <2> HIDE DEF w
    <2> QED BY <1>2, <2>1, <2>2, AlikeSound DEF Alike, Settled
  <1>4. Settled(Fault(off, "MuteLost"))
    BY <1>2, FaultSound DEF Settled
  <1>5. CASE Accepts(off, bad)
    <2>1. Lined(off) /\ Flags(off)
      BY <1>2, SoundFlags DEF Settled, Sound, Stacked
    <2>2. Len(off.chain) \in Nat /\ \A f \in ToSet(off.chain) : Len(off.chain) >= 1
      BY <2>1, ChainLength DEF Lined
    <2>3. /\ Len(off.chain) + 1 \in 1 .. Len(off.chain) + 1
          /\ Dsp \in ToSet(off.chain) => Len(off.chain) + 1 # 1
      BY <2>2
    <2>4. /\ Lined(a)
          /\ ToSet(a.chain) = ToSet(off.chain) \cup {Mute}
          /\ OtherMarks(off, a)
      BY <1>0, <1>2, <1>5, <2>1, <2>3, AddFilterLined
    <2>5. Same(off, a)
      BY <1>2, SoundFlags, AddFilterSame DEF Settled
    <2> HIDE DEF a
    <2>6. /\ v.chain = a.chain /\ v.prepared = a.prepared /\ v.running = a.running
          /\ v.dsp = a.dsp /\ v.dspEnabled = a.dspEnabled
          /\ v.dspInstalled = a.dspInstalled /\ v.lossAtBottom = a.lossAtBottom
          /\ v.muteSoft = TRUE
      BY <2>5 DEF Same, Known
    <2>7. Same(off, v)
      BY <2>5 DEF Same, Known
    <2> HIDE DEF v
    <2>8. Lined(v)
      BY <2>4, <2>6 DEF Lined
    <2>9. Mute \in ToSet(v.chain) /\ (Dsp \in ToSet(v.chain) <=> Dsp \in ToSet(off.chain))
      BY <1>0, <2>4, <2>6
    <2>10. Marked(v) /\ DspUsed(v)
      BY <1>2, <2>4, <2>6, <2>9 DEF Marked, DspUsed, OtherMarks, Settled, Sound, Stacked
    <2>11. Streams(v)
      BY <1>2, <2>7, SameStreams DEF Settled, Sound
    <2>12. Settled(v)
      BY <1>2, <2>7, <2>8, <2>10, <2>11 DEF Settled, Sound, Stacked, Same
    <2> QED BY <1>1, <1>2, <1>3, <1>4, <2>12 DEF u
  <1>6. CASE ~Accepts(off, bad)
    BY <1>1, <1>2, <1>3, <1>4, <1>6 DEF u
  <1> QED BY <1>5, <1>6

-----------------------------------------------------------------------------
(* The steps.                                                              *)

LEMMA DspGiven ==
    ASSUME NEW r, NEW d \in BOOLEAN, Streams(r), Lined(r), Marked(r),
           r.dspInstalled => d /\ r.dspEnabled
    PROVE  LET u == [r EXCEPT !.dsp = d] IN
           /\ Sound(u)
           /\ u.running = r.running /\ u.primaryOpen = r.primaryOpen
           /\ u.dspInstalled = r.dspInstalled /\ u.dspEnabled = r.dspEnabled
           /\ u.dsp = d
  <1> DEFINE u == [r EXCEPT !.dsp = d]
  <1>1. Same(r, u)
    BY DEF Streams, Flags, Same, Known
  <1>2. /\ u.chain = r.chain /\ u.prepared = r.prepared /\ u.running = r.running
        /\ u.dsp = d /\ u.dspEnabled = r.dspEnabled /\ u.dspInstalled = r.dspInstalled
        /\ u.muteSoft = r.muteSoft /\ u.lossAtBottom = r.lossAtBottom
    BY DEF Streams, Flags, Known
  <1> HIDE DEF u
  <1>3. Streams(u)
    BY <1>1, SameStreams
  <1>4. Lined(u)
    BY <1>2 DEF Lined
  <1>5. Marked(u) /\ DspUsed(u)
    BY <1>2 DEF Marked, DspUsed
  <1> QED BY <1>1, <1>2, <1>3, <1>4, <1>5 DEF Sound, Stacked, Same, u

LEMMA DspSwitched ==
    ASSUME NEW r, NEW on \in BOOLEAN, Streams(r), Lined(r), Marked(r),
           r.dspInstalled => r.dsp /\ on
    PROVE  LET u == [r EXCEPT !.dspEnabled = on] IN
           /\ Sound(u)
           /\ u.running = r.running /\ u.primaryOpen = r.primaryOpen
  <1> DEFINE u == [r EXCEPT !.dspEnabled = on]
  <1>1. Same(r, u)
    BY DEF Streams, Flags, Same, Known
  <1>2. /\ u.chain = r.chain /\ u.prepared = r.prepared /\ u.running = r.running
        /\ u.dsp = r.dsp /\ u.dspEnabled = on /\ u.dspInstalled = r.dspInstalled
        /\ u.muteSoft = r.muteSoft /\ u.lossAtBottom = r.lossAtBottom
    BY DEF Streams, Flags, Known
  <1> HIDE DEF u
  <1>3. Streams(u)
    BY <1>1, SameStreams
  <1>4. Lined(u)
    BY <1>2 DEF Lined
  <1>5. Marked(u) /\ DspUsed(u)
    BY <1>2 DEF Marked, DspUsed
  <1> QED BY <1>1, <1>2, <1>3, <1>4, <1>5 DEF Sound, Stacked, Same, u

LEMMA SetDspSettled ==
    ASSUME Settled(s), SetDsp
    PROVE  Settled(s')
  <1> PICK d \in BOOLEAN, bad \in SUBSET (BadCalls \cap {"prepare"}) :
         LET installs == IF s.dsp THEN s.dspInstalled
                         ELSE s.running /\ ~s.topLoop /\ ~s.muteSwap
             r == [DspRemove(s) EXCEPT !.dsp = d]
             i == DspInstall(r, bad)
         IN  s' = IF ~(installs /\ s.dspEnabled) THEN r
                  ELSE IF i.dspInstalled \/ i.fault # "none" THEN i
                  ELSE [i EXCEPT !.dsp = FALSE]
    BY DEF SetDsp
  <1> DEFINE o == DspRemove(s)
             r == [o EXCEPT !.dsp = d]
             i == DspInstall(r, bad)
             j == [i EXCEPT !.dsp = FALSE]
  <1>1. \/ s' = r
        \/ s.dspEnabled /\ s' = i
        \/ ~i.dspInstalled /\ s' = j
    OBVIOUS
  <1>2. /\ Sound(o) /\ ~o.dspInstalled /\ o.dspEnabled = s.dspEnabled
        /\ o.running = s.running /\ o.primaryOpen = s.primaryOpen
    BY DspRemoveSound DEF Settled
  <1> HIDE DEF o
  <1>3. /\ Sound(r) /\ ~r.dspInstalled /\ r.dspEnabled = s.dspEnabled
        /\ r.running = s.running /\ r.primaryOpen = s.primaryOpen
    BY <1>2, DspGiven DEF Sound, Stacked
  <1> HIDE DEF r
  <1>4. /\ Streams(i) /\ Lined(i) /\ Marked(i)
        /\ r.dspEnabled => Sound(i)
        /\ ~i.dspInstalled => Sound(i)
        /\ i.running = s.running /\ i.primaryOpen = s.primaryOpen
    BY <1>3, DspInstallSound
  <1> HIDE DEF i
  <1>5. ~i.dspInstalled => Sound(j) /\ j.running = s.running /\ j.primaryOpen = s.primaryOpen
    BY <1>4, DspGiven
  <1> HIDE DEF j
  <1> QED BY <1>1, <1>3, <1>4, <1>5 DEF Settled

LEMMA SetDspEnabledSettled ==
    ASSUME Settled(s), SetDspEnabled
    PROVE  Settled(s')
  <1> PICK on \in BOOLEAN, bad \in SUBSET (BadCalls \cap {"prepare"}) :
         LET needs == s.dsp /\ s.running /\ ~s.topLoop /\ ~s.muteSwap
             i == DspInstall(s, bad)
         IN  /\ s.dspEnabled # on
             /\ s' = IF ~on THEN [DspRemove(s) EXCEPT !.dspEnabled = FALSE]
                     ELSE IF ~needs THEN [s EXCEPT !.dspEnabled = TRUE]
                     ELSE IF i.dspInstalled THEN [i EXCEPT !.dspEnabled = TRUE]
                     ELSE i
    BY DEF SetDspEnabled
  <1> DEFINE o == DspRemove(s)
             off == [o EXCEPT !.dspEnabled = FALSE]
             i == DspInstall(s, bad)
             in == [i EXCEPT !.dspEnabled = TRUE]
             out == [s EXCEPT !.dspEnabled = TRUE]
  <1>1. /\ s.dspEnabled # on
        /\ \/ s' = off
           \/ on /\ s' = out
           \/ on /\ i.dspInstalled /\ s' = in
           \/ on /\ ~i.dspInstalled /\ s' = i
    OBVIOUS
  <1>2. /\ Sound(o) /\ ~o.dspInstalled
        /\ o.running = s.running /\ o.primaryOpen = s.primaryOpen
    BY DspRemoveSound DEF Settled
  <1> HIDE DEF o
  <1>3. Sound(off) /\ off.running = s.running /\ off.primaryOpen = s.primaryOpen
    BY <1>2, DspSwitched DEF Sound, Stacked
  <1> HIDE DEF off
  <1>4. on => ~s.dspInstalled
    BY <1>1 DEF Settled, Sound, Stacked, Marked, DspUsed
  <1>5. on => Sound(out) /\ out.running = s.running /\ out.primaryOpen = s.primaryOpen
    BY <1>4, DspSwitched DEF Settled, Sound, Stacked
  <1> HIDE DEF out
  <1>6. on => /\ Streams(i) /\ Lined(i) /\ Marked(i)
              /\ ~i.dspInstalled => Sound(i)
              /\ i.dsp = s.dsp
              /\ i.dspInstalled => s.dsp
              /\ i.running = s.running /\ i.primaryOpen = s.primaryOpen
    BY <1>4, DspInstallSound DEF Settled
  <1> HIDE DEF i
  <1>7. on => Sound(in) /\ in.running = s.running /\ in.primaryOpen = s.primaryOpen
    BY <1>6, DspSwitched
  <1> HIDE DEF in
  <1> QED BY <1>1, <1>3, <1>5, <1>6, <1>7 DEF Settled

\* A filter of the client, at a place that is not taken.
LEMMA AddFilterSettled ==
    ASSUME NEW r, NEW bad, Settled(r), NEW f \in Filters \ ToSet(r.chain),
           NEW k \in 1 .. Len(r.chain) + 1,
           Dsp \in ToSet(r.chain) => k # 1,
           Mute \in ToSet(r.chain) => k # Len(r.chain) + 1
    PROVE  Settled(AddFilter(r, f, k, bad))
  <1> DEFINE u == AddFilter(r, f, k, bad)
  <1>1. CASE ~Accepts(r, bad)
    BY <1>1 DEF AddFilter
  <1>2. CASE Accepts(r, bad)
    <2>1. f \in AnyFilter /\ f # Dsp /\ f # Mute
      BY FiltersAssumption DEF AnyFilter
    <2>2. /\ Lined(u)
          /\ ToSet(u.chain) = ToSet(r.chain) \cup {f}
          /\ OtherMarks(r, u)
      BY <1>2, <2>1, SoundFlags, AddFilterLined DEF Settled, Sound, Stacked
    <2>3. Same(r, u)
      BY SoundFlags, AddFilterSame DEF Settled
    <2> HIDE DEF u
    <2>4. /\ Dsp \in ToSet(u.chain) <=> Dsp \in ToSet(r.chain)
          /\ Mute \in ToSet(u.chain) <=> Mute \in ToSet(r.chain)
      BY <2>1, <2>2
    <2>5. Marked(u) /\ DspUsed(u)
      BY <2>2, <2>4 DEF Marked, DspUsed, OtherMarks, Settled, Sound, Stacked
    <2>6. Streams(u)
      BY <2>3, SameStreams DEF Settled, Sound
    <2>7. Settled(u)
      BY <2>2, <2>3, <2>5, <2>6 DEF Settled, Sound, Stacked, Same
    <2> QED BY <2>7 DEF u
  <1> QED BY <1>1, <1>2

LEMMA TakeFilterSettled ==
    ASSUME NEW r, Settled(r), NEW f \in Filters \cap ToSet(r.chain)
    PROVE  Settled(RemoveFilter(r, f))
  <1> DEFINE u == RemoveFilter(r, f)
  <1>1. f # Dsp /\ f # Mute
    BY FiltersAssumption
  <1>2. /\ Lined(u)
        /\ ToSet(u.chain) = ToSet(r.chain) \ {f}
        /\ OtherMarks(r, u)
    BY SoundFlags, RemoveFilterLined DEF Settled, Sound, Stacked
  <1>3. Same(r, u)
    BY SoundFlags, RemoveFilterSame DEF Settled
  <1> HIDE DEF u
  <1>4. /\ Dsp \in ToSet(u.chain) <=> Dsp \in ToSet(r.chain)
        /\ Mute \in ToSet(u.chain) <=> Mute \in ToSet(r.chain)
    BY <1>1, <1>2
  <1>5. Marked(u) /\ DspUsed(u)
    BY <1>2, <1>4 DEF Marked, DspUsed, OtherMarks, Settled, Sound, Stacked
  <1>6. Streams(u)
    BY <1>3, SameStreams DEF Settled, Sound
  <1>7. Settled(u)
    BY <1>2, <1>3, <1>5, <1>6 DEF Settled, Sound, Stacked, Same
  <1> QED BY <1>7 DEF u

-----------------------------------------------------------------------------
LEMMA InitSettled ==
    ASSUME Init
    PROVE  Settled(s)
  <1>1. DOMAIN PumpInit =
           {"bottom", "top", "running", "bottomAsync", "topAsync", "up", "down",
            "watchdog", "bottomStrikes", "topStrikes", "chain", "lossAtBottom",
            "streaming", "prepared", "fault"}
    BY DEF PumpInit
  <1>2. DOMAIN ManagerInit =
           {"primary", "primaryOpen", "opened", "muteSwap", "muteSoft", "muted",
            "topLoop", "dsp", "dspEnabled", "dspInstalled", "streamUp", "streamDn"}
    BY DEF ManagerInit
  <1>3. DOMAIN s = Fields /\ Known \subseteq DOMAIN s
    BY <1>1, <1>2 DEF Init, Fields, Known
  <1>4. /\ \A f \in DOMAIN PumpInit : s[f] = PumpInit[f]
        /\ \A f \in DOMAIN ManagerInit : f \notin DOMAIN PumpInit => s[f] = ManagerInit[f]
    BY DEF Init, Fields
  <1>5. /\ s.bottom = None /\ s.top = None /\ s.running = FALSE
        /\ s.bottomAsync = FALSE /\ s.topAsync = FALSE
        /\ s.chain = <<>> /\ s.lossAtBottom = TRUE
        /\ s.streaming = {} /\ s.prepared = {}
    BY <1>1, <1>4 DEF PumpInit
  <1>6. /\ s.primary = None /\ s.primaryOpen = FALSE /\ s.opened = {}
        /\ s.muteSoft = FALSE
        /\ s.dsp = FALSE /\ s.dspEnabled = TRUE /\ s.dspInstalled = FALSE
    BY <1>1, <1>2, <1>4 DEF ManagerInit
  <1>7. Flags(s) /\ Asked(s) /\ s.streaming = Heard(s)
    BY <1>3, <1>5, <1>6 DEF Flags, Asked, Heard
  <1>8. Ends(s) /\ Opens(s)
    BY <1>5, <1>6 DEF Ends, Opens
  <1>9. ToSet(<<>>) = {} /\ Chained(<<>>)
    BY DEF ToSet, Chained, Distinct
  <1>10. Lined(s)
    BY <1>5, <1>9 DEF Lined
  <1>11. Marked(s) /\ DspUsed(s)
    BY <1>5, <1>6, <1>9 DEF Marked, DspUsed
  <1> QED BY <1>5, <1>6, <1>7, <1>8, <1>10, <1>11 DEF Settled, Sound, Streams, Stacked

\* A pump that has stopped is settled when the client has been told.
LEMMA PumpStopsSettled ==
    ASSUME NEW r, NEW offender, NEW how \in Reactions, NEW bad,
           Sound(r), ~r.running, s' = PumpStopped(r, offender, how, bad)
    PROVE  Settled(s')
  BY PumpStoppedSound DEF Settled

LEMMA EndpointStopsSettled ==
    ASSUME Settled(s), EndpointStops
    PROVE  Settled(s')
  <1>1. PICK e \in s.streaming, how \in Reactions,
             bad \in SUBSET (BadCalls \cap {"open", "top"}) :
           s' = PumpStopped(Stopped([s EXCEPT !.streaming = @ \ {e}]), e, how, bad)
    BY DEF EndpointStops
  <1> DEFINE v == [s EXCEPT !.streaming = @ \ {e}]
             u == Stopped(v)
  <1>2. /\ Known \subseteq DOMAIN v
        /\ v.bottom = s.bottom /\ v.top = s.top /\ v.running = s.running
        /\ v.bottomAsync = s.bottomAsync /\ v.topAsync = s.topAsync
        /\ v.streaming = s.streaming \ {e}
        /\ v.primary = s.primary /\ v.primaryOpen = s.primaryOpen
        /\ v.opened = s.opened
    BY SoundFlags DEF Settled, Known
  <1>3. SameStack(s, v)
    BY SoundFlags DEF Settled, SameStack, SameMarks, Known
  <1> HIDE DEF v
  <1>4. Flags(v) /\ Asked(v)
    BY <1>2 DEF Settled, Sound, Streams, Flags, Asked
  <1>5. Ends(v) /\ Opens(v) /\ v.streaming \subseteq Heard(v)
    BY <1>2 DEF Settled, Sound, Streams, Ends, Opens, Heard
  <1>6. Stacked(v)
    BY <1>3, SameStackStacked DEF Settled, Sound
  <1>7. Sound(u) /\ ~u.running
    BY <1>4, <1>5, <1>6, StoppedStreams, StoppedStacked DEF Sound
  <1>8. s' = PumpStopped(u, e, how, bad)
    BY <1>1 DEF v
  <1> HIDE DEF u
  <1> QED BY <1>7, <1>8, PumpStopsSettled

LEMMA ExhaustsSettled ==
    ASSUME Settled(s), Exhausts
    PROVE  Settled(s')
  <1>1. PICK how \in Reactions : s' = PumpStopped(Stopped(s), s.top, how, {})
    BY DEF Exhausts
  <1>2. Sound(Stopped(s)) /\ ~Stopped(s).running
    BY StoppedSound DEF Settled
  <1> QED BY <1>1, <1>2, PumpStopsSettled

LEMMA PacketSettled ==
    ASSUME Settled(s), Packet
    PROVE  Settled(s')
  <1>1. s' = [s EXCEPT !.bottomStrikes = 0] \/ s' = [s EXCEPT !.topStrikes = 0]
    BY DEF Packet, Processed
  <1>2. Same(s, s')
    BY <1>1, SoundFlags DEF Settled, Same, Known
  <1>3. SameStack(s, s')
    BY <1>1, SoundFlags DEF Settled, SameStack, SameMarks, Known
  <1> QED BY <1>2, <1>3, AlikeSound DEF Alike, Settled

LEMMA WatchdogSettled ==
    ASSUME Settled(s), Watchdog
    PROVE  Settled(s')
  <1> DEFINE w == Struck(s)
  <1>1. \/ \E how \in Reactions : s' = PumpStopped(Stopped(w), Accused(s), how, {})
        \/ s' = w
    BY DEF Watchdog
  <1>2. Same(s, w)
    BY SoundFlags DEF Settled, Same, Known, Struck
  <1>3. SameStack(s, w)
    BY SoundFlags DEF Settled, SameStack, SameMarks, Known, Struck
  <1> HIDE DEF w
  <1>4. Settled(w)
    BY <1>2, <1>3, AlikeSound DEF Alike, Settled
  <1>5. Sound(Stopped(w)) /\ ~Stopped(w).running
    BY <1>4, StoppedSound DEF Settled
  <1> QED BY <1>1, <1>4, <1>5, PumpStopsSettled

\* The other calls of the client.
LEMMA AddTopSettled ==
    ASSUME Settled(s), AddTop
    PROVE  Settled(s')
  <1> DEFINE n == Len(s.chain)
             k == n + IF s.muteSoft THEN 0 ELSE 1
  <1>1. PICK f \in Filters \ ToSet(s.chain), bad \in SUBSET (BadCalls \cap {"prepare"}) :
           s' = AddFilter(s, f, k, bad)
    BY DEF AddTop
  <1>2. /\ n \in Nat
        /\ \A x \in ToSet(s.chain) : n >= 1
        /\ Dsp \in ToSet(s.chain) /\ Mute \in ToSet(s.chain) => n >= 2
    BY ChainLength DEF Settled, Sound, Stacked, Lined
  <1>3. s.muteSoft <=> Mute \in ToSet(s.chain)
    BY DEF Settled, Sound, Stacked, Marked
  <1> HIDE DEF n
  <1>4. /\ k \in 1 .. n + 1
        /\ Dsp \in ToSet(s.chain) => k # 1
        /\ Mute \in ToSet(s.chain) => k # n + 1
    <2>1. CASE s.muteSoft
      <3>1. k = n
        BY <1>2, <2>1
      <3> QED BY <1>2, <1>3, <2>1, <3>1
    <2>2. CASE ~s.muteSoft
      <3>1. k = n + 1
        BY <2>2
      <3> QED BY <1>2, <1>3, <2>2, <3>1
    <2> QED BY <2>1, <2>2
  <1> HIDE DEF k
  <1> QED BY <1>1, <1>4, AddFilterSettled DEF n

LEMMA AddBottomSettled ==
    ASSUME Settled(s), AddBottom
    PROVE  Settled(s')
  <1> DEFINE k == IF s.dspInstalled THEN 2 ELSE 1
  <1>1. PICK f \in Filters \ ToSet(s.chain), bad \in SUBSET (BadCalls \cap {"prepare"}) :
           s' = AddFilter(s, f, k, bad)
    BY DEF AddBottom
  <1>2. /\ Len(s.chain) \in Nat
        /\ \A x \in ToSet(s.chain) : Len(s.chain) >= 1
        /\ Dsp \in ToSet(s.chain) /\ Mute \in ToSet(s.chain) => Len(s.chain) >= 2
    BY ChainLength DEF Settled, Sound, Stacked, Lined
  <1>3. s.dspInstalled <=> Dsp \in ToSet(s.chain)
    BY DEF Settled, Sound, Stacked, Marked
  <1>4. /\ k \in 1 .. Len(s.chain) + 1
        /\ Dsp \in ToSet(s.chain) => k # 1
        /\ Mute \in ToSet(s.chain) => k # Len(s.chain) + 1
    BY <1>2, <1>3
  <1> HIDE DEF k
  <1> QED BY <1>1, <1>4, AddFilterSettled

LEMMA EndsSettled ==
    ASSUME Settled(s), SetDriver \/ SetSecondary \/ Loopback \/ Start \/ Stop
    PROVE  Settled(s')
  <1>1. CASE SetDriver
    <2>1. PICK c \in Cards, bad \in SUBSET (BadCalls \cap {"driver"}) : s' = DriverSet(s, c, bad)
      BY <1>1 DEF SetDriver
    <2>2. ~s.running
      BY <1>1 DEF SetDriver
    <2> QED BY <2>1, <2>2, DriverSetSound DEF Settled
  <1>2. CASE SetSecondary
    <2>1. PICK e \in Secondaries \cup {None},
               bad \in SUBSET (BadCalls \cap {"format", "top"}) :
             (e = None => ~s.running) /\ s' = SecondarySet(s, e, bad)
      BY <1>2 DEF SetSecondary
    <2>2. /\ e \in Secondaries \cup {None, Loop} /\ (s.running => e # None)
          /\ Sound(s) /\ (s.primaryOpen => s.running)
      BY <2>1 DEF Settled
    <2> DEFINE u == SecondarySet(s, e, bad)
    <2>3. Sound(u) /\ u.running = s.running /\ u.primaryOpen = s.primaryOpen
      BY <2>2, SecondarySetSound
    <2> HIDE DEF u
    <2>4. s' = u
      BY <2>1 DEF u
    <2> QED BY <2>2, <2>3, <2>4 DEF Settled
  <1>3. CASE Loopback
    BY <1>3, LoopbackSetSound DEF Loopback, Settled
  <1>4. CASE Start
    <2>1. PICK bad \in SUBSET (BadCalls \ {"progress"}) : s' = Starts(s, bad)
      BY <1>4 DEF Start
    <2>2. ~s.running
      BY <1>4 DEF Start
    <2> QED BY <2>1, <2>2, StartsSound DEF Settled
  <1>5. CASE Stop
    BY <1>5, StopsSound DEF Stop, Settled
  <1> QED BY <1>1, <1>2, <1>3, <1>4, <1>5

LEMMA MutesSettled ==
    ASSUME Settled(s), SetHardMute \/ SetMute
    PROVE  Settled(s')
  <1>1. CASE SetHardMute
    <2>1. PICK bad \in SUBSET (BadCalls \cap {"format", "bottom", "open"}) :
             \/ \E closes \in BOOLEAN : s' = HardMutes(s, closes, bad)
             \/ s' = HardUnmutes(s, bad)
      BY <1>1 DEF SetHardMute
    <2> QED BY <2>1, HardMutesSettled, HardUnmutesSettled
  <1>2. CASE SetMute
    BY <1>2, SoftMutesSettled DEF SetMute
  <1> QED BY <1>1, <1>2

LEMMA StepSettled ==
    ASSUME Settled(s), [Next]_s
    PROVE  Settled(s')
  <1>1. CASE TakeFilter
    BY <1>1, TakeFilterSettled DEF TakeFilter
  <1>2. CASE UNCHANGED s
    BY <1>2
  <1> QED BY <1>1, <1>2, EndsSettled, MutesSettled, SetDspSettled, SetDspEnabledSettled,
             AddTopSettled, AddBottomSettled, EndpointStopsSettled, ExhaustsSettled,
             PacketSettled, WatchdogSettled
          DEF Next

SoundInv == Settled(s)

\* Between two calls of the manager the sound system is settled: the pump has
\* started the ends it has, the card is open for it alone, and the filters stand
\* where the manager notes them.
THEOREM AlwaysSettled == Spec => []SoundInv
  <1>1. Init => SoundInv
    BY InitSettled DEF SoundInv
  <1>2. SoundInv /\ [Next]_s => SoundInv'
    BY StepSettled DEF SoundInv
  <1> QED BY <1>1, <1>2, PTL DEF Spec

\* Endpoints stream, and the card is open, for a running pump and for it alone:
\* no order of failures makes SetBottom, SetTop, Start or PumpStopped leave one
\* behind.
THEOREM StreamsAlwaysMatch == Spec => []StreamsMatch
  <1>1. SoundInv => StreamsMatch
    <2> SUFFICES ASSUME Settled(s)
                 PROVE  StreamsWhileRunning /\ CardOpenOnlyForStream
      BY DEF StreamsMatch, SoundInv
    <2>1. s.streaming = Heard(s) /\ Opens(s) /\ (s.primaryOpen => s.running)
      BY DEF Settled, Sound, Streams
    <2>2. StreamsWhileRunning
      BY <2>1 DEF StreamsWhileRunning, Heard
    <2>3. CardOpenOnlyForStream
      BY <2>1 DEF CardOpenOnlyForStream, Opens
    <2> QED BY <2>2, <2>3
  <1> QED BY <1>1, AlwaysSettled, PTL

\* A filter is prepared exactly while it is between the ends of a running pump,
\* and the two that the manager places itself are where they belong (AddBelow,
\* AddAbove, RemoveFilter, DspInstall, SetMute).
THEOREM FiltersAlwaysReady == Spec => []FiltersReady
  <1>1. SoundInv => FiltersReady
    <2> SUFFICES ASSUME Settled(s) PROVE FiltersReady
      BY DEF SoundInv
    <2> DEFINE q == s.chain
    <2>1. Lined(s) /\ Marked(s) /\ DspUsed(s)
      BY DEF Settled, Sound, Stacked
    <2>2. Chained(q) /\ q \in Seq(AnyFilter)
      BY <2>1 DEF Lined, Chained
    <2>3. Len(q) \in Nat /\ \A x : x \in ToSet(q) <=> \E i \in 1 .. Len(q) : q[i] = x
      BY <2>2, ElementsOf
    <2>4. q # <<>> <=> Len(q) >= 1
      BY <2>2
    <2>5. Dsp \in ToSet(q) <=> q # <<>> /\ Head(q) = Dsp
      BY <2>2, <2>3, <2>4 DEF Chained
    <2>6. Mute \in ToSet(q) <=> q # <<>> /\ Last(q) = Mute
      BY <2>2, <2>3, <2>4 DEF Chained, Last
    <2> QED BY <2>1, <2>5, <2>6 DEF FiltersReady, Lined, Marked, DspUsed
  <1> QED BY <1>1, AlwaysSettled, PTL
=============================================================================
