---------------------------- MODULE SoundManager ----------------------------
(***************************************************************************)
(* SoundIoManager (libhfp/soundio-manager.cpp) over its pump: the sound    *)
(* card driver at the bottom, opened and closed as streaming needs it, the *)
(* secondary endpoint of the client or a loopback at the top, the two ways *)
(* to mute, and the signal processing filter that sits on the card.        *)
(*                                                                         *)
(* An action is a call of the client, or of an endpoint or timer into the  *)
(* pump, with all it leads to: when the pump halts the manager is called,  *)
(* which calls its client, which may start the stream again at once.       *)
(***************************************************************************)
EXTENDS SoundPump

CONSTANTS
    DefaultCard,    \* the driver used when none is named
    Filters,        \* the filters of the client
    BadCalls        \* the calls that may fail: "open", "driver", "setformat",
                    \* "format", "bottom", "top", "prepare", "progress"

ASSUME CardsAssumption == DefaultCard \in Cards
\* The two filters that the manager places itself.
Dsp == "Dsp"
Mute == "Mute"

ASSUME FiltersAssumption == Filters \cap {Dsp, Mute} = {}

VARIABLE s

Secondaries == Clocked \cup Sources

ManagerInit ==
    [primary |-> None,
     primaryOpen |-> FALSE,
     opened |-> {},                 \* the cards that are open
     muteSwap |-> FALSE,
     muteSoft |-> FALSE,            \* m_mute_soft exists
     muted |-> FALSE,               \* m_mute_soft_up or m_mute_soft_dn
     topLoop |-> FALSE,
     dsp |-> FALSE, dspEnabled |-> TRUE, dspInstalled |-> FALSE,
     streamUp |-> FALSE, streamDn |-> FALSE]

Fields == DOMAIN PumpInit \cup DOMAIN ManagerInit

Init == s = [f \in Fields |-> IF f \in DOMAIN PumpInit THEN PumpInit[f] ELSE ManagerInit[f]]

TypeOK ==
    /\ DOMAIN s = Fields
    /\ {s.bottom, s.top} \subseteq Endpoints \cup {None}
    /\ s.primary \in Cards \cup {None}
    /\ s.streaming \subseteq Endpoints
    /\ ToSet(s.chain) \cup s.prepared \subseteq Filters \cup {Dsp, Mute}
    /\ s.opened \subseteq Cards
    /\ {s.bottomStrikes, s.topStrikes} \subseteq 0 .. MaxStrikes + 1
    /\ s.fault \in {"none", "NoEndpoint", "NoDsp", "PrimaryLost", "MuteLost"}

Fault(r, name) == [r EXCEPT !.fault = name]

-----------------------------------------------------------------------------
(* The signal processing filter.                                           *)

DspInstall(r, bad) ==
    IF ~r.dsp THEN Fault(r, "NoDsp")
    ELSE IF ~Accepts(r, bad) THEN r
    ELSE [AddFilter(r, Dsp, 1, bad) EXCEPT !.dspInstalled = TRUE, !.lossAtBottom = FALSE]

\* Mutant: the pump keeps the loss mode of the filter.
DspRemoveKeepsMode(r) ==
    IF ~r.dspInstalled THEN r
    ELSE [RemoveFilter(r, Dsp) EXCEPT !.dspInstalled = FALSE]

DspRemove(r) ==
    IF ~r.dspInstalled THEN r
    ELSE [RemoveFilter(r, Dsp) EXCEPT !.dspInstalled = FALSE, !.lossAtBottom = TRUE]

-----------------------------------------------------------------------------
(* The card.                                                               *)

OpenPrimary(r) == [r EXCEPT !.primaryOpen = TRUE, !.opened = @ \cup {r.primary}]

ClosePrimary(r) ==
    DspRemove(IF ~r.primaryOpen THEN r
              ELSE [r EXCEPT !.primaryOpen = FALSE,
                             !.opened = @ \ {r.primary},
                             !.streaming = @ \ {r.primary},
                             !.streamUp = FALSE, !.streamDn = FALSE])

\* SetDriver.  The new driver takes the place of the null endpoint of a hard
\* mute as well.
DriverSet(r, card, bad) ==
    IF "driver" \in bad THEN r
    ELSE [ClosePrimary(SetBottom(r, card, bad)) EXCEPT
             !.primary = card, !.streamUp = FALSE, !.streamDn = FALSE]

-----------------------------------------------------------------------------
(* The secondary endpoint.                                                 *)

\* The pump has accepted e, or has kept the endpoint it had.
Placed(r, e) == IF r.top = e THEN [r EXCEPT !.topLoop = (e = Loop)] ELSE r

SecondarySet(r, e, bad) == Placed(SetTop(r, e, bad), e)

LoopbackSet(r, bad) ==
    IF r.topLoop \/ (r.running /\ r.muteSwap) THEN r
    ELSE Placed(SetTop(r, Loop, bad), Loop)

-----------------------------------------------------------------------------
(* Starting and stopping.                                                  *)

\* The driver and the secondary endpoint that Start falls back on.
WithLoop(r, bad) ==
    IF r.primary # None /\ r.top = None THEN LoopbackSet(r, bad) ELSE r

WithDefaults(r, bad) ==
    WithLoop(IF r.primary = None THEN DriverSet(r, DefaultCard, bad) ELSE r, bad)

\* The card is open for other directions than those of the secondary endpoint.
Unfit(r) ==
    r.primaryOpen /\ (r.streamUp # DoesSink(r.top) \/ r.streamDn # DoesSource(r.top))

Refit(r) == IF Unfit(r) THEN ClosePrimary(r) ELSE r

WithDsp(r) ==
    IF ~r.dsp THEN r
    ELSE IF r.topLoop \/ r.muteSwap THEN DspRemove(r)
    ELSE IF r.dspEnabled /\ ~r.dspInstalled THEN DspInstall(r, {})
    ELSE r

\* Mutant: a stream that cannot be started leaves the card open.
FailedOpen(r, wasOpen) == r

\* A stream that cannot be started leaves the card as it was.
Failed(r, wasOpen) ==
    IF ~wasOpen /\ r.primaryOpen THEN ClosePrimary(r) ELSE r

Launched(r, wasOpen) ==
    IF r.running
    THEN [r EXCEPT !.streamUp = DoesSink(r.top), !.streamDn = DoesSource(r.top)]
    ELSE Failed(r, wasOpen)

Pumped(r, bad) == IF "setformat" \in bad THEN r ELSE PumpStart(r, bad)

StartsFitted(r, bad) ==
    LET opens == ~r.muteSwap /\ ~r.primaryOpen IN
    IF opens /\ "open" \in bad THEN r
    ELSE IF r.muteSwap /\ r.bottom = r.primary THEN Fault(r, "PrimaryLost")
    ELSE Launched(Pumped(WithDsp(IF opens THEN OpenPrimary(r) ELSE r), bad), r.primaryOpen)

StartsComplete(r, bad) ==
    IF r.primary = None \/ r.top = None \/ (r.topLoop /\ r.muteSwap) THEN r
    ELSE StartsFitted(Refit(r), bad)

\* Start.
Starts(r, bad) == StartsComplete(WithDefaults(r, bad), bad)

\* Mutant: the card stays open when the stream is stopped.
StopsOpen(r) ==
    IF ~r.running THEN r
    ELSE DspRemove([Stopped(r) EXCEPT !.streamUp = FALSE, !.streamDn = FALSE])

Stops(r) ==
    IF ~r.running THEN r
    ELSE ClosePrimary([Stopped(r) EXCEPT !.streamUp = FALSE, !.streamDn = FALSE])

\* What a client does in cb_NotifyAsyncState: nothing, or start again, or stop
\* and clear the secondary endpoint as hfpd does, or go on with another one.
Reactions == {"leave", "restart", "clear"} \cup Secondaries

React(r, how, bad) ==
    IF how = "leave" THEN r
    ELSE IF how = "clear" THEN SecondarySet(Stops(r), None, bad)
    ELSE Starts(IF how = "restart" THEN r ELSE SecondarySet(r, how, bad), bad)

\* Mutant: the card is only closed when it was the offender.
PumpStoppedLeavesCard(r, offender, how, bad) ==
    React(IF offender = r.primary THEN ClosePrimary(r) ELSE r, how, bad)

\* PumpStopped.
CloseUnused(r) == IF ~r.running /\ r.primaryOpen THEN ClosePrimary(r) ELSE r

PumpStopped(r, offender, how, bad) ==
    CloseUnused(React(IF offender = r.primary THEN ClosePrimary(r) ELSE r, how, bad))

-----------------------------------------------------------------------------
(* Muting.                                                                 *)

\* SetHardMute(true): the null endpoint takes the place of the card.  It is
\* refused only when the secondary endpoint has no clock; the stream ends then.
HardMutes(r, closes, bad) ==
    IF r.muteSwap \/ (r.running /\ r.topLoop) THEN r
    ELSE LET b == SetBottom(r, Null, bad) IN
         IF b.bottom # Null THEN Stops(r)
         ELSE IF closes /\ b.primaryOpen
         THEN [b EXCEPT !.muteSwap = TRUE, !.primaryOpen = FALSE,
                        !.opened = @ \ {r.primary}, !.streaming = @ \ {r.primary}]
         ELSE [b EXCEPT !.muteSwap = TRUE]

\* SetHardMute(false).
HardUnmutes(r, bad) ==
    LET opens == r.running /\ ~r.primaryOpen
        b == SetBottom(IF opens THEN OpenPrimary(r) ELSE r, r.primary, bad)
    IN  IF ~r.muteSwap \/ (opens /\ "open" \in bad) THEN r
        ELSE IF r.bottom = r.primary THEN Fault(r, "PrimaryLost")
        ELSE IF b.bottom # r.primary THEN b
        ELSE [b EXCEPT !.muteSwap = FALSE]

\* SetMute: the old filter is removed before the new one is accepted.
SoftMutes(r, on, bad) ==
    LET off == IF r.muteSoft THEN [RemoveFilter(r, Mute) EXCEPT !.muteSoft = FALSE] ELSE r
    IN  IF ~on THEN [off EXCEPT !.muted = FALSE]
        ELSE IF Accepts(off, bad)
        THEN [AddFilter(off, Mute, Len(off.chain) + 1, bad) EXCEPT
                 !.muteSoft = TRUE, !.muted = TRUE]
        ELSE IF r.muted THEN Fault(off, "MuteLost") ELSE off

-----------------------------------------------------------------------------
(* Actions: the calls of a client.                                         *)

Ok == s.fault = "none"

SetDriver == Ok /\ ~s.running /\ \E c \in Cards, bad \in SUBSET (BadCalls \cap {"driver"}) :
    s' = DriverSet(s, c, bad)

\* A client clears the secondary endpoint only when the stream has ended.
SetSecondary == Ok /\ \E e \in Secondaries \cup {None}, bad \in SUBSET (BadCalls \cap {"format", "top"}) :
    /\ e = None => ~s.running
    /\ s' = SecondarySet(s, e, bad)

Loopback == Ok /\ s' = LoopbackSet(s, {})

SetHardMute == Ok /\ \E bad \in SUBSET (BadCalls \cap {"format", "bottom", "open"}) :
    \/ \E closes \in BOOLEAN : s' = HardMutes(s, closes, bad)
    \/ s' = HardUnmutes(s, bad)

\* Muting another direction is muting anew.
SetMute == Ok /\ \E on \in BOOLEAN, bad \in SUBSET (BadCalls \cap {"prepare"}) :
    s' = SoftMutes(s, on, bad)

\* SetDsp.  Without a filter before, one is installed in a running stream.
SetDsp == Ok /\ \E d \in BOOLEAN, bad \in SUBSET (BadCalls \cap {"prepare"}) :
    LET installs == IF s.dsp THEN s.dspInstalled
                    ELSE s.running /\ ~s.topLoop /\ ~s.muteSwap
        r == [DspRemove(s) EXCEPT !.dsp = d]
        i == DspInstall(r, bad)
    IN  s' = IF ~(installs /\ s.dspEnabled) THEN r
             ELSE IF i.dspInstalled \/ i.fault # "none" THEN i
             ELSE [i EXCEPT !.dsp = FALSE]

SetDspEnabled == Ok /\ \E on \in BOOLEAN, bad \in SUBSET (BadCalls \cap {"prepare"}) :
    LET needs == s.dsp /\ s.running /\ ~s.topLoop /\ ~s.muteSwap
        i == DspInstall(s, bad)
    IN  /\ s.dspEnabled # on
        /\ s' = IF ~on THEN [DspRemove(s) EXCEPT !.dspEnabled = FALSE]
                ELSE IF ~needs THEN [s EXCEPT !.dspEnabled = TRUE]
                ELSE IF i.dspInstalled THEN [i EXCEPT !.dspEnabled = TRUE]
                ELSE i

Start == Ok /\ ~s.running /\ \E bad \in SUBSET (BadCalls \ {"progress"}) :
    s' = Starts(s, bad)

Stop == Ok /\ s.running /\ s' = Stops(s)

\* AddBelow and AddAbove without a target: below the mute filter, above the
\* signal processing filter.
AddTop == Ok /\ \E f \in Filters \ ToSet(s.chain), bad \in SUBSET (BadCalls \cap {"prepare"}) :
    s' = AddFilter(s, f, Len(s.chain) + IF s.muteSoft THEN 0 ELSE 1, bad)

AddBottom == Ok /\ \E f \in Filters \ ToSet(s.chain), bad \in SUBSET (BadCalls \cap {"prepare"}) :
    s' = AddFilter(s, f, IF s.dspInstalled THEN 2 ELSE 1, bad)

TakeFilter == Ok /\ \E f \in Filters \cap ToSet(s.chain) :
    s' = RemoveFilter(s, f)

-----------------------------------------------------------------------------
(* Actions: the endpoints and the timer of the pump.                       *)

\* A clocked endpoint has failed, or has lost its connection (AsyncStopped).
EndpointStops == Ok /\ s.running /\ \E e \in s.streaming, how \in Reactions, bad \in SUBSET (BadCalls \cap {"open", "top"}) :
    s' = PumpStopped(Stopped([s EXCEPT !.streaming = @ \ {e}]), e, how, bad)

\* A file has been played to its end: AsyncProcess halts the pump.
Exhausts == Ok /\ s.running /\ s.top \in Sources /\ s.streaming # {} /\ \E how \in Reactions :
    s' = PumpStopped(Stopped(s), s.top, how, {})

\* A clocked endpoint has a packet.
Packet == Ok /\ s.running /\ \E e \in s.streaming :
    /\ s' = Processed(s, e)

Watchdog == Ok /\ s.watchdog /\ \E how \in Reactions, bad \in SUBSET (BadCalls \cap {"progress"}) :
    LET w == Struck(s) IN
    s' = IF Silent(w) \/ "progress" \in bad
         THEN PumpStopped(Stopped(w), Accused(s), how, {})
         ELSE w

Next ==
    \/ SetDriver \/ SetSecondary \/ Loopback \/ SetHardMute \/ SetMute
    \/ SetDsp \/ SetDspEnabled \/ Start \/ Stop
    \/ AddTop \/ AddBottom \/ TakeFilter
    \/ EndpointStops \/ Exhausts \/ Packet \/ Watchdog

Spec == Init /\ [][Next]_s

-----------------------------------------------------------------------------
(* Properties.                                                             *)

\* The endpoints that stream are those that the pump has at its ends, when it
\* runs, and none otherwise, whatever fails while it starts, stops, or has an
\* end replaced (SetBottom, SetTop, PumpStart, __Stop).
StreamsWhileRunning ==
    Ok => s.streaming = IF s.running THEN {e \in {s.bottom, s.top} : HasClock(e)} ELSE {}

\* The card is open only while there is a stream: no failure of an endpoint, of
\* a start or of a mute leaves it open for nobody (SoundIoManager).
CardOpenOnlyForStream ==
    Ok => /\ s.opened = {c \in {s.primary} : s.primaryOpen}
          /\ s.primaryOpen => s.running

\* A filter is prepared exactly while it is between the ends of a running pump,
\* so each FltPrepare has its FltCleanup.  The signal processing filter is next
\* to the card, the mute filter at the top, and the pump pads and drops only
\* above the former (SetDsp).
FiltersReady ==
    Ok => /\ s.prepared = IF s.running THEN ToSet(s.chain) ELSE {}
          /\ s.dspInstalled <=> s.chain # <<>> /\ Head(s.chain) = Dsp
          /\ s.muteSoft <=> s.chain # <<>> /\ Last(s.chain) = Mute
          /\ s.lossAtBottom <=> ~s.dspInstalled
          /\ s.dspInstalled => s.dsp /\ s.dspEnabled

\* Endpoints stream, and the card is open, for a running pump and for it alone.
StreamsMatch == StreamsWhileRunning /\ CardOpenOnlyForStream
=============================================================================
