------------------------------ MODULE SoundPump ------------------------------
(***************************************************************************)
(* The control of SoundIoPump (libhfp/soundio-pump.cpp): which endpoints   *)
(* it streams between, which of them it has started, the stack of filters  *)
(* between them, and how it comes to a halt.                               *)
(*                                                                         *)
(* The pump runs no code of its own: its client and its endpoints call it, *)
(* and a call runs to its end with all the calls it makes.  The functions  *)
(* of the pump are operators from a state of the sound system to the next; *)
(* a client of the pump holds that state in a variable (SoundManager).     *)
(* bad is the set of calls out of the library that fail in a step.  What   *)
(* the pump does with samples is in SoundStream.                           *)
(***************************************************************************)
EXTENDS Naturals, Sequences, FiniteSets, SequencesExt

CONSTANTS
    Cards,      \* endpoints of the sound card drivers
    Clocked,    \* other endpoints that call the pump at a regular pace
    Sources,    \* endpoints without a clock that only play
    None        \* no endpoint, no filter

\* The endpoints that SoundIoManager makes itself.
Loop == "SoundIoLoop"
Null == "SoundIoNull"

Endpoints == Cards \cup Clocked \cup Sources \cup {Loop, Null}

ASSUME EndpointsAssumption ==
    /\ Cards \cap (Clocked \cup Sources) = {}
    /\ {Loop, Null, None} \cap (Cards \cup Clocked \cup Sources) = {}
    /\ None \notin {Loop, Null}

HasClock(e) == e \in Cards \cup Clocked
DoesSource(e) == e \in Endpoints
DoesSink(e) == e \in Endpoints \ Sources
DoesLoop(e) == e = Loop

\* The fields of the pump, and what its endpoints and filters know themselves.
PumpInit ==
    [bottom |-> None, top |-> None,
     running |-> FALSE,
     bottomAsync |-> FALSE,     \* m_bottom_async_started
     topAsync |-> FALSE,        \* m_top_async_started
     up |-> FALSE,              \* m_config.pump_up
     down |-> FALSE,            \* m_config.pump_down
     watchdog |-> FALSE,        \* m_watchdog exists
     bottomStrikes |-> 0,
     topStrikes |-> 0,
     chain |-> <<>>,            \* the filters, from the bottom
     lossAtBottom |-> TRUE,     \* m_bottom_loss_tolerate
     streaming |-> {},          \* endpoints whose SndIsAsyncStarted()
     prepared |-> {},           \* filters prepared and not cleaned up
     fault |-> "none"]

-----------------------------------------------------------------------------
(* Configuration.                                                          *)

\* The directions to pump in: those asked for, or all that are possible.
Directions(b, t, up, down) ==
    IF up \/ down
    THEN [up |-> up, down |-> down]
    ELSE [up |-> DoesSink(t) /\ DoesSource(b), down |-> DoesSource(t) /\ DoesSink(b)]

\* ConfigureEndpoints accepts the two endpoints.  An endpoint of the manager
\* takes any format.
Configures(b, t, up, down, bad) ==
    LET d == Directions(b, t, up, down) IN
    /\ b # None /\ t # None
    /\ d.up \/ d.down
    /\ d.down => DoesSink(b) /\ DoesSource(t)
    /\ d.up => DoesSource(b) /\ DoesSink(t)
    /\ HasClock(b) \/ HasClock(t)
    /\ ~(DoesLoop(b) /\ DoesLoop(t))
    /\ "format" \in bad => {b, t} \cap {Loop, Null} # {}

-----------------------------------------------------------------------------
(* Halting.                                                                *)

\* The endpoints that the pump has started.
Started(s) ==
    {e \in {s.bottom} : s.bottomAsync} \cup {e \in {s.top} : s.topAsync}

\* Mutant: the filters keep what they have prepared.
StopsUnclean(s) ==
    IF ~s.running THEN s
    ELSE [s EXCEPT !.watchdog = FALSE, !.streaming = @ \ Started(s),
                   !.bottomAsync = FALSE, !.topAsync = FALSE, !.running = FALSE]

\* __Stop, up to its callback.  An endpoint that is started is not asked
\* whether it exists.
Stopped(s) ==
    IF ~s.running THEN s
    ELSE [s EXCEPT !.watchdog = FALSE,
                   !.streaming = @ \ Started(s),
                   !.bottomAsync = FALSE, !.topAsync = FALSE,
                   !.prepared = @ \ ToSet(s.chain),
                   !.running = FALSE,
                   !.fault = IF None \in Started(s) THEN "NoEndpoint" ELSE @]

-----------------------------------------------------------------------------
(* Starting.                                                               *)

\* The endpoints of a running pump are started, the bottom one first.
StartsEndpoints(s, bad) ==
    IF HasClock(s.bottom) /\ "bottom" \in bad THEN Stopped(s)
    ELSE LET r == [s EXCEPT !.bottomAsync = HasClock(s.bottom),
                            !.streaming = @ \cup {e \in {s.bottom} : HasClock(e)}] IN
         IF HasClock(s.top) /\ "top" \in bad THEN Stopped(r)
         ELSE [r EXCEPT !.topAsync = HasClock(s.top),
                        !.streaming = @ \cup {e \in {s.top} : HasClock(e)}]

\* Start.  A filter that cannot be prepared, and those below it, are cleaned up.
PumpStart(s, bad) ==
    LET d == Directions(s.bottom, s.top, FALSE, FALSE) IN
    IF s.running \/ ~Configures(s.bottom, s.top, FALSE, FALSE, bad)
    THEN s
    ELSE IF "prepare" \in bad /\ s.chain # <<>>
    THEN [s EXCEPT !.up = d.up, !.down = d.down]
    ELSE StartsEndpoints([s EXCEPT !.up = d.up, !.down = d.down,
                                   !.watchdog = TRUE,
                                   !.prepared = @ \cup ToSet(s.chain),
                                   !.running = TRUE,
                                   !.bottomStrikes = 0, !.topStrikes = 0], bad)

-----------------------------------------------------------------------------
(* Endpoints.                                                              *)

\* SetBottom.  While the pump runs the new endpoint is started before the old
\* one is stopped; when it cannot be, the old one stays.
SetBottom(s, e, bad) ==
    IF e = s.bottom THEN s
    ELSE IF ~s.running \/ e = None
    THEN Stopped([s EXCEPT !.bottom = e])
    ELSE IF \/ ~Configures(e, s.top, s.up, s.down, bad)
            \/ HasClock(e) /\ "bottom" \in bad
    THEN s
    ELSE [s EXCEPT !.bottom = e, !.bottomAsync = HasClock(e),
                   !.streaming = (@ \ {x \in {s.bottom} : s.bottomAsync})
                                  \cup {x \in {e} : HasClock(x)},
                   !.bottomStrikes = 0]

\* Mutant: the old endpoint is left started.
SetTopKeepsOld(s, e, bad) ==
    IF e = s.top THEN s
    ELSE IF ~s.running \/ e = None
    THEN Stopped([s EXCEPT !.top = e])
    ELSE IF \/ ~Configures(e, e, s.up, s.down, bad)
            \/ HasClock(e) /\ "top" \in bad
    THEN s
    ELSE [s EXCEPT !.top = e, !.topAsync = HasClock(e),
                   !.streaming = @ \cup {x \in {e} : HasClock(x)},
                   !.topStrikes = 0]

\* SetTop.  The new endpoint is configured against itself: m_top is it already.
SetTop(s, e, bad) ==
    IF e = s.top THEN s
    ELSE IF ~s.running \/ e = None
    THEN Stopped([s EXCEPT !.top = e])
    ELSE IF \/ ~Configures(e, e, s.up, s.down, bad)
            \/ HasClock(e) /\ "top" \in bad
    THEN s
    ELSE [s EXCEPT !.top = e, !.topAsync = HasClock(e),
                   !.streaming = (@ \ {x \in {s.top} : s.topAsync})
                                  \cup {x \in {e} : HasClock(x)},
                   !.topStrikes = 0]

-----------------------------------------------------------------------------
(* Filters.                                                                *)

\* The filter is accepted: it is prepared at once when the pump runs.
Accepts(s, bad) == ~(s.running /\ "prepare" \in bad)

\* AddBelow and AddAbove: f is the i-th filter from the bottom.
AddFilter(s, f, i, bad) ==
    IF ~Accepts(s, bad) THEN s
    ELSE [s EXCEPT !.chain = InsertAt(@, i, f),
                   !.prepared = IF s.running THEN @ \cup {f} ELSE @]

\* f leaves the list it is on.
Unlinked(q, f) == RemoveAt(q, CHOOSE i \in 1 .. Len(q) : q[i] = f)

\* Mutant: a filter removed from a running pump is not cleaned up.
RemovesUnclean(s, f) == [s EXCEPT !.chain = Unlinked(@, f)]

RemoveFilter(s, f) ==
    [s EXCEPT !.chain = Unlinked(@, f),
              !.prepared = IF s.running THEN @ \ {f} ELSE @]

-----------------------------------------------------------------------------
(* The watchdog.                                                           *)

\* m_config.watchdog_strikes
MaxStrikes == 2

\* What Watchdog finds wrong: it adds a strike to every started endpoint, which
\* loses its strikes whenever it calls the pump, and looks at their progress.
\* It takes a failure of the top endpoint for one of the bottom endpoint when
\* that is started, and for nobody's otherwise.
Struck(s) ==
    [s EXCEPT !.bottomStrikes = IF s.bottomAsync THEN @ + 1 ELSE @,
              !.topStrikes = IF s.topAsync /\ ~(s.bottomAsync /\ s.bottomStrikes >= MaxStrikes)
                             THEN @ + 1 ELSE @]

Silent(s) ==
    \/ s.bottomAsync /\ s.bottomStrikes > MaxStrikes
    \/ s.topAsync /\ s.topStrikes > MaxStrikes

Accused(s) == IF s.bottomAsync THEN s.bottom ELSE None

\* An endpoint has called the pump (AsyncProcess).
Processed(s, e) ==
    IF e = s.bottom THEN [s EXCEPT !.bottomStrikes = 0] ELSE [s EXCEPT !.topStrikes = 0]
=============================================================================
