----------------------------- MODULE SoundStream -----------------------------
(***************************************************************************)
(* The samples in SoundIoPump (libhfp/soundio-pump.cpp): how much it moves *)
(* between its two endpoints, each time that one of them calls.            *)
(*                                                                         *)
(* A sample is nothing but one of a number: the queues of the endpoints    *)
(* are counted.  A card plays and records at its own pace, and calls the   *)
(* pump some time later; an endpoint without a clock (a file, a memory     *)
(* buffer, the loopback, the null endpoint) waits for the pump.  The pump  *)
(* keeps the output of a card between two levels, discards and pads where  *)
(* it must, and halts when an endpoint that can be exhausted is.           *)
(***************************************************************************)
EXTENDS Integers, Sequences, FiniteSets, FiniteSetsExt

CONSTANTS
    Setups,     \* pairs of endpoints, with the settings of the pump, and the
                \* packets (late) that a card moves before its call is delivered
    SampNums,   \* how many values a sio_sampnum_t has
    MaxLead     \* samples by which one card may be ahead of the other

\* SoundIoProps, SoundIoFormat, and the settings of the pump.
Endpoints ==
    [kind : {"card", "voice", "file", "membuf", "loop", "null"},
     packet : Nat \ {0}, size : Nat, content : Nat,
     source : BOOLEAN, sink : BOOLEAN, tolerant : BOOLEAN]

Pairs == [bottom : Endpoints, top : Endpoints, outMin : Nat, window : Nat, late : Nat]

ASSUME StreamAssumption ==
    /\ SampNums \in Nat \ {0}
    /\ MaxLead \in Nat
    /\ Setups \subseteq Pairs

VARIABLES
    setup,      \* the endpoints, as they were when the pump was started
    config,     \* m_config
    running,
    qs,         \* m_bottom_qs, m_top_qs: what the pump believes of the queues
    exhaust,    \* m_bottom_out_exhaust, m_top_out_exhaust
    dev,        \* the queues as they are, and an underrun not yet forgotten
    since,      \* what a card has moved since its last call
    lead,       \* the time of the bottom card less that of the top card
    called,     \* the cards that have called since the start
    lost,       \* samples were lost or made up in the last call
    strayed,    \* since the start the cards have been too far apart
    cut         \* the pump halted before the last samples were played

streamVars == <<setup, config, running, qs, exhaust, dev, since, lead, called, lost, strayed, cut>>

Sides == {"bottom", "top"}
Other(e) == IF e = "bottom" THEN "top" ELSE "bottom"

Least(n, m) == IF n < m THEN n ELSE m
AtLeast(n, low) == IF n < low THEN low ELSE n
Excess(n, m) == IF n > m THEN n - m ELSE 0

-----------------------------------------------------------------------------
(* The endpoints.  p is a pair of them; the field size is the output      *)
(* buffer of a card and the capacity of a memory buffer, and content is    *)
(* what there is to play.                                                  *)

BytesPerRecord == 2

Clocked(ep) == ep.kind \in {"card", "voice"}

\* SndGetProps.  A memory buffer gives its size in bytes.
OutbufSize(ep) ==
    CASE Clocked(ep) -> ep.size
      [] ep.kind = "membuf" /\ ep.sink -> BytesPerRecord * ep.size
      [] OTHER -> 0

HasClock(e) == Clocked(setup[e])
DoesLoop(e) == setup[e].kind = "loop"
RemoveOnExhaust(e) == setup[e].kind \in {"file", "membuf"}

\* The voice connection never reports an underrun of its output.
ReportsUnderrun(e) == setup[e].kind = "card"

\* Endpoints that count their output.
CountsOutput(e) == HasClock(e) \/ setup[e].kind = "membuf"

\* SndGetQueueState
Report(e) ==
    [in |-> dev[e].in,
     out |-> IF CountsOutput(e) THEN dev[e].out ELSE 0,
     under |-> ReportsUnderrun(e) /\ dev[e].under]

\* How many of n samples SndGetOBuf finds place for.
Room(e, n) ==
    CASE setup[e].kind = "null" -> 0
      [] setup[e].kind = "membuf" -> Least(n, setup[e].size - dev[e].out)
      [] OTHER -> n

-----------------------------------------------------------------------------
(* ConfigureEndpoints.                                                     *)

CardsOf(p) == {e \in Sides : Clocked(p[e])}
MaxPacket(p) == Max({p[e].packet : e \in CardsOf(p)})

\* A level of the settings, at least two packets when it is set.
Configured(p, level) == IF level = 0 THEN 0 ELSE AtLeast(level, 2 * MaxPacket(p))

OutMin(p, e) ==
    IF ~Clocked(p[e]) THEN 0
    ELSE LET wish == IF p.outMin = 0 THEN 2 * MaxPacket(p) ELSE Configured(p, p.outMin)
             size == OutbufSize(p[e]) IN
         IF size > 0 THEN Least(wish, size - p[e].packet) ELSE wish

OutMax(p, e) ==
    LET window == AtLeast(IF p.window = 0 THEN OutMin(p, e) ELSE Configured(p, p.window),
                          2 * MaxPacket(p))
        size == OutbufSize(p[e]) IN
    IF ~Clocked(p[e]) THEN IF size > 0 THEN size ELSE SampNums - 1
    ELSE IF size > 0 THEN Least(OutMin(p, e) + window, size)
    ELSE OutMin(p, e) + window

\* filter_packet_samps: the smaller packet, halved until it fits twice into the
\* levels of the cards.
FilterPacket(p) ==
    LET first == Min({p[e].packet : e \in CardsOf(p)})
        Fits(n) == \A e \in CardsOf(p) : /\ n <= OutMin(p, e) \div 2
                                         /\ n <= (OutMax(p, e) - OutMin(p, e)) \div 2 IN
    Max({n \in {first \div (2 ^ k) : k \in 0 .. first} : Fits(n)})

\* The sources to pump from: "bottom" for pump_up, "top" for pump_down.
FlowsOf(p) == {s \in Sides : p[s].source /\ p[Other(s)].sink}

\* The pump accepts the endpoints.
Configures(p) ==
    /\ FlowsOf(p) # {}
    /\ CardsOf(p) # {}
    /\ ~(p["bottom"].kind = "loop" /\ p["top"].kind = "loop")
    /\ \A e \in CardsOf(p) : OutbufSize(p[e]) > 0 => 4 * MaxPacket(p) <= OutbufSize(p[e])

\* BestXfer divides by the packet of the filter.  The search for it ends at a
\* packet that is not empty when the packets of the cards are not single samples.
ASSUME FilterAssumption == \A p \in Setups : Configures(p) => FilterPacket(p) \in Nat \ {0}

\* m_config.  For the input of both endpoints the minimum of the bottom one is
\* taken from the maximum, and the difference has no sign.
Config(p) ==
    [flows |-> FlowsOf(p), packet |-> FilterPacket(p),
     outMin |-> [e \in Sides |-> OutMin(p, e)],
     outMax |-> [e \in Sides |-> OutMax(p, e)],
     inMax |-> [e \in Sides |-> (OutMax(p, e) - OutMin(p, "bottom")) % SampNums]]

Cards == CardsOf(setup)

-----------------------------------------------------------------------------
(* BestXfer: how many samples to move.                                     *)

\* Missing a bound costs by the sample.
Cost(b, n) ==
    IF n < b.lower THEN (b.lower - n) * b.under
    ELSE IF n > b.upper THEN (n - b.upper) * b.over ELSE 0

TotalCost(bounds, n) == MapThenSumSet(LAMBDA b : Cost(b, n), bounds)

\* The number of the most important priority that n offends against.
Offended(bounds, n) ==
    Min({b.prio : b \in {c \in bounds : Cost(c, n) > 0}})

Better(bounds, n, m) ==
    \/ Offended(bounds, n) > Offended(bounds, m)
    \/ /\ Offended(bounds, n) = Offended(bounds, m)
       /\ \/ TotalCost(bounds, n) < TotalCost(bounds, m)
          \/ TotalCost(bounds, n) = TotalCost(bounds, m) /\ n >= m

RoundDown(n, interval) == (n \div interval) * interval
RoundUp(n, interval) == RoundDown(n + interval - 1, interval)

\* The largest number within all bounds, or else the one that offends least: a
\* set of one number.
BestXfer(bounds, interval) ==
    LET most == RoundDown(Min({b.upper : b \in bounds}), interval)
        least == RoundUp(Max({b.lower : b \in bounds}), interval)
        tries == {n \in most .. least : n % interval = 0} IN
    IF most >= least THEN {most}
    ELSE {n \in tries : \A m \in tries : Better(bounds, n, m)}

Priority(e) == IF setup[e].tolerant THEN 2 ELSE 1

\* The bounds that the queue of a source sets, and that of its sink.  q is what
\* the pump knows.
InBound(q, s) ==
    [queue |-> <<s, "in">>,
     lower |-> IF HasClock(s) THEN Excess(q[s].in, config.inMax[s]) ELSE 0,
     upper |-> IF ~HasClock(s) /\ q[s].in > 0 THEN AtLeast(q[s].in, config.packet) ELSE q[s].in,
     prio |-> Priority(s), under |-> 1, over |-> 2]

OutBound(q, s) ==
    LET d == Other(s) IN
    [queue |-> <<d, "out">>,
     lower |-> IF HasClock(d) /\ (HasClock(s) \/ q[s].in > 0)
               THEN Excess(config.outMin[d], q[d].out) ELSE 0,
     upper |-> Excess(config.outMax[d], q[d].out),
     prio |-> Priority(d), under |-> 2, over |-> 1]

Bounds(q) == {InBound(q, s) : s \in config.flows} \cup {OutBound(q, s) : s \in config.flows}

-----------------------------------------------------------------------------
(* AsyncProcess, one part after the other.                                 *)

\* Nothing is moved any more to or from an endpoint exhausted both ways, so that
\* the other one can play what it has.
Spent(q) ==
    /\ config.flows = Sides
    /\ \E e \in Sides : RemoveOnExhaust(e) /\ q[e].in = 0 /\ exhaust[e]

\* What the pump knows when e calls: it asks an endpoint without a clock, and
\* remembers what it knew of another card.
Seen(e) == [x \in Sides |-> IF HasClock(x) /\ x # e THEN qs[x] ELSE Report(x)]

\* What comes into a loopback will come out of it.
Looped(q, n) ==
    [x \in Sides |-> IF DoesLoop(x) THEN [q[x] EXCEPT !.in = @ + n] ELSE q[x]]

Amounts(q) == IF Spent(q) THEN {0} ELSE BestXfer(Bounds(q), config.packet)

\* Mutant: all that is not moved is discarded.
TossesTheRest(q, s, n) ==
    IF s \in config.flows /\ HasClock(s) /\ n <= q[s].in THEN q[s].in - n ELSE 0

\* Mutant: nothing is ever discarded.
KeepsExcess(q, s, n) == 0

\* The excess of the input of s that is discarded, n being moved.
Tossed(q, s, n) ==
    IF s \in config.flows /\ HasClock(s) /\ n <= q[s].in
    THEN Excess(q[s].in - n, config.inMax[s]) ELSE 0

\* Mutant: the output may go over its level.
AllOut(q, d, n) == IF Other(d) \in config.flows THEN n ELSE 0

\* in_xfer and out_xfer: how much of n is asked of a source and of a sink.
InXfer(q, s, n) == IF s \in config.flows THEN Least(n, q[s].in) ELSE 0
OutXfer(q, d, n) ==
    IF Other(d) \in config.flows THEN Least(n, Excess(config.outMax[d], q[d].out)) ELSE 0

\* What the source yields of it.  A loopback gets its packets one by one, each
\* after it has been asked for one, so the first is missing when it is empty.
Yielded(q, s, n) ==
    IF DoesLoop(s) /\ config.flows = Sides /\ n > 0
    THEN n - Excess(config.packet, dev[s].in)
    ELSE Least(InXfer(q, s, n), dev[s].in)

\* Mutant: what is discarded is not taken off.
ForgetsTossed(q, tossed, yielded, accepted) ==
    [in |-> q.in - yielded, out |-> q.out + accepted, under |-> q.under]

\* What the pump believes of a queue afterwards.
Believed(q, tossed, yielded, accepted) ==
    [in |-> q.in - tossed - yielded, out |-> q.out + accepted, under |-> q.under]

\* Mutant: silence follows the end of a file.
PadsTheEnd(q, d) == IF Other(d) \in config.flows THEN Excess(config.outMin[d], q[d].out) ELSE 0

\* Silence that d needs, unless what it plays has come to its end.
Padding(q, d) ==
    LET s == Other(d) IN
    IF /\ s \in config.flows
       /\ ~RemoveOnExhaust(s) \/ q[s].in > 0 \/ (d \in config.flows /\ ~exhaust[s])
    THEN Excess(config.outMin[d], q[d].out) ELSE 0

\* The output of e is full.
Full(q, e, refused) ==
    /\ RemoveOnExhaust(e)
    /\ refused > 0 \/ IF e = "bottom" THEN q[e].out = config.outMax[e] ELSE q[e].out >= config.outMax[e]

\* Mutant: a source halts the pump as soon as it is empty.
HaltsWhenEmpty(q, full) ==
    \E e \in Sides :
        /\ RemoveOnExhaust(e)
        /\ Other(e) \in config.flows => full[e]
        /\ e \in config.flows => q[e].in = 0

\* A static endpoint has become exhausted in all of its directions.
Exhausted(q, full) ==
    \E e \in Sides :
        /\ RemoveOnExhaust(e)
        /\ Other(e) \in config.flows => full[e]
        /\ e \in config.flows => q[e].in = 0 /\ q[Other(e)].under

-----------------------------------------------------------------------------
(* Actions.                                                                *)

Silent == [in |-> 0, out |-> 0, under |-> FALSE]
Nothing == [in |-> 0, out |-> 0, packets |-> 0]

\* The queues of endpoints that have been opened.
Opened(s) == [e \in Sides |-> [Silent EXCEPT !.in = s[e].content]]

\* SoundIoPump::Start, with endpoints that it accepts.
Start ==
    /\ ~running
    /\ setup' \in Setups
    /\ dev' = Opened(setup')
    /\ Configures(setup')
    /\ config' = Config(setup')
    /\ running' = TRUE
    /\ qs' = [e \in Sides |-> Report(e)']
    /\ exhaust' = [e \in Sides |-> FALSE]
    /\ since' = [e \in Sides |-> Nothing]
    /\ lead' = 0
    /\ called' = {}
    /\ lost' = FALSE /\ strayed' = FALSE /\ cut' = FALSE

\* The next packet finds the output of the card e empty.  A driver takes no
\* notice before its first call, when nothing has been given to the card.
UnderrunAfter(e) ==
    Other(e) \in config.flows /\ e \in called /\ dev[e].out < setup[e].packet

\* Time passes for a card by one packet.
Clock(e) ==
    LET p == setup[e].packet
        in == IF e \in config.flows THEN p ELSE 0
        out == IF Other(e) \in config.flows THEN Least(p, dev[e].out) ELSE 0
        ahead == lead + IF e = "bottom" THEN p ELSE -p
        strays == Cards = Sides /\ (ahead > MaxLead \/ -ahead > MaxLead) IN
    /\ running /\ HasClock(e)
    /\ since[e].packets < setup.late
    /\ dev' = [dev EXCEPT ![e] = [in |-> @.in + in, out |-> @.out - out,
                                  under |-> @.under \/ UnderrunAfter(e)]]
    /\ since' = [since EXCEPT ![e] = [in |-> @.in + in, out |-> @.out + out,
                                      packets |-> @.packets + 1]]
    /\ strayed' = (strayed \/ strays)
    /\ lead' = IF strayed' \/ Cards # Sides THEN 0 ELSE ahead
    /\ UNCHANGED <<setup, config, running, qs, exhaust, called, lost, cut>>

\* The queues of x then, without what has been taken and with what was added.
Settled(x, tossed, yielded, added) ==
    [in |-> dev[x].in - tossed - yielded + IF DoesLoop(x) THEN added ELSE 0,
     out |-> IF CountsOutput(x) THEN dev[x].out + added ELSE 0,
     under |-> dev[x].under /\ added = 0]

\* AsyncProcess, when n samples are to be moved, with what the pump knows.
Transfer(e, known, n) ==
    \E tossed \in {[x \in Sides |-> Tossed(known, x, n)]},
       yielded \in {[x \in Sides |-> Yielded(known, x, n)]},
       accepted \in {[x \in Sides |-> Room(x, OutXfer(known, x, n))]} :
    \E moved \in {[x \in Sides |-> Believed(known[x], tossed[x], yielded[x], accepted[x])]} :
    LET pad == [x \in Sides |-> Padding(moved, x)]
        added == [x \in Sides |-> accepted[x] + pad[x]]
        full == [x \in Sides |->
                    exhaust[x] \/ Full(moved, x, OutXfer(known, x, n) - accepted[x])]
        loses == \/ \E x \in Sides : tossed[x] > 0 \/ pad[x] > 0
                 \/ \E x \in config.flows : yielded[x] < n \/ accepted[Other(x)] < n IN
    /\ qs' = [x \in Sides |-> Believed(moved[x], 0, 0, pad[x])]
    /\ dev' = [x \in Sides |-> Settled(x, tossed[x], yielded[x], added[x])]
    /\ exhaust' = full
    /\ running' = ~Exhausted(moved, full)
    /\ since' = [since EXCEPT ![e] = Nothing]
    /\ called' = called \cup {e}
    /\ lost' = loses
    /\ cut' = (~running' /\ \E s \in config.flows : RemoveOnExhaust(s) /\ dev'[Other(s)].out > 0)
    /\ UNCHANGED <<setup, config, lead, strayed>>

\* cb_NotifyPacket of the card e.
Process(e) ==
    /\ running /\ since[e].packets > 0
    /\ \E seen \in {Seen(e)} :
       \E n \in Amounts(Looped(seen, seen[e].in)) : Transfer(e, Looped(seen, n), n)

StreamNext == Start \/ \E e \in Sides : Clock(e) \/ Process(e)

StreamInit ==
    /\ setup \in Setups
    /\ Configures(setup)
    /\ config = Config(setup)
    /\ running = FALSE
    /\ dev = Opened(setup)
    /\ qs = [e \in Sides |-> Silent]
    /\ exhaust = [e \in Sides |-> FALSE]
    /\ since = [e \in Sides |-> Nothing]
    /\ lead = 0
    /\ called = {}
    /\ lost = FALSE /\ strayed = FALSE /\ cut = FALSE

\* Cards do not stand still, and the event loop delivers their calls.
StreamFairness == \A e \in Sides : WF_streamVars(Clock(e)) /\ WF_streamVars(Process(e))

StreamSpec == StreamInit /\ [][StreamNext]_streamVars /\ StreamFairness

-----------------------------------------------------------------------------
(* Properties.                                                             *)

\* What the pump believes of the queues of a card, after all that it has moved,
\* discarded and made up, differs from the truth only by what the card has done
\* itself since its last call.  The watchdog counts from these numbers.
LevelsKnown ==
    running =>
        \A e \in Cards : /\ dev[e].in = qs[e].in + since[e].in
                         /\ dev[e].out = qs[e].out - since[e].out

\* However the clocks drift: a card that has called has its output between its
\* two levels, unless the end of a file is being played, and its input below
\* the highest one.
LevelsKept ==
    running =>
        \A e \in called :
            /\ Other(e) \in config.flows =>
                  /\ dev[e].out <= config.outMax[e]
                  /\ \/ dev[e].out + since[e].out >= config.outMin[e]
                     \/ RemoveOnExhaust(Other(e)) /\ dev[Other(e)].in = 0
            /\ e \in config.flows => dev[e].in <= config.inMax[e] + since[e].in

\* The levels of two cards leave room for calls that come late and for one clock
\* being ahead of the other.  The levels that the pump chooses itself do not.
Roomy ==
    LET room == 2 * (setup.late * MaxPacket(setup) + MaxLead) IN
    Cards = Sides /\ \A e \in Sides : /\ config.outMin[e] >= room
                                    /\ config.outMax[e] - config.outMin[e] >= room

\* Two cards with enough room, whose clocks stay together, lose nothing and make
\* up nothing after a while.
LossComesToAnEnd == <>[](Roomy /\ ~strayed => ~lost)

\* The pump halts by itself after a file or a memory buffer has been played, and
\* after a memory buffer is full.
Ends ==
    \E e \in Sides :
        /\ RemoveOnExhaust(e)
        /\ e \in config.flows => ReportsUnderrun(Other(e))
        /\ Other(e) \in config.flows => setup[e].kind = "membuf"

HaltsAtTheEnd == running /\ Ends ~> ~running

\* The last samples of a file are played before the pump halts, when no call comes
\* so late that the card has nothing left to play.
PlayedToTheEnd ==
    (\A e \in Cards : setup.late * setup[e].packet <= config.outMin[e]) => ~cut

\* The levels are known and kept.
LevelsHold == LevelsKnown /\ LevelsKept

\* What has an end ends, and what has none runs without loss in the end.
ComesToRest == HaltsAtTheEnd /\ LossComesToAnEnd
=============================================================================
