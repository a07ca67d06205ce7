------------------------------ MODULE EventLoop ------------------------------
(***************************************************************************)
(* The event loop of the library (libhfp/events-indep.cpp), as far as      *)
(* other threads are concerned: they set and cancel timers while the loop  *)
(* sleeps in select(), runs handlers or is between the two.                *)
(*                                                                         *)
(* The dispatcher is a record, because one critical section of a caller    *)
(* may set several timers.  Each use of the dispatcher's own lock is one   *)
(* step: no handler is called with it held.                                *)
(***************************************************************************)
EXTENDS FiniteSets

CONSTANTS
    Immediate,      \* the timers that are set to expire at once
    Delayed,        \* those that are set for some time
    WakePending     \* what m_wake_pending may be before anybody writes it

VARIABLE disp       \* IndepEventDispatcher

Dispatcher ==
    [at : {"top", "early", "asleep", "late", "sockets"},    \* in RunOnce
     due : SUBSET (Immediate \cup Delayed),     \* m_timers
     run : SUBSET (Immediate \cup Delayed),     \* the run list of RunTimers
     timed : BOOLEAN,                           \* select() has a timeout
     pipe : BOOLEAN,                            \* a byte is in m_wake_pipe
     seen : BOOLEAN,                            \* select() has reported it
     pending : BOOLEAN]                         \* m_wake_pending

DispInit ==
    \E p \in WakePending :
        disp = [at |-> "top", due |-> {}, run |-> {}, timed |-> FALSE, pipe |-> FALSE,
                seen |-> FALSE, pending |-> p]

\* Mutant: a timer set by a thread does not wake the loop.
SetQuietly(d, t) == [d EXCEPT !.due = @ \cup {t}, !.run = @ \ {t}]

\* IndepTimerNotifier::Set and Cancel.  m_sleeping is TRUE while the loop is
\* in select().
SetTimer(d, t) ==
    LET wake == d.at = "asleep" /\ ~d.pending IN
    [d EXCEPT !.due = @ \cup {t}, !.run = @ \ {t},
              !.pipe = @ \/ wake, !.pending = @ \/ wake]

CancelTimer(d, t) == [d EXCEPT !.due = @ \ {t}, !.run = @ \ {t}]

\* RunTimers takes the timers that are due off the heap and calls the first, t,
\* before it gives up the lock; an immediate timer is the root of the heap.
First(due) == IF due \cap Immediate # {} THEN due \cap Immediate ELSE due
RunTimers(d, due, t) == [d EXCEPT !.due = @ \ due, !.run = due \ {t}]

\* The others are called while threads may set or cancel them.
Takes(d, t) == [d EXCEPT !.run = @ \ {t}]

\* The steps of RunOnce.  First come the timers that need not wait.
RunEarly(d, t) == [RunTimers(d, d.due \cap Immediate, t) EXCEPT !.at = "early"]

\* There is always a socket to wait for, that of the wake pipe.
FallAsleep(d) == [d EXCEPT !.at = "asleep", !.timed = d.due # {}]

\* select() returns, and some timers are due, delayed ones among them or not.
Expired(d) == {d.due \cap Immediate, d.due}
WakeUp(d) == [d EXCEPT !.at = "late", !.timed = FALSE, !.seen = d.pipe]

\* Mutant: WakeNotify leaves its flag as it is.
KeepsFlag(d) == [d EXCEPT !.at = "sockets", !.seen = FALSE, !.pipe = @ /\ ~d.seen]

\* WakeNotify is among the sockets that are ready.
ReadSockets(d) ==
    [d EXCEPT !.at = "sockets", !.seen = FALSE,
              !.pipe = @ /\ ~d.seen, !.pending = @ /\ ~d.seen]

BackToTop(d) == [d EXCEPT !.at = "top"]
=============================================================================
