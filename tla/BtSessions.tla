----------------------------- MODULE BtSessions -----------------------------
(***************************************************************************)
(* BtHub (libhfp/bt.cpp) with an RfcommService and its RfcommSessions      *)
(* (libhfp/rfcomm.cpp): starting and stopping the Bluetooth system, the    *)
(* connections of each session, their reference counts and deferred        *)
(* deletion, and the two kinds of retry: of the hub (autorestart) and of a *)
(* disconnected session (autoreconnect).                                   *)
(*                                                                         *)
(* Everything runs in one thread, but a function that disconnects a        *)
(* session calls the client back in the middle, and the client may then    *)
(* call any method.  stack holds what the functions under way have still   *)
(* to do, the innermost first; it is empty in the event loop:              *)
(*    "client"   a callback, about the session in who or about none        *)
(*    "put"      the Put() at the end of RfcommSession::__Disconnect       *)
(*    "again"    the second __Disconnect of a failed handshake             *)
(*    "retry"    the loop of RfcommService::AutoReconnectTimeout           *)
(*    "drain"    SdpShutdown and what follows it in BtHub::__Stop          *)
(*    "stopped"  the end of BtHub::Stop                                    *)
(*    "sweep"    the end of BtHub::InvoluntaryStop; who is still to visit  *)
(*    "timeout"  the loop of BtHub::Timeout that deletes dead objects      *)
(*    "destroy"  the delete that follows cb_NotifyDestroy                  *)
(*                                                                         *)
(* The SDP task handler is the abstract TaskService: a lookup is answered, *)
(* cancelled, or reset by __Stop; SdpTasks shows that it is implemented.   *)
(* A device has one session, of the one service.                           *)
(***************************************************************************)
EXTENDS Naturals, Sequences, FiniteSets

CONSTANTS
    Session,        \* one per remote device
    MaxHeld,        \* bound: references a client holds on a session
    MaxDepth,       \* bound: length of stack at which clients make no calls
    HubCalls        \* subset of {"Start", "Stop"}: what clients call on the
                    \* hub from inside a callback

ASSUME SessionsAssumption ==
    /\ MaxHeld \in Nat
    /\ MaxDepth \in Nat
    /\ HubCalls \subseteq {"Start", "Stop"}

VARIABLES
    started,        \* m_sdp # NULL
    hci,            \* m_hci # NULL
    autorestart,    \* m_autorestart
    aborted,        \* m_current_aborted, as a callback of SdpShutdown left it
    restartSet,     \* m_autorestart_set
    cleanupSet,     \* m_cleanup_set
    hubArmed,       \* BtHub's timer is set
    svc,            \* the timers of the RfcommService exist
    armed,          \* per list, the timer is set (m_autoreconnect[_now]_set)
    list,           \* per session, the list m_autoreconnect_links is on
    state,          \* per session, m_rfcomm_state
    autoreconnect,  \* per session, m_conn_autoreconnect
    opTimer,        \* per session, m_operation_timeout exists
    exists,         \* per session, it has been created and not deleted
    refs,           \* per session, m_refs
    dead,           \* per session, it is on m_dead_objs
    held,           \* per session, how many of its references are a client's
    stack,
    fault           \* function that dereferences a null timer or fails an
                    \* assertion, "none"

hubVars == <<started, hci, autorestart, aborted>>
timerVars == <<restartSet, cleanupSet, hubArmed>>
listVars == <<armed, list>>
connVars == <<state, opTimer>>
refVars == <<exists, refs, dead>>
vars == <<hubVars, timerVars, svc, listVars, connVars, autoreconnect, refVars,
          held, stack, fault>>

Lists == {"now", "delayed"}

Frame == [do : {"client", "put", "again", "retry", "drain", "stopped", "sweep",
                "timeout", "destroy"},
          who : SUBSET Session]

TypeOK ==
    /\ started \in BOOLEAN /\ hci \in BOOLEAN /\ autorestart \in BOOLEAN
    /\ aborted \in BOOLEAN
    /\ restartSet \in BOOLEAN /\ cleanupSet \in BOOLEAN /\ hubArmed \in BOOLEAN
    /\ svc \in BOOLEAN
    /\ armed \in [Lists -> BOOLEAN]
    /\ list \in [Session -> Lists \cup {"none", "retry"}]
    /\ state \in [Session -> {"Disconnected", "SdpLookupChannel", "Connecting",
                              "Connected"}]
    /\ autoreconnect \in [Session -> BOOLEAN]
    /\ opTimer \in [Session -> BOOLEAN]
    /\ exists \in [Session -> BOOLEAN]
    /\ refs \in [Session -> Nat]
    /\ dead \in [Session -> BOOLEAN]
    /\ held \in [Session -> 0 .. MaxHeld]
    /\ stack \in Seq(Frame)
    /\ fault \in {"none", "AutoReconnectTimeout", "SdpCreateThread"}

Init ==
    /\ started = FALSE /\ hci = FALSE /\ autorestart = FALSE /\ aborted = FALSE
    /\ restartSet = FALSE /\ cleanupSet = FALSE /\ hubArmed = FALSE
    /\ svc = FALSE
    /\ armed = [w \in Lists |-> FALSE]
    /\ list = [s \in Session |-> "none"]
    /\ state = [s \in Session |-> "Disconnected"]
    /\ autoreconnect = [s \in Session |-> FALSE]
    /\ opTimer = [s \in Session |-> FALSE]
    /\ exists = [s \in Session |-> FALSE]
    /\ refs = [s \in Session |-> 0]
    /\ dead = [s \in Session |-> FALSE]
    /\ held = [s \in Session |-> 0]
    /\ stack = <<>>
    /\ fault = "none"

-----------------------------------------------------------------------------
(* The call stack.                                                         *)

Call(do, who) == [do |-> do, who |-> who]

Top(do) == stack # <<>> /\ Head(stack).do = do

OnStack(do) == \E i \in 1 .. Len(stack) : stack[i].do = do

InLoop == stack = <<>>

\* The client's code runs: called by the event loop, or back by the library.
InClient == InLoop \/ (Top("client") /\ Len(stack) < MaxDepth)

\* s is about to be deleted: no reference to it may be acquired (bt.h).
Doomed(s) == \E i \in 1 .. Len(stack) : stack[i] = Call("destroy", {s})

\* The client knows s: it holds a reference or is being told about it.
Known(s) == exists[s] /\ (held[s] > 0 \/ (~InLoop /\ s \in Head(stack).who))

-----------------------------------------------------------------------------
(* References (BtManaged).                                                 *)

\* Mutant: a resurrected object stays on the list of the dead.
GetStaysDead(s) ==
    /\ exists' = [exists EXCEPT ![s] = TRUE]
    /\ refs' = [refs EXCEPT ![s] = @ + 1]
    /\ UNCHANGED dead

\* A reference is acquired; s is created when it does not exist, and taken off
\* the list of the dead when it is there.
Get(s) ==
    /\ exists' = [exists EXCEPT ![s] = TRUE]
    /\ refs' = [refs EXCEPT ![s] = @ + 1]
    /\ dead' = [dead EXCEPT ![s] = FALSE]

\* Mutant: the cleanup is flagged and the timer is not set.
DeadObjectUnarmed ==
    /\ cleanupSet' = TRUE
    /\ restartSet' = (restartSet /\ cleanupSet)
    /\ UNCHANGED hubArmed

\* BtHub::DeadObject: a pending restart gives way to the cleanup.
DeadObject ==
    /\ cleanupSet' = TRUE
    /\ restartSet' = (restartSet /\ cleanupSet)
    /\ hubArmed' = (hubArmed \/ ~cleanupSet)

\* A reference is released; the last one sends s to the list of the dead.
Put(s) ==
    /\ refs' = [refs EXCEPT ![s] = @ - 1]
    /\ UNCHANGED exists
    /\ IF refs[s] = 1 THEN dead' = [dead EXCEPT ![s] = TRUE] /\ DeadObject
                      ELSE UNCHANGED <<dead, timerVars>>

-----------------------------------------------------------------------------
(* The lists of sessions to reconnect (RfcommService).                     *)

\* Mutant: an emptied list keeps its timer.
RemoveKeepsTimer(s) == list' = [list EXCEPT ![s] = "none"] /\ UNCHANGED armed

\* The timer of a list that becomes empty is cancelled.
RemoveAutoReconnect(s) ==
    /\ list' = [list EXCEPT ![s] = "none"]
    /\ armed' = [w \in Lists |-> armed[w] /\ \E t \in Session \ {s} : list[t] = w]

\* The timer of the list is set if it is not and the service is started.
AddAutoReconnect(s, where) ==
    /\ list' = [list EXCEPT ![s] = where]
    /\ armed' = [armed EXCEPT ![where] = @ \/ svc]

\* A session leaves the state Disconnected.
Unlist(s) ==
    IF autoreconnect[s] THEN RemoveAutoReconnect(s) ELSE UNCHANGED listVars

\* A session enters the state Disconnected.
Relist(s) ==
    IF autoreconnect[s] THEN AddAutoReconnect(s, "delayed")
                        ELSE UNCHANGED listVars

-----------------------------------------------------------------------------
(* Connections (RfcommSession).                                            *)

MoveTo(s, st, timed) ==
    /\ state' = [state EXCEPT ![s] = st]
    /\ opTimer' = [opTimer EXCEPT ![s] = timed]

\* Mutant: a session that is disconnected keeps its operation timer.
DropKeepsTimer(s) ==
    /\ state' = [state EXCEPT ![s] = "Disconnected"]
    /\ UNCHANGED opTimer
    /\ Relist(s)

\* __Disconnect up to the notification.
Drop(s) == MoveTo(s, "Disconnected", FALSE) /\ Relist(s)

\* What follows a __Disconnect for which the client is notified.
Notified(s) == <<Call("client", {s}), Call("put", {s})>>

\* __Disconnect with a reason: rest is what its caller has still to do.
DisconnectThen(s, rest) ==
    /\ Drop(s)
    /\ stack' = Notified(s) \o rest
    /\ UNCHANGED <<hubVars, timerVars, svc, autoreconnect, refVars, held, fault>>

\* RfcommSession::RfcommConnect: the lookup is submitted.
StartLookup(s) == MoveTo(s, "SdpLookupChannel", TRUE) /\ Get(s) /\ Unlist(s)

-----------------------------------------------------------------------------
(* Starting and stopping (BtHub and the service).                          *)

\* The lookups that are queued with the SDP task handler.
Queued == {s \in Session : state[s] = "SdpLookupChannel"}

\* SdpCreateThread asserts that no task is queued and none is aborted.
AssertionFails == Queued # {} \/ aborted

\* BtHub::Start when it succeeds, with the Start of the service.
Start ==
    /\ started' = TRUE /\ hci' = TRUE /\ svc' = TRUE
    /\ armed' = [w \in Lists |-> \E s \in Session : list[s] = w]
    /\ UNCHANGED <<autorestart, aborted, list>>

\* __Stop until the loop of SdpShutdown; stopping the service deletes its timers.
StopService ==
    /\ started' = FALSE /\ svc' = FALSE /\ aborted' = FALSE
    /\ armed' = [w \in Lists |-> FALSE]
    /\ UNCHANGED <<hci, autorestart, list>>

\* SdpCancel of the task of s marks the request as aborted if s is the first, which
\* may be any here.  Outside the loop of SdpShutdown the mark is TaskService's affair:
\* a reply or the next SdpShutdown will take it away.
SdpCancel(s) ==
    IF OnStack("drain") /\ s \in Queued
    THEN \E first \in Queued : aborted' = (aborted \/ s = first)
    ELSE UNCHANGED aborted

HubMayBeCalled(call) == InLoop \/ (InClient /\ call \in HubCalls)

-----------------------------------------------------------------------------
(* Calls of the client.                                                    *)

GetSession(s) ==
    /\ InClient /\ ~Doomed(s) /\ held[s] < MaxHeld
    /\ Get(s)
    /\ held' = [held EXCEPT ![s] = @ + 1]
    /\ UNCHANGED <<hubVars, timerVars, svc, listVars, connVars, autoreconnect, stack, fault>>

PutSession(s) ==
    /\ InClient /\ held[s] > 0
    /\ Put(s)
    /\ held' = [held EXCEPT ![s] = @ - 1]
    /\ UNCHANGED <<hubVars, svc, listVars, connVars, autoreconnect, stack, fault>>

\* Connect when it succeeds; a stopped hub refuses.
Connect(s) ==
    /\ InClient /\ Known(s) /\ ~Doomed(s)
    /\ state[s] = "Disconnected" /\ started
    /\ StartLookup(s)
    /\ UNCHANGED <<hubVars, timerVars, svc, autoreconnect, held, stack, fault>>

\* Disconnect: the client is not notified of what it does itself.
Disconnect(s) ==
    /\ InClient /\ Known(s) /\ ~Doomed(s)
    /\ state[s] # "Disconnected"
    /\ SdpCancel(s) /\ Drop(s) /\ Put(s)
    /\ UNCHANGED <<started, hci, autorestart, svc, autoreconnect, held, stack, fault>>

EnableAutoReconnect(s) ==
    /\ InClient /\ Known(s) /\ ~Doomed(s) /\ ~autoreconnect[s]
    /\ autoreconnect' = [autoreconnect EXCEPT ![s] = TRUE]
    /\ Get(s)
    /\ IF state[s] = "Disconnected" THEN AddAutoReconnect(s, "now")
                                    ELSE UNCHANGED listVars
    /\ UNCHANGED <<hubVars, timerVars, svc, connVars, held, stack, fault>>

DisableAutoReconnect(s) ==
    /\ InClient /\ Known(s) /\ autoreconnect[s]
    /\ autoreconnect' = [autoreconnect EXCEPT ![s] = FALSE]
    /\ IF state[s] = "Disconnected" THEN RemoveAutoReconnect(s)
                                    ELSE UNCHANGED listVars
    /\ Put(s)
    /\ UNCHANGED <<hubVars, svc, connVars, held, stack, fault>>

HubStart ==
    /\ HubMayBeCalled("Start") /\ ~started
    /\ IF AssertionFails
       THEN fault' = "SdpCreateThread" /\ UNCHANGED <<hubVars, svc, listVars>>
       ELSE Start /\ UNCHANGED fault
    /\ UNCHANGED <<timerVars, connVars, autoreconnect, refVars, held, stack>>

HubStop ==
    /\ HubMayBeCalled("Stop")
    /\ StopService
    /\ stack' = <<Call("drain", {}), Call("stopped", {})>> \o stack
    /\ UNCHANGED <<timerVars, connVars, autoreconnect, refVars, held, fault>>

\* Enabling it on a stopped hub retries at once.
SetAutoRestart ==
    /\ InClient
    /\ autorestart' = ~autorestart
    /\ LET now == ~autorestart /\ ~cleanupSet /\ ~started
       IN  restartSet' = (restartSet \/ now) /\ hubArmed' = (hubArmed \/ now)
    /\ UNCHANGED <<started, hci, aborted, cleanupSet, svc, listVars, connVars, autoreconnect,
                   refVars, held, stack, fault>>

ClientReturns ==
    /\ Top("client")
    /\ stack' = Tail(stack)
    /\ UNCHANGED <<hubVars, timerVars, svc, listVars, connVars, autoreconnect, refVars,
                   held, fault>>

-----------------------------------------------------------------------------
(* Events of a session.                                                    *)

\* The lookup is answered and the socket starts to connect, or is connected.
LookupAnswered(s) ==
    /\ InLoop /\ state[s] = "SdpLookupChannel" /\ hci
    /\ \E st \in {"Connecting", "Connected"} : MoveTo(s, st, st = "Connecting")
    /\ UNCHANGED <<hubVars, timerVars, svc, listVars, autoreconnect, refVars, held,
                   stack, fault>>

\* It is answered and the socket cannot be connected: the session acquires a
\* reference, disconnects, and then drops that of the lookup as well.
LookupWasted(s) ==
    /\ InLoop /\ state[s] = "SdpLookupChannel"
    /\ Drop(s) /\ Get(s)
    /\ stack' = Notified(s) \o <<Call("put", {s})>>
    /\ UNCHANGED <<hubVars, timerVars, svc, autoreconnect, held, fault>>

LookupFailed(s) ==
    /\ InLoop /\ state[s] = "SdpLookupChannel"
    /\ DisconnectThen(s, <<>>)

\* RfcommConnectNotify, the connection is made and the handshake begins.
ConnectNotify(s) ==
    /\ InLoop /\ state[s] = "Connecting"
    /\ MoveTo(s, "Connected", FALSE)
    /\ UNCHANGED <<hubVars, timerVars, svc, listVars, autoreconnect, refVars, held,
                   stack, fault>>

\* RfcommConnectNotify, the socket has an error.
ConnectFailed(s) ==
    /\ InLoop /\ state[s] = "Connecting"
    /\ DisconnectThen(s, <<>>)

\* RfcommConnectNotify, the handshake cannot send: RfcommSend disconnects, and
\* so does NotifyConnectionState, whatever the client has done in between.
HandshakeUnsent(s) ==
    /\ InLoop /\ state[s] = "Connecting"
    /\ DisconnectThen(s, <<Call("again", {s})>>)

ConnectionLost(s) ==
    /\ InLoop /\ state[s] = "Connected"
    /\ DisconnectThen(s, <<>>)

OperationTimeout(s) ==
    /\ InLoop /\ opTimer[s]
    /\ DisconnectThen(s, <<>>)

\* Mutant: an accepted session stays on its list.
AcceptStaysListed(s) ==
    /\ state' = [state EXCEPT ![s] = "Connected"]
    /\ UNCHANGED <<opTimer, listVars>>

\* RfcommAccept of a session that is disconnected.
Accept(s) ==
    /\ state' = [state EXCEPT ![s] = "Connected"]
    /\ UNCHANGED opTimer
    /\ Unlist(s)

\* Mutant: an accepted connection has no reference of its own.
GetOnce(s) ==
    /\ exists' = [exists EXCEPT ![s] = TRUE]
    /\ refs' = [refs EXCEPT ![s] = @ + 1]
    /\ dead' = [dead EXCEPT ![s] = FALSE]

\* The references of RfcommListenNotify: of GetSession and of the connection.
GetTwice(s) ==
    /\ exists' = [exists EXCEPT ![s] = TRUE]
    /\ refs' = [refs EXCEPT ![s] = @ + 2]
    /\ dead' = [dead EXCEPT ![s] = FALSE]

\* RfcommListenNotify: GetSession, RfcommAccept with its callback, Put.
Listen(s) ==
    /\ InLoop /\ svc /\ state[s] = "Disconnected"
    /\ Accept(s)
    /\ GetTwice(s)
    /\ stack' = Notified(s)
    /\ UNCHANGED <<hubVars, timerVars, svc, autoreconnect, held, fault>>

\* The same when the handshake cannot send: the session has left its list and
\* is back on the delayed one before the client is told.
ListenUnsent(s) ==
    /\ InLoop /\ svc /\ state[s] = "Disconnected"
    /\ IF autoreconnect[s]
       THEN /\ list' = [list EXCEPT ![s] = "delayed"]
            /\ armed' = [w \in Lists |-> w = "delayed" \/
                            (armed[w] /\ \E t \in Session \ {s} : list[t] = w)]
       ELSE UNCHANGED listVars
    /\ GetTwice(s)
    /\ stack' = Notified(s) \o <<Call("again", {s}), Call("put", {s})>>
    /\ UNCHANGED <<hubVars, timerVars, svc, connVars, autoreconnect, held, fault>>

-----------------------------------------------------------------------------
(* Timers and the loss of the Bluetooth system.                            *)

\* AutoReconnectTimeout: the list is set apart, its timer is not set any more.
AutoReconnectTimeout(w) ==
    /\ InLoop /\ armed[w]
    /\ armed' = [armed EXCEPT ![w] = FALSE]
    /\ list' = [s \in Session |-> IF list[s] = w THEN "retry" ELSE list[s]]
    /\ stack' = <<Call("retry", {})>>
    /\ UNCHANGED <<hubVars, timerVars, svc, connVars, autoreconnect, refVars, held, fault>>

\* Mutant: the flag is set and the timer is not.
LostUnarmed ==
    /\ restartSet' = (restartSet \/ (autorestart /\ ~cleanupSet))
    /\ UNCHANGED <<hubArmed, cleanupSet>>

\* What InvoluntaryStop does to the timer of the hub.
ArmRestart ==
    LET now == autorestart /\ ~cleanupSet
    IN  /\ restartSet' = (restartSet \/ now)
        /\ hubArmed' = (hubArmed \/ now)
        /\ UNCHANGED cleanupSet

\* InvoluntaryStop: the SDP daemon, the helper or the HCI is gone.
InvoluntaryStop ==
    /\ InLoop /\ started
    /\ StopService
    /\ stack' = <<Call("drain", {}), Call("sweep", Session)>>
    /\ UNCHANGED <<timerVars, connVars, autoreconnect, refVars, held, fault>>

\* BtHub::Timeout: a restart is attempted unless the timer was set for a
\* cleanup; the client is told when it succeeds.
HubTimeout ==
    /\ InLoop /\ hubArmed
    /\ hubArmed' = FALSE /\ restartSet' = FALSE /\ UNCHANGED cleanupSet
    /\ \/ /\ ~started /\ ~cleanupSet /\ autorestart
          /\ IF AssertionFails
             THEN /\ fault' = "SdpCreateThread" /\ UNCHANGED <<hubVars, svc, listVars>>
                  /\ stack' = <<Call("timeout", {})>>
             ELSE /\ Start /\ UNCHANGED fault
                  /\ stack' = <<Call("client", {}), Call("timeout", {})>>
       \/ /\ UNCHANGED <<hubVars, svc, listVars, fault>>
          /\ stack' = <<Call("timeout", {})>>
    /\ UNCHANGED <<connVars, autoreconnect, refVars, held>>

-----------------------------------------------------------------------------
(* What the functions on the stack have still to do.                       *)

Return == stack' = Tail(stack)

\* __Disconnect drops the reference of the connection.
PutStep ==
    /\ Top("put")
    /\ \E s \in Head(stack).who : Put(s)
    /\ Return
    /\ UNCHANGED <<hubVars, svc, listVars, connVars, autoreconnect, held, fault>>

AgainStep ==
    /\ Top("again")
    /\ \E s \in Head(stack).who :
          IF state[s] # "Disconnected"
          THEN DisconnectThen(s, Tail(stack))
          ELSE Return /\ UNCHANGED <<hubVars, timerVars, svc, listVars, connVars,
                                     autoreconnect, refVars, held, fault>>

\* AutoReconnectTimeout moves a session to the delayed list and its attempt
\* begins, which takes it off again, and the client is told.
RetryStep(s) ==
    /\ Top("retry") /\ list[s] = "retry"
    /\ started
    /\ MoveTo(s, "SdpLookupChannel", TRUE) /\ Get(s)
    /\ RemoveAutoReconnect(s)
    /\ stack' = <<Call("client", {s})>> \o stack
    /\ UNCHANGED <<hubVars, timerVars, svc, autoreconnect, held, fault>>

\* The attempt cannot begin: the session waits for the delayed timer.
RetryRefused(s) ==
    /\ Top("retry") /\ list[s] = "retry"
    /\ list' = [list EXCEPT ![s] = "delayed"]
    /\ UNCHANGED <<hubVars, timerVars, svc, armed, connVars, autoreconnect, refVars,
                   held, stack, fault>>

\* Mutant: the sessions that failed are not tried again.
RearmNot == UNCHANGED <<armed, fault>>

\* Mutant: whether somebody waits is not looked at.
RearmAlways ==
    IF ~armed["delayed"]
    THEN IF svc THEN armed' = [armed EXCEPT !["delayed"] = TRUE] /\ UNCHANGED fault
                ELSE fault' = "AutoReconnectTimeout" /\ UNCHANGED armed
    ELSE UNCHANGED <<armed, fault>>

\* At the end of AutoReconnectTimeout the delayed timer is set if there is
\* somebody to wait for it.  The pointer is null if the client stopped the hub.
Rearm ==
    IF (\E s \in Session : list[s] = "delayed") /\ ~armed["delayed"]
    THEN IF svc THEN armed' = [armed EXCEPT !["delayed"] = TRUE] /\ UNCHANGED fault
                ELSE fault' = "AutoReconnectTimeout" /\ UNCHANGED armed
    ELSE UNCHANGED <<armed, fault>>

RetryDone ==
    /\ Top("retry") /\ \A s \in Session : list[s] # "retry"
    /\ Rearm
    /\ Return
    /\ UNCHANGED <<hubVars, timerVars, svc, list, connVars, autoreconnect, refVars, held>>

\* SdpShutdown resets a lookup that is pending.
DrainStep(s) ==
    /\ Top("drain") /\ state[s] = "SdpLookupChannel"
    /\ DisconnectThen(s, stack)

\* Mutant: SdpShutdown may end before it has reset every lookup.
DrainsSome ==
    /\ Top("drain")
    /\ hci' = FALSE
    /\ IF Len(stack) > 1 /\ stack[2].do = "sweep" THEN ArmRestart
                                                  ELSE UNCHANGED timerVars
    /\ Return
    /\ UNCHANGED <<started, autorestart, aborted, svc, listVars, connVars, autoreconnect,
                   refVars, held, fault>>

\* The HCI is shut down, whoever has created it.  InvoluntaryStop then arms
\* the timer of the hub.
DrainDone ==
    /\ Top("drain") /\ \A s \in Session : state[s] # "SdpLookupChannel"
    /\ hci' = FALSE
    /\ IF Len(stack) > 1 /\ stack[2].do = "sweep" THEN ArmRestart
                                                  ELSE UNCHANGED timerVars
    /\ Return
    /\ UNCHANGED <<started, autorestart, aborted, svc, listVars, connVars, autoreconnect,
                   refVars, held, fault>>

\* BtHub::Stop disables the autorestart; a cleanup that is due stays due.
StopDone ==
    /\ Top("stopped")
    /\ autorestart' = FALSE
    /\ restartSet' = (restartSet /\ ~autorestart)
    /\ hubArmed' = (hubArmed /\ ~(autorestart /\ restartSet))
    /\ Return
    /\ UNCHANGED <<started, hci, aborted, cleanupSet, svc, listVars, connVars, autoreconnect,
                   refVars, held, fault>>

\* InvoluntaryStop disconnects the devices one by one, and gives up when a
\* callback has restarted the hub.
SweepStep(s) ==
    /\ Top("sweep") /\ s \in Head(stack).who
    /\ ~started \/ Head(stack).who = Session
    /\ LET rest == <<Call("sweep", Head(stack).who \ {s})>> \o Tail(stack)
       IN  IF state[s] # "Disconnected"
           THEN DisconnectThen(s, rest)
           ELSE stack' = rest /\ UNCHANGED <<hubVars, timerVars, svc, listVars, connVars,
                                             autoreconnect, refVars, held, fault>>

SweepDone ==
    /\ Top("sweep")
    /\ \/ /\ started /\ Head(stack).who # Session
          /\ Return
       \/ /\ Head(stack).who = {}
          /\ ~started
          /\ stack' = <<Call("client", {})>> \o Tail(stack)
    /\ UNCHANGED <<hubVars, timerVars, svc, listVars, connVars, autoreconnect, refVars,
                   held, fault>>

\* BtHub::Timeout takes a dead object off the list and notifies the client.
BuryStep(s) ==
    /\ Top("timeout") /\ dead[s]
    /\ dead' = [dead EXCEPT ![s] = FALSE]
    /\ stack' = <<Call("client", {s}), Call("destroy", {s})>> \o stack
    /\ UNCHANGED <<hubVars, timerVars, svc, listVars, connVars, autoreconnect, exists,
                   refs, held, fault>>

DestroyStep ==
    /\ Top("destroy")
    /\ \E s \in Head(stack).who : exists' = [exists EXCEPT ![s] = FALSE]
    /\ Return
    /\ UNCHANGED <<hubVars, timerVars, svc, listVars, connVars, autoreconnect, refs,
                   dead, held, fault>>

\* The end of BtHub::Timeout: the next restart is not immediate.
TimeoutDone ==
    /\ Top("timeout") /\ \A s \in Session : ~dead[s]
    /\ cleanupSet' = FALSE
    /\ LET again == ~started /\ autorestart
       IN  restartSet' = (restartSet \/ again) /\ hubArmed' = (hubArmed \/ again)
    /\ Return
    /\ UNCHANGED <<hubVars, svc, listVars, connVars, autoreconnect, refVars, held, fault>>

-----------------------------------------------------------------------------
Client ==
    \/ \E s \in Session :
          \/ GetSession(s) \/ PutSession(s) \/ Connect(s) \/ Disconnect(s)
          \/ EnableAutoReconnect(s) \/ DisableAutoReconnect(s)
    \/ HubStart \/ HubStop \/ SetAutoRestart

Event ==
    \/ \E s \in Session :
          \/ LookupAnswered(s) \/ LookupWasted(s) \/ LookupFailed(s)
          \/ ConnectNotify(s) \/ ConnectFailed(s) \/ HandshakeUnsent(s)
          \/ ConnectionLost(s) \/ OperationTimeout(s)
          \/ Listen(s) \/ ListenUnsent(s)
    \/ InvoluntaryStop

TimerEvent == HubTimeout \/ \E w \in Lists : AutoReconnectTimeout(w)

Unwind ==
    \/ ClientReturns \/ PutStep \/ AgainStep \/ RetryDone \/ DrainDone \/ StopDone
    \/ SweepDone \/ DestroyStep \/ TimeoutDone
    \/ \E s \in Session : \/ RetryStep(s) \/ RetryRefused(s) \/ DrainStep(s)
                          \/ SweepStep(s) \/ BuryStep(s)

Next == fault = "none" /\ (Client \/ Event \/ TimerEvent \/ Unwind)

Spec == Init /\ [][Next]_vars

(* Functions return, a callback makes finitely many calls, and the event   *)
(* loop runs the timers that have expired each time around, however many   *)
(* sockets are ready.                                                      *)
Fairness ==
    /\ WF_vars(fault = "none" /\ Unwind)
    /\ SF_vars(fault = "none" /\ ClientReturns)
    /\ SF_vars(fault = "none" /\ HubTimeout)
    /\ \A w \in Lists : SF_vars(fault = "none" /\ AutoReconnectTimeout(w))

FairSpec == Spec /\ Fairness

-----------------------------------------------------------------------------
(* Properties.                                                             *)

One(b) == IF b THEN 1 ELSE 0

\* The Put()s that the functions under way have still to make.
Owed(s) == Cardinality({i \in 1 .. Len(stack) : stack[i] = Call("put", {s})})

\* At every moment, in every callback, the reference count of a session is
\* what its client holds, one for a connection that is not Disconnected, one
\* for autoreconnect, and what the functions on the stack will release: no
\* reference leaks and none is released twice (rfcomm.cpp, all Get and Put).
RefsAccounted ==
    \A s \in Session :
        refs[s] = held[s] + One(state[s] # "Disconnected") + One(autoreconnect[s])
                  + Owed(s)

\* A session waits on the list of the dead iff it exists and nobody refers to
\* it, until BtHub::Timeout has taken it: none is leaked, and none that has
\* been referred to again is deleted (bt.cpp DeadRemove, DeadObject, Timeout).
DeadIffUnreferenced ==
    \A s \in Session :
        /\ dead[s] <=> exists[s] /\ refs[s] = 0 /\ ~Doomed(s)
        /\ ~exists[s] => refs[s] = 0

\* A session that waits to be reconnected is on a list of the service, a list
\* that is not empty has its timer set while the service is started, and a
\* session that is connecting has its own timer: nothing waits without a time
\* limit and no timer hits a session that has moved on, also in the middle of a
\* callback (rfcomm.cpp, AddAutoReconnect, RemoveAutoReconnect,
\* RfcommOperationTimeout and their assertions).  Only AutoReconnectTimeout
\* leaves the delayed list without its timer, until its end.
WaitingIsTimed ==
    /\ \A s \in Session :
          /\ list[s] # "none" <=> autoreconnect[s] /\ state[s] = "Disconnected"
          /\ list[s] = "retry" => OnStack("retry")
          /\ opTimer[s] <=> state[s] \in {"SdpLookupChannel", "Connecting"}
    /\ fault = "none" =>
          \A w \in Lists :
              LET waiting == svc /\ \E s \in Session : list[s] = w
              IN  /\ armed[w] => waiting
                  /\ waiting => armed[w] \/ (w = "delayed" /\ OnStack("retry"))

\* The one timer of the hub serves the cleanup and the restart: never both at
\* once, set while there is something dead to delete, and set whenever the
\* event loop waits with a stopped hub that is to be restarted (bt.cpp
\* DeadObject, InvoluntaryStop, SetAutoRestart, Timeout).
HubTimerShared ==
    /\ ~(restartSet /\ cleanupSet)
    /\ (\E s \in Session : dead[s]) => cleanupSet /\ (hubArmed \/ OnStack("timeout"))
    /\ InLoop /\ autorestart /\ ~started => hubArmed

\* "A client may therefore invoke any method call from any callback" (bt.h,
\* section callbacks).  The library fails an assertion or uses a null timer in two
\* cases.  BtHub::Stop from the callback of an automatic attempt stops the service under
\* AutoReconnectTimeout.  And the helper is created anew, by Start or for the
\* autorestart, while SdpShutdown has lookups to reset, or after a client has
\* disconnected another session that was looking up from one of its callbacks: a
\* started hub has forgotten what was aborted before, and a stopped one has no lookups.
OnlyNestedCallsFault ==
    /\ fault = "AutoReconnectTimeout" => ~svc /\ \E s \in Session : list[s] = "delayed"
    /\ fault = "SdpCreateThread" => ~started /\ (aborted \/ OnStack("drain"))

\* A session that waits to be reconnected is tried again as long as the hub
\* stays started, whatever clients and other sessions do.
EventuallyRetried ==
    \A s \in Session :
        (list[s] \in Lists /\ started) ~> (list[s] \notin Lists \/ ~started
                                             \/ fault # "none")

\* A dead session is deleted or referred to again: the cleanup is not starved
\* by the restarts that share its timer.
EventuallyBuried ==
    \A s \in Session : dead[s] ~> (~dead[s] \/ fault # "none")

\* The sessions on a list share a timer, and so do the restart of the hub and the
\* burial of the dead (HubTimeout): each timer serves all that wait for it.
TimersServe == EventuallyRetried /\ EventuallyBuried

\* Sessions live as long as somebody refers to them, and are buried once.
ReferencesSound == RefsAccounted /\ DeadIffUnreferenced

\* Whatever waits has its timer, and no timer has anything else to hit.
TimersSound == WaitingIsTimed /\ HubTimerShared
=============================================================================
