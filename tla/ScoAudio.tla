------------------------------ MODULE ScoAudio ------------------------------
(***************************************************************************)
(* The audio connection of an HfpSession (libhfp/hfp.cpp) with the part of *)
(* SoundIoBufferBaseSync (libhfp/soundio-buf.h) that halts it, and the     *)
(* HfpService it belongs to.  The session is a SoundIo: a client opens it, *)
(* starts it and is called with packets; it is also an observer of the     *)
(* audio connection, which the other side may open and close.              *)
(*                                                                         *)
(* Everything runs in one thread.  stack holds what the functions under    *)
(* way have still to do, the innermost first; it is empty in the event     *)
(* loop.  The client is in one of its callbacks:                           *)
(*    "packet"  cb_NotifyPacket         "stop"  cb_NotifyAsyncStop         *)
(*    "conn"    cb_NotifyAudioConnection  "link"  cb_NotifyConnection      *)
(*    "command" that of an HfpPendingCommand                               *)
(* and between them the functions that called have                         *)
(*    "voice"   the rest of SndHandleAbort, after cb_NotifyAsyncStop       *)
(*    "drop"    HfpSession::__Disconnect with a reason, from the commands  *)
(*    "quiet"   the same without one: the client's Disconnect              *)
(*    "down"    the rest of "drop", after the audio                        *)
(*                                                                         *)
(* The service-level connection is up or down: how it comes about is in    *)
(* BtSessions and HfpCommands, and of the commands there is only whether   *)
(* one of the client is queued.  What a packet holds is left out, as is    *)
(* the level of the queue in the hardware.                                 *)
(***************************************************************************)
EXTENDS HfpService

CONSTANT
    MaxDepth    \* bound: length of stack at which the client makes no calls

ASSUME DepthAssumption == MaxDepth \in Nat

VARIABLES
    v,          \* the service
    s           \* the session

vars == <<v, s>>

SessionInit ==
    [link |-> FALSE,            \* m_conn_state = BTS_Connected
     sco |-> "Invalid",         \* m_sco_state, and m_sco_sock with it
     notifier |-> "none",       \* m_sco_not, by the handler it has
     abort |-> FALSE,           \* m_abort is set, and m_abort_to exists
     nvs |-> FALSE,             \* m_sco_nvs_pending
     nas |-> FALSE,             \* m_sco_nas_pending
     async |-> FALSE,           \* m_async_state # NULL
     believes |-> FALSE,        \* the client has started the stream and not
                                \* stopped it nor heard that it ended
     command |-> FALSE,         \* m_commands holds a command of the client
     stack |-> <<>>,
     fault |-> "none"]

Init == (\E c \in Config : v = ServiceInit(c)) /\ s = SessionInit

Callbacks == {"packet", "stop", "conn", "link", "command"}

Frames == Callbacks \cup {"voice", "drop", "quiet", "down"}

TypeOK ==
    /\ DOMAIN s = DOMAIN SessionInit
    /\ {s.link, s.abort, s.nvs, s.nas, s.async, s.believes, s.command} \subseteq BOOLEAN
    /\ s.sco \in {"Invalid", "Connecting", "Connected"}
    /\ s.notifier \in {"none", "connect", "data"}
    /\ s.stack \in Seq(Frames)
    /\ s.fault \in {"none", "AbortPending", "AudioOutlivesLink"}
    /\ DOMAIN v = DOMAIN ServiceInit(v.config)
    /\ {v.record, v.server} \subseteq Config \cup {Absent}

IsAsyncStarted(r) == r.sco = "Connected" /\ r.notifier # "none"

Push(r, calls) == [r EXCEPT !.stack = calls \o @]

-----------------------------------------------------------------------------
(* Disconnecting.                                                          *)

\* Mutant: a stop that was promised is called for after the client's own stop.
AsyncStopKeepsPromise(r) == [r EXCEPT !.notifier = "none", !.async = FALSE]

\* SndAsyncStop: whatever the notifier waits for, it is deleted.
SndAsyncStop(r) ==
    [r EXCEPT !.notifier = "none", !.async = FALSE, !.nas = @ /\ ~r.abort]

\* SndHandleAbort, up to its first callback.
SndHandleAbort(r) ==
    LET c == [r EXCEPT !.abort = FALSE, !.async = FALSE, !.nas = FALSE] IN
    IF r.nas THEN [Push(c, <<"stop", "voice">>) EXCEPT !.believes = FALSE]
    ELSE IF r.nvs THEN [Push(c, <<"conn">>) EXCEPT !.nvs = FALSE]
    ELSE c

\* __DisconnectSco closes the socket.
ScoClosed(r) ==
    [SndAsyncStop(r) EXCEPT !.nvs = TRUE, !.nas = IsAsyncStarted(r), !.sco = "Invalid"]

\* Mutant: notifications pending from an earlier call stay promised.
DisconnectScoAdds(r, notifyvs, notifyp, async) ==
    LET c == IF r.sco # "Invalid" THEN ScoClosed(r) ELSE r
        n == [c EXCEPT !.nvs = @ /\ notifyvs]
    IN  IF r.sco # "Invalid" /\ r.abort THEN [r EXCEPT !.fault = "AbortPending"]
        ELSE IF ~r.abort /\ r.sco = "Invalid" THEN r
        ELSE IF async THEN [n EXCEPT !.abort = TRUE]
        ELSE SndHandleAbort(n)

\* __DisconnectSco.  A call withdraws the notifications that it does not ask
\* for, its own and those of a call before it.
DisconnectSco(r, notifyvs, notifyp, async) ==
    LET c == IF r.sco # "Invalid" THEN ScoClosed(r) ELSE r
        n == [c EXCEPT !.nvs = @ /\ notifyvs, !.nas = @ /\ notifyp]
    IN  IF r.sco # "Invalid" /\ r.abort THEN [r EXCEPT !.fault = "AbortPending"]
        ELSE IF ~r.abort /\ r.sco = "Invalid" THEN r
        ELSE IF async THEN [n EXCEPT !.abort = TRUE]
        ELSE SndHandleAbort(n)

\* The socket has failed while data was moved.
Lost(r) == DisconnectSco(r, TRUE, TRUE, TRUE)

Returned(r) == [r EXCEPT !.stack = Tail(@)]

\* HfpSession::__Disconnect once the commands are deleted, with a reason or at
\* the client's request.
LinkDropped(r) == DisconnectSco(Push(r, <<"down">>), TRUE, TRUE, FALSE)

LinkClosed(r) == [DisconnectSco(r, FALSE, TRUE, TRUE) EXCEPT !.link = FALSE]

-----------------------------------------------------------------------------
(* Connecting.                                                             *)

\* ScoConnect: the client is heard of when the socket becomes writable.
ScoConnect(r) ==
    [r EXCEPT !.sco = "Connecting", !.notifier = "connect", !.abort = FALSE]

\* ScoConnectNotify: the connection has failed, or BufOpen forgets an abort.
ScoConnectNotify(r, works) ==
    LET c == [r EXCEPT !.notifier = "none", !.sco = "Connected"] IN
    IF works THEN Push([c EXCEPT !.abort = FALSE], <<"conn">>)
    ELSE DisconnectSco(c, TRUE, TRUE, FALSE)

-----------------------------------------------------------------------------
(* Actions: the client.                                                    *)

Ok == s.fault = "none"

InLoop == s.stack = <<>>

Top(calls) == ~InLoop /\ Head(s.stack) \in calls

InClient == Ok /\ (InLoop \/ (Top(Callbacks) /\ Len(s.stack) < MaxDepth))

SndOpen ==
    /\ InClient /\ v.scoEnabled /\ v.hub /\ s.link /\ s.sco = "Invalid"
    /\ s' = ScoConnect(s)
    /\ UNCHANGED v

SndClose ==
    /\ InClient
    /\ s' = [DisconnectSco(s, FALSE, FALSE, FALSE) EXCEPT !.believes = FALSE]
    /\ UNCHANGED v

SndAsyncStart ==
    /\ InClient /\ s.sco = "Connected"
    /\ s' = [s EXCEPT !.notifier = "data", !.believes = TRUE]
    /\ UNCHANGED v

\* A client stops what it believes to be started.
ClientStops ==
    /\ InClient /\ s.believes
    /\ s' = [SndAsyncStop(s) EXCEPT !.believes = FALSE]
    /\ UNCHANGED v

\* SndGetIBuf or SndQueueOBuf finds the connection lost.
Io ==
    /\ InClient /\ s.sco = "Connected"
    /\ s' = Lost(s)
    /\ UNCHANGED v

Disconnect ==
    /\ InClient /\ s.link
    /\ s' = Push(s, <<"quiet">>)
    /\ UNCHANGED v

\* PendingCommand, which queues a command.  One that cannot be sent ends the
\* process: the disconnection deletes it and calls its object before anybody
\* can have registered with that (HfpCommands, IssueCommand).
IssueCommand ==
    /\ InClient /\ s.link /\ ~s.command
    /\ s' = [s EXCEPT !.command = TRUE]
    /\ UNCHANGED v

ClientReturns ==
    /\ Ok /\ Top(Callbacks \ {"packet"})
    /\ s' = Returned(s)
    /\ UNCHANGED v

\* BufProcess: unless the stream was stopped, what the client queued is sent.
\* An abort always stops the stream, so none is left to handle here.
PacketReturns ==
    /\ Ok /\ Top({"packet"})
    /\ LET r == [Returned(s) EXCEPT !.async = FALSE] IN
       \/ s' = r
       \/ s.async /\ s' = Lost(r)
    /\ UNCHANGED v

-----------------------------------------------------------------------------
(* Actions: the rest of the functions that called the client.              *)

HandleAbortDone ==
    /\ Ok /\ Top({"voice"})
    /\ LET r == [Returned(s) EXCEPT !.nvs = FALSE] IN
       s' = IF s.nvs THEN Push(r, <<"conn">>) ELSE r
    /\ UNCHANGED v

\* DeleteFirstCommand of a disconnection: the object of the command is called.
CommandDeleted ==
    /\ Ok /\ Top({"drop", "quiet"}) /\ s.command
    /\ s' = Push([s EXCEPT !.command = FALSE], <<"command">>)
    /\ UNCHANGED v

\* The commands are deleted, and the audio connection is next.
AudioDisconnected ==
    /\ Ok /\ ~s.command
    /\ \/ Top({"drop"}) /\ s' = LinkDropped(Returned(s))
       \/ Top({"quiet"}) /\ s' = LinkClosed(Returned(s))
    /\ UNCHANGED v

\* The session is disconnected; NotifyConnectionState asserts that there is no
\* audio connection.
DisconnectDone ==
    /\ Ok /\ Top({"down"})
    /\ LET r == [Returned(s) EXCEPT !.link = FALSE] IN
       s' = IF ~s.link THEN r
            ELSE IF s.sco # "Invalid" THEN [r EXCEPT !.fault = "AudioOutlivesLink"]
            ELSE Push(r, <<"link">>)
    /\ UNCHANGED v

-----------------------------------------------------------------------------
(* Actions: the event loop.                                                *)

\* The handshake is over: a command that has outlived the last connection would
\* keep it waiting.
LinkUp ==
    /\ Ok /\ InLoop /\ ~s.link /\ ~s.command /\ v.hub
    /\ s' = [s EXCEPT !.link = TRUE]
    /\ UNCHANGED v

\* The device hangs up, or the timer of a command expires, also of one that
\* was queued while the connection ended.
LinkLost ==
    /\ Ok /\ InLoop /\ (s.link \/ s.command)
    /\ s' = Push(s, <<"drop">>)
    /\ UNCHANGED v

CommandAnswered ==
    /\ Ok /\ InLoop /\ s.link /\ s.command
    /\ s' = Push([s EXCEPT !.command = FALSE], <<"command">>)
    /\ UNCHANGED v

ScoWritable ==
    /\ Ok /\ InLoop /\ s.notifier = "connect"
    /\ \E works \in BOOLEAN : s' = ScoConnectNotify(s, works)
    /\ UNCHANGED v

\* ScoListenNotify and ScoAccept; a connection that is refused is closed.
ScoListenNotify ==
    /\ Ok /\ InLoop /\ v.listening
    /\ s.link /\ s.sco = "Invalid"
    /\ \E works \in BOOLEAN : s' = ScoConnectNotify(s, works)
    /\ UNCHANGED v

\* ScoDataNotify: the connection is found lost, or there is a packet.
ScoReadable ==
    /\ Ok /\ InLoop /\ s.notifier = "data"
    /\ s' \in {Lost(s), Push([s EXCEPT !.async = TRUE], <<"packet">>)}
    /\ UNCHANGED v

\* BufAsyncAbort
AbortTimeout ==
    /\ Ok /\ InLoop /\ s.abort
    /\ s' = SndHandleAbort(s)
    /\ UNCHANGED v

-----------------------------------------------------------------------------
(* Actions: the service.                                                   *)

Start ==
    /\ Ok /\ InLoop /\ ~v.hub
    /\ \E bad \in SUBSET (ServiceCalls \ {"again"}) : v' = HubStart(v, bad)
    /\ UNCHANGED s

\* BtHub::Stop leaves the sessions connected.
Stop ==
    /\ InClient /\ v.hub
    /\ v' = HubStop(v)
    /\ UNCHANGED s

\* BtHub::InvoluntaryStop disconnects them.
InvoluntaryStop ==
    /\ Ok /\ InLoop /\ v.hub
    /\ v' = HubStop(v)
    /\ s' = IF s.link THEN Push(s, <<"drop">>) ELSE s

SetScoEnabled ==
    /\ InClient
    /\ \E on \in BOOLEAN, bad \in SUBSET {"sco", "nosco"} : v' = ScoEnabled(v, on, bad)
    /\ UNCHANGED s

\* SetCaps, SetServiceName or SetServiceDesc
SetConfig ==
    /\ InClient
    /\ \E c \in Config \ {v.config}, bad \in SUBSET {"record", "again"} :
          v' = Configured(v, c, bad)
    /\ UNCHANGED s

Next ==
    \/ SndOpen \/ SndClose \/ SndAsyncStart \/ ClientStops \/ Io
    \/ Disconnect \/ IssueCommand \/ ClientReturns \/ PacketReturns
    \/ HandleAbortDone \/ CommandDeleted \/ AudioDisconnected \/ DisconnectDone
    \/ LinkUp \/ LinkLost \/ CommandAnswered \/ ScoWritable \/ ScoListenNotify \/ ScoReadable \/ AbortTimeout
    \/ Start \/ Stop \/ InvoluntaryStop \/ SetScoEnabled \/ SetConfig

\* Callbacks return, functions go on, and a timer that is due is run between
\* the events of other sources (events-indep.cpp).  A client that is told of a
\* deleted command does not issue another one every time: that would keep
\* __Disconnect deleting for ever.
Fairness ==
    /\ WF_vars(ClientReturns) /\ WF_vars(PacketReturns)
    /\ SF_vars(Top({"command"}) /\ ~s.command /\ ClientReturns)
    /\ WF_vars(HandleAbortDone) /\ WF_vars(DisconnectDone)
    /\ WF_vars(CommandDeleted) /\ WF_vars(AudioDisconnected)
    /\ SF_vars(AbortTimeout)

Spec == Init /\ [][Next]_vars /\ Fairness

-----------------------------------------------------------------------------
(* Properties.                                                             *)

\* The session is an endpoint as soundio.h promises it: the client hears of the
\* end of a stream that it did not stop, exactly once and in the end, through
\* the two ways to report it (at once or by timer) and whatever is called from
\* the callbacks in between (__DisconnectSco, SndHandleAbort).
Endpoint == INSTANCE AsyncEndpoint WITH
    open <- s.sco # "Invalid",
    started <- IsAsyncStarted(s),
    owed <- s.abort /\ s.nas /\ s.sco = "Invalid",
    believes <- s.believes

ImplementsEndpoint == Endpoint!Spec

\* While the hub runs, the service listens for audio exactly when that is
\* enabled, and the SDP server advertises what is configured or nothing; it
\* advertises nothing when the hub is stopped (Start, Stop, SetCaps,
\* SetServiceName, SetScoEnabled and their rollbacks).
ServiceMatchesConfig ==
    /\ v.listening <=> v.hub /\ v.scoEnabled
    /\ v.rfcomm <=> v.hub
    /\ v.server \in {Absent, v.config}
    /\ v.hub => v.record = v.server
    /\ ~v.hub => v.server = Absent

\* What a client calls, and all that is left to do of its Disconnect.
Method ==
    SndOpen \/ SndClose \/ SndAsyncStart \/ ClientStops \/ Io \/ Disconnect \/ IssueCommand

RestOfDisconnect == Top({"quiet"}) /\ (CommandDeleted \/ AudioDisconnected)

\* The notifications of the session are never invoked "directly through method
\* calls" (hfp.h): not from those of the endpoint, from Disconnect or from one
\* that issues a command, also when the call finds a notification pending or
\* the connection lost.  All that a method calls are the objects of the commands
\* that Disconnect deletes, once each (__DisconnectSco, SndHandleAbort,
\* DeleteFirstCommand).
NoCallsFromMethods ==
    [][/\ Method => s'.stack \in {s.stack, <<"quiet">> \o s.stack}
       /\ RestOfDisconnect =>
             \/ s'.stack = Tail(s.stack)
             \/ s.command /\ ~s'.command /\ s'.stack = <<"command">> \o s.stack]_vars
=============================================================================
