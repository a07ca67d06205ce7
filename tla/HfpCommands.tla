----------------------------- MODULE HfpCommands -----------------------------
(***************************************************************************)
(* The AT command engine of HfpSession (libhfp/hfp.cpp): the queue of      *)
(* commands, of which only the first is sent and only when the previous    *)
(* one has been answered, the handshake that opens a connection, the       *)
(* HfpPendingCommand objects through which a client learns of the result,  *)
(* and the disconnection, which deletes every command.                     *)
(*                                                                         *)
(* The audio gateway answers each command it receives once, with OK or     *)
(* with ERROR.  A command is its kind and the pending object of its        *)
(* client; wire holds the kinds of the commands that the device has still  *)
(* to answer.                                                              *)
(*                                                                         *)
(* One thread, but clients are called back in the middle of functions.     *)
(* stack holds what the functions under way have still to do, innermost    *)
(* first, and is empty in the event loop:                                  *)
(*    "client"    a callback                                               *)
(*    "complete"  AtCommand::OK of a command whose effect called back      *)
(*    "use"       the rest of a Response() or OK() of the first command    *)
(*    "delete"    DeleteFirstCommand after iResponse() has returned true   *)
(*    "settle"    the end of HfpConsume                                    *)
(*    "abort"     __Disconnect with a reason, "quiet" without              *)
(*    "hangup"    the rest of it, after clients were told of the audio     *)
(* Using a deleted command, calling a pending object nobody has registered *)
(* with and failing an assertion are faults, and end the behaviour.        *)
(***************************************************************************)
EXTENDS Naturals, Sequences, FiniteSets

CONSTANTS
    Pend,           \* the HfpPendingCommand objects
    NoPend,         \* the command has none, or none any more
    MaxQueue,       \* bound: commands queued when a client adds one
    MaxWire,        \* bound: commands sent when a client adds one
    MaxNested,      \* bound: callbacks under way in which clients make calls
    NestedCalls     \* subset of {"Command", "Cancel", "Disconnect"}: what
                    \* clients call from inside a callback

ASSUME CommandsAssumption ==
    /\ NoPend \notin Pend
    /\ MaxQueue \in Nat
    /\ MaxWire \in Nat
    /\ MaxNested \in Nat
    /\ NestedCalls \subseteq {"Command", "Cancel", "Disconnect"}

VARIABLES
    conn,       \* m_conn_state
    rfcomm,     \* m_rfcomm_state
    queue,      \* m_commands
    wire,       \* what the device has received and not answered
    timer,      \* m_command_timer is set
    waiting,    \* the pending objects whose callback has not been invoked
    stack,
    fault       \* where the process failed, "none"

vars == <<conn, rfcomm, queue, wire, timer, waiting, stack, fault>>

Handshake == {"BRSF", "CIND=?", "CMER", "CLIP", "CCWA", "CHLD"}

\* Commands of clients: of one stage, with an effect that calls the client
\* back before the command completes (ATD, ATA, CHUP, BVRA), of two stages.
ClientKind == {"AT", "ATD", "COPS"}

Kind == Handshake \cup ClientKind \cup {"CIND?", "COPS?"}

Command == [kind : Kind, pend : Pend \cup {NoPend}]

TypeOK ==
    /\ conn \in {"Disconnected", "RfcommConnecting", "Handshaking", "Connected"}
    /\ rfcomm \in {"Disconnected", "Connecting", "Connected"}
    /\ queue \in Seq(Command)
    /\ wire \in Seq(Kind)
    /\ timer \in BOOLEAN
    /\ waiting \subseteq Pend
    /\ stack \in Seq({"client", "complete", "use", "delete", "settle", "abort",
                      "quiet", "hangup"})
    /\ fault \in {"none", "DeleteFirstCommand", "UseAfterDelete", "Unregistered"}

Init ==
    /\ conn = "Disconnected" /\ rfcomm = "Disconnected"
    /\ queue = <<>> /\ wire = <<>> /\ timer = FALSE
    /\ waiting = {} /\ stack = <<>> /\ fault = "none"

-----------------------------------------------------------------------------
(* Helpers.                                                                *)

Top(do) == stack # <<>> /\ Head(stack) = do

Return == stack' = Tail(stack)

InLoop == stack = <<>>

Callbacks == Cardinality({i \in 1 .. Len(stack) : stack[i] = "client"})

MayCall(call) ==
    InLoop \/ (Top("client") /\ Callbacks <= MaxNested /\ call \in NestedCalls)

\* A command of the session itself.
Internal(kind) == [kind |-> kind, pend |-> NoPend]

\* The commands that open a connection.
Opening == [i \in 1 .. 5 |->
               Internal(<<"BRSF", "CIND=?", "CMER", "CLIP", "CCWA">>[i])]

\* CompletePending of c: its pending object, if any, is called.
Called(c) == IF c.pend = NoPend THEN <<>> ELSE <<"client">>

\* Mutant: the command is taken off the queue when it completes.
CompletedDequeues == Tail(queue)

\* Mutant: CompletePending does not clear m_pend.
CompletedKeepsPend == queue

\* The first command has no pending object once it has completed.
Completed == [queue EXCEPT ![1].pend = NoPend]

\* Mutant: the timer is not set when a command is sent.
SendUntimed(q) ==
    /\ wire' = Append(wire, Head(q).kind)
    /\ UNCHANGED timer

\* SendCommand of the first command of q succeeds.
Send(q) ==
    /\ wire' = Append(wire, Head(q).kind)
    /\ timer' = TRUE

-----------------------------------------------------------------------------
(* Calls of the client.                                                    *)

Connect ==
    /\ InLoop \/ Top("client")
    /\ conn = "Disconnected" /\ rfcomm = "Disconnected"
    /\ conn' = "RfcommConnecting" /\ rfcomm' = "Connecting"
    /\ UNCHANGED <<queue, wire, timer, waiting, stack, fault>>

Disconnect ==
    /\ MayCall("Disconnect") /\ conn # "Disconnected"
    /\ stack' = <<"quiet">> \o stack
    /\ UNCHANGED <<conn, rfcomm, queue, wire, timer, waiting, fault>>

\* Mutant: a command is sent although others wait.
SendsAlways == TRUE

\* A command is sent at once only when it is alone.
SendsNow == queue = <<>>

\* PendingCommand: the command is queued, and sent if it is alone.  When that
\* fails the session disconnects and the command is deleted before the client
\* has the pending object, so the call goes to nobody.
IssueCommand(p, kind) ==
    /\ MayCall("Command")
    /\ conn = "Connected" /\ rfcomm = "Connected"
    /\ p \notin waiting
    /\ Len(queue) < MaxQueue /\ Len(wire) < MaxWire
    /\ queue' = Append(queue, [kind |-> kind, pend |-> p])
    /\ \/ /\ SendsNow
          /\ Send(queue')
          /\ waiting' = waiting \cup {p}
          /\ UNCHANGED fault
       \/ /\ SendsNow
          /\ fault' = "Unregistered"
          /\ UNCHANGED <<wire, timer, waiting>>
       \/ /\ ~SendsNow
          /\ waiting' = waiting \cup {p}
          /\ UNCHANGED <<wire, timer, fault>>
    /\ UNCHANGED <<conn, rfcomm, stack>>

\* Mutant: the first command can be cancelled as well.
CancellableAny == 1 .. Len(queue)

\* The current command is not thrown out.
Cancellable == 2 .. Len(queue)

\* HfpPendingCommand::Cancel, when it succeeds; the client is called back.
Cancel(p) ==
    /\ MayCall("Cancel") /\ p \in waiting
    /\ \E i \in Cancellable :
          /\ queue[i].pend = p
          /\ queue' = SubSeq(queue, 1, i - 1) \o SubSeq(queue, i + 1, Len(queue))
    /\ waiting' = waiting \ {p}
    /\ stack' = <<"client">> \o stack
    /\ UNCHANGED <<conn, rfcomm, wire, timer, fault>>

\* The client deletes the pending object and the command goes on.
Forget(p) ==
    /\ InLoop \/ Top("client")
    /\ p \in waiting
    /\ waiting' = waiting \ {p}
    /\ queue' = [i \in 1 .. Len(queue) |->
                    IF queue[i].pend = p THEN Internal(queue[i].kind) ELSE queue[i]]
    /\ UNCHANGED <<conn, rfcomm, wire, timer, stack, fault>>

ClientReturns ==
    /\ Top("client")
    /\ Return
    /\ UNCHANGED <<conn, rfcomm, queue, wire, timer, waiting, fault>>

\* HfpSession::AutoReconnect, of which the client is told.
AutoReconnect ==
    /\ InLoop /\ conn = "Disconnected" /\ rfcomm = "Disconnected"
    /\ conn' = "RfcommConnecting" /\ rfcomm' = "Connecting"
    /\ stack' = <<"client">>
    /\ UNCHANGED <<queue, wire, timer, waiting, fault>>

-----------------------------------------------------------------------------
(* The connection.                                                         *)

\* NotifyConnectionState and HfpHandshake, of a connection made or, when the
\* session was disconnected, accepted; of the latter the client is told.  The
\* commands queue behind those that have outlived the last connection.  When
\* the first command cannot be sent, RfcommSend disconnects, and so does the
\* caller.
HfpHandshake ==
    /\ InLoop /\ rfcomm \in {"Connecting", "Disconnected"}
    /\ rfcomm' = "Connected" /\ conn' = "Handshaking"
    /\ \/ /\ queue' = queue \o Opening
          /\ IF SendsNow THEN Send(queue') ELSE UNCHANGED <<wire, timer>>
          /\ stack' = IF rfcomm = "Connecting" THEN stack ELSE <<"client">>
       \/ /\ SendsNow
          /\ queue' = <<Internal("BRSF")>>
          /\ stack' = <<"abort", "abort">>
          /\ UNCHANGED <<wire, timer>>
    /\ UNCHANGED <<waiting, fault>>

\* The device hangs up, or the connection cannot be made.
ConnectionLost ==
    /\ InLoop /\ rfcomm # "Disconnected"
    /\ stack' = <<"abort">>
    /\ UNCHANGED <<conn, rfcomm, queue, wire, timer, waiting, fault>>

CommandTimeout ==
    /\ InLoop /\ timer
    /\ timer' = FALSE
    /\ stack' = <<"abort">>
    /\ UNCHANGED <<conn, rfcomm, queue, wire, waiting, fault>>

-----------------------------------------------------------------------------
(* Lines from the device (HfpConsume, AtCommand::iResponse).               *)

Answerable == InLoop /\ rfcomm = "Connected" /\ wire # <<>> /\ queue # <<>>

\* OK or ERROR completes the first command.  BRSF may queue CHLD behind.
Answer ==
    /\ Answerable
    /\ Head(queue).kind # "COPS"
    /\ wire' = Tail(wire)
    /\ \/ queue' = Completed
       \/ Head(queue).kind = "BRSF" /\ queue' = Append(Completed, Internal("CHLD"))
    /\ waiting' = waiting \ {Head(queue).pend}
    /\ stack' = Called(Head(queue)) \o <<"delete", "settle">>
    /\ UNCHANGED <<conn, rfcomm, timer, fault>>

\* OK changes the state of the session, which calls the client, first.
AnswerWithEvent ==
    /\ Answerable
    /\ Head(queue).kind = "ATD"
    /\ wire' = Tail(wire)
    /\ stack' = <<"client", "complete", "delete", "settle">>
    /\ UNCHANGED <<conn, rfcomm, queue, timer, waiting, fault>>

\* CmerCommand::ERROR disconnects.
RefuseCmer ==
    /\ Answerable
    /\ Head(queue).kind = "CMER"
    /\ wire' = Tail(wire)
    /\ stack' = <<"abort", "delete", "settle">>
    /\ UNCHANGED <<conn, rfcomm, queue, timer, waiting, fault>>

\* CopsCommand::ERROR.
RefuseCops ==
    /\ Answerable
    /\ Head(queue).kind = "COPS"
    /\ wire' = Tail(wire)
    /\ queue' = Completed
    /\ waiting' = waiting \ {Head(queue).pend}
    /\ stack' = Called(Head(queue)) \o <<"delete", "settle">>
    /\ UNCHANGED <<conn, rfcomm, timer, fault>>

\* CopsCommand::OK of the first stage sends the second, and the command stays.
\* When that fails the session disconnects under it.
AnswerCops ==
    /\ Answerable
    /\ Head(queue).kind = "COPS"
    /\ queue' = [queue EXCEPT ![1].kind = "COPS?"]
    /\ \/ wire' = Append(Tail(wire), "COPS?") /\ UNCHANGED stack
       \/ wire' = Tail(wire) /\ stack' = <<"abort", "use", "settle">>
    /\ UNCHANGED <<conn, rfcomm, timer, waiting, fault>>

\* CindRCommand::Response reports the indicators to the client one by one.
Indicators ==
    /\ Answerable
    /\ Head(queue).kind = "CIND?"
    /\ stack' = <<"client", "use">>
    /\ UNCHANGED <<conn, rfcomm, queue, wire, timer, waiting, fault>>

-----------------------------------------------------------------------------
(* What the functions on the stack have still to do.                       *)

\* The first command is used again: it must not have been deleted.  What is
\* queued after a disconnection is not the command.
UseStep ==
    /\ Top("use")
    /\ fault' = IF queue = <<>> \/ rfcomm # "Connected" THEN "UseAfterDelete" ELSE fault
    /\ Return
    /\ UNCHANGED <<conn, rfcomm, queue, wire, timer, waiting>>

CompleteStep ==
    /\ Top("complete")
    /\ IF queue = <<>>
       THEN fault' = "UseAfterDelete" /\ Return /\ UNCHANGED <<queue, waiting>>
       ELSE /\ queue' = Completed
            /\ waiting' = waiting \ {Head(queue).pend}
            /\ stack' = Called(Head(queue)) \o Tail(stack)
            /\ UNCHANGED fault
    /\ UNCHANGED <<conn, rfcomm, wire, timer>>

\* DeleteFirstCommand asserts that there is one, deletes it and starts the
\* next.
DeleteFirstCommand ==
    /\ Top("delete")
    /\ IF queue = <<>>
       THEN fault' = "DeleteFirstCommand" /\ Return /\ UNCHANGED <<queue, wire, timer>>
       ELSE /\ queue' = Tail(queue)
            /\ UNCHANGED fault
            /\ \/ queue' = <<>> /\ timer' = FALSE /\ Return /\ UNCHANGED wire
               \/ queue' # <<>> /\ Send(queue') /\ Return
               \/ queue' # <<>> /\ timer' = FALSE /\ UNCHANGED wire
                  /\ stack' = <<"abort">> \o Tail(stack)
    /\ UNCHANGED <<conn, rfcomm, waiting>>

\* Mutant: the handshake is over while commands of it wait.
HandshakeOverEarly == Len(queue) < 2

\* IsCommandPending() is false.
HandshakeOver == queue = <<>>

\* The end of HfpConsume, with HfpHandshakeDone.
SettleStep ==
    /\ Top("settle")
    /\ IF rfcomm = "Connected" /\ conn = "Handshaking" /\ HandshakeOver
       THEN /\ conn' = "Connected"
            /\ queue' = Append(queue, Internal("CIND?"))
            /\ \/ Send(queue') /\ stack' = <<"client">> \o Tail(stack)
               \/ stack' = <<"abort", "abort">> \o Tail(stack) /\ UNCHANGED <<wire, timer>>
       ELSE Return /\ UNCHANGED <<conn, queue, wire, timer>>
    /\ UNCHANGED <<rfcomm, waiting, fault>>

\* __Disconnect deletes the commands one by one, each calling its client.
AbortStep ==
    /\ (Top("abort") \/ Top("quiet")) /\ queue # <<>>
    /\ queue' = Tail(queue)
    /\ timer' = FALSE
    /\ waiting' = waiting \ {Head(queue).pend}
    /\ stack' = Called(Head(queue)) \o stack
    /\ UNCHANGED <<conn, rfcomm, wire, fault>>

\* m_conn_state after a disconnection.
Aborted == "Disconnected"

\* __DisconnectSco, when there is an audio connection and a reason, tells
\* clients that it has ended.  The session is still connected and accepts
\* commands.  (A callback owed for audio that ended before is left out: no
\* command is accepted then.)
AudioEnds ==
    /\ Top("abort") /\ queue = <<>> /\ conn = "Connected"
    /\ stack' = <<"client", "hangup">> \o Tail(stack)
    /\ UNCHANGED <<conn, rfcomm, queue, wire, timer, waiting, fault>>

\* Then the connection is closed, and the client told if there is a reason.
\* Commands queued since they were deleted stay, and so does their timer.
AbortDone ==
    /\ \/ (Top("abort") \/ Top("quiet")) /\ queue = <<>>
       \/ Top("hangup")
    /\ conn' = Aborted
    /\ rfcomm' = "Disconnected"
    /\ wire' = <<>>
    /\ stack' = (IF rfcomm # "Disconnected" /\ ~Top("quiet") THEN <<"client">> ELSE <<>>)
                \o Tail(stack)
    /\ UNCHANGED <<queue, timer, waiting, fault>>

-----------------------------------------------------------------------------
Client ==
    \/ Connect \/ Disconnect
    \/ \E p \in Pend : \/ Cancel(p) \/ Forget(p)
                       \/ \E kind \in ClientKind : IssueCommand(p, kind)

Reply ==
    Answer \/ AnswerWithEvent \/ RefuseCmer \/ RefuseCops \/ AnswerCops

Unwind ==
    \/ ClientReturns \/ UseStep \/ CompleteStep \/ DeleteFirstCommand
    \/ SettleStep \/ AbortStep \/ AudioEnds \/ AbortDone

Next ==
    /\ fault = "none"
    /\ \/ Client \/ AutoReconnect \/ HfpHandshake \/ ConnectionLost \/ CommandTimeout
       \/ Reply \/ Indicators \/ Unwind

Spec == Init /\ [][Next]_vars

(* Functions return, a callback at any depth makes finitely many calls, and *)
(* a command whose timer is set is answered or the timer expires.          *)
Fairness ==
    /\ WF_vars(fault = "none" /\ Unwind)
    /\ \A n \in 1 .. MaxNested + 1 :
          SF_vars(fault = "none" /\ Callbacks = n /\ ClientReturns)
    /\ SF_vars(fault = "none" /\ timer /\ (CommandTimeout \/ Reply))

FairSpec == Spec /\ Fairness

-----------------------------------------------------------------------------
(* Properties.                                                             *)

Carries(p) == {i \in 1 .. Len(queue) : queue[i].pend = p}

\* "Every HfpPendingCommand object returned is guaranteed to have its
\* registered callback invoked exactly once" (hfp.h): at every moment, also
\* inside callbacks and during a disconnection, a pending object that has not
\* been called belongs to exactly one queued command, and one that has been
\* called to none (hfp.cpp CompletePending, ~AtCommand, CancelCommand).
CalledExactlyOnce ==
    fault = "none" =>
        \A p \in Pend : Cardinality(Carries(p)) = (IF p \in waiting THEN 1 ELSE 0)

\* Commands of clients that have outlived a connection: they are queued though
\* it is closed, or still when the next one begins.
Outlived ==
    /\ queue # <<>>
    /\ rfcomm = "Connected" => conn = "Handshaking" /\ Head(queue).kind \in ClientKind

\* When the event loop waits, one command is with the device iff the queue is
\* not empty, it is the first of the queue, and the timer watches it: an answer
\* never meets another command, and none is waited for without a timeout
\* (hfp.cpp AddCommand, StartCommand, DeleteFirstCommand).  A command that has
\* outlived its connection is with no device, nor is any behind it, until its
\* timer disconnects again.
FirstIsSent ==
    InLoop /\ fault = "none" =>
        IF queue = <<>> THEN wire = <<>> /\ ~timer
        ELSE timer /\ wire = IF Outlived THEN <<>> ELSE <<Head(queue).kind>>

\* The handshake is exclusive: no client command is queued before it is over,
\* except in front of it those that have outlived the connection before, and it
\* is not over while one of its commands is queued, except that a disconnection
\* is emptying the queue (hfp.cpp HfpHandshakeDone).
HandshakeIsExclusive ==
    /\ \A i \in 1 .. Len(queue) :
          \/ queue[i].kind \in Handshake /\ conn = "Handshaking"
          \/ queue[i].kind \notin Handshake /\ conn = "Connected"
          \/ queue[i].kind \in ClientKind /\ Outlived
    /\ \A j \in 1 .. Len(queue) : \A i \in 1 .. j - 1 :
          queue[i].kind \in Handshake => queue[j].kind \in Handshake

\* A deleted command is only used, and the queue found empty, if the session
\* was disconnected while that very command was being answered.
OnlyDisconnectionFaults ==
    fault \in {"DeleteFirstCommand", "UseAfterDelete"} => rfcomm # "Connected"

\* Every command of a client is answered, aborted or cancelled in the end, and
\* a handshake ends, one way or the other, even if the device is mute (hfp.cpp
\* CommandTimeout).
EveryCommandCompletes ==
    /\ \A p \in Pend : p \in waiting ~> (p \notin waiting \/ fault # "none")
    /\ conn = "Handshaking" ~> (conn # "Handshaking" \/ fault # "none")

\* One command at a time, those of the handshake before those of clients.
OrderKept == FirstIsSent /\ HandshakeIsExclusive
=============================================================================
