------------------------------ MODULE SdpTasks ------------------------------
(***************************************************************************)
(* SdpAsyncTaskHandler (libhfp/bt.cpp): SDP lookups are blocking library   *)
(* calls, so a forked helper process performs them.  The parent keeps a    *)
(* FIFO of tasks, writes the parameters of its head to a request pipe, and *)
(* is called back by the event loop when the response pipe is readable.    *)
(* A task cancelled while the helper works on it leaves the queue at once; *)
(* m_current_aborted remembers that the next reply belongs to nobody.      *)
(*                                                                         *)
(* The contents of a request are abstracted to its serial number, so that  *)
(* a reply delivered to the wrong task is visible.  The owners of tasks    *)
(* (RfcommSession objects) appear through current[t], the request the      *)
(* session that holds t in m_rfcomm_sdp_task is waiting for.               *)
(*                                                                         *)
(* The parent is one thread, but BtHub::InvoluntaryStop and the cb_Result  *)
(* callbacks run inside its functions.  pc says where the thread stands    *)
(* between two actions:                                                    *)
(*    "loop"      in the event loop, or in a client call or a callback     *)
(*                made when the handler has nothing left to do             *)
(*    "shutdown"  at the head of the loop of SdpShutdown                   *)
(*    "callback"  in a cb_Result that SdpShutdown invoked                  *)
(*    "sweep"     in BtHub::InvoluntaryStop, disconnecting the devices     *)
(* A failed assertion ends the process: fault names the function it is in. *)
(***************************************************************************)
EXTENDS Naturals, Sequences, FiniteSets

CONSTANTS
    Task,           \* the SdpTask objects
    MaxRequests,    \* bound: requests submitted in one behaviour
    MaxDeaths,      \* bound: helper processes that die by themselves
    DiesWhen,       \* subset of {"busy", "idle"}: when the helper may die
    NestedCancel    \* TRUE iff clients cancel other tasks from a callback

ASSUME SdpAssumption ==
    /\ MaxRequests \in Nat
    /\ MaxDeaths \in Nat
    /\ DiesWhen \subseteq {"busy", "idle"}
    /\ NestedCancel \in BOOLEAN

VARIABLES
    open,       \* the pipes exist: m_rqpipe >= 0
    tasks,      \* m_tasks
    aborted,    \* m_current_aborted
    rqpipe,     \* requests written and not yet read by the helper
    rspipe,     \* replies written and not yet read by the parent
    helper,     \* state of the helper process
    work,       \* request the helper is working on, 0 when none
    current,    \* per task, the request its owner waits for, 0 when none
    outcome,    \* per request, what its owner was told
    serial,     \* number of requests submitted so far
    deaths,     \* number of helpers that died by themselves
    diedIdle,   \* one of them died while it had nothing to do
    pc,         \* where the parent's thread stands
    sweeping,   \* SdpShutdown was called through InvoluntaryStop
    fault       \* function whose assertion failed, "none"

handlerVars == <<open, tasks, aborted>>
pipeVars == <<rqpipe, rspipe, helper, work>>
deathVars == <<deaths, diedIdle>>
ownerVars == <<current, outcome, serial>>
controlVars == <<pc, sweeping, fault>>
vars == <<handlerVars, pipeVars, deathVars, ownerVars, controlVars>>

Serial == 1 .. MaxRequests

HandlerTypeOK ==
    /\ open \in BOOLEAN
    /\ tasks \in Seq(Task)
    /\ aborted \in BOOLEAN

PipeTypeOK ==
    /\ rqpipe \in Seq(Serial)
    /\ rspipe \in Seq(Serial)
    /\ helper \in {"none", "idle", "busy", "dead"}
    /\ work \in 0 .. MaxRequests
    /\ helper = "busy" => work # 0
    /\ deaths \in 0 .. MaxDeaths
    /\ diedIdle \in BOOLEAN

OwnerTypeOK ==
    /\ current \in [Task -> 0 .. MaxRequests]
    /\ outcome \in [Serial -> {"unused", "waiting", "answered", "reset",
                               "cancelled"}]
    /\ serial \in 0 .. MaxRequests

ControlTypeOK ==
    /\ pc \in {"loop", "shutdown", "callback", "sweep"}
    /\ sweeping \in BOOLEAN
    /\ fault \in {"none", "SdpDataReadyNot", "SdpCancel", "SdpCreateThread",
                  "RfcommSdpLookupChannelComplete"}

TypeOK == HandlerTypeOK /\ PipeTypeOK /\ OwnerTypeOK /\ ControlTypeOK

Init ==
    /\ open = FALSE /\ tasks = <<>> /\ aborted = FALSE
    /\ rqpipe = <<>> /\ rspipe = <<>> /\ helper = "none" /\ work = 0
    /\ deaths = 0 /\ diedIdle = FALSE
    /\ current = [t \in Task |-> 0]
    /\ outcome = [n \in Serial |-> "unused"]
    /\ serial = 0
    /\ pc = "loop" /\ sweeping = FALSE /\ fault = "none"

-----------------------------------------------------------------------------
(* Helpers.                                                                *)

Members(s) == {s[i] : i \in 1 .. Len(s)}

Queued == Members(tasks)

\* Mutant: a cancelled task is left on the queue.
UnlinkNothing(s, t) == s

\* ListItem::Unlink of task t, wherever it stands in the queue.
Unlink(s, t) ==
    LET k == CHOOSE i \in 1 .. Len(s) : s[i] = t
    IN  SubSeq(s, 1, k - 1) \o SubSeq(s, k + 1, Len(s))

\* An assertion in function f fails.
Fails(f) == fault' = f

\* The owner of t learns that its request n came to the given end.
Tell(t, n, how) ==
    /\ outcome' = [outcome EXCEPT ![n] = how]
    /\ current' = [current EXCEPT ![t] = 0]
    /\ UNCHANGED serial

\* A write to the request pipe succeeds iff a process can read it.
Writable == helper # "dead"

\* SdpNextQueue with a live helper: request n is handed over.
SdpNextQueue(n) == rqpipe' = Append(rqpipe, n) /\ UNCHANGED <<rspipe, helper, work>>

\* Mutant: the head of the queue alone decides.
WasIdleNoAborted == tasks = <<>>

\* Nothing has been written that the helper has not answered (was_idle).
WasIdle == tasks = <<>> /\ ~aborted

\* Mutant: cancelling the head does not mark its request as aborted.
AbortsNever(t) == aborted

\* Whether a reply is to be dropped once t has been cancelled.
AbortsRequest(t) == aborted \/ t = Head(tasks)

\* Mutant: the reply is consumed and the next task is not started.
ForgetNext(rest) == rqpipe

\* The request pipe after a reply, when rest is what remains of the queue.
StartNext(rest) ==
    IF rest = <<>> THEN rqpipe ELSE Append(rqpipe, current[Head(rest)])

\* The first part of SdpShutdown, which closes the pipes and kills the helper.
ClosePipes ==
    /\ open' = FALSE /\ aborted' = FALSE
    /\ rqpipe' = <<>> /\ rspipe' = <<>> /\ helper' = "none" /\ work' = 0
    /\ pc' = "shutdown"

\* BtHub::InvoluntaryStop: shut down first, then disconnect every device.
InvoluntaryStop == ClosePipes /\ sweeping' = TRUE

-----------------------------------------------------------------------------
(* The parent: calls from BtHub and from the sessions.                     *)

\* SdpCreateThread when it succeeds; when it fails nothing is left behind.
SdpCreateThread ==
    /\ pc = "loop" /\ ~open
    /\ IF tasks # <<>> \/ aborted
       THEN Fails("SdpCreateThread") /\ UNCHANGED <<open, helper>>
       ELSE open' = TRUE /\ helper' = "idle" /\ UNCHANGED fault
    /\ UNCHANGED <<tasks, aborted, rqpipe, rspipe, work, deathVars, ownerVars, pc,
                   sweeping>>

\* BtHub::Stop: the event loop is not entered before the queue is drained.
SdpStop ==
    /\ pc = "loop" /\ open
    /\ ClosePipes
    /\ sweeping' = FALSE
    /\ UNCHANGED <<tasks, deathVars, ownerVars, fault>>

\* SdpQueue; a closed handler refuses the task and nothing changes.  When the
\* queue is idle the request is written at once.
SdpQueue(t) ==
    /\ pc = "loop" /\ open
    /\ current[t] = 0 /\ serial < MaxRequests
    /\ tasks' = Append(tasks, t)
    /\ IF WasIdle THEN Writable /\ SdpNextQueue(serial + 1)
                  ELSE UNCHANGED pipeVars
    /\ serial' = serial + 1
    /\ current' = [current EXCEPT ![t] = serial + 1]
    /\ outcome' = [outcome EXCEPT ![serial + 1] = "waiting"]
    /\ UNCHANGED <<open, aborted, deathVars, controlVars>>

\* SdpQueue when that write fails: the whole of InvoluntaryStop runs before it
\* returns to the owner, who has not recorded the task yet.
SdpQueueShortWrite(t) ==
    /\ pc = "loop" /\ open
    /\ current[t] = 0 /\ serial < MaxRequests
    /\ WasIdle /\ ~Writable
    /\ tasks' = Append(tasks, t)
    /\ InvoluntaryStop
    /\ UNCHANGED <<deathVars, ownerVars, fault>>

\* SdpCancel, by the session that waits for t.
SdpCancel(t) ==
    /\ pc = "loop" \/ (pc = "callback" /\ NestedCancel)
    /\ current[t] # 0
    /\ \/ /\ t \in Queued
          /\ tasks' = Unlink(tasks, t)
          /\ aborted' = AbortsRequest(t)
          /\ Tell(t, current[t], "cancelled")
          /\ UNCHANGED fault
       \/ /\ t \notin Queued
          /\ Fails("SdpCancel")
          /\ UNCHANGED <<tasks, aborted, ownerVars>>
    /\ UNCHANGED <<open, pipeVars, deathVars, pc, sweeping>>

-----------------------------------------------------------------------------
(* The parent: the response pipe is readable (SdpDataReadyNot).            *)

Readable == open /\ (rspipe # <<>> \/ helper = "dead")

\* Nobody is being served: assert(!m_tasks.Empty()).
DataReadyUnexpected ==
    /\ pc = "loop" /\ Readable
    /\ ~aborted /\ tasks = <<>>
    /\ Fails("SdpDataReadyNot")
    /\ UNCHANGED <<handlerVars, pipeVars, deathVars, ownerVars, pc, sweeping>>

\* End of file: the helper is gone.
DataReadyEof ==
    /\ pc = "loop" /\ Readable
    /\ aborted \/ tasks # <<>>
    /\ rspipe = <<>>
    /\ InvoluntaryStop
    /\ UNCHANGED <<tasks, deathVars, ownerVars, fault>>

\* What remains of the queue once the reply has been taken off: the reply is
\* for the head, unless the task it was for has been cancelled.
Remaining == IF aborted THEN tasks ELSE Tail(tasks)

\* The new head is written first, then the owner is told, or the reply dropped.
DataReadyReply ==
    /\ pc = "loop" /\ Readable
    /\ aborted \/ tasks # <<>>
    /\ rspipe # <<>>
    /\ Remaining = <<>> \/ Writable
    /\ tasks' = Remaining
    /\ aborted' = FALSE
    /\ rqpipe' = StartNext(Remaining)
    /\ rspipe' = Tail(rspipe)
    /\ IF aborted THEN UNCHANGED ownerVars
                  ELSE Tell(Head(tasks), Head(rspipe), "answered")
    /\ UNCHANGED <<open, helper, work, deathVars, controlVars>>

\* The write of the new head fails: InvoluntaryStop runs before the owner of
\* the finished task, which is on no list any more, has been told.
DataReadyShortWrite ==
    /\ pc = "loop" /\ Readable
    /\ aborted \/ tasks # <<>>
    /\ rspipe # <<>>
    /\ Remaining # <<>> /\ ~Writable
    /\ tasks' = Remaining
    /\ InvoluntaryStop
    /\ UNCHANGED <<deathVars, ownerVars, fault>>

-----------------------------------------------------------------------------
(* The parent: the rest of SdpShutdown and of InvoluntaryStop.             *)

\* The head is told ECONNRESET.  A task whose owner has not recorded it yet
\* makes RfcommSdpLookupChannelComplete fail its first assertion.
ShutdownResult ==
    /\ pc = "shutdown" /\ tasks # <<>>
    /\ tasks' = Tail(tasks)
    /\ pc' = "callback"
    /\ LET t == Head(tasks)
       IN  IF current[t] = 0
           THEN Fails("RfcommSdpLookupChannelComplete") /\ UNCHANGED ownerVars
           ELSE Tell(t, current[t], "reset") /\ UNCHANGED fault
    /\ UNCHANGED <<open, aborted, pipeVars, deathVars, sweeping>>

CallbackReturns ==
    /\ pc = "callback"
    /\ pc' = "shutdown"
    /\ UNCHANGED <<handlerVars, pipeVars, deathVars, ownerVars, sweeping, fault>>

ShutdownDone ==
    /\ pc = "shutdown" /\ tasks = <<>>
    /\ pc' = IF sweeping THEN "sweep" ELSE "loop"
    /\ UNCHANGED <<handlerVars, pipeVars, deathVars, ownerVars, sweeping, fault>>

\* Every session still waiting for a lookup cancels it: assert that its task
\* is on the queue.  None is, the queue has been drained.
Sweep ==
    /\ pc = "sweep"
    /\ IF \E t \in Task : current[t] # 0
       THEN Fails("SdpCancel") /\ UNCHANGED <<pc, sweeping>>
       ELSE pc' = "loop" /\ sweeping' = FALSE /\ UNCHANGED fault
    /\ UNCHANGED <<handlerVars, pipeVars, deathVars, ownerVars>>

-----------------------------------------------------------------------------
(* The helper process (SdpTaskThread and SdpLookupChannel).                *)

\* The helper reads one request and starts the lookup.
HelperRead ==
    /\ helper = "idle" /\ rqpipe # <<>>
    /\ helper' = "busy"
    /\ work' = Head(rqpipe)
    /\ rqpipe' = Tail(rqpipe)
    /\ UNCHANGED <<handlerVars, rspipe, deathVars, ownerVars, controlVars>>

\* The lookup ends, with a channel or an error, and the reply is written.
HelperReply ==
    /\ helper = "busy"
    /\ helper' = "idle"
    /\ work' = 0
    /\ rspipe' = Append(rspipe, work)
    /\ UNCHANGED <<handlerVars, rqpipe, deathVars, ownerVars, controlVars>>

\* The helper crashes or is killed; what it was asked is lost, what it has
\* written stays in the response pipe.
HelperDies ==
    /\ helper \in {"idle", "busy"} /\ deaths < MaxDeaths
    /\ LET idle == helper = "idle" /\ rqpipe = <<>>
       IN  /\ (IF idle THEN "idle" ELSE "busy") \in DiesWhen
           /\ diedIdle' = (diedIdle \/ idle)
    /\ helper' = "dead" /\ work' = 0 /\ rqpipe' = <<>>
    /\ deaths' = deaths + 1
    /\ UNCHANGED <<handlerVars, rspipe, ownerVars, controlVars>>

-----------------------------------------------------------------------------
DataReady ==
    DataReadyUnexpected \/ DataReadyEof \/ DataReadyReply \/ DataReadyShortWrite
Unwind == ShutdownResult \/ CallbackReturns \/ ShutdownDone \/ Sweep
Helper == HelperRead \/ HelperReply

Next ==
    /\ fault = "none"
    /\ \/ SdpCreateThread \/ SdpStop
       \/ \E t \in Task : SdpQueue(t) \/ SdpQueueShortWrite(t) \/ SdpCancel(t)
       \/ DataReady \/ Unwind
       \/ Helper \/ HelperDies

Spec == Init /\ [][Next]_vars

(* The event loop polls a readable pipe, functions return, and a lookup    *)
(* ends because libbluetooth bounds it with its own timeouts.              *)
Fairness ==
    /\ WF_vars(fault = "none" /\ DataReady)
    /\ WF_vars(fault = "none" /\ Unwind)
    /\ WF_vars(fault = "none" /\ HelperRead)
    /\ WF_vars(fault = "none" /\ HelperReply)

FairSpec == Spec /\ Fairness

-----------------------------------------------------------------------------
(* Properties.                                                             *)

\* Requests between the parent and the helper, in any of the three places.
InFlight == Len(rqpipe) + Len(rspipe) + (IF helper = "busy" THEN 1 ELSE 0)

\* SdpNextQueue never blocks because at most one request travels: a second
\* one is written only when the reply to the first has been read, whether or
\* not the first was cancelled meanwhile (bt.cpp SdpNextQueue).
OneInFlight == InFlight <= 1

\* The reply that travels answers the head of the queue unless the request
\* was cancelled, and then no owner waits for it (bt.cpp SdpDataReadyNot reads
\* it straight into the head's parameters).
InTransit == Members(rqpipe) \cup Members(rspipe)
             \cup (IF helper = "busy" THEN {work} ELSE {})

ReplyMatchesHead ==
    \A n \in InTransit :
        IF aborted THEN \A t \in Task : current[t] # n
        ELSE tasks # <<>> /\ current[Head(tasks)] = n

\* Between two handlers the queue holds exactly the tasks some session waits
\* for, each once: no session waits for a task the handler has forgotten.
NoDuplicates ==
    \A i, j \in 1 .. Len(tasks) : tasks[i] = tasks[j] => i = j

QueueIsWaiters ==
    pc = "loop" /\ fault = "none" =>
        NoDuplicates /\ Queued = {t \in Task : current[t] # 0}

\* A helper that dies in the middle of a lookup makes no assertion fail: the
\* code of SdpDataReadyNot that logs "SDP thread terminated unexpectedly"
\* stops the hub and every owner is told.  Only a helper that dies while it has
\* nothing to do makes the parent's assertions about the queue fail, and only
\* a request aborted during a shutdown makes SdpCreateThread's.
OnlyIdleDeathFaults ==
    /\ fault \in {"SdpDataReadyNot", "SdpCancel",
                  "RfcommSdpLookupChannelComplete"} => diedIdle
    /\ fault = "SdpCreateThread" => aborted /\ NestedCancel

\* The interface promise of TaskService, safety part.
Service == INSTANCE TaskService
ImplementsService == Service!Spec

\* Every lookup is settled: no session stays in RFC_SdpLookupChannel for ever
\* even if it does not time out, and even if the helper dies.
EveryLookupSettles ==
    \A t \in Task : current[t] # 0 ~> (current[t] = 0 \/ fault # "none")
=============================================================================
