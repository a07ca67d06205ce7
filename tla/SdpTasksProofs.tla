--------------------------- MODULE SdpTasksProofs ---------------------------
(***************************************************************************)
(* Proofs about SdpTasks, for every set of tasks and every bound: type     *)
(* correctness, the discipline of the two pipes, and that the handler      *)
(* implements TaskService; and about HciTasks, the other handler of tasks  *)
(* of the hub, for every set of devices and every bound: the lists of      *)
(* tasks and their owners agree.                                           *)
(***************************************************************************)
EXTENDS SdpTasks, HciTasks, SequenceTheorems, FiniteSetTheorems, WellFoundedInduction, TLAPS

Distinct(s) == \A i, j \in 1 .. Len(s) : s[i] = s[j] => i = j

\* Taking a task off a queue without duplicates leaves the others in order.
LEMMA UnlinkLemma ==
    ASSUME NEW s \in Seq(Task), NEW t \in Members(s), Distinct(s)
    PROVE  /\ Unlink(s, t) \in Seq(Task)
           /\ Members(Unlink(s, t)) = Members(s) \ {t}
           /\ Distinct(Unlink(s, t))
           /\ t # Head(s) => Unlink(s, t) # <<>> /\ Head(Unlink(s, t)) = Head(s)
  <1> DEFINE k == CHOOSE i \in 1 .. Len(s) : s[i] = t
             u == SubSeq(s, 1, k - 1) \o SubSeq(s, k + 1, Len(s))
  <1>1. k \in 1 .. Len(s) /\ s[k] = t
    BY DEF Members
  <1>2. Unlink(s, t) = u
    BY DEF Unlink
  <1> HIDE DEF k
  <1>3. /\ u \in Seq(Task)
        /\ Len(u) = Len(s) - 1
        /\ \A i \in 1 .. Len(u) : u[i] = IF i < k THEN s[i] ELSE s[i + 1]
    <2> DEFINE v == SubSeq(s, 1, k - 1)
               w == SubSeq(s, k + 1, Len(s))
    <2>1. Len(s) \in Nat /\ \A i \in 1 .. Len(s) : s[i] \in Task
      OBVIOUS
    <2>2. /\ v \in Seq(Task)
          /\ Len(v) = k - 1
          /\ \A i \in 1 .. k - 1 : v[i] = s[i]
      BY <1>1, <2>1, SubSeqProperties
    <2>3. /\ w \in Seq(Task)
          /\ Len(w) = Len(s) - k
          /\ \A i \in 1 .. Len(s) - k : w[i] = s[k + i]
      BY <1>1, <2>1, SubSeqProperties
    <2> HIDE DEF v, w
    <2>4. /\ v \o w \in Seq(Task)
          /\ Len(v \o w) = Len(v) + Len(w)
          /\ \A i \in 1 .. Len(v) + Len(w) :
                (v \o w)[i] = IF i <= Len(v) THEN v[i] ELSE w[i - Len(v)]
      BY <2>2, <2>3, ConcatProperties
    <2>5. u = v \o w
      BY DEF v, w
    <2> HIDE DEF u
    <2>6. Len(u) = Len(s) - 1
      BY <1>1, <2>1, <2>2, <2>3, <2>4, <2>5
    <2>7. ASSUME NEW i \in 1 .. Len(u)
          PROVE  u[i] = IF i < k THEN s[i] ELSE s[i + 1]
      <3>1. CASE i < k
        BY <1>1, <2>1, <2>2, <2>3, <2>4, <2>5, <2>6, <3>1
      <3>2. CASE ~(i < k)
        <4>1. i - (k - 1) \in 1 .. Len(s) - k /\ k + (i - (k - 1)) = i + 1
          BY <1>1, <2>1, <2>6, <3>2
        <4>2. u[i] = w[i - (k - 1)]
          BY <1>1, <2>1, <2>2, <2>3, <2>4, <2>5, <2>6, <3>2
        <4> QED BY <2>3, <3>2, <4>1, <4>2
      <3> QED BY <3>1, <3>2
    <2> QED BY <2>4, <2>5, <2>6, <2>7
  <1> HIDE DEF u
  <1>4. \A i \in 1 .. Len(s) : i # k => s[i] # t
    BY <1>1 DEF Distinct
  <1>5. Members(u) = Members(s) \ {t}
    <2>1. ASSUME NEW i \in 1 .. Len(u) PROVE u[i] \in Members(s) \ {t}
      BY <1>1, <1>3, <1>4 DEF Members
    <2>2. ASSUME NEW i \in 1 .. Len(s), s[i] # t PROVE s[i] \in Members(u)
      <3>1. CASE i < k
        <4>1. i \in 1 .. Len(u) /\ u[i] = s[i]
          BY <1>1, <1>3, <3>1
        <4> QED BY <4>1 DEF Members
      <3>2. CASE i > k
        <4>1. i - 1 \in 1 .. Len(u) /\ u[i - 1] = s[i]
          BY <1>1, <1>3, <3>2
        <4> QED BY <4>1 DEF Members
      <3> QED BY <1>1, <2>2, <3>1, <3>2
    <2> QED BY <2>1, <2>2 DEF Members
  <1>6. Distinct(u)
    BY <1>1, <1>3 DEF Distinct
  <1>7. ASSUME t # Head(s) PROVE u # <<>> /\ Head(u) = Head(s)
    <2>1. k # 1
      BY <1>1, <1>7
    <2> QED BY <1>1, <1>3, <2>1
  <1> QED BY <1>2, <1>3, <1>5, <1>6, <1>7

-----------------------------------------------------------------------------
LEMMA EmptyQueues == <<>> \in Seq(Task) /\ <<>> \in Seq(Serial)
  BY EmptySeq

LEMMA SerialsAreNaturals ==
    /\ Serial \subseteq 1 .. MaxRequests
    /\ \A n \in Nat : n \in Serial <=> n # 0 /\ n <= MaxRequests
  BY SdpAssumption DEF Serial

LEMMA TellType ==
    ASSUME OwnerTypeOK, NEW t \in Task, NEW n \in Serial,
           NEW how \in {"answered", "reset", "cancelled"}, Tell(t, n, how)
    PROVE  OwnerTypeOK'
  BY SdpAssumption DEF OwnerTypeOK, Tell

\* Any member of a queue can be unlinked, duplicates or not.
LEMMA UnlinkType ==
    ASSUME NEW s \in Seq(Task), NEW t \in Members(s)
    PROVE  Unlink(s, t) \in Seq(Task)
  <1> DEFINE k == CHOOSE i \in 1 .. Len(s) : s[i] = t
             v == SubSeq(s, 1, k - 1)
             w == SubSeq(s, k + 1, Len(s))
  <1>1. k \in 1 .. Len(s)
    BY DEF Members
  <1> HIDE DEF k
  <1>2. Len(s) \in Nat /\ \A i \in 1 .. Len(s) : s[i] \in Task
    OBVIOUS
  <1>3. v \in Seq(Task) /\ w \in Seq(Task)
    BY <1>1, <1>2, SubSeqProperties
  <1>4. v \o w \in Seq(Task)
    BY <1>3, ConcatProperties
  <1> QED BY <1>4 DEF Unlink, k

LEMMA ClosePipesType ==
    ASSUME TypeOK, ClosePipes, UNCHANGED deathVars
    PROVE  /\ tasks' \in Seq(Task) => HandlerTypeOK'
           /\ PipeTypeOK'
           /\ sweeping' \in BOOLEAN /\ UNCHANGED fault => ControlTypeOK'
  <1> USE DEF TypeOK, ClosePipes
  <1>1. tasks' \in Seq(Task) => HandlerTypeOK'
    BY DEF HandlerTypeOK
  <1>2. rqpipe' \in Seq(Serial) /\ rspipe' \in Seq(Serial)
    BY EmptyQueues
  <1>3. PipeTypeOK'
    BY <1>2, SdpAssumption DEF PipeTypeOK, deathVars
  <1>4. sweeping' \in BOOLEAN /\ UNCHANGED fault => ControlTypeOK'
    BY DEF ControlTypeOK
  <1> QED BY <1>1, <1>3, <1>4

LEMMA InitType == Init => TypeOK
  <1> SUFFICES ASSUME Init PROVE TypeOK
    OBVIOUS
  <1>1. HandlerTypeOK
    BY EmptyQueues DEF Init, HandlerTypeOK
  <1>2. rqpipe \in Seq(Serial) /\ rspipe \in Seq(Serial)
    BY EmptyQueues DEF Init
  <1>2a. helper = "none" /\ work = 0 /\ deaths = 0 /\ diedIdle = FALSE
    BY DEF Init
  <1>3. PipeTypeOK
    <2>1. work \in 0 .. MaxRequests /\ deaths \in 0 .. MaxDeaths
      BY <1>2a, SdpAssumption
    <2>2. diedIdle \in BOOLEAN
      BY <1>2a, Zenon
    <2>3. helper \in {"none", "idle", "busy", "dead"} /\ (helper = "busy" => work # 0)
      BY <1>2a
    <2> QED BY <1>2, <2>1, <2>2, <2>3 DEF PipeTypeOK
  <1>4. OwnerTypeOK
    BY SdpAssumption DEF Init, OwnerTypeOK
  <1>5. ControlTypeOK
    BY DEF Init, ControlTypeOK
  <1> QED BY <1>1, <1>3, <1>4, <1>5 DEF TypeOK

LEMMA StepType ==
    ASSUME TypeOK, QueueIsWaiters, [Next]_vars, fault = "none"
    PROVE  TypeOK'
  <1>0. HandlerTypeOK /\ PipeTypeOK /\ OwnerTypeOK /\ ControlTypeOK
    BY DEF TypeOK
  <1>u. /\ UNCHANGED handlerVars => HandlerTypeOK'
        /\ UNCHANGED <<pipeVars, deathVars>> => PipeTypeOK'
        /\ UNCHANGED ownerVars => OwnerTypeOK'
        /\ UNCHANGED controlVars => ControlTypeOK'
    BY <1>0 DEF HandlerTypeOK, PipeTypeOK, OwnerTypeOK, ControlTypeOK, handlerVars,
                pipeVars, deathVars, ownerVars, controlVars
  <1>1. CASE SdpCreateThread
    <2>0. HandlerTypeOK'
      BY <1>0, <1>1 DEF SdpCreateThread, HandlerTypeOK
    <2>1. PipeTypeOK'
      BY <1>0, <1>1 DEF SdpCreateThread, PipeTypeOK, deathVars
    <2>2. ControlTypeOK'
      BY <1>0, <1>1 DEF SdpCreateThread, ControlTypeOK, Fails
    <2> QED BY <1>u, <1>1, <2>0, <2>1, <2>2 DEF SdpCreateThread, TypeOK
  <1>2. CASE SdpStop
    <2>1. ClosePipes /\ UNCHANGED deathVars /\ tasks' \in Seq(Task)
            /\ sweeping' \in BOOLEAN /\ UNCHANGED fault
      BY <1>0, <1>2 DEF SdpStop, HandlerTypeOK
    <2> QED BY <1>u, <1>2, <2>1, ClosePipesType DEF SdpStop, TypeOK
  <1>3. ASSUME NEW t \in Task, SdpQueue(t) PROVE TypeOK'
    <2>1. HandlerTypeOK'
      BY <1>0, <1>3 DEF SdpQueue, HandlerTypeOK
    <2>2. serial + 1 \in Serial
      BY <1>0, <1>3, SdpAssumption, SerialsAreNaturals DEF SdpQueue, OwnerTypeOK
    <2>3. PipeTypeOK'
      <3>1. CASE SdpNextQueue(serial + 1)
        BY <1>0, <1>3, <2>2, <3>1 DEF SdpQueue, PipeTypeOK, SdpNextQueue, deathVars
      <3>2. CASE UNCHANGED pipeVars
        BY <1>0, <1>3, <3>2 DEF SdpQueue, PipeTypeOK, pipeVars, deathVars
      <3> QED BY <1>3, <3>1, <3>2 DEF SdpQueue
    <2>4. OwnerTypeOK'
      BY <1>0, <1>3, <2>2, SdpAssumption DEF SdpQueue, OwnerTypeOK
    <2> QED BY <1>u, <1>3, <2>1, <2>3, <2>4 DEF SdpQueue, TypeOK
  <1>3a. ASSUME NEW t \in Task, SdpQueueShortWrite(t) PROVE TypeOK'
    <2>1. ClosePipes /\ UNCHANGED deathVars /\ tasks' \in Seq(Task)
            /\ sweeping' \in BOOLEAN /\ UNCHANGED fault
      BY <1>0, <1>3a DEF SdpQueueShortWrite, InvoluntaryStop, HandlerTypeOK
    <2> QED BY <1>u, <1>3a, <2>1, ClosePipesType DEF SdpQueueShortWrite, TypeOK
  <1>4. ASSUME NEW t \in Task, SdpCancel(t) PROVE TypeOK'
    <2>1. ControlTypeOK' /\ PipeTypeOK'
      BY <1>0, <1>4 DEF SdpCancel, ControlTypeOK, PipeTypeOK, Fails, pipeVars, deathVars
    <2>2. HandlerTypeOK'
      <3>1. CASE t \in Queued
        <4>1. Unlink(tasks, t) \in Seq(Task)
          BY <1>0, <3>1, UnlinkType DEF Queued, Members, HandlerTypeOK
        <4> QED BY <1>0, <1>4, <3>1, <4>1 DEF SdpCancel, AbortsRequest, HandlerTypeOK
      <3>2. CASE t \notin Queued
        BY <1>0, <1>4, <3>2 DEF SdpCancel, HandlerTypeOK
      <3> QED BY <3>1, <3>2
    <2>3. OwnerTypeOK'
      <3>1. CASE t \in Queued
        <4>1. Tell(t, current[t], "cancelled") /\ current[t] \in Serial
          BY <1>0, <1>4, <3>1, SdpAssumption, SerialsAreNaturals
          DEF SdpCancel, OwnerTypeOK
        <4> QED BY <1>0, <4>1, TellType
      <3>2. CASE t \notin Queued
        BY <1>u, <1>4, <3>2 DEF SdpCancel
      <3> QED BY <3>1, <3>2
    <2> QED BY <2>1, <2>2, <2>3 DEF TypeOK
  <1>5. CASE DataReadyUnexpected
    <2>1. ControlTypeOK'
      BY <1>0, <1>5 DEF DataReadyUnexpected, ControlTypeOK, Fails
    <2> QED BY <1>u, <1>5, <2>1 DEF DataReadyUnexpected, TypeOK
  <1>6. CASE DataReadyEof
    <2>1. ClosePipes /\ UNCHANGED deathVars /\ tasks' \in Seq(Task)
            /\ sweeping' \in BOOLEAN /\ UNCHANGED fault
      BY <1>0, <1>6 DEF DataReadyEof, InvoluntaryStop, HandlerTypeOK
    <2> QED BY <1>u, <1>6, <2>1, ClosePipesType DEF DataReadyEof, TypeOK
  <1>7. CASE DataReadyReply
    <2>0. Remaining \in Seq(Task)
      BY <1>0, <1>7 DEF DataReadyReply, Remaining, HandlerTypeOK
    <2>1. HandlerTypeOK'
      BY <1>0, <1>7, <2>0 DEF DataReadyReply, HandlerTypeOK
    <2>2. rqpipe' \in Seq(Serial)
      <3>1. CASE Remaining = <<>>
        BY <1>0, <1>7, <3>1 DEF DataReadyReply, StartNext, PipeTypeOK
      <3>2. CASE Remaining # <<>>
        <4>1. Head(Remaining) \in Queued /\ Head(Remaining) \in Task
          BY <1>0, <1>7, <3>2 DEF DataReadyReply, Remaining, Queued, Members, HandlerTypeOK
        <4>2. current[Head(Remaining)] \in Serial
          BY <1>0, <1>7, <4>1, SdpAssumption, SerialsAreNaturals
          DEF QueueIsWaiters, DataReadyReply, OwnerTypeOK
        <4> QED BY <1>0, <1>7, <3>2, <4>2 DEF DataReadyReply, StartNext, PipeTypeOK
      <3> QED BY <3>1, <3>2
    <2>3. PipeTypeOK'
      BY <1>0, <1>7, <2>2 DEF DataReadyReply, PipeTypeOK, deathVars
    <2>4. OwnerTypeOK'
      <3>1. CASE aborted
        BY <1>u, <1>7, <3>1 DEF DataReadyReply
      <3>2. CASE ~aborted
        <4>1. Head(tasks) \in Task /\ Head(rspipe) \in Serial
          BY <1>0, <1>7, <3>2 DEF DataReadyReply, HandlerTypeOK, PipeTypeOK
        <4> QED BY <1>0, <1>7, <3>2, <4>1, TellType DEF DataReadyReply
      <3> QED BY <3>1, <3>2
    <2> QED BY <1>u, <1>7, <2>1, <2>3, <2>4 DEF DataReadyReply, TypeOK
  <1>8. CASE DataReadyShortWrite
    <2>1. ClosePipes /\ UNCHANGED deathVars /\ tasks' \in Seq(Task)
            /\ sweeping' \in BOOLEAN /\ UNCHANGED fault
      BY <1>0, <1>8 DEF DataReadyShortWrite, Remaining, InvoluntaryStop, HandlerTypeOK
    <2> QED BY <1>u, <1>8, <2>1, ClosePipesType DEF DataReadyShortWrite, TypeOK
  <1>9. CASE ShutdownResult
    <2>1. HandlerTypeOK'
      BY <1>0, <1>9 DEF ShutdownResult, HandlerTypeOK
    <2>2. ControlTypeOK'
      BY <1>0, <1>9 DEF ShutdownResult, ControlTypeOK, Fails
    <2>3. OwnerTypeOK'
      <3> DEFINE t == Head(tasks)
      <3>1. CASE current[t] = 0
        BY <1>u, <1>9, <3>1 DEF ShutdownResult
      <3>2. CASE current[t] # 0
        <4>1. t \in Task /\ current[t] \in Serial
          BY <1>0, <1>9, <3>2, SdpAssumption, SerialsAreNaturals
          DEF ShutdownResult, HandlerTypeOK, OwnerTypeOK
        <4> QED BY <1>0, <1>9, <3>2, <4>1, TellType DEF ShutdownResult
      <3> QED BY <3>1, <3>2
    <2> QED BY <1>u, <1>9, <2>1, <2>2, <2>3 DEF ShutdownResult, TypeOK
  <1>10. CASE CallbackReturns \/ ShutdownDone \/ Sweep
    <2>1. ControlTypeOK'
      BY <1>0, <1>10 DEF CallbackReturns, ShutdownDone, Sweep, ControlTypeOK, Fails
    <2> QED BY <1>u, <1>10, <2>1 DEF CallbackReturns, ShutdownDone, Sweep, TypeOK
  <1>11. CASE HelperRead \/ HelperReply \/ HelperDies
    <2>1. ASSUME HelperRead PROVE PipeTypeOK'
      <3>1. Head(rqpipe) \in Serial /\ Tail(rqpipe) \in Seq(Serial)
        BY <1>0, <2>1 DEF HelperRead, PipeTypeOK
      <3>2. work' \in 1 .. MaxRequests /\ work' # 0
        BY <2>1, <3>1, SdpAssumption, SerialsAreNaturals DEF HelperRead
      <3> QED BY <1>0, <2>1, <3>1, <3>2, SdpAssumption DEF HelperRead, PipeTypeOK, deathVars
    <2>2. ASSUME HelperReply PROVE PipeTypeOK'
      <3>1. Append(rspipe, work) \in Seq(Serial)
        BY <1>0, <2>2, SdpAssumption, SerialsAreNaturals DEF HelperReply, PipeTypeOK
      <3> QED BY <1>0, <2>2, <3>1, SdpAssumption DEF HelperReply, PipeTypeOK, deathVars
    <2>3. ASSUME HelperDies PROVE PipeTypeOK'
      <3>1. rqpipe' \in Seq(Serial) /\ rspipe' \in Seq(Serial)
        BY <1>0, <2>3, EmptyQueues DEF HelperDies, PipeTypeOK
      <3>2. deaths' \in 0 .. MaxDeaths /\ diedIdle' \in BOOLEAN
        BY <1>0, <2>3, SdpAssumption DEF HelperDies, PipeTypeOK
      <3> QED BY <2>3, <3>1, <3>2, SdpAssumption DEF HelperDies, PipeTypeOK
    <2>4. PipeTypeOK'
      BY <1>11, <2>1, <2>2, <2>3
    <2> QED BY <1>u, <1>11, <2>4 DEF HelperRead, HelperReply, HelperDies, TypeOK
  <1>12. CASE UNCHANGED vars
    BY <1>u, <1>12 DEF vars, TypeOK
  <1> QED
    BY <1>1, <1>2, <1>3, <1>3a, <1>4, <1>5, <1>6, <1>7, <1>8, <1>9, <1>10, <1>11, <1>12
    DEF Next, DataReady, Unwind, Helper

-----------------------------------------------------------------------------
(* The inductive invariant.  Requests: what the owners wait for, and that a  *)
(* serial number is used once.  QueueInv: QueueIsWaiters, and how far it     *)
(* holds while the handler is being shut down.  PipeInv: at most one request *)
(* travels, and whose it is.                                                 *)

Requests ==
    /\ \A t \in Task : current[t] <= serial
    /\ \A t \in Task : current[t] # 0 => outcome[current[t]] = "waiting"
    /\ \A t, u \in Task : current[t] = current[u] /\ current[t] # 0 => t = u
    /\ \A n \in Serial : n > serial => outcome[n] = "unused"

Waiters == {t \in Task : current[t] # 0}

QueueInv ==
    fault = "none" =>
        /\ Distinct(tasks)
        /\ ~sweeping => Queued = Waiters
        /\ pc = "loop" => ~sweeping
        /\ pc = "sweep" => tasks = <<>>

PipeInv ==
    /\ open => pc = "loop"
    /\ ~open => rqpipe = <<>> /\ rspipe = <<>> /\ helper = "none"
    /\ OneInFlight
    /\ \A n \in InTransit : n <= serial
    /\ ReplyMatchesHead

IInv == TypeOK /\ Requests /\ QueueInv /\ PipeInv

LEMMA InitInv == Init => IInv
  <1> SUFFICES ASSUME Init PROVE IInv
    OBVIOUS
  <1>1. TypeOK
    BY InitType
  <1>2. Requests
    BY SdpAssumption DEF Init, Requests, Serial
  <1>3. QueueInv
    BY DEF Init, QueueInv, Distinct, Queued, Members, Waiters
  <1>4. PipeInv
    BY DEF Init, PipeInv, OneInFlight, InFlight, InTransit, Members, ReplyMatchesHead
  <1> QED BY <1>1, <1>2, <1>3, <1>4 DEF IInv

LEMMA QueueInvIsEnough ==
    ASSUME QueueInv PROVE QueueIsWaiters
  BY DEF QueueInv, QueueIsWaiters, NoDuplicates, Distinct, Waiters

\* Being told the end of its request leaves the other owners as they were.
LEMMA TellRequests ==
    ASSUME TypeOK, Requests, NEW t \in Task, current[t] # 0,
           NEW how \in {"answered", "reset", "cancelled"},
           Tell(t, current[t], how)
    PROVE  /\ Requests'
           /\ Waiters' = Waiters \ {t}
           /\ \A u \in Task : current'[u] = IF u = t THEN 0 ELSE current[u]
           /\ serial' = serial
  <1>1. /\ current \in [Task -> 0 .. MaxRequests] /\ serial \in 0 .. MaxRequests
        /\ outcome \in [Serial -> {"unused", "waiting", "answered", "reset",
                               "cancelled"}]
    BY DEF TypeOK, OwnerTypeOK
  <1>2. /\ \A u \in Task : current'[u] = IF u = t THEN 0 ELSE current[u]
        /\ serial' = serial
    BY <1>1 DEF Tell
  <1>3. current[t] \in Serial
    BY <1>1, SdpAssumption, SerialsAreNaturals
  <1>4. \A n \in Serial : n # current[t] => outcome'[n] = outcome[n]
    BY <1>1, <1>3 DEF Tell
  <1>5. \A n \in Serial : n > serial => outcome'[n] = "unused"
    BY <1>1, <1>3, <1>4, SdpAssumption, SerialsAreNaturals DEF Requests
  <1>6. \A u \in Task : current'[u] # 0 => outcome'[current'[u]] = "waiting"
    <2> SUFFICES ASSUME NEW u \in Task, current'[u] # 0
                 PROVE  outcome'[current'[u]] = "waiting"
      OBVIOUS
    <2>1. u # t /\ current'[u] = current[u] /\ current[u] # current[t]
      BY <1>2 DEF Requests
    <2>2. current[u] \in Serial
      BY <1>1, <1>2, SdpAssumption, SerialsAreNaturals
    <2> QED BY <1>4, <2>1, <2>2 DEF Requests
  <1>7. Requests'
    BY <1>1, <1>2, <1>5, <1>6, SdpAssumption DEF Requests
  <1>8. Waiters' = Waiters \ {t}
    BY <1>2 DEF Waiters
  <1> QED BY <1>2, <1>7, <1>8

LEMMA TailLemma ==
    ASSUME NEW s \in Seq(Task), s # <<>>, Distinct(s)
    PROVE  /\ Tail(s) \in Seq(Task)
           /\ Distinct(Tail(s))
           /\ Members(Tail(s)) = Members(s) \ {Head(s)}
           /\ Head(s) \in Members(s)
  <1>1. /\ Len(s) \in Nat \ {0}
        /\ Tail(s) \in Seq(Task)
        /\ Len(Tail(s)) = Len(s) - 1
        /\ \A i \in 1 .. Len(Tail(s)) : Tail(s)[i] = s[i + 1]
        /\ Head(s) = s[1]
    BY HeadTailProperties
  <1>2. Distinct(Tail(s))
    BY <1>1 DEF Distinct
  <1>3. Members(Tail(s)) \subseteq Members(s) \ {Head(s)}
    <2> SUFFICES ASSUME NEW i \in 1 .. Len(Tail(s))
                 PROVE  Tail(s)[i] \in Members(s) \ {Head(s)}
      BY DEF Members
    <2>1. i + 1 \in 1 .. Len(s) /\ 1 \in 1 .. Len(s) /\ i + 1 # 1
      BY <1>1
    <2> QED BY <1>1, <2>1 DEF Members, Distinct
  <1>4. Members(s) \ {Head(s)} \subseteq Members(Tail(s))
    <2> SUFFICES ASSUME NEW i \in 1 .. Len(s), s[i] # Head(s)
                 PROVE  s[i] \in Members(Tail(s))
      BY DEF Members
    <2>1. i - 1 \in 1 .. Len(Tail(s)) /\ (i - 1) + 1 = i
      BY <1>1
    <2>2. Tail(s)[i - 1] = s[i]
      BY <1>1, <2>1
    <2> QED BY <2>1, <2>2 DEF Members
  <1>5. Head(s) \in Members(s)
    <2>1. 1 \in 1 .. Len(s)
      BY <1>1
    <2> QED BY <1>1, <2>1 DEF Members
  <1> QED BY <1>1, <1>2, <1>3, <1>4, <1>5

LEMMA AppendLemma ==
    ASSUME NEW s \in Seq(Task), NEW t \in Task, t \notin Members(s), Distinct(s)
    PROVE  /\ Distinct(Append(s, t))
           /\ Members(Append(s, t)) = Members(s) \cup {t}
  <1>1. /\ Len(s) \in Nat
        /\ Len(Append(s, t)) = Len(s) + 1
        /\ \A i \in 1 .. Len(s) : Append(s, t)[i] = s[i]
        /\ Append(s, t)[Len(s) + 1] = t
    BY AppendProperties
  <1>2. \A i \in 1 .. Len(s) : s[i] # t
    BY DEF Members
  <1>3. Distinct(Append(s, t))
    BY <1>1, <1>2 DEF Distinct
  <1>4. Members(Append(s, t)) \subseteq Members(s) \cup {t}
    <2> SUFFICES ASSUME NEW i \in 1 .. Len(s) + 1
                 PROVE  Append(s, t)[i] \in Members(s) \cup {t}
      BY <1>1 DEF Members
    <2>1. i \in 1 .. Len(s) \/ i = Len(s) + 1
      BY <1>1
    <2> QED BY <1>1, <2>1 DEF Members
  <1>5. Members(s) \cup {t} \subseteq Members(Append(s, t))
    <2>1. Len(s) + 1 \in 1 .. Len(Append(s, t))
      BY <1>1
    <2>2. \A i \in 1 .. Len(s) : i \in 1 .. Len(Append(s, t))
      BY <1>1
    <2> QED BY <1>1, <2>1, <2>2 DEF Members
  <1> QED BY <1>3, <1>4, <1>5

\* The reply that is read is the one the head of the queue waits for.
LEMMA ReplyIsHeads ==
    ASSUME IInv, rspipe # <<>>, ~aborted
    PROVE  /\ tasks # <<>>
           /\ Head(tasks) \in Task
           /\ Head(rspipe) = current[Head(tasks)]
           /\ current[Head(tasks)] # 0
  <1>1. Head(rspipe) \in Members(rspipe) /\ Head(rspipe) \in Serial
    BY DEF IInv, TypeOK, PipeTypeOK, Members
  <1>2. tasks # <<>> /\ current[Head(tasks)] = Head(rspipe)
    BY <1>1 DEF IInv, PipeInv, ReplyMatchesHead, InTransit
  <1> QED BY <1>1, <1>2, SdpAssumption, SerialsAreNaturals DEF IInv, TypeOK, HandlerTypeOK

LEMMA StepRequests ==
    ASSUME IInv, [Next]_vars
    PROVE  Requests'
  <1>0. TypeOK /\ Requests /\ QueueInv /\ PipeInv
    BY DEF IInv
  <1>1. CASE UNCHANGED ownerVars
    BY <1>0, <1>1 DEF Requests, ownerVars
  <1>2. ASSUME NEW t \in Task, SdpQueue(t) PROVE Requests'
    <2>1. /\ current \in [Task -> 0 .. MaxRequests] /\ serial \in 0 .. MaxRequests
          /\ outcome \in [Serial -> {"unused", "waiting", "answered", "reset",
                                 "cancelled"}]
      BY <1>0 DEF TypeOK, OwnerTypeOK
    <2>2. serial + 1 \in Serial
      BY <1>2, <2>1, SdpAssumption, SerialsAreNaturals DEF SdpQueue
    <2>3. /\ serial' = serial + 1
          /\ \A u \in Task : current'[u] = IF u = t THEN serial + 1 ELSE current[u]
          /\ \A n \in Serial :
                outcome'[n] = IF n = serial + 1 THEN "waiting" ELSE outcome[n]
      BY <1>2, <2>1 DEF SdpQueue
    <2>4. \A u \in Task : current'[u] # 0 => outcome'[current'[u]] = "waiting"
      <3> SUFFICES ASSUME NEW u \in Task, u # t, current[u] # 0
                   PROVE  outcome'[current[u]] = "waiting"
        BY <2>2, <2>3
      <3>1. current[u] \in Serial
        BY <2>1, SdpAssumption, SerialsAreNaturals
      <3> QED BY <1>0, <2>3, <3>1 DEF Requests
    <2>5. \A n \in Serial : n > serial' => outcome'[n] = "unused"
      BY <1>0, <2>1, <2>3, SdpAssumption, SerialsAreNaturals DEF Requests
    <2>6. \A u \in Task : current[u] <= serial
      BY <1>0 DEF Requests
    <2>7. \A u \in Task : current'[u] <= serial'
      BY <2>1, <2>3, <2>6, SdpAssumption
    <2>8. \A u, v \in Task : current'[u] = current'[v] /\ current'[u] # 0 => u = v
      BY <1>0, <2>1, <2>3, <2>6, SdpAssumption DEF Requests
    <2> QED BY <2>4, <2>5, <2>7, <2>8 DEF Requests
  <1>3. ASSUME NEW t \in Task, SdpCancel(t) PROVE Requests'
    BY <1>0, <1>1, <1>3, TellRequests DEF SdpCancel
  <1>4. CASE DataReadyReply
    <2>1. CASE aborted
      BY <1>1, <1>4, <2>1 DEF DataReadyReply
    <2>2. CASE ~aborted
      BY <1>0, <1>4, <2>2, ReplyIsHeads, TellRequests DEF DataReadyReply
    <2> QED BY <2>1, <2>2
  <1>5. CASE ShutdownResult
    <2>1. Head(tasks) \in Task
      BY <1>0, <1>5 DEF ShutdownResult, TypeOK, HandlerTypeOK
    <2>2. CASE current[Head(tasks)] = 0
      BY <1>1, <1>5, <2>2 DEF ShutdownResult
    <2>3. CASE current[Head(tasks)] # 0
      BY <1>0, <1>5, <2>1, <2>3, TellRequests DEF ShutdownResult
    <2> QED BY <2>2, <2>3
  <1> QED
    BY <1>1, <1>2, <1>3, <1>4, <1>5
    DEF Next, DataReady, Unwind, Helper, SdpCreateThread, SdpStop, SdpQueueShortWrite,
        DataReadyUnexpected, DataReadyEof, DataReadyShortWrite, CallbackReturns,
        ShutdownDone, Sweep, HelperRead, HelperReply, HelperDies, vars

LEMMA StepQueue ==
    ASSUME IInv, [Next]_vars
    PROVE  QueueInv'
  <1>0. TypeOK /\ Requests /\ QueueInv /\ PipeInv /\ tasks \in Seq(Task)
    BY DEF IInv, TypeOK, HandlerTypeOK
  <1>1. CASE UNCHANGED <<tasks, current, pc, sweeping, fault>>
    BY <1>0, <1>1 DEF QueueInv, Queued, Waiters
  <1>2. CASE fault' # "none"
    BY <1>2 DEF QueueInv
  <1>3. CASE SdpStop
    BY <1>0, <1>3 DEF SdpStop, ClosePipes, QueueInv, Queued, Waiters, ownerVars
  <1>4. ASSUME NEW t \in Task, pc = "loop", current[t] = 0, fault = "none"
        PROVE  Distinct(Append(tasks, t)) /\ Members(Append(tasks, t)) = Queued \cup {t}
    BY <1>0, <1>4, AppendLemma DEF QueueInv, Queued, Waiters
  <1>5. ASSUME NEW t \in Task, SdpQueue(t), fault = "none" PROVE QueueInv'
    <2>1. /\ current \in [Task -> 0 .. MaxRequests] /\ serial \in 0 .. MaxRequests
      BY <1>0 DEF TypeOK, OwnerTypeOK
    <2>2. Waiters' = Waiters \cup {t}
      BY <1>5, <2>1, SdpAssumption DEF SdpQueue, Waiters
    <2> QED BY <1>0, <1>4, <1>5, <2>2 DEF SdpQueue, QueueInv, Queued, controlVars
  <1>6. ASSUME NEW t \in Task, SdpQueueShortWrite(t), fault = "none" PROVE QueueInv'
    BY <1>4, <1>6 DEF SdpQueueShortWrite, InvoluntaryStop, ClosePipes, QueueInv
  <1>7. ASSUME NEW t \in Task, SdpCancel(t), fault = "none" PROVE QueueInv'
    <2>1. CASE t \notin Queued
      BY <1>2, <1>7, <2>1 DEF SdpCancel, Fails
    <2>2. CASE t \in Queued
      <3>1. Waiters' = Waiters \ {t}
        BY <1>0, <1>7, <2>2, TellRequests DEF SdpCancel
      <3>2. Distinct(tasks') /\ Queued' = Queued \ {t}
        BY <1>0, <1>7, <2>2, UnlinkLemma DEF SdpCancel, QueueInv, Queued
      <3> QED BY <1>0, <1>7, <2>2, <3>1, <3>2 DEF SdpCancel, QueueInv
    <2> QED BY <2>1, <2>2
  <1>8. CASE DataReadyEof
    BY <1>0, <1>8 DEF DataReadyEof, InvoluntaryStop, ClosePipes, QueueInv
  <1>9. ASSUME fault = "none", ~aborted, tasks # <<>>
        PROVE  Distinct(Tail(tasks)) /\ Members(Tail(tasks)) = Queued \ {Head(tasks)}
    BY <1>0, <1>9, TailLemma DEF QueueInv, Queued
  <1>10. CASE DataReadyReply /\ fault = "none"
    <2>1. CASE aborted
      BY <1>0, <1>10, <2>1 DEF DataReadyReply, Remaining, QueueInv, Queued, Waiters,
                               ownerVars, controlVars
    <2>2. CASE ~aborted
      <3>1. Waiters' = Waiters \ {Head(tasks)}
        BY <1>0, <1>10, <2>2, ReplyIsHeads, TellRequests DEF DataReadyReply
      <3>2. Distinct(tasks') /\ Queued' = Queued \ {Head(tasks)}
        BY <1>9, <1>10, <2>2 DEF DataReadyReply, Remaining, Queued
      <3> QED BY <1>0, <1>10, <3>1, <3>2 DEF DataReadyReply, QueueInv, controlVars
    <2> QED BY <2>1, <2>2
  <1>11. CASE DataReadyShortWrite /\ fault = "none"
    <2>1. Distinct(Remaining)
      BY <1>0, <1>9, <1>11 DEF DataReadyShortWrite, Remaining, QueueInv
    <2> QED BY <1>11, <2>1 DEF DataReadyShortWrite, InvoluntaryStop, ClosePipes, QueueInv
  <1>12. CASE ShutdownResult /\ fault = "none"
    <2>1. CASE current[Head(tasks)] = 0
      BY <1>2, <1>12, <2>1 DEF ShutdownResult, Fails
    <2>2. CASE current[Head(tasks)] # 0
      <3>1. Head(tasks) \in Task
        BY <1>0, <1>12 DEF ShutdownResult
      <3>2. Waiters' = Waiters \ {Head(tasks)}
        BY <1>0, <1>12, <2>2, <3>1, TellRequests DEF ShutdownResult
      <3>3. Distinct(tasks') /\ Queued' = Queued \ {Head(tasks)}
        BY <1>0, <1>12, TailLemma DEF ShutdownResult, QueueInv, Queued
      <3> QED BY <1>0, <1>12, <2>2, <3>2, <3>3 DEF ShutdownResult, QueueInv
    <2> QED BY <2>1, <2>2
  <1>13. CASE CallbackReturns \/ ShutdownDone
    BY <1>0, <1>13 DEF CallbackReturns, ShutdownDone, QueueInv, Queued, Waiters,
                       handlerVars, ownerVars
  <1>14. CASE Sweep
    <2>1. CASE \E t \in Task : current[t] # 0
      BY <1>2, <1>14, <2>1 DEF Sweep, Fails
    <2>2. CASE \A t \in Task : current[t] = 0
      <3>1. Waiters' = {} /\ UNCHANGED <<tasks, fault>> /\ pc = "sweep" /\ pc' = "loop"
            /\ ~sweeping'
        BY <1>14, <2>2 DEF Sweep, Waiters, handlerVars, ownerVars
      <3>2. fault = "none" => tasks = <<>>
        BY <1>0, <3>1 DEF QueueInv
      <3>3. fault = "none" => Queued' = {}
        BY <3>1, <3>2 DEF Queued, Members
      <3> QED BY <1>0, <3>1, <3>3 DEF QueueInv
    <2> QED BY <2>1, <2>2
  <1> QED
    BY <1>1, <1>2, <1>3, <1>5, <1>6, <1>7, <1>8, <1>10, <1>11, <1>12, <1>13, <1>14
    DEF Next, DataReady, Unwind, Helper, SdpCreateThread, DataReadyUnexpected, Fails,
        HelperRead, HelperReply, HelperDies, vars, handlerVars, ownerVars, controlVars

LEMMA ClosedPipes ==
    ASSUME ClosePipes
    PROVE  PipeInv'
  BY DEF ClosePipes, PipeInv, OneInFlight, InFlight, InTransit, Members, ReplyMatchesHead

LEMMA LenZero ==
    ASSUME NEW S, NEW s \in Seq(S)
    PROVE  /\ Len(s) \in Nat
           /\ Len(s) = 0 <=> s = <<>>
           /\ s # <<>> => s[1] \in Members(s) /\ Head(s) = s[1]
           /\ Len(s) = 1 => Tail(s) = <<>> /\ Members(s) = {Head(s)}
  <1>1. Len(s) \in Nat /\ (Len(s) = 0 <=> s = <<>>)
    BY EmptySeq
  <1>2. ASSUME s # <<>> PROVE s[1] \in Members(s) /\ Head(s) = s[1]
    <2>1. 1 \in 1 .. Len(s)
      BY <1>1, <1>2
    <2> QED BY <2>1 DEF Members
  <1>3. ASSUME Len(s) = 1 PROVE Tail(s) = <<>> /\ Members(s) = {Head(s)}
    <2>1. Tail(s) \in Seq(S) /\ Len(Tail(s)) = 0
      BY <1>1, <1>3, HeadTailProperties
    <2>2. Tail(s) = <<>>
      BY <2>1, EmptySeq
    <2>3. 1 .. Len(s) = {1}
      BY <1>3
    <2> QED BY <1>1, <1>2, <1>3, <2>2, <2>3 DEF Members
  <1> QED BY <1>1, <1>2, <1>3

LEMMA NoMembers == Members(<<>>) = {}
  BY DEF Members

LEMMA AtMostOne ==
    ASSUME NEW a \in Nat, NEW b \in Nat, a + b <= 1
    PROVE  /\ a # 0 => a = 1 /\ b = 0
           /\ b # 0 => b = 1 /\ a = 0
  OBVIOUS

\* A request in one of the three places leaves the other two empty.
LEMMA OneTravels ==
    ASSUME TypeOK, OneInFlight
    PROVE  /\ rqpipe # <<>> => /\ Tail(rqpipe) = <<>> /\ rspipe = <<>> /\ helper # "busy"
                               /\ InTransit = {Head(rqpipe)} /\ Len(rqpipe) = 1
           /\ rspipe # <<>> => Tail(rspipe) = <<>> /\ rqpipe = <<>> /\ helper # "busy"
           /\ helper = "busy" => rqpipe = <<>> /\ rspipe = <<>> /\ InTransit = {work}
           /\ InTransit = {} => rqpipe = <<>> /\ rspipe = <<>> /\ helper # "busy"
  <1>1. rqpipe \in Seq(Serial) /\ rspipe \in Seq(Serial)
    BY DEF TypeOK, PipeTypeOK
  <1>2. /\ Len(rqpipe) \in Nat /\ Len(rspipe) \in Nat
        /\ rqpipe # <<>> => Len(rqpipe) # 0
        /\ rspipe # <<>> => Len(rspipe) # 0
    BY <1>1, LenZero
  <1>3. /\ Len(rqpipe) # 0 => Len(rqpipe) = 1 /\ Len(rspipe) = 0 /\ helper # "busy"
        /\ Len(rspipe) # 0 => Len(rspipe) = 1 /\ Len(rqpipe) = 0 /\ helper # "busy"
        /\ helper = "busy" => Len(rspipe) = 0 /\ Len(rqpipe) = 0
    <2>1. Len(rqpipe) + Len(rspipe) <= 1
      <3>1. CASE helper = "busy"
        <4>1. Len(rqpipe) + Len(rspipe) + 1 <= 1
          BY <3>1 DEF OneInFlight, InFlight
        <4> QED BY <1>2, <4>1
      <3>2. CASE helper # "busy"
        <4>1. Len(rqpipe) + Len(rspipe) + 0 <= 1
          BY <3>2 DEF OneInFlight, InFlight
        <4> QED BY <1>2, <4>1
      <3> QED BY <3>1, <3>2
    <2>2. ASSUME helper = "busy" PROVE Len(rqpipe) = 0 /\ Len(rspipe) = 0
      <3>1. Len(rqpipe) + Len(rspipe) + 1 <= 1
        BY <2>2 DEF OneInFlight, InFlight
      <3> QED BY <1>2, <3>1
    <2>3. /\ Len(rqpipe) # 0 => Len(rqpipe) = 1 /\ Len(rspipe) = 0
          /\ Len(rspipe) # 0 => Len(rspipe) = 1 /\ Len(rqpipe) = 0
      <3>1. Len(rqpipe) \in Nat /\ Len(rspipe) \in Nat
        BY <1>2
      <3> QED BY <2>1, <3>1, AtMostOne
    <2> QED BY <2>2, <2>3
  <1>4. ASSUME rqpipe # <<>>
        PROVE  /\ Tail(rqpipe) = <<>> /\ rspipe = <<>> /\ helper # "busy"
               /\ InTransit = {Head(rqpipe)} /\ Len(rqpipe) = 1
    <2>1. Len(rqpipe) = 1 /\ Len(rspipe) = 0 /\ helper # "busy"
      BY <1>2, <1>3, <1>4
    <2>2. Tail(rqpipe) = <<>> /\ rspipe = <<>> /\ Members(rqpipe) = {Head(rqpipe)}
      BY <1>1, <2>1, LenZero
    <2>3. Members(rspipe) = {}
      BY <2>2, NoMembers
    <2> QED BY <2>1, <2>2, <2>3 DEF InTransit
  <1>5. ASSUME rspipe # <<>>
        PROVE  Tail(rspipe) = <<>> /\ rqpipe = <<>> /\ helper # "busy"
    <2>1. Len(rspipe) = 1 /\ Len(rqpipe) = 0 /\ helper # "busy"
      BY <1>2, <1>3, <1>5
    <2> QED BY <1>1, <2>1, LenZero
  <1>6. ASSUME helper = "busy"
        PROVE  rqpipe = <<>> /\ rspipe = <<>> /\ InTransit = {work}
    <2>1. rqpipe = <<>> /\ rspipe = <<>>
      BY <1>2, <1>3, <1>6
    <2> QED BY <1>6, <2>1, NoMembers DEF InTransit
  <1>7. ASSUME InTransit = {} PROVE rqpipe = <<>> /\ rspipe = <<>> /\ helper # "busy"
    <2>1. Members(rqpipe) = {} /\ Members(rspipe) = {} /\ helper # "busy"
      BY <1>7 DEF InTransit
    <2> QED BY <1>1, <2>1, LenZero
  <1> QED BY <1>4, <1>5, <1>6, <1>7

LEMMA StepPipe ==
    ASSUME IInv, [Next]_vars
    PROVE  PipeInv'
  <1>0. TypeOK /\ Requests /\ QueueInv /\ PipeInv /\ tasks \in Seq(Task)
        /\ current \in [Task -> 0 .. MaxRequests] /\ serial \in 0 .. MaxRequests
    BY DEF IInv, TypeOK, HandlerTypeOK, OwnerTypeOK
  <1>u. UNCHANGED pipeVars => InTransit' = InTransit /\ InFlight' = InFlight
    BY DEF pipeVars, InTransit, InFlight, Members
  <1>n. \A n \in InTransit : n \in Serial /\ n \in Nat /\ n # 0
    <2>1. Members(rqpipe) \subseteq Serial /\ Members(rspipe) \subseteq Serial
      BY <1>0 DEF Members, TypeOK, PipeTypeOK
    <2>2. helper = "busy" => work \in Serial
      BY <1>0, SdpAssumption, SerialsAreNaturals DEF TypeOK, PipeTypeOK
    <2>3. InTransit \subseteq Serial
      BY <2>1, <2>2 DEF InTransit
    <2> QED BY <2>3, SdpAssumption, SerialsAreNaturals
  <1>1. CASE UNCHANGED <<handlerVars, pipeVars, ownerVars, pc>>
    BY <1>0, <1>u, <1>1 DEF PipeInv, OneInFlight, ReplyMatchesHead, handlerVars, pipeVars,
                            ownerVars
  <1>2. CASE ClosePipes
    BY <1>2, ClosedPipes
  <1>3. CASE SdpCreateThread
    <2>1. CASE UNCHANGED <<open, helper>>
      BY <1>1, <1>3, <2>1 DEF SdpCreateThread, handlerVars, pipeVars
    <2>2. CASE open' = TRUE /\ helper' = "idle"
      <3>1. rqpipe' = <<>> /\ rspipe' = <<>>
        BY <1>0, <1>3 DEF SdpCreateThread, PipeInv
      <3>2. InTransit' = {} /\ InFlight' = 0
        BY <2>2, <3>1 DEF InTransit, InFlight, Members
      <3> QED BY <1>3, <2>2, <3>1, <3>2
          DEF SdpCreateThread, PipeInv, OneInFlight, ReplyMatchesHead
    <2> QED BY <1>3, <2>1, <2>2 DEF SdpCreateThread
  <1>4. ASSUME NEW t \in Task, SdpQueue(t) PROVE PipeInv'
    <2>1. /\ serial' = serial + 1
          /\ \A u \in Task : current'[u] = IF u = t THEN serial + 1 ELSE current[u]
          /\ tasks' = Append(tasks, t) /\ UNCHANGED <<open, aborted, pc>>
          /\ current[t] = 0 /\ open /\ pc = "loop"
      BY <1>0, <1>4 DEF SdpQueue, controlVars
    <2>2. CASE WasIdle
      <3>1. InTransit = {} /\ ~aborted /\ tasks = <<>>
        BY <1>0, <2>2 DEF WasIdle, PipeInv, ReplyMatchesHead
      <3>2. rqpipe = <<>> /\ rspipe = <<>> /\ helper # "busy"
        BY <1>0, <3>1, OneTravels DEF PipeInv
      <3>3. rqpipe' = <<serial + 1>> /\ rspipe' = <<>> /\ helper' # "busy"
        BY <1>4, <2>2, <3>2 DEF SdpQueue, SdpNextQueue
      <3>4. InTransit' = {serial + 1} /\ InFlight' = 1
        BY <3>3 DEF InTransit, InFlight, Members
      <3>5. tasks' = <<t>> /\ Head(tasks') = t
        BY <2>1, <3>1
      <3> QED BY <1>0, <2>1, <3>1, <3>4, <3>5, SdpAssumption
          DEF PipeInv, OneInFlight, ReplyMatchesHead
    <2>3. CASE ~WasIdle
      <3>1. UNCHANGED pipeVars
        BY <1>4, <2>3 DEF SdpQueue
      <3>2. \A n \in InTransit : n <= serial /\ n # serial + 1 /\ n <= serial'
        BY <1>0, <1>n, <2>1, SdpAssumption DEF PipeInv
      <3>3. ASSUME ~aborted, NEW n \in InTransit
            PROVE  tasks' # <<>> /\ current'[Head(tasks')] = n
        <4>1. tasks # <<>> /\ current[Head(tasks)] = n /\ Head(tasks) \in Task
          BY <1>0, <3>3 DEF PipeInv, ReplyMatchesHead
        <4>2. tasks' # <<>> /\ Head(tasks') = Head(tasks)
          BY <1>0, <2>1, <4>1
        <4> QED BY <1>n, <2>1, <3>3, <4>1, <4>2
      <3>4. ASSUME aborted, NEW n \in InTransit, NEW u \in Task
            PROVE  current'[u] # n
        BY <1>0, <2>1, <3>2, <3>4 DEF PipeInv, ReplyMatchesHead
      <3>5. ReplyMatchesHead'
        BY <1>u, <2>1, <3>1, <3>3, <3>4 DEF ReplyMatchesHead
      <3> QED BY <1>0, <1>u, <2>1, <3>1, <3>2, <3>5 DEF PipeInv, OneInFlight
    <2> QED BY <2>2, <2>3
  <1>5. ASSUME NEW t \in Task, SdpCancel(t), t \in Queued, fault = "none" PROVE PipeInv'
    <2>1. /\ UNCHANGED <<open, pipeVars, pc>> /\ serial' = serial
          /\ \A u \in Task : current'[u] = IF u = t THEN 0 ELSE current[u]
          /\ tasks' = Unlink(tasks, t) /\ aborted' = AbortsRequest(t) /\ current[t] # 0
      BY <1>0, <1>5, TellRequests DEF SdpCancel
    <2>2. t # Head(tasks) => tasks' # <<>> /\ Head(tasks') = Head(tasks)
      BY <1>0, <1>5, <2>1, UnlinkLemma DEF QueueInv, Queued
    <2>3. ASSUME NEW n \in InTransit
          PROVE  IF aborted' THEN \A u \in Task : current'[u] # n
                 ELSE tasks' # <<>> /\ current'[Head(tasks')] = n
      <3>1. CASE aborted
        BY <1>0, <1>n, <2>1, <3>1 DEF PipeInv, ReplyMatchesHead, AbortsRequest
      <3>2. CASE ~aborted /\ t = Head(tasks)
        <4>1. current[t] = n
          BY <1>0, <3>2 DEF PipeInv, ReplyMatchesHead
        <4>2. \A u \in Task : current'[u] # n
          BY <1>0, <1>n, <2>1, <4>1 DEF Requests
        <4> QED BY <2>1, <3>2, <4>2 DEF AbortsRequest
      <3>3. CASE ~aborted /\ t # Head(tasks)
        <4>1. tasks # <<>> /\ current[Head(tasks)] = n /\ Head(tasks) \in Task
          BY <1>0, <3>3 DEF PipeInv, ReplyMatchesHead
        <4> QED BY <2>1, <2>2, <3>3, <4>1 DEF AbortsRequest
      <3> QED BY <3>1, <3>2, <3>3
    <2>4. ReplyMatchesHead'
      BY <1>u, <2>1, <2>3 DEF ReplyMatchesHead
    <2> QED BY <1>0, <1>u, <2>1, <2>4 DEF PipeInv, OneInFlight, pipeVars
  <1>6. CASE DataReadyReply /\ fault = "none"
    <2>1. rqpipe = <<>> /\ rspipe' = <<>> /\ helper # "busy" /\ UNCHANGED <<open, helper, pc>>
          /\ open /\ pc = "loop" /\ ~aborted' /\ tasks' = Remaining
      BY <1>0, <1>6, OneTravels DEF DataReadyReply, PipeInv, Readable, controlVars
    <2>2. CASE Remaining = <<>>
      <3>1. rqpipe' = <<>>
        BY <1>6, <2>1, <2>2 DEF DataReadyReply, StartNext
      <3>2. InTransit' = {} /\ InFlight' = 0
        BY <2>1, <3>1 DEF InTransit, InFlight, Members
      <3> QED BY <2>1, <3>2 DEF PipeInv, OneInFlight, ReplyMatchesHead
    <2>3. CASE Remaining # <<>>
      <3> DEFINE top == Head(Remaining)
      <3>1. rqpipe' = <<current[top]>>
        BY <1>6, <2>1, <2>3 DEF DataReadyReply, StartNext
      <3>2. InTransit' = {current[top]} /\ InFlight' = 1
        BY <2>1, <3>1 DEF InTransit, InFlight, Members
      <3>3. top \in Task /\ current'[top] = current[top] /\ serial' = serial
        <4>1. CASE aborted
          BY <1>0, <1>6, <2>3, <4>1 DEF DataReadyReply, Remaining, ownerVars
        <4>2. CASE ~aborted
          <5>1. Head(tasks) \in Task /\ Tell(Head(tasks), current[Head(tasks)], "answered")
                /\ current[Head(tasks)] # 0
            BY <1>6, <4>2, ReplyIsHeads DEF DataReadyReply
          <5>2. top \in Members(Tail(tasks)) /\ top \in Task
            <6>1. top = Head(Tail(tasks)) /\ Tail(tasks) # <<>> /\ Tail(tasks) \in Seq(Task)
              BY <1>0, <1>6, <2>3, <4>2 DEF DataReadyReply, Remaining
            <6>2. top \in Members(Tail(tasks))
              BY <6>1, LenZero
            <6> QED BY <6>1, <6>2 DEF Members
          <5>3. top # Head(tasks)
            BY <1>0, <1>6, <4>2, <5>2, TailLemma DEF DataReadyReply, QueueInv
          <5> QED BY <1>0, <5>1, <5>2, <5>3, TellRequests
        <4> QED BY <4>1, <4>2
      <3>4. current[top] <= serial
        BY <1>0, <3>3 DEF Requests
      <3> HIDE DEF top
      <3> QED BY <2>1, <2>3, <3>2, <3>3, <3>4 DEF PipeInv, OneInFlight, ReplyMatchesHead, top
    <2> QED BY <2>2, <2>3
  <1>7. CASE ~open /\ UNCHANGED <<open, pipeVars>>
    <2>1. InTransit' = {} /\ InFlight' = 0
      BY <1>0, <1>7 DEF PipeInv, InTransit, InFlight, Members, pipeVars
    <2> QED BY <1>0, <1>7, <2>1 DEF PipeInv, OneInFlight, ReplyMatchesHead, pipeVars
  <1>8. CASE HelperRead
    <2>1. rspipe' = <<>> /\ rqpipe' = <<>> /\ helper' = "busy" /\ InTransit = {work'}
      BY <1>0, <1>8, OneTravels DEF HelperRead, PipeInv
    <2>2. InTransit' = InTransit /\ InFlight' = 1
      <3>1. Members(rqpipe') = {} /\ Members(rspipe') = {}
        BY <2>1, NoMembers
      <3>2. InTransit' = {work'}
        BY <2>1, <3>1 DEF InTransit, Members
      <3> QED BY <2>1, <3>2 DEF InFlight
    <2>3. open
      BY <1>0, <1>8 DEF HelperRead, PipeInv
    <2> QED BY <1>0, <1>8, <2>2, <2>3 DEF HelperRead, PipeInv, OneInFlight, ReplyMatchesHead,
                                    handlerVars, ownerVars, controlVars
  <1>9. CASE HelperReply
    <2>1. rspipe' = <<work>> /\ rqpipe' = <<>> /\ helper' = "idle" /\ InTransit = {work}
      BY <1>0, <1>9, OneTravels DEF HelperReply, PipeInv
    <2>2. InTransit' = InTransit /\ InFlight' = 1
      <3>1. Members(rqpipe') = {} /\ Members(rspipe') = {work}
        BY <2>1, NoMembers DEF Members
      <3>2. InTransit' = {work}
        BY <2>1, <3>1 DEF InTransit, Members
      <3> QED BY <2>1, <3>2 DEF InFlight
    <2>3. open
      BY <1>0, <1>9 DEF HelperReply, PipeInv
    <2> QED BY <1>0, <1>9, <2>2, <2>3 DEF HelperReply, PipeInv, OneInFlight, ReplyMatchesHead,
                                    handlerVars, ownerVars, controlVars
  <1>10. CASE HelperDies
    <2>1. InTransit' \subseteq InTransit
      BY <1>10 DEF HelperDies, InTransit, Members
    <2>2. InFlight' <= 1
      BY <1>0, <1>10 DEF HelperDies, InFlight, PipeInv, OneInFlight, TypeOK, PipeTypeOK
    <2>3. open
      BY <1>0, <1>10 DEF HelperDies, PipeInv
    <2> QED BY <1>0, <1>10, <2>1, <2>2, <2>3
        DEF HelperDies, PipeInv, OneInFlight, ReplyMatchesHead, handlerVars, ownerVars,
            controlVars
  <1>11. ASSUME NEW t \in Task, SdpCancel(t), t \notin Queued PROVE PipeInv'
    BY <1>1, <1>11 DEF SdpCancel, handlerVars
  <1>12. CASE pc # "loop" /\ UNCHANGED <<open, pipeVars>>
    BY <1>0, <1>7, <1>12 DEF PipeInv
  <1>13. CASE SdpStop \/ DataReadyEof \/ DataReadyShortWrite
              \/ \E t \in Task : SdpQueueShortWrite(t)
    BY <1>2, <1>13 DEF SdpStop, DataReadyEof, DataReadyShortWrite, SdpQueueShortWrite,
                       InvoluntaryStop
  <1>14. CASE Unwind
    BY <1>12, <1>14 DEF Unwind, ShutdownResult, CallbackReturns, ShutdownDone, Sweep, handlerVars
  <1>15. CASE DataReadyUnexpected \/ UNCHANGED vars
    BY <1>1, <1>15 DEF DataReadyUnexpected, vars, controlVars
  <1> QED
    BY <1>3, <1>4, <1>5, <1>6, <1>8, <1>9, <1>10, <1>11, <1>13, <1>14, <1>15
    DEF Next, DataReady, Helper

-----------------------------------------------------------------------------
LEMMA Inductive == Spec => []IInv
  <1>1. IInv /\ [Next]_vars => IInv'
    <2> SUFFICES ASSUME IInv, [Next]_vars PROVE IInv'
      OBVIOUS
    <2>1. TypeOK'
      <3>1. CASE fault = "none"
        BY <3>1, StepType, QueueInvIsEnough DEF IInv
      <3>2. CASE fault # "none"
        <4>1. UNCHANGED vars
          BY <3>2 DEF Next
        <4> QED BY <4>1 DEF IInv, TypeOK, HandlerTypeOK, PipeTypeOK, OwnerTypeOK, ControlTypeOK,
                        vars, handlerVars, pipeVars, deathVars, ownerVars, controlVars
      <3> QED BY <3>1, <3>2
    <2> QED BY <2>1, StepRequests, StepQueue, StepPipe DEF IInv
  <1> QED BY <1>1, InitInv, PTL DEF Spec

\* Every variable stays in its domain: in particular every number in a pipe is
\* a serial number, never that of a task nobody waits for.
THEOREM TypeCorrect == Spec => []TypeOK
  <1>1. IInv => TypeOK
    BY DEF IInv
  <1> QED BY <1>1, Inductive, PTL

\* The pipes never hold more than one request, so SdpNextQueue cannot block.
THEOREM PipesNeverFill == Spec => []OneInFlight
  <1>1. IInv => OneInFlight
    BY DEF IInv, PipeInv
  <1> QED BY <1>1, Inductive, PTL

\* The reply SdpDataReadyNot reads into the head of the queue is the head's
\* own, and a reply to a cancelled request reaches nobody.
THEOREM RepliesMatch == Spec => []ReplyMatchesHead
  <1>1. IInv => ReplyMatchesHead
    BY DEF IInv, PipeInv
  <1> QED BY <1>1, Inductive, PTL

\* Between handlers the queue is exactly the set of waiting owners.
THEOREM QueueTracksWaiters == Spec => []QueueIsWaiters
  <1>1. IInv => QueueIsWaiters
    BY QueueInvIsEnough DEF IInv
  <1> QED BY <1>1, Inductive, PTL

-----------------------------------------------------------------------------
(* Faults.  A helper that has died in the middle of a lookup leaves somebody *)
(* to be told, so that the end of file is expected; only an InvoluntaryStop  *)
(* after a failed write, which needs a helper that died idle, starts with a  *)
(* queue that is not that of the waiters; a closed handler has no task, and  *)
(* an aborted request only by a cancellation from a callback.                *)

Faultless ==
    /\ helper = "dead" /\ ~diedIdle => (aborted \/ tasks # <<>>) /\ rspipe = <<>>
    /\ sweeping /\ ~diedIdle => Queued = Waiters
    /\ ~open /\ pc = "loop" => tasks = <<>>
    /\ ~open /\ aborted => NestedCancel

FaultInv == OnlyIdleDeathFaults /\ (fault = "none" => Faultless)

\* Closing the pipes ends what the helper was doing.
LEMMA ClosedFaultless ==
    ASSUME ClosePipes, UNCHANGED <<deathVars, fault>>, fault = "none",
           sweeping' /\ ~diedIdle => Queued' = Waiters'
    PROVE  FaultInv'
  BY DEF ClosePipes, deathVars, FaultInv, Faultless, OnlyIdleDeathFaults

LEMMA StepFault ==
    ASSUME IInv, FaultInv, [Next]_vars
    PROVE  FaultInv'
  <1>0. TypeOK /\ Requests /\ QueueInv /\ PipeInv /\ tasks \in Seq(Task)
        /\ (fault = "none" => Faultless)
    BY DEF IInv, TypeOK, HandlerTypeOK, FaultInv
  <1>w. UNCHANGED <<tasks, current>> => Queued' = Queued /\ Waiters' = Waiters
    BY DEF Queued, Waiters
  <1>1. CASE UNCHANGED vars
    BY <1>1, <1>w DEF vars, handlerVars, pipeVars, deathVars, ownerVars, controlVars,
                      FaultInv, Faultless, OnlyIdleDeathFaults
  <1>s. ASSUME fault = "none", rspipe # <<>>
        PROVE  helper # "dead" \/ diedIdle
    BY <1>0, <1>s DEF Faultless
  <1>2. CASE SdpCreateThread /\ fault = "none"
    <2>1. tasks = <<>> /\ (aborted => NestedCancel)
      BY <1>0, <1>2 DEF SdpCreateThread, Faultless
    <2>2. CASE aborted
      BY <1>2, <2>1, <2>2 DEF SdpCreateThread, Fails, FaultInv, OnlyIdleDeathFaults
    <2>3. CASE ~aborted
      BY <1>0, <1>2, <1>w, <2>1, <2>3 DEF SdpCreateThread, FaultInv, OnlyIdleDeathFaults,
                                     Faultless, deathVars, ownerVars
    <2> QED BY <2>2, <2>3
  <1>3. CASE SdpStop /\ fault = "none"
    BY <1>3, ClosedFaultless DEF SdpStop
  <1>4. ASSUME NEW t \in Task, SdpQueue(t), fault = "none" PROVE FaultInv'
    <2>1. /\ open /\ pc = "loop" /\ ~sweeping
          /\ UNCHANGED <<open, aborted, deathVars, controlVars>>
          /\ tasks' = Append(tasks, t) /\ tasks' # <<>>
      BY <1>0, <1>4 DEF SdpQueue, QueueInv
    <2>2. helper' = helper /\ rspipe' = rspipe
      BY <1>4 DEF SdpQueue, SdpNextQueue, pipeVars
    <2> QED BY <1>0, <1>4, <2>1, <2>2 DEF FaultInv, OnlyIdleDeathFaults, Faultless,
                                    deathVars, controlVars
  <1>5. ASSUME NEW t \in Task, SdpQueueShortWrite(t), fault = "none" PROVE FaultInv'
    <2>1. diedIdle
      BY <1>0, <1>5 DEF SdpQueueShortWrite, WasIdle, Writable, Faultless
    <2> QED BY <1>5, <2>1, ClosedFaultless DEF SdpQueueShortWrite, InvoluntaryStop
  <1>6. ASSUME NEW t \in Task, SdpCancel(t), fault = "none" PROVE FaultInv'
    <2>1. /\ current[t] # 0 /\ t \in Waiters
          /\ pc = "loop" \/ (pc = "callback" /\ NestedCancel)
          /\ UNCHANGED <<open, pipeVars, deathVars, pc, sweeping>>
      BY <1>6 DEF SdpCancel, Waiters
    <2>2. diedIdle \/ Queued = Waiters
      BY <1>0, <1>6 DEF QueueInv, Faultless
    <2>3. CASE t \notin Queued
      BY <1>6, <2>1, <2>2, <2>3 DEF SdpCancel, Fails, FaultInv, OnlyIdleDeathFaults, deathVars
    <2>4. CASE t \in Queued
      <3>1. Waiters' = Waiters \ {t} /\ Queued' = Queued \ {t}
        <4>1. Waiters' = Waiters \ {t}
          BY <1>0, <1>6, <2>1, <2>4, TellRequests DEF SdpCancel
        <4> QED BY <1>0, <1>6, <2>4, <4>1, UnlinkLemma DEF SdpCancel, QueueInv, Queued
      <3>2. aborted' \/ tasks' # <<>>
        BY <1>0, <1>6, <2>4, UnlinkLemma DEF SdpCancel, AbortsRequest, QueueInv, Queued
      <3>3. tasks # <<>> /\ fault' = "none" /\ (open \/ NestedCancel)
        <4>1. tasks # <<>> /\ fault' = "none"
          BY <1>6, <2>4 DEF SdpCancel, Queued, Members
        <4> QED BY <1>0, <1>6, <2>1, <4>1 DEF Faultless
      <3> QED BY <1>0, <1>6, <2>1, <2>2, <3>1, <3>2, <3>3
              DEF FaultInv, OnlyIdleDeathFaults, Faultless, pipeVars, deathVars
    <2> QED BY <2>3, <2>4
  <1>7. CASE DataReadyUnexpected /\ fault = "none"
    <2>1. rspipe = <<>>
      <3>1. rspipe \in Seq(Serial) /\ Len(rspipe) \in Nat
        BY <1>0, LenZero DEF TypeOK, PipeTypeOK
      <3>2. rspipe # <<>> => rspipe[1] \in InTransit
        BY <3>1, LenZero DEF InTransit
      <3> QED BY <1>0, <1>7, <3>2 DEF DataReadyUnexpected, PipeInv, ReplyMatchesHead
    <2>2. diedIdle
      BY <1>0, <1>7, <2>1 DEF DataReadyUnexpected, Readable, Faultless
    <2> QED BY <1>7, <2>2 DEF DataReadyUnexpected, Fails, FaultInv, OnlyIdleDeathFaults,
                          deathVars
  <1>8. CASE DataReadyEof /\ fault = "none"
    <2>1. Queued = Waiters /\ Queued' = Queued /\ Waiters' = Waiters
      BY <1>0, <1>8, <1>w DEF DataReadyEof, QueueInv, ownerVars
    <2> QED BY <1>8, <2>1, ClosedFaultless DEF DataReadyEof, InvoluntaryStop
  <1>9. CASE DataReadyReply /\ fault = "none"
    <2>1. /\ open /\ pc = "loop" /\ ~sweeping /\ rspipe # <<>>
          /\ UNCHANGED <<open, helper, work, deathVars, controlVars>>
      BY <1>0, <1>9 DEF DataReadyReply, Readable, QueueInv
    <2> QED BY <1>s, <1>9, <2>1 DEF FaultInv, OnlyIdleDeathFaults, Faultless,
                                    deathVars, controlVars
  <1>10. CASE DataReadyShortWrite /\ fault = "none"
    <2>1. diedIdle
      BY <1>s, <1>10 DEF DataReadyShortWrite, Writable
    <2> QED BY <1>10, <2>1, ClosedFaultless DEF DataReadyShortWrite, InvoluntaryStop
  <1>11. CASE ShutdownResult /\ fault = "none"
    <2>1. /\ tasks # <<>> /\ tasks' = Tail(tasks) /\ pc = "shutdown" /\ pc' = "callback"
          /\ UNCHANGED <<open, aborted, pipeVars, deathVars, sweeping>>
          /\ Head(tasks) \in Task /\ Head(tasks) \in Queued /\ ~open
      <3>1. Head(tasks) \in Task /\ Head(tasks) \in Queued
        BY <1>0, <1>11, LenZero DEF ShutdownResult, Queued
      <3> QED BY <1>0, <1>11, <3>1 DEF ShutdownResult, PipeInv
    <2>2. diedIdle \/ Queued = Waiters
      BY <1>0, <1>11 DEF QueueInv, Faultless
    <2>3. CASE current[Head(tasks)] = 0
      <3>1. diedIdle
        BY <2>1, <2>2, <2>3 DEF Waiters
      <3> QED BY <1>11, <2>1, <2>3, <3>1 DEF ShutdownResult, Fails, FaultInv,
                                        OnlyIdleDeathFaults, deathVars
    <2>4. CASE current[Head(tasks)] # 0
      <3>1. Waiters' = Waiters \ {Head(tasks)}
        BY <1>0, <1>11, <2>1, <2>4, TellRequests DEF ShutdownResult
      <3>2. Queued' = Queued \ {Head(tasks)}
        BY <1>0, <1>11, TailLemma DEF ShutdownResult, QueueInv, Queued
      <3>3. helper = "none" /\ fault' = "none"
        BY <1>0, <1>11, <2>1, <2>4 DEF PipeInv, ShutdownResult
      <3> QED BY <1>0, <1>11, <2>1, <2>2, <3>1, <3>2, <3>3
              DEF FaultInv, OnlyIdleDeathFaults, Faultless, pipeVars, deathVars
    <2> QED BY <2>3, <2>4
  <1>12. CASE (CallbackReturns \/ ShutdownDone) /\ fault = "none"
    BY <1>0, <1>12, <1>w DEF CallbackReturns, ShutdownDone, FaultInv, OnlyIdleDeathFaults,
            Faultless, handlerVars, pipeVars, deathVars, ownerVars
  <1>13. CASE Sweep /\ fault = "none"
    <2>1. tasks = <<>> /\ Queued = {} /\ ~open
      BY <1>0, <1>13 DEF Sweep, QueueInv, Queued, Members, PipeInv
    <2>2. CASE \E t \in Task : current[t] # 0
      <3>1. Queued # Waiters
        BY <2>1, <2>2 DEF Waiters
      <3>2. diedIdle
        BY <1>0, <1>13, <3>1 DEF QueueInv, Faultless
      <3> QED BY <1>13, <2>2, <3>2 DEF Sweep, Fails, FaultInv, OnlyIdleDeathFaults, deathVars
    <2>3. CASE ~\E t \in Task : current[t] # 0
      BY <1>0, <1>13, <2>1, <2>3 DEF Sweep, FaultInv, OnlyIdleDeathFaults, Faultless,
                                handlerVars, pipeVars, deathVars
    <2> QED BY <2>2, <2>3
  <1>14. CASE (HelperRead \/ HelperReply) /\ fault = "none"
    BY <1>0, <1>14, <1>w DEF HelperRead, HelperReply, FaultInv, OnlyIdleDeathFaults,
            Faultless, handlerVars, deathVars, ownerVars, controlVars
  <1>15. CASE HelperDies /\ fault = "none"
    <2>1. UNCHANGED <<handlerVars, rspipe, ownerVars, controlVars>>
          /\ (diedIdle' \/ helper = "busy" \/ rqpipe # <<>>) /\ (diedIdle => diedIdle')
      BY <1>15 DEF HelperDies
    <2>2. ASSUME ~diedIdle' PROVE (aborted \/ tasks # <<>>) /\ rspipe = <<>>
      <3>1. OneInFlight /\ ReplyMatchesHead
        BY <1>0 DEF PipeInv
      <3>2. rspipe = <<>> /\ InTransit # {}
        BY <1>0, <2>1, <2>2, <3>1, OneTravels
      <3> QED BY <3>1, <3>2 DEF ReplyMatchesHead
    <2> QED BY <1>0, <1>15, <1>w, <2>1, <2>2
            DEF FaultInv, OnlyIdleDeathFaults, Faultless, handlerVars, ownerVars, controlVars
  <1> QED
    BY <1>1, <1>2, <1>3, <1>4, <1>5, <1>6, <1>7, <1>8, <1>9, <1>10, <1>11, <1>12, <1>13,
       <1>14, <1>15
    DEF Next, DataReady, Unwind, Helper

\* An assertion fails only after a helper died while it had nothing to do, or,
\* in SdpCreateThread, after a client cancelled a task from a callback of a
\* shutdown: a helper that dies in the middle of a lookup harms nothing.
THEOREM FaultsNeedIdleDeath == Spec => []OnlyIdleDeathFaults
  <1>1. Init => FaultInv
    BY DEF Init, FaultInv, Faultless, OnlyIdleDeathFaults
  <1>2. FaultInv => OnlyIdleDeathFaults
    BY DEF FaultInv
  <1> QED BY <1>1, <1>2, Inductive, StepFault, PTL DEF Spec

-----------------------------------------------------------------------------
\* The handler implements TaskService: what an owner is told settles the very
\* request it made, once, whatever the helper does.
THEOREM Refinement == Spec => ImplementsService
  <1>1. Init => Service!Init
    BY DEF Init, Service!Init, Service!Serial, Serial
  <1>2. ASSUME IInv, NEW t \in Task, current[t] # 0,
               NEW how \in {"answered", "reset", "cancelled"},
               Tell(t, current[t], how)
        PROVE  Service!Next
    BY <1>2 DEF IInv, Requests, Tell, Service!Next, Service!Settle, Service!Settled
  <1>3. IInv /\ [Next]_vars => [Service!Next]_(Service!vars)
    <2> SUFFICES ASSUME IInv, [Next]_vars PROVE [Service!Next]_(Service!vars)
      OBVIOUS
    <2>0. TypeOK /\ Requests /\ tasks \in Seq(Task)
      BY DEF IInv, TypeOK, HandlerTypeOK
    <2>1. CASE UNCHANGED ownerVars
      BY <2>1 DEF ownerVars, Service!vars
    <2>2. ASSUME NEW t \in Task, SdpQueue(t) PROVE Service!Next
      <3>1. serial + 1 \in Serial /\ outcome[serial + 1] = "unused"
        BY <2>0, <2>2, SdpAssumption, SerialsAreNaturals
        DEF SdpQueue, TypeOK, OwnerTypeOK, Requests
      <3> QED BY <2>2, <3>1 DEF SdpQueue, Service!Next, Service!Submit, Service!Serial, Serial
    <2>3. ASSUME NEW t \in Task, SdpCancel(t) PROVE [Service!Next]_(Service!vars)
      BY <1>2, <2>1, <2>3 DEF SdpCancel
    <2>4. CASE DataReadyReply
      BY <1>2, <2>1, <2>4, ReplyIsHeads DEF DataReadyReply
    <2>5. CASE ShutdownResult
      <3>1. Head(tasks) \in Task
        BY <2>0, <2>5 DEF ShutdownResult
      <3> QED BY <1>2, <2>1, <2>5, <3>1 DEF ShutdownResult
    <2> QED
      BY <2>1, <2>2, <2>3, <2>4, <2>5
      DEF Next, DataReady, Unwind, Helper, SdpCreateThread, SdpStop, SdpQueueShortWrite,
          DataReadyUnexpected, DataReadyEof, DataReadyShortWrite, CallbackReturns,
          ShutdownDone, Sweep, HelperRead, HelperReply, HelperDies, vars
  <1> QED BY <1>1, <1>3, Inductive, PTL DEF Spec, ImplementsService, Service!Spec

-----------------------------------------------------------------------------
(***************************************************************************)
(* The tasks of the controller (HciTasks).  First Among, which goes        *)
(* through a list, FoldLeft through its numbers: what holds of a part of   *)
(* the numbers holds of all of them, since a least part of which it did    *)
(* not hold would have a smaller one.                                      *)
(***************************************************************************)

LEMMA LeastPart ==
    ASSUME NEW D, IsFiniteSet(D), NEW T, T \subseteq SUBSET D, T # {}
    PROVE  \E s \in T : \A t \in T : t \subseteq s => t = s
  <1>1. \E x \in T : \A y \in T : ~ (<<y, x>> \in StrictSubsetOrdering(D))
    <2>1. IsWellFoundedOn(StrictSubsetOrdering(D), SUBSET D)
      BY FS_StrictSubsetOrderingWellFounded, FS_FiniteSubsetsOfFinite
    <2> QED BY <2>1, WFMin, Zenon
  <1> QED BY <1>1 DEF StrictSubsetOrdering

LEMMA MaxIsLast ==
    ASSUME NEW n \in Nat, NEW s \in SUBSET (1 .. n), s # {}
    PROVE  Max(s) \in s /\ \A y \in s : y <= Max(s)
  <1> DEFINE HasTop(t) == \E x \in t : \A y \in t : x >= y
             T == {t \in SUBSET (1 .. n) : t # {} /\ ~HasTop(t)}
  <1>1. T = {}
    <2> SUFFICES ASSUME T # {} PROVE FALSE
      OBVIOUS
    <2> DEFINE all == 1 .. n
    <2>1. IsFiniteSet(all)
      BY FS_Interval
    <2>2. PICK t \in T : \A u \in T : u \subseteq t => u = t
      <3>1. T \subseteq SUBSET all
        OBVIOUS
      <3> HIDE DEF HasTop, T, all
      <3> QED BY <2>1, <3>1, LeastPart
    <2>3. PICK x \in t : TRUE
      BY <2>2
    <2>4. CASE t \ {x} = {}
      <3>1. t = {x} /\ x \in Nat
        BY <2>2, <2>3, <2>4
      <3> QED BY <2>2, <3>1
    <2>5. CASE t \ {x} # {}
      <3>1. (t \ {x}) \notin T
        BY <2>2, <2>3
      <3>2. HasTop(t \ {x})
        <4> HIDE DEF HasTop
        <4> QED BY <2>2, <2>5, <3>1
      <3>3. PICK m \in t \ {x} : \A y \in t \ {x} : m >= y
        BY <3>2
      <3>4. t \subseteq Nat
        BY <2>2
      <3>5. HasTop(t)
        <4>1. CASE m >= x
          <5>1. \A y \in t : m >= y
            BY <3>3, <4>1
          <5> QED BY <3>3, <5>1
        <4>2. CASE ~(m >= x)
          <5>1. \A y \in t : x >= y
            BY <2>3, <3>3, <3>4, <4>2
          <5> QED BY <2>3, <5>1
        <4> QED BY <4>1, <4>2
      <3> QED BY <2>2, <3>5
    <2> QED BY <2>4, <2>5
  <1>2. PICK x \in s : \A y \in s : x >= y
    BY <1>1
  <1>3. Max(s) \in s /\ \A y \in s : Max(s) >= y
    BY <1>2 DEF Max
  <1> QED BY <1>3

Sees(seen, w, these) == IF w \in these THEN Append(seen, w) ELSE seen

\* What FoldLeft is defined by, for the numbers in D.
AmongFold(list, these, D, g) ==
    g = [s \in SUBSET D |-> IF s = {} THEN <<>> ELSE Sees(g[s \ {Max(s)}], list[Max(s)], these)]

LEMMA AmongIs ==
    ASSUME NEW list, NEW these
    PROVE  Among(list, these)
              = (CHOOSE g : AmongFold(list, these, DOMAIN list, g))[DOMAIN list]
  BY DEF Among, FoldLeft, MapThenFoldSet, AmongFold, Sees

LEMMA AmongFoldExists ==
    ASSUME NEW list, NEW these, NEW n \in Nat
    PROVE  \E g : AmongFold(list, these, 1 .. n, g)
  <1> DEFINE Exists(D) == \E g : AmongFold(list, these, D, g)
             T == {D \in SUBSET (1 .. n) : ~Exists(D)}
  <1>1. T = {}
    <2> SUFFICES ASSUME T # {} PROVE FALSE
      OBVIOUS
    <2> DEFINE all == 1 .. n
    <2>1. IsFiniteSet(all)
      BY FS_Interval
    <2>2. PICK D \in T : \A u \in T : u \subseteq D => u = D
      <3>1. T \subseteq SUBSET all
        OBVIOUS
      <3> HIDE DEF Exists, T, all
      <3> QED BY <2>1, <3>1, LeastPart
    <2>3. CASE D = {}
      <3> DEFINE g == [s \in SUBSET D |-> <<>>]
      <3>1. AmongFold(list, these, D, g)
        BY <2>3 DEF AmongFold
      <3> QED BY <2>2, <3>1
    <2>4. CASE D # {}
      <3> DEFINE m == Max(D)
                 E == D \ {m}
      <3>1. D \in SUBSET (1 .. n) /\ m \in D /\ \A y \in D : y <= m
        BY <2>2, <2>4, MaxIsLast
      <3> HIDE DEF m
      <3>2. E \notin T
        BY <2>2, <3>1
      <3>3. Exists(E)
        <4> HIDE DEF Exists
        <4> QED BY <2>2, <3>2
      <3>4. PICK f : AmongFold(list, these, E, f)
        BY <3>3
      <3>5. ASSUME NEW s \in SUBSET D, m \in s
            PROVE  Max(s) = m
        <4>0. s \in SUBSET (1 .. n) /\ s # {}
          BY <3>1, <3>5
        <4>1. Max(s) \in s /\ \A y \in s : y <= Max(s)
          BY <4>0, MaxIsLast
        <4> DEFINE x == Max(s)
        <4> HIDE DEF x
        <4>2. x \in Nat /\ m \in Nat /\ m <= x /\ x <= m
          <5>1. x \in s /\ \A y \in s : y <= x
            BY <4>1 DEF x
          <5> QED BY <3>1, <3>5, <5>1
        <4> QED BY <4>2 DEF x
      <3> DEFINE g == [s \in SUBSET D |-> IF s \subseteq E THEN f[s]
                                          ELSE Sees(f[s \ {m}], list[m], these)]
      <3>6. AmongFold(list, these, D, g)
        <4>1. ASSUME NEW s \in SUBSET D
              PROVE  g[s] = IF s = {} THEN <<>>
                            ELSE Sees(g[s \ {Max(s)}], list[Max(s)], these)
          <5>1. CASE s = {}
            <6>1. g[s] = f[s] /\ f[s] = <<>>
              BY <3>4, <5>1 DEF AmongFold
            <6> QED BY <5>1, <6>1
          <5>2. CASE s # {} /\ s \subseteq E
            <6>1. f[s] = Sees(f[s \ {Max(s)}], list[Max(s)], these)
              BY <3>4, <5>2 DEF AmongFold
            <6>2. g[s] = f[s] /\ g[s \ {Max(s)}] = f[s \ {Max(s)}]
              BY <5>2
            <6> HIDE DEF g
            <6> QED BY <5>2, <6>1, <6>2
          <5>3. CASE ~(s \subseteq E)
            <6>1. m \in s
              BY <5>3
            <6>2. Max(s) = m
              BY <3>5, <6>1
            <6>3. g[s] = Sees(f[s \ {m}], list[m], these) /\ g[s \ {m}] = f[s \ {m}]
              BY <5>3
            <6> HIDE DEF g
            <6> QED BY <5>3, <6>1, <6>2, <6>3
          <5> QED BY <5>1, <5>2, <5>3
        <4>2. g = [s \in SUBSET D |-> g[s]]
          OBVIOUS
        <4> HIDE DEF g
        <4> QED BY <4>1, <4>2 DEF AmongFold
      <3> QED BY <2>2, <3>6
    <2> QED BY <2>3, <2>4
  <1>2. (1 .. n) \notin T
    BY <1>1
  <1> QED BY <1>2

LEMMA InList ==
    ASSUME NEW s \in Seq(Owner)
    PROVE  ToSet(s) = {s[i] : i \in 1 .. Len(s)} /\ ToSet(s) \subseteq Owner
  BY DEF ToSet

LEMMA AppendDoes ==
    ASSUME NEW s \in Seq(Owner), Distinct(s), NEW w \in Owner, w \notin ToSet(s)
    PROVE  LET q == Append(s, w) IN
           /\ q \in Seq(Owner) /\ Distinct(q) /\ ToSet(q) = ToSet(s) \cup {w}
  <1> DEFINE q == Append(s, w)
             l == Len(s)
  <1>1. l \in Nat /\ q \in Seq(Owner) /\ Len(q) = l + 1 /\ q[l + 1] = w
        /\ \A i \in 1 .. l : q[i] = s[i]
    OBVIOUS
  <1>2. \A i \in 1 .. l : s[i] # w
    BY InList
  <1> HIDE DEF q
  <1>3. Distinct(q)
    BY <1>1, <1>2 DEF Distinct
  <1>4. ToSet(q) = ToSet(s) \cup {w}
    <2>1. 1 .. l + 1 = (1 .. l) \cup {l + 1}
      BY <1>1
    <2>2. ToSet(q) = {q[i] : i \in 1 .. l + 1}
      BY <1>1, InList
    <2>3. ToSet(s) = {s[i] : i \in 1 .. l}
      BY InList
    <2> HIDE DEF l
    <2> QED BY <1>1, <2>1, <2>2, <2>3
  <1> QED BY <1>1, <1>3, <1>4 DEF q

LEMMA TailDoes ==
    ASSUME NEW s \in Seq(Owner), Distinct(s), s # <<>>
    PROVE  /\ Head(s) \in ToSet(s) /\ Tail(s) \in Seq(Owner) /\ Distinct(Tail(s))
           /\ ToSet(Tail(s)) = ToSet(s) \ {Head(s)}
  <1> DEFINE q == Tail(s)
             l == Len(s)
  <1>1. l \in Nat /\ l > 0 /\ q \in Seq(Owner) /\ Len(q) = l - 1 /\ Head(s) = s[1]
        /\ \A i \in 1 .. l - 1 : q[i] = s[i + 1]
    OBVIOUS
  <1>2. ToSet(q) = {q[i] : i \in 1 .. l - 1} /\ ToSet(s) = {s[i] : i \in 1 .. l}
    BY <1>1, InList
  <1> HIDE DEF q, l
  <1>3. \A i \in 1 .. l - 1 : i + 1 \in 1 .. l /\ i + 1 # 1
    BY <1>1
  <1>4. \A i \in 1 .. l : i # 1 => i - 1 \in 1 .. l - 1 /\ (i - 1) + 1 = i
    BY <1>1
  <1>5. 1 \in 1 .. l
    BY <1>1
  <1>6. \A i, j \in 1 .. l : s[i] = s[j] => i = j
    BY DEF Distinct, l
  <1>7. Distinct(q)
    <2>1. ASSUME NEW i \in 1 .. l - 1, NEW j \in 1 .. l - 1, q[i] = q[j] PROVE i = j
      <3>1. i + 1 = j + 1
        BY <1>1, <1>3, <1>6, <2>1
      <3> QED BY <1>1, <3>1
    <2> QED BY <1>1, <2>1 DEF Distinct
  <1>8. \A x : x \in ToSet(q) <=> x \in ToSet(s) /\ x # Head(s)
    <2>1. ASSUME NEW i \in 1 .. l - 1 PROVE q[i] \in ToSet(s) /\ q[i] # Head(s)
      BY <1>1, <1>2, <1>3, <1>5, <1>6
    <2>2. ASSUME NEW i \in 1 .. l, s[i] # Head(s) PROVE s[i] \in ToSet(q)
      BY <1>1, <1>2, <1>4, <2>2
    <2> QED BY <1>2, <2>1, <2>2
  <1> QED BY <1>1, <1>2, <1>5, <1>7, <1>8 DEF q

\* What Among has seen in the part s of the numbers.
Gathered(q, list, these, s) ==
    q \in Seq(Owner) /\ Distinct(q) /\ ToSet(q) = {list[i] : i \in s} \cap these

LEMMA SeesGathers ==
    ASSUME NEW q, NEW list, NEW these, NEW s, NEW m, Gathered(q, list, these, s),
           list[m] \in Owner, \A i \in s : list[i] # list[m]
    PROVE  Gathered(Sees(q, list[m], these), list, these, s \cup {m})
  <1>1. {list[i] : i \in s \cup {m}} = {list[i] : i \in s} \cup {list[m]}
    OBVIOUS
  <1>2. CASE list[m] \in these
    <2>1. Sees(q, list[m], these) = Append(q, list[m])
      BY <1>2 DEF Sees
    <2>2. list[m] \notin ToSet(q)
      BY DEF Gathered
    <2> QED BY <1>1, <1>2, <2>1, <2>2, AppendDoes DEF Gathered
  <1>3. CASE list[m] \notin these
    <2>1. Sees(q, list[m], these) = q
      BY <1>3 DEF Sees
    <2> QED BY <1>1, <1>3, <2>1 DEF Gathered
  <1> QED BY <1>2, <1>3

\* Those of the list that are among these, each once.
LEMMA AmongDoes ==
    ASSUME NEW list \in Seq(Owner), Distinct(list), NEW these
    PROVE  LET q == Among(list, these) IN
           q \in Seq(Owner) /\ Distinct(q) /\ ToSet(q) = ToSet(list) \cap these
  <1> DEFINE n == Len(list)
             g == CHOOSE f : AmongFold(list, these, 1 .. n, f)
             T == {s \in SUBSET (1 .. n) : ~Gathered(g[s], list, these, s)}
  <1>1. n \in Nat /\ DOMAIN list = 1 .. n
    OBVIOUS
  <1>2. AmongFold(list, these, 1 .. n, g)
    BY <1>1, AmongFoldExists
  <1>3. Among(list, these) = g[1 .. n]
    BY <1>1, AmongIs
  <1> HIDE DEF g
  <1>4. T = {}
    <2> SUFFICES ASSUME T # {} PROVE FALSE
      OBVIOUS
    <2> DEFINE all == 1 .. n
    <2>1. IsFiniteSet(all)
      BY <1>1, FS_Interval
    <2>2. PICK s \in T : \A t \in T : t \subseteq s => t = s
      <3>1. T \subseteq SUBSET all
        OBVIOUS
      <3> HIDE DEF T, all
      <3> QED BY <2>1, <3>1, LeastPart
    <2>3. CASE s = {}
      <3>1. g[s] = <<>>
        BY <1>2, <2>2, <2>3 DEF AmongFold
      <3>2. Gathered(<<>>, list, these, s)
        BY <2>3 DEF Gathered, Distinct, ToSet
      <3> QED BY <2>2, <3>1, <3>2
    <2>4. CASE s # {}
      <3> DEFINE m == Max(s)
                 t == s \ {m}
      <3>1. s \in SUBSET (1 .. n) /\ m \in s
        BY <1>1, <2>2, <2>4, MaxIsLast
      <3>2. g[s] = Sees(g[t], list[m], these)
        BY <1>2, <2>4, <3>1 DEF AmongFold
      <3> HIDE DEF m
      <3>3. Gathered(g[t], list, these, t)
        BY <2>2, <3>1
      <3>4. list[m] \in Owner /\ \A i \in t : list[i] # list[m]
        BY <3>1 DEF Distinct
      <3>5. t \cup {m} = s
        BY <3>1
      <3> HIDE DEF t
      <3>6. Gathered(g[s], list, these, s)
        <4> DEFINE q == g[t]
        <4>1. Gathered(q, list, these, t)
          BY <3>3
        <4> HIDE DEF q
        <4>2. Gathered(Sees(q, list[m], these), list, these, t \cup {m})
          BY <3>4, <4>1, SeesGathers
        <4> QED BY <3>2, <3>5, <4>2 DEF q
      <3> QED BY <2>2, <3>6
    <2> QED BY <2>3, <2>4
  <1>5. Gathered(g[1 .. n], list, these, 1 .. n)
    BY <1>4
  <1>6. {list[i] : i \in 1 .. n} = ToSet(list)
    BY InList
  <1> QED BY <1>3, <1>5, <1>6 DEF Gathered

-----------------------------------------------------------------------------
(* The invariant.  Tasks that have ended are listed only in the last frame, *)
(* since the controller is read in the event loop only; an ended inquiry    *)
(* ended alone, and nothing is above the frame that has it to report.       *)

Frame ==
    {Client, Down} \cup {Done(e) : e \in Seq(Owner)} \cup {Found(e) : e \in Seq(Device)}

Hubs ==
    [up : BOOLEAN, hci : BOOLEAN, tasks : Seq(Owner), resubmit : SUBSET Owner,
     submitted : BOOLEAN, needed : BOOLEAN, armed : BOOLEAN, owned : SUBSET Owner,
     found : SUBSET Device, asked : [Device -> 0 .. MaxAsked], sent : SUBSET Device,
     busy : SUBSET Device, stack : Seq(Frame),
     fault : {"none", "ErrorUnset", "ResendLost", "InquiryTask"}]

Calling == {"client", "down"}

Waiting(st) ==
    IF st = <<>> THEN <<>>
    ELSE IF st[Len(st)].do = "done" THEN st[Len(st)].ended ELSE <<>>

Formed(st) ==
    /\ \A i \in 1 .. Len(st) : i < Len(st) => st[i].do \in Calling
    /\ Inquiry \in ToSet(Waiting(st)) => Len(st) = 1 /\ ToSet(Waiting(st)) = {Inquiry}

\* An owner's task is in one list, once.
Listed(list, ended, owned) ==
    /\ Distinct(list) /\ Distinct(ended)
    /\ ToSet(list) \cap ToSet(ended) = {}
    /\ owned = ToSet(list) \cup ToSet(ended)

\* __Stop is under way at most once, and when it is not the hub is either up
\* or has neither controller nor tasks.
Closes(st) == {i \in 1 .. Len(st) : st[i].do = "down"}

Stopping(up, hci, list, st) ==
    /\ \A i, j \in Closes(st) : i = j
    /\ up => hci /\ Closes(st) = {}
    /\ ~up /\ Closes(st) = {} => ~hci /\ list = <<>>

Wanted(found, asked, owned) ==
    /\ found # {} => Inquiry \in owned
    /\ \A d \in Device : asked[d] > 0 => d \in owned

HciInv(r) ==
    /\ r \in Hubs
    /\ Formed(r.stack)
    /\ Listed(r.tasks, Waiting(r.stack), r.owned)
    /\ Stopping(r.up, r.hci, r.tasks, r.stack)
    /\ Wanted(r.found, r.asked, r.owned)
    /\ r.fault # "InquiryTask"

-----------------------------------------------------------------------------
(* What pushing and popping a frame does.                                  *)

LEMMA Frames ==
    /\ Client \in Frame /\ Client.do = "client" /\ Down \in Frame /\ Down.do = "down"
    /\ \A e \in Seq(Owner) : Done(e) \in Frame /\ Done(e).do = "done" /\ Done(e).ended = e
    /\ \A e \in Seq(Device) :
          Found(e) \in Frame /\ Found(e).do = "found" /\ Found(e).devices = e
    /\ \A f \in Frame : f.do = "done" => \E e \in Seq(Owner) : f = Done(e)
    /\ \A f \in Frame : f.do = "found" => \E e \in Seq(Device) : f = Found(e)
    /\ \A f \in Frame : f.do = "down" => f = Down
    /\ \A f \in Frame : f.do \in {"client", "down", "done", "found"}
  <1>1. Client \in Frame /\ Down \in Frame
    BY DEF Frame
  <1>2. \A e \in Seq(Owner) : Done(e) \in Frame
    BY DEF Frame
  <1>3. \A e \in Seq(Device) : Found(e) \in Frame
    BY DEF Frame
  <1>4. Client.do = "client" /\ Down.do = "down"
    BY DEF Client, Down
  <1>5. \A e : Done(e).do = "done" /\ Done(e).ended = e
    BY DEF Done
  <1>6. \A e : Found(e).do = "found" /\ Found(e).devices = e
    BY DEF Found
  <1>7. \A f \in Frame : \/ f = Client \/ f = Down
                         \/ \E e \in Seq(Owner) : f = Done(e)
                         \/ \E e \in Seq(Device) : f = Found(e)
    BY DEF Frame
  <1>8. ASSUME NEW f \in Frame
        PROVE  /\ f.do = "done" => \E e \in Seq(Owner) : f = Done(e)
               /\ f.do = "found" => \E e \in Seq(Device) : f = Found(e)
               /\ f.do = "down" => f = Down
               /\ f.do \in {"client", "down", "done", "found"}
    <2>1. CASE f = Client \/ f = Down
      BY <1>4, <2>1
    <2>2. ASSUME NEW e \in Seq(Owner), f = Done(e) PROVE f.do = "done"
      BY <1>5, <2>2
    <2>3. ASSUME NEW e \in Seq(Device), f = Found(e) PROVE f.do = "found"
      BY <1>6, <2>3
    <2>4. CASE \E e \in Seq(Owner) : f = Done(e)
      BY <2>2, <2>4
    <2>5. CASE \E e \in Seq(Device) : f = Found(e)
      BY <2>3, <2>5
    <2> QED BY <1>7, <2>1, <2>4, <2>5
  <1> QED BY <1>1, <1>2, <1>3, <1>4, <1>5, <1>6, <1>8

LEMMA WaitingType ==
    ASSUME NEW st \in Seq(Frame)
    PROVE  Waiting(st) \in Seq(Owner)
  <1>1. CASE st = <<>>
    BY <1>1 DEF Waiting
  <1>2. CASE st # <<>>
    <2>1. st[Len(st)] \in Frame
      BY <1>2
    <2> DEFINE f == st[Len(st)]
    <2> HIDE DEF f
    <2>2. f \in Frame
      BY <2>1 DEF f
    <2>3. Waiting(st) = IF f.do = "done" THEN f.ended ELSE <<>>
      BY <1>2 DEF Waiting, f
    <2>4. f.do = "done" => f.ended \in Seq(Owner)
      BY <2>2, Frames
    <2> QED BY <2>3, <2>4
  <1> QED BY <1>1, <1>2

LEMMA Pushed ==
    ASSUME NEW st \in Seq(Frame), Formed(st), Inquiry \notin ToSet(Waiting(st)),
           NEW f \in {Client, Down}
    PROVE  LET q == <<f>> \o st IN
           /\ q \in Seq(Frame) /\ Formed(q) /\ Waiting(q) = Waiting(st)
           /\ q # <<>> /\ Head(q) = f
           /\ f = Client => Closes(q) = {i + 1 : i \in Closes(st)}
           /\ f = Down /\ Closes(st) = {} => Closes(q) = {1}
  <1> DEFINE q == <<f>> \o st
             l == Len(st)
  <1>0. f \in Frame /\ f.do \in Calling /\ f.do # "done"
    BY Frames DEF Calling
  <1>1. l \in Nat /\ q \in Seq(Frame) /\ Len(q) = l + 1 /\ q[1] = f /\ Head(q) = f /\ q # <<>>
    BY <1>0
  <1>2. \A i \in 1 .. l : q[i + 1] = st[i]
    OBVIOUS
  <1>3. \A i \in 1 .. l + 1 : i = 1 \/ (i - 1 \in 1 .. l /\ (i - 1) + 1 = i)
    BY <1>1
  <1> HIDE DEF q
  <1>4. Waiting(q) = Waiting(st)
    <2>1. CASE st = <<>>
      <3>1. l = 0
        BY <2>1
      <3>2. q[Len(q)] = f
        BY <1>1, <3>1
      <3> QED BY <1>0, <1>1, <2>1, <3>2 DEF Waiting
    <2>2. CASE st # <<>>
      <3>1. l \in 1 .. l
        BY <1>1, <2>2
      <3>2. q[Len(q)] = st[l]
        BY <1>1, <1>2, <3>1
      <3> QED BY <1>1, <2>2, <3>2 DEF Waiting
    <2> QED BY <2>1, <2>2
  <1>5. Formed(q)
    <2>1. ASSUME NEW i \in 1 .. Len(q), i < Len(q) PROVE q[i].do \in Calling
      <3>1. CASE i = 1
        BY <1>0, <1>1, <3>1
      <3>2. CASE i # 1
        <4>1. i - 1 \in 1 .. l /\ i - 1 < l /\ q[i] = st[i - 1]
          BY <1>1, <1>2, <1>3, <2>1, <3>2
        <4> QED BY <4>1 DEF Formed
      <3> QED BY <3>1, <3>2
    <2> QED BY <1>4, <2>1 DEF Formed
  <1>6. Closes(q) = {i + 1 : i \in Closes(st)} \cup (IF f = Down THEN {1} ELSE {})
    <2>1. f.do = "down" <=> f = Down
      BY Frames
    <2>2. ASSUME NEW i \in 1 .. l PROVE i + 1 \in 1 .. l + 1 /\ i + 1 # 1
      BY <1>1
    <2>3. 1 \in 1 .. l + 1
      BY <1>1
    <2>4. \A i \in 1 .. l + 1 :
             q[i].do = "down" <=> (i = 1 /\ f = Down) \/ \E j \in Closes(st) : i = j + 1
      <3> TAKE i \in 1 .. l + 1
      <3>1. CASE i = 1
        BY <1>1, <2>1, <2>2, <3>1 DEF Closes
      <3>2. CASE i # 1
        <4>1. i - 1 \in 1 .. l /\ (i - 1) + 1 = i /\ q[i] = st[i - 1]
          BY <1>2, <1>3, <3>2
        <4>2. \A j \in 1 .. l : i = j + 1 => j = i - 1
          BY <1>1
        <4> QED BY <3>2, <4>1, <4>2 DEF Closes
      <3> QED BY <3>1, <3>2
    <2> QED BY <1>1, <2>2, <2>3, <2>4 DEF Closes
  <1>7. Client # Down
    BY DEF Client, Down
  <1> QED BY <1>1, <1>4, <1>5, <1>6, <1>7 DEF q

LEMMA Popped ==
    ASSUME NEW st \in Seq(Frame), Formed(st), st # <<>>, Head(st).do \in Calling
    PROVE  LET q == Tail(st) IN
           /\ q \in Seq(Frame) /\ Formed(q) /\ Waiting(q) = Waiting(st)
           /\ Inquiry \notin ToSet(Waiting(st))
           /\ Head(st) = st[1] /\ 1 \in 1 .. Len(st)
           /\ Closes(q) = {i - 1 : i \in Closes(st) \ {1}}
  <1> DEFINE q == Tail(st)
             l == Len(st)
  <1>1. /\ l \in Nat /\ l > 0 /\ q \in Seq(Frame) /\ Len(q) = l - 1 /\ Head(st) = st[1]
        /\ \A i \in 1 .. l - 1 : q[i] = st[i + 1]
    OBVIOUS
  <1>8. q = <<>> <=> l = 1
    <2> HIDE DEF q, l
    <2> QED BY <1>1, EmptySeq
  <1>2. "done" \notin Calling
    BY DEF Calling
  <1> HIDE DEF q
  <1>3. Waiting(q) = Waiting(st) /\ (l = 1 => Waiting(st) = <<>>)
    <2>1. CASE l = 1
      BY <1>1, <1>2, <1>8, <2>1 DEF Waiting
    <2>2. CASE l # 1
      <3>1. l - 1 \in 1 .. l - 1 /\ q[l - 1] = st[l]
        BY <1>1, <2>2
      <3> QED BY <1>1, <1>8, <2>2, <3>1 DEF Waiting
    <2> QED BY <2>1, <2>2
  <1>4. Inquiry \notin ToSet(Waiting(st))
    <2>1. ToSet(<<>>) = {}
      BY DEF ToSet
    <2> QED BY <1>3, <2>1 DEF Formed
  <1>5. Formed(q)
    <2>1. ASSUME NEW i \in 1 .. Len(q), i < Len(q) PROVE q[i].do \in Calling
      <3>1. i + 1 \in 1 .. l /\ i + 1 < l /\ q[i] = st[i + 1]
        BY <1>1, <2>1
      <3> QED BY <3>1 DEF Formed
    <2> QED BY <1>3, <1>4, <2>1 DEF Formed
  <1>6. Closes(q) = {i - 1 : i \in Closes(st) \ {1}}
    <2>1. ASSUME NEW i \in Closes(q) PROVE \E j \in Closes(st) \ {1} : i = j - 1
      <3>1. i \in 1 .. l - 1 /\ st[i + 1].do = "down"
        BY <1>1 DEF Closes
      <3>2. i + 1 \in Closes(st) \ {1} /\ i = (i + 1) - 1
        BY <1>1, <3>1 DEF Closes
      <3> QED BY <3>2
    <2>2. ASSUME NEW j \in Closes(st) \ {1} PROVE j - 1 \in Closes(q)
      <3>1. j \in 1 .. l /\ j # 1 /\ st[j].do = "down"
        BY DEF Closes
      <3>2. j - 1 \in 1 .. l - 1 /\ (j - 1) + 1 = j
        BY <1>1, <3>1
      <3> QED BY <1>1, <3>1, <3>2 DEF Closes
    <2> QED BY <2>1, <2>2
  <1>7. 1 \in 1 .. l
    BY <1>1
  <1> QED BY <1>1, <1>3, <1>4, <1>5, <1>6, <1>7 DEF q

\* A stack of one frame, or of a client above one.
LEMMA Alone ==
    ASSUME NEW f \in Frame, f.do \in {"done", "found"},
           f.do = "done" /\ Inquiry \in ToSet(f.ended) => ToSet(f.ended) = {Inquiry}
    PROVE  /\ <<f>> \in Seq(Frame) /\ Formed(<<f>>) /\ Closes(<<f>>) = {}
           /\ Waiting(<<f>>) = IF f.do = "done" THEN f.ended ELSE <<>>
  <1> DEFINE q == <<f>>
  <1>1. q \in Seq(Frame) /\ Len(q) = 1 /\ q[1] = f /\ q # <<>>
    OBVIOUS
  <1> HIDE DEF q
  <1>2. Waiting(q) = IF f.do = "done" THEN f.ended ELSE <<>>
    BY <1>1 DEF Waiting
  <1>3. Formed(q)
    <2>1. ToSet(<<>>) = {}
      BY DEF ToSet
    <2> QED BY <1>1, <1>2, <2>1 DEF Formed
  <1>4. Closes(q) = {}
    BY <1>1 DEF Closes
  <1> QED BY <1>1, <1>2, <1>3, <1>4 DEF q

LEMMA Bare ==
    /\ <<>> \in Seq(Frame) /\ Formed(<<>>) /\ Closes(<<>>) = {} /\ Waiting(<<>>) = <<>>
    /\ ToSet(<<>>) = {} /\ Distinct(<<>>)
  BY DEF Formed, Closes, Waiting, ToSet, Distinct

\* A function that reports is alone.
LEMMA Reporting ==
    ASSUME NEW st \in Seq(Frame), Formed(st), st # <<>>, Head(st).do \notin Calling
    PROVE  /\ Head(st) \in Frame /\ Tail(st) = <<>> /\ Closes(st) = {}
           /\ Waiting(st) = IF Head(st).do = "done" THEN Head(st).ended ELSE <<>>
  <1>1. Len(st) \in Nat /\ Len(st) > 0 /\ Head(st) = st[1] /\ st[1] \in Frame
    OBVIOUS
  <1>2. Len(st) = 1
    <2>1. 1 \in 1 .. Len(st)
      BY <1>1
    <2>2. ASSUME 1 < Len(st) PROVE FALSE
      <3>1. \A i \in 1 .. Len(st) : i < Len(st) => st[i].do \in Calling
        BY DEF Formed
      <3>2. st[1].do \in Calling
        BY <2>1, <2>2, <3>1
      <3>3. Head(st).do = st[1].do
        BY <1>1
      <3> QED BY <3>2, <3>3
    <2> DEFINE l == Len(st)
    <2>3. l \in Nat /\ l > 0 /\ ~(1 < l)
      BY <1>1, <2>2
    <2> HIDE DEF l
    <2>4. l = 1
      BY <2>3
    <2> QED BY <2>4 DEF l
  <1>3. Tail(st) = <<>>
    <2>1. Tail(st) \in Seq(Frame) /\ Len(Tail(st)) = 0
      BY <1>2
    <2> QED BY <2>1, EmptySeq
  <1>4. Closes(st) = {}
    BY <1>1, <1>2 DEF Closes, Calling
  <1> QED BY <1>1, <1>2, <1>3, <1>4 DEF Waiting


-----------------------------------------------------------------------------
(* What the operators of HciTasks do to the state.                         *)

\* The fields that the invariant relates are the same.
Alike(q, r) ==
    /\ q.up = r.up /\ q.hci = r.hci /\ q.tasks = r.tasks /\ q.owned = r.owned
    /\ q.found = r.found /\ q.asked = r.asked /\ q.stack = r.stack

LEMMA AlikeKeeps ==
    ASSUME NEW q \in Hubs, NEW r, HciInv(r), Alike(q, r), q.fault # "InquiryTask"
    PROVE  HciInv(q)
  BY DEF HciInv, Alike

LEMMA Typed ==
    ASSUME NEW r \in Hubs
    PROVE  /\ r.up \in BOOLEAN /\ r.hci \in BOOLEAN /\ r.submitted \in BOOLEAN
           /\ r.needed \in BOOLEAN /\ r.armed \in BOOLEAN
           /\ r.tasks \in Seq(Owner) /\ r.stack \in Seq(Frame)
           /\ r.resubmit \in SUBSET Owner /\ r.owned \in SUBSET Owner
           /\ r.found \in SUBSET Device /\ r.sent \in SUBSET Device /\ r.busy \in SUBSET Device
           /\ r.asked \in [Device -> 0 .. MaxAsked]
  BY DEF Hubs

LEMMA PushDoes ==
    ASSUME NEW r \in Hubs, NEW f \in Frame
    PROVE  LET q == Push(r, f) IN
           /\ q \in Hubs /\ q.stack = <<f>> \o r.stack
           /\ q.up = r.up /\ q.hci = r.hci /\ q.tasks = r.tasks /\ q.owned = r.owned
           /\ q.found = r.found /\ q.asked = r.asked /\ q.fault = r.fault
  <1>1. <<f>> \o r.stack \in Seq(Frame)
    BY Typed
  <1> DEFINE s == <<f>> \o r.stack
  <1>2. s \in Seq(Frame)
    BY <1>1
  <1> HIDE DEF s
  <1>3. [r EXCEPT !.stack = s] \in Hubs
    BY <1>2 DEF Hubs
  <1>4. Push(r, f) = [r EXCEPT !.stack = s]
    BY DEF Push, s
  <1> QED BY <1>3, <1>4 DEF s, Hubs

LEMMA UnlinkedDoes ==
    ASSUME NEW r \in Hubs, Distinct(r.tasks), NEW gone
    PROVE  LET q == Unlinked(r, gone) IN
           /\ q \in Hubs /\ Distinct(q.tasks) /\ ToSet(q.tasks) = ToSet(r.tasks) \ gone
           /\ q.up = r.up /\ q.hci = r.hci /\ q.owned = r.owned /\ q.stack = r.stack
           /\ q.found = r.found /\ q.asked = r.asked /\ q.fault = r.fault
  <1> DEFINE t == Among(r.tasks, Owner \ gone)
             s == r.submitted /\ Inquiry \notin gone
             q == Unlinked(r, gone)
  <1>1. t \in Seq(Owner) /\ Distinct(t) /\ ToSet(t) = ToSet(r.tasks) \ gone
    <2>1. r.tasks \in Seq(Owner)
      BY Typed
    <2>2. ToSet(r.tasks) \subseteq Owner
      BY <2>1, InList
    <2> DEFINE list == r.tasks
               these == Owner \ gone
    <2>3. list \in Seq(Owner) /\ Distinct(list)
      BY <2>1
    <2> HIDE DEF list, these
    <2>4. Among(list, these) \in Seq(Owner) /\ Distinct(Among(list, these))
          /\ ToSet(Among(list, these)) = ToSet(list) \cap these
      BY <2>3, AmongDoes
    <2> QED BY <2>2, <2>4 DEF list, these
  <1>2. s \in BOOLEAN
    OBVIOUS
  <1>3. q = [r EXCEPT !.tasks = t, !.resubmit = @ \ gone, !.submitted = s,
                      !.sent = @ \ gone, !.busy = @ \ gone]
    BY DEF Unlinked
  <1> HIDE DEF t, s, q
  <1>4. q \in Hubs
    BY <1>1, <1>2, <1>3 DEF Hubs
  <1>5. /\ q.tasks = t
        /\ q.up = r.up /\ q.hci = r.hci /\ q.owned = r.owned /\ q.stack = r.stack
        /\ q.found = r.found /\ q.asked = r.asked /\ q.fault = r.fault
    BY <1>3 DEF Hubs
  <1> QED BY <1>1, <1>4, <1>5 DEF q

\* The list of tasks and the owners grow by one.
LEMMA QueueKeeps ==
    ASSUME NEW r, HciInv(r), r.hci, NEW w \in Owner, w \notin r.owned
    PROVE  LET q == Queue(r, w) IN
           /\ HciInv(q) /\ w \in q.owned /\ q.asked = r.asked /\ q.fault = r.fault
  <1> DEFINE t == Append(r.tasks, w)
             q == Queue(r, w)
  <1>1. r \in Hubs /\ Formed(r.stack) /\ Listed(r.tasks, Waiting(r.stack), r.owned)
        /\ Stopping(r.up, r.hci, r.tasks, r.stack) /\ Wanted(r.found, r.asked, r.owned)
        /\ r.fault # "InquiryTask"
    BY DEF HciInv
  <1>2. r.tasks \in Seq(Owner) /\ Distinct(r.tasks) /\ w \notin ToSet(r.tasks)
    BY <1>1, Typed DEF Listed
  <1>3. t \in Seq(Owner) /\ Distinct(t) /\ ToSet(t) = ToSet(r.tasks) \cup {w}
    <2> DEFINE list == r.tasks
    <2>1. list \in Seq(Owner) /\ Distinct(list) /\ w \notin ToSet(list)
      BY <1>2
    <2> HIDE DEF list
    <2>2. Append(list, w) \in Seq(Owner) /\ Distinct(Append(list, w))
          /\ ToSet(Append(list, w)) = ToSet(list) \cup {w}
      BY <2>1, AppendDoes
    <2> QED BY <2>2 DEF list
  <1>4. q = [r EXCEPT !.tasks = t, !.owned = @ \cup {w}, !.sent = @ \cup ({w} \ {Inquiry})]
    BY DEF Queue
  <1>5. {w} \ {Inquiry} \subseteq Device
    BY DEF Owner
  <1> HIDE DEF t, q
  <1>6. q \in Hubs
    BY <1>1, <1>3, <1>4, <1>5 DEF Hubs
  <1>7. /\ q.tasks = t /\ q.owned = r.owned \cup {w}
        /\ q.up = r.up /\ q.hci = r.hci /\ q.stack = r.stack
        /\ q.found = r.found /\ q.asked = r.asked /\ q.fault = r.fault
    BY <1>1, <1>4 DEF Hubs
  <1>8. Listed(q.tasks, Waiting(q.stack), q.owned)
    BY <1>1, <1>3, <1>7 DEF Listed
  <1>9. Stopping(q.up, q.hci, q.tasks, q.stack)
    BY <1>1, <1>7 DEF Stopping
  <1>10. Wanted(q.found, q.asked, q.owned)
    BY <1>1, <1>7 DEF Wanted
  <1> QED BY <1>1, <1>6, <1>7, <1>8, <1>9, <1>10 DEF HciInv, q

LEMMA NoneIn ==
    ASSUME NEW s \in Seq(Owner)
    PROVE  ToSet(s) = {} <=> s = <<>>
  <1>1. ToSet(<<>>) = {}
    BY DEF ToSet
  <1>2. ASSUME s # <<>> PROVE ToSet(s) # {}
    <2>1. Len(s) \in Nat /\ Len(s) > 0
      BY <1>2
    <2>2. 1 \in 1 .. Len(s)
      BY <2>1
    <2> QED BY <2>2, InList
  <1> QED BY <1>1, <1>2

\* Once the task of an owner is gone from the list, so is the owner; what is
\* kept for it is another matter.
LEMMA CancelledDoes ==
    ASSUME NEW r, HciInv(r), NEW w \in Owner, w \notin ToSet(Waiting(r.stack))
    PROVE  LET q == Cancelled(r, w) IN
           /\ q \in Hubs /\ Listed(q.tasks, Waiting(q.stack), q.owned)
           /\ Stopping(q.up, q.hci, q.tasks, q.stack)
           /\ q.owned = r.owned \ {w} /\ q.stack = r.stack /\ q.found = r.found
           /\ q.asked = r.asked /\ q.fault = r.fault
  <1> DEFINE u == Unlinked(r, {w})
             q == Cancelled(r, w)
  <1>1. r \in Hubs /\ Listed(r.tasks, Waiting(r.stack), r.owned)
        /\ Stopping(r.up, r.hci, r.tasks, r.stack)
    BY DEF HciInv
  <1>2. Distinct(r.tasks)
    BY <1>1 DEF Listed
  <1>3. /\ u \in Hubs /\ Distinct(u.tasks) /\ ToSet(u.tasks) = ToSet(r.tasks) \ {w}
        /\ u.up = r.up /\ u.hci = r.hci /\ u.owned = r.owned /\ u.stack = r.stack
        /\ u.found = r.found /\ u.asked = r.asked /\ u.fault = r.fault
    BY <1>1, <1>2, UnlinkedDoes
  <1>4. q = [u EXCEPT !.owned = @ \ {w}]
    BY DEF Cancelled
  <1> HIDE DEF u, q
  <1>5. q \in Hubs
    BY <1>3, <1>4 DEF Hubs
  <1>6. /\ q.tasks = u.tasks /\ q.owned = r.owned \ {w}
        /\ q.up = r.up /\ q.hci = r.hci /\ q.stack = r.stack
        /\ q.found = r.found /\ q.asked = r.asked /\ q.fault = r.fault
    BY <1>3, <1>4 DEF Hubs
  <1>7. Listed(q.tasks, Waiting(q.stack), q.owned)
    BY <1>1, <1>3, <1>6 DEF Listed
  <1>8. r.tasks = <<>> => q.tasks = <<>>
    <2>1. r.tasks \in Seq(Owner) /\ q.tasks \in Seq(Owner)
      BY <1>1, <1>5, Typed
    <2> QED BY <1>3, <1>6, <2>1, NoneIn
  <1>9. Stopping(q.up, q.hci, q.tasks, q.stack)
    BY <1>1, <1>6, <1>8 DEF Stopping
  <1> QED BY <1>5, <1>6, <1>7, <1>9 DEF q

\* A client above does not count for __Stop.
LEMMA ClientAbove ==
    ASSUME NEW st \in Seq(Frame), Formed(st), Inquiry \notin ToSet(Waiting(st)),
           NEW up, NEW hci, NEW list, Stopping(up, hci, list, st)
    PROVE  LET q == <<Client>> \o st IN
           /\ q \in Seq(Frame) /\ Formed(q) /\ Waiting(q) = Waiting(st)
           /\ Stopping(up, hci, list, q)
  <1> DEFINE q == <<Client>> \o st
  <1>1. /\ q \in Seq(Frame) /\ Formed(q) /\ Waiting(q) = Waiting(st)
        /\ Closes(q) = {i + 1 : i \in Closes(st)}
    BY Pushed
  <1> HIDE DEF q
  <1>2. \A i, j \in Closes(st) : i = j
    BY DEF Stopping
  <1>3. \A i, j \in Closes(q) : i = j
    BY <1>1, <1>2
  <1>4. Closes(q) = {} <=> Closes(st) = {}
    BY <1>1
  <1>5. Stopping(up, hci, list, q)
    BY <1>3, <1>4 DEF Stopping
  <1> QED BY <1>1, <1>5 DEF q

\* The owner of a task that is in no list hears of it.
LEMMA CallResultKeeps ==
    ASSUME NEW r \in Hubs, NEW w \in Owner,
           Formed(r.stack), Inquiry \notin ToSet(Waiting(r.stack)),
           Listed(r.tasks, Waiting(r.stack), r.owned \ {w}),
           Stopping(r.up, r.hci, r.tasks, r.stack), Wanted(r.found, r.asked, r.owned),
           r.fault # "InquiryTask"
    PROVE  HciInv(CallResult(r, w))
  <1> DEFINE e == [r EXCEPT !.owned = @ \ {w}]
             f == IF w = Inquiry THEN [e EXCEPT !.found = {}] ELSE [e EXCEPT !.asked[w] = 0]
             q == CallResult(r, w)
  <1>1. /\ e \in Hubs /\ e.owned = r.owned \ {w}
        /\ e.up = r.up /\ e.hci = r.hci /\ e.tasks = r.tasks /\ e.stack = r.stack
        /\ e.found = r.found /\ e.asked = r.asked /\ e.fault = r.fault
    BY DEF Hubs
  <1>2. q = Push(f, Client)
    BY DEF CallResult
  <1> HIDE DEF e, q
  <1>3. /\ f \in Hubs /\ f.owned = e.owned /\ f.up = e.up /\ f.hci = e.hci
        /\ f.tasks = e.tasks /\ f.stack = e.stack /\ f.fault = e.fault
        /\ Wanted(f.found, f.asked, f.owned)
    <2>1. CASE w = Inquiry
      <3>1. f = [e EXCEPT !.found = {}]
        BY <2>1
      <3> HIDE DEF f
      <3>2. /\ f \in Hubs /\ f.owned = e.owned /\ f.up = e.up /\ f.hci = e.hci
            /\ f.tasks = e.tasks /\ f.stack = e.stack /\ f.fault = e.fault
            /\ f.found = {} /\ f.asked = e.asked
        BY <1>1, <3>1 DEF Hubs
      <3>3. \A d \in Device : d # w
        BY <2>1, OwnerAssumption
      <3> QED BY <1>1, <3>2, <3>3 DEF Wanted
    <2>2. CASE w # Inquiry
      <3>1. w \in Device
        BY <2>2 DEF Owner
      <3> DEFINE a == [e.asked EXCEPT ![w] = 0]
      <3>2. /\ a \in [Device -> 0 .. MaxAsked] /\ a[w] = 0
            /\ \A d \in Device : d # w => a[d] = e.asked[d]
        <4>1. e.asked \in [Device -> 0 .. MaxAsked] /\ 0 \in 0 .. MaxAsked
          BY <1>1, Typed, BoundAssumption
        <4> QED BY <3>1, <4>1
      <3>3. f = [e EXCEPT !.asked = a]
        BY <2>2
      <3> HIDE DEF f, a
      <3>4. /\ f \in Hubs /\ f.owned = e.owned /\ f.up = e.up /\ f.hci = e.hci
            /\ f.tasks = e.tasks /\ f.stack = e.stack /\ f.fault = e.fault
            /\ f.found = e.found /\ f.asked = a
        BY <1>1, <3>2, <3>3 DEF Hubs
      <3>5. f.found # {} => Inquiry \in f.owned
        BY <1>1, <2>2, <3>4 DEF Wanted
      <3>6. \A d \in Device : f.asked[d] > 0 => d \in f.owned
        <4> TAKE d \in Device
        <4>1. CASE d = w
          BY <3>2, <3>4, <4>1
        <4>2. CASE d # w
          BY <1>1, <3>2, <3>4, <4>2 DEF Wanted
        <4> QED BY <4>1, <4>2
      <3> QED BY <3>4, <3>5, <3>6 DEF Wanted
    <2> QED BY <2>1, <2>2
  <1> HIDE DEF f
  <1>4. Client \in Frame
    BY Frames
  <1>5. /\ q \in Hubs /\ q.stack = <<Client>> \o f.stack
        /\ q.up = f.up /\ q.hci = f.hci /\ q.tasks = f.tasks /\ q.owned = f.owned
        /\ q.found = f.found /\ q.asked = f.asked /\ q.fault = f.fault
    BY <1>2, <1>3, <1>4, PushDoes
  <1>6. /\ Formed(q.stack) /\ Waiting(q.stack) = Waiting(r.stack)
        /\ Stopping(q.up, q.hci, q.tasks, q.stack)
    <2>1. r.stack \in Seq(Frame)
      BY Typed
    <2> QED BY <1>1, <1>3, <1>5, <2>1, ClientAbove
  <1> QED BY <1>1, <1>3, <1>5, <1>6 DEF HciInv, q

\* Tasks of the list end; the inquiry ends alone.
LEMMA EndedKeeps ==
    ASSUME NEW r, HciInv(r), r.stack = <<>>, r.up, NEW gone,
           Inquiry \in gone => gone = {Inquiry}
    PROVE  HciInv(Ended(r, gone))
  <1> DEFINE t == Among(r.tasks, gone)
             u == Unlinked(r, gone)
             q == Push(u, Done(t))
  <1>1. r \in Hubs /\ Listed(r.tasks, <<>>, r.owned)
        /\ Stopping(r.up, r.hci, r.tasks, r.stack) /\ Wanted(r.found, r.asked, r.owned)
        /\ r.fault # "InquiryTask"
    BY Bare DEF HciInv
  <1>2. r.tasks \in Seq(Owner) /\ Distinct(r.tasks) /\ r.owned = ToSet(r.tasks)
    BY <1>1, Typed, Bare DEF Listed
  <1>3. t \in Seq(Owner) /\ Distinct(t) /\ ToSet(t) = ToSet(r.tasks) \cap gone
    <2> DEFINE list == r.tasks
    <2>1. list \in Seq(Owner) /\ Distinct(list)
      BY <1>2
    <2> HIDE DEF list
    <2>2. Among(list, gone) \in Seq(Owner) /\ Distinct(Among(list, gone))
          /\ ToSet(Among(list, gone)) = ToSet(list) \cap gone
      BY <2>1, AmongDoes
    <2> QED BY <2>2 DEF list
  <1>4. Ended(r, gone) = IF t = <<>> THEN r ELSE q
    BY DEF Ended
  <1>5. /\ u \in Hubs /\ Distinct(u.tasks) /\ ToSet(u.tasks) = ToSet(r.tasks) \ gone
        /\ u.up = r.up /\ u.hci = r.hci /\ u.owned = r.owned /\ u.stack = r.stack
        /\ u.found = r.found /\ u.asked = r.asked /\ u.fault = r.fault
    BY <1>1, <1>2, UnlinkedDoes
  <1> DEFINE f == Done(t)
  <1>6. f \in Frame /\ f.do = "done" /\ f.ended = t
    BY <1>3, Frames
  <1>7. q = Push(u, f)
    OBVIOUS
  <1> HIDE DEF t, u, q, f
  <1>8. /\ q \in Hubs /\ q.stack = <<f>> \o u.stack
        /\ q.up = u.up /\ q.hci = u.hci /\ q.tasks = u.tasks /\ q.owned = u.owned
        /\ q.found = u.found /\ q.asked = u.asked /\ q.fault = u.fault
    BY <1>5, <1>6, <1>7, PushDoes
  <1>9. q.stack = <<f>>
    BY <1>5, <1>6, <1>8
  <1>10. Inquiry \in ToSet(t) => ToSet(t) = {Inquiry}
    BY <1>3
  <1>11. Formed(q.stack) /\ Closes(q.stack) = {} /\ Waiting(q.stack) = t
    BY <1>6, <1>9, <1>10, Alone
  <1>12. Listed(q.tasks, Waiting(q.stack), q.owned)
    BY <1>2, <1>3, <1>5, <1>8, <1>11 DEF Listed
  <1>13. Stopping(q.up, q.hci, q.tasks, q.stack)
    BY <1>1, <1>5, <1>8, <1>11 DEF Stopping
  <1>14. HciInv(q)
    BY <1>1, <1>5, <1>8, <1>11, <1>12, <1>13 DEF HciInv
  <1> QED BY <1>4, <1>14

LEMMA ArmedKeeps ==
    ASSUME NEW r, HciInv(r), NEW ncmd
    PROVE  HciInv(Armed(r, ncmd)) /\ Armed(r, ncmd).fault = r.fault
  <1> DEFINE a == r.armed \/ (ncmd /\ r.needed)
             q == Armed(r, ncmd)
  <1>1. r \in Hubs /\ r.fault # "InquiryTask"
    BY DEF HciInv
  <1>2. a \in BOOLEAN
    OBVIOUS
  <1>3. q = [r EXCEPT !.armed = a]
    BY DEF Armed
  <1> HIDE DEF a, q
  <1>4. q \in Hubs /\ Alike(q, r) /\ q.fault = r.fault
    BY <1>1, <1>2, <1>3 DEF Hubs, Alike
  <1>5. HciInv(q)
    BY <1>1, <1>4, AlikeKeeps
  <1> QED BY <1>4, <1>5 DEF q

LEMMA DisallowedKeeps ==
    ASSUME NEW r, HciInv(r), NEW kind
    PROVE  HciInv(Disallowed(r, kind))
  <1> DEFINE marks == {w \in ToSet(r.tasks) : Kind(w) = kind /\ ~(w = Inquiry /\ r.submitted)}
             n == r.needed \/ marks # {}
             q == Disallowed(r, kind)
  <1>1. r \in Hubs /\ r.fault # "InquiryTask"
    BY DEF HciInv
  <1>2. marks \subseteq Owner
    BY <1>1, Typed, InList
  <1>3. n \in BOOLEAN
    OBVIOUS
  <1>4. q = [r EXCEPT !.resubmit = @ \cup marks, !.needed = n]
    BY DEF Disallowed
  <1> HIDE DEF marks, n, q
  <1>5. q \in Hubs /\ Alike(q, r) /\ q.fault = r.fault
    BY <1>1, <1>2, <1>3, <1>4 DEF Hubs, Alike
  <1>6. HciInv(q)
    BY <1>1, <1>5, AlikeKeeps
  <1> QED BY <1>6 DEF q

LEMMA CommandStatusKeeps ==
    ASSUME NEW r, HciInv(r), r.stack = <<>>, r.up, NEW kind \in {"inquiry", "name", "other"},
           NEW status \in {"ok", "disallowed", "repeated", "error"}, NEW ncmd
    PROVE  HciInv(CommandStatus(r, kind, status, ncmd))
  <1>1. CASE status = "ok"
    <2> DEFINE s == r.submitted \/ (kind = "inquiry" /\ Inquiry \in ToSet(r.tasks))
               q == [r EXCEPT !.submitted = s]
    <2>1. CommandStatus(r, kind, status, ncmd) = Armed(q, ncmd)
      BY <1>1 DEF CommandStatus
    <2>2. s \in BOOLEAN
      OBVIOUS
    <2>3. r \in Hubs /\ r.fault # "InquiryTask"
      BY DEF HciInv
    <2> HIDE DEF s
    <2>4. q \in Hubs /\ Alike(q, r) /\ q.fault = r.fault
      BY <2>2, <2>3 DEF Hubs, Alike
    <2> HIDE DEF q
    <2>5. HciInv(q)
      BY <2>3, <2>4, AlikeKeeps
    <2> QED BY <2>1, <2>5, ArmedKeeps
  <1>2. CASE status = "disallowed"
    <2>1. CommandStatus(r, kind, status, ncmd) = Armed(Disallowed(r, kind), ncmd)
      BY <1>2 DEF CommandStatus
    <2> QED BY <2>1, DisallowedKeeps, ArmedKeeps
  <1>3. CASE status = "repeated"
    <2>1. CommandStatus(r, kind, status, ncmd) = Armed(r, ncmd)
      BY <1>3 DEF CommandStatus
    <2> QED BY <2>1, ArmedKeeps
  <1>4. CASE status = "error"
    <2> DEFINE gone == {w \in ToSet(r.tasks) : Kind(w) = kind}
    <2>1. CommandStatus(r, kind, status, ncmd) = Armed(Ended(r, gone), ncmd)
      BY <1>4 DEF CommandStatus
    <2>2. Inquiry \in gone => gone = {Inquiry}
      BY DEF Kind
    <2> HIDE DEF gone
    <2>3. HciInv(Ended(r, gone))
      BY <2>2, EndedKeeps
    <2> QED BY <2>1, <2>3, ArmedKeeps
  <1> QED BY <1>1, <1>2, <1>3, <1>4

-----------------------------------------------------------------------------
(* Each action keeps the invariant.                                        *)

\* Where the client may call the hub, no ended inquiry waits to be reported.
LEMMA InClientFree ==
    ASSUME HciInv(h), InClient
    PROVE  Inquiry \notin ToSet(Waiting(h.stack))
  <1>1. h.stack \in Seq(Frame) /\ Formed(h.stack)
    BY Typed DEF HciInv
  <1>2. CASE InLoop
    BY <1>2, Bare DEF InLoop
  <1>3. CASE ~InLoop
    <2>1. h.stack # <<>> /\ Head(h.stack).do \in Calling
      BY <1>3 DEF InClient, InLoop, Top, Calling
    <2> DEFINE st == h.stack
    <2>2. st \in Seq(Frame) /\ Formed(st) /\ st # <<>> /\ Head(st).do \in Calling
      BY <1>1, <2>1
    <2> HIDE DEF st
    <2>3. Inquiry \notin ToSet(Waiting(st))
      BY <2>2, Popped
    <2> QED BY <2>3 DEF st
  <1> QED BY <1>2, <1>3

LEMMA UpWhenReading ==
    ASSUME HciInv(h), HciDataReady
    PROVE  h.stack = <<>> /\ h.up /\ h \in Hubs /\ h.fault = "none"
  <1>1. h.stack = <<>> /\ h.hci /\ h.fault = "none"
    BY DEF HciDataReady, InLoop, Ok
  <1>2. h \in Hubs /\ Stopping(h.up, h.hci, h.tasks, h.stack)
    BY DEF HciInv
  <1> QED BY <1>1, <1>2, Bare DEF Stopping

LEMMA ResolveNameKeeps ==
    ASSUME HciInv(h), NEW d \in Device, ResolveName(d)
    PROVE  HciInv(h')
  <1>1. h.hci /\ d \notin h.owned /\ h' = Queue(h, d) /\ d \in Owner
    BY DEF ResolveName, Owner
  <1> QED BY <1>1, QueueKeeps

LEMMA GetNameKeeps ==
    ASSUME HciInv(h), NEW d \in Device, GetName(d)
    PROVE  HciInv(h')
  <1> DEFINE r == IF d \in h.owned THEN h ELSE Queue(h, d)
  <1>1. d \in Owner /\ h.asked[d] < MaxAsked /\ (d \in h.owned \/ h.hci)
        /\ h' = [r EXCEPT !.asked[d] = @ + 1]
    BY DEF GetName, Owner
  <1>2. HciInv(r) /\ d \in r.owned /\ r.asked = h.asked
    BY <1>1, QueueKeeps
  <1> HIDE DEF r
  <1> DEFINE a == [r.asked EXCEPT ![d] = @ + 1]
  <1>3. r \in Hubs /\ r.fault # "InquiryTask" /\ r.asked \in [Device -> 0 .. MaxAsked]
    BY <1>2, Typed DEF HciInv
  <1>4. a \in [Device -> 0 .. MaxAsked] /\ \A e \in Device : e # d => a[e] = r.asked[e]
    <2>1. r.asked[d] + 1 \in 0 .. MaxAsked
      BY <1>1, <1>2, <1>3, BoundAssumption
    <2> QED BY <1>3, <2>1
  <1>5. h' = [r EXCEPT !.asked = a]
    BY <1>1
  <1> HIDE DEF a
  <1>6. /\ h' \in Hubs /\ h'.asked = a /\ h'.fault = r.fault
        /\ h'.up = r.up /\ h'.hci = r.hci /\ h'.tasks = r.tasks /\ h'.owned = r.owned
        /\ h'.found = r.found /\ h'.stack = r.stack
    BY <1>3, <1>4, <1>5 DEF Hubs
  <1>7. Wanted(r.found, r.asked, r.owned)
    BY <1>2 DEF HciInv
  <1>8. Wanted(h'.found, h'.asked, h'.owned)
    <2>1. \A e \in Device : a[e] > 0 => e \in r.owned
      <3> TAKE e \in Device
      <3>1. CASE e = d
        BY <1>2, <3>1
      <3>2. CASE e # d
        BY <1>4, <1>7, <3>2 DEF Wanted
      <3> QED BY <3>1, <3>2
    <2> QED BY <1>6, <1>7, <2>1 DEF Wanted
  <1> QED BY <1>2, <1>3, <1>6, <1>8 DEF HciInv

LEMMA StartInquiryKeeps ==
    ASSUME HciInv(h), StartInquiry
    PROVE  HciInv(h')
  <1>1. h \in Hubs /\ Stopping(h.up, h.hci, h.tasks, h.stack) /\ h.up
    BY DEF HciInv, StartInquiry
  <1>2. h.hci /\ Inquiry \in Owner /\ Inquiry \notin h.owned
    BY <1>1 DEF Stopping, Owner, StartInquiry
  <1>3. CASE h' = Queue(h, Inquiry)
    BY <1>2, <1>3, QueueKeeps
  <1>4. CASE h' = [h EXCEPT !.fault = "ErrorUnset"]
    <2>1. h' \in Hubs /\ Alike(h', h) /\ h'.fault # "InquiryTask"
      BY <1>1, <1>4 DEF Hubs, Alike
    <2> QED BY <2>1, AlikeKeeps
  <1> QED BY <1>3, <1>4 DEF StartInquiry

LEMMA StopInquiryKeeps ==
    ASSUME HciInv(h), StopInquiry
    PROVE  HciInv(h')
  <1> DEFINE c == Cancelled(h, Inquiry)
  <1>1. InClient /\ h' = [c EXCEPT !.found = {}] /\ Inquiry \in Owner
    BY DEF StopInquiry, Owner
  <1>2. /\ c \in Hubs /\ Listed(c.tasks, Waiting(c.stack), c.owned)
        /\ Stopping(c.up, c.hci, c.tasks, c.stack)
        /\ c.owned = h.owned \ {Inquiry} /\ c.stack = h.stack /\ c.found = h.found
        /\ c.asked = h.asked /\ c.fault = h.fault
    BY <1>1, InClientFree, CancelledDoes
  <1> HIDE DEF c
  <1>3. /\ h' \in Hubs /\ h'.found = {} /\ h'.asked = c.asked /\ h'.fault = c.fault
        /\ h'.up = c.up /\ h'.hci = c.hci /\ h'.tasks = c.tasks /\ h'.owned = c.owned
        /\ h'.stack = c.stack
    BY <1>1, <1>2 DEF Hubs
  <1>4. Formed(h.stack) /\ Wanted(h.found, h.asked, h.owned) /\ h.fault # "InquiryTask"
    BY DEF HciInv
  <1>5. \A d \in Device : d # Inquiry
    BY OwnerAssumption
  <1>6. Wanted(h'.found, h'.asked, h'.owned)
    BY <1>2, <1>3, <1>4, <1>5 DEF Wanted
  <1> QED BY <1>2, <1>3, <1>4, <1>6 DEF HciInv

LEMMA DeviceDeletedKeeps ==
    ASSUME HciInv(h), NEW d \in Device, DeviceDeleted(d)
    PROVE  HciInv(h')
  <1>1. h.stack = <<>> /\ h.asked[d] = 0 /\ h' = Cancelled(h, d) /\ d \in Owner /\ d # Inquiry
    BY OwnerAssumption DEF DeviceDeleted, InLoop, Owner
  <1>2. d \notin ToSet(Waiting(h.stack))
    BY <1>1, Bare
  <1>3. /\ h' \in Hubs /\ Listed(h'.tasks, Waiting(h'.stack), h'.owned)
        /\ Stopping(h'.up, h'.hci, h'.tasks, h'.stack)
        /\ h'.owned = h.owned \ {d} /\ h'.stack = h.stack /\ h'.found = h.found
        /\ h'.asked = h.asked /\ h'.fault = h.fault
    BY <1>1, <1>2, CancelledDoes
  <1>4. Formed(h.stack) /\ Wanted(h.found, h.asked, h.owned) /\ h.fault # "InquiryTask"
    BY DEF HciInv
  <1>5. Wanted(h'.found, h'.asked, h'.owned)
    BY <1>1, <1>3, <1>4 DEF Wanted
  <1> QED BY <1>3, <1>4, <1>5 DEF HciInv

LEMMA StartKeeps ==
    ASSUME HciInv(h), Start
    PROVE  HciInv(h')
  <1>1. h.stack = <<>> /\ h.fault = "none"
    BY DEF Start, InLoop, Ok
  <1>2. PICK needed \in BOOLEAN : h' = [h EXCEPT !.up = TRUE, !.hci = TRUE, !.needed = needed]
    BY DEF Start
  <1>3. h \in Hubs /\ Formed(h.stack) /\ Listed(h.tasks, Waiting(h.stack), h.owned)
        /\ Wanted(h.found, h.asked, h.owned)
    BY DEF HciInv
  <1>4. /\ h' \in Hubs /\ h'.up = TRUE /\ h'.hci = TRUE /\ h'.tasks = h.tasks
        /\ h'.owned = h.owned /\ h'.found = h.found /\ h'.asked = h.asked
        /\ h'.stack = h.stack /\ h'.fault = h.fault
    BY <1>2, <1>3 DEF Hubs
  <1>5. Stopping(h'.up, h'.hci, h'.tasks, h'.stack)
    BY <1>1, <1>4, Bare DEF Stopping
  <1> QED BY <1>1, <1>3, <1>4, <1>5 DEF HciInv

LEMMA StopKeeps ==
    ASSUME HciInv(h), Stop
    PROVE  HciInv(h')
  <1> DEFINE d == [h EXCEPT !.up = FALSE]
             p == Push(d, Down)
             st == h.stack
  <1>1. InClient /\ h.up /\ h' = Push(p, Client)
    BY DEF Stop
  <1>2. h \in Hubs /\ Formed(st) /\ Listed(h.tasks, Waiting(st), h.owned)
        /\ Stopping(h.up, h.hci, h.tasks, st) /\ Wanted(h.found, h.asked, h.owned)
        /\ h.fault # "InquiryTask"
    BY DEF HciInv
  <1>3. st \in Seq(Frame) /\ Inquiry \notin ToSet(Waiting(st)) /\ Closes(st) = {}
    BY <1>1, <1>2, InClientFree, Typed DEF Stopping
  <1>4. /\ d \in Hubs /\ d.up = FALSE /\ d.hci = h.hci /\ d.tasks = h.tasks
        /\ d.owned = h.owned /\ d.found = h.found /\ d.asked = h.asked
        /\ d.stack = st /\ d.fault = h.fault
    BY <1>2 DEF Hubs
  <1>5. Down \in Frame /\ Client \in Frame
    BY Frames
  <1> HIDE DEF d, p
  <1>6. /\ p \in Hubs /\ p.stack = <<Down>> \o d.stack
        /\ p.up = d.up /\ p.hci = d.hci /\ p.tasks = d.tasks /\ p.owned = d.owned
        /\ p.found = d.found /\ p.asked = d.asked /\ p.fault = d.fault
    BY <1>4, <1>5, PushDoes DEF p
  <1>7. /\ h' \in Hubs /\ h'.stack = <<Client>> \o p.stack
        /\ h'.up = p.up /\ h'.hci = p.hci /\ h'.tasks = p.tasks /\ h'.owned = p.owned
        /\ h'.found = p.found /\ h'.asked = p.asked /\ h'.fault = p.fault
    BY <1>1, <1>5, <1>6, PushDoes
  <1> DEFINE q == <<Down>> \o st
  <1>8. /\ q \in Seq(Frame) /\ Formed(q) /\ Waiting(q) = Waiting(st) /\ Closes(q) = {1}
    <2> HIDE DEF st
    <2> QED BY <1>2, <1>3, Pushed
  <1>9. p.stack = q
    BY <1>4, <1>6
  <1> HIDE DEF q
  <1>10. Stopping(p.up, p.hci, p.tasks, q)
    BY <1>4, <1>6, <1>8 DEF Stopping
  <1>11. Formed(h'.stack) /\ Waiting(h'.stack) = Waiting(st)
         /\ Stopping(h'.up, h'.hci, h'.tasks, h'.stack)
    BY <1>3, <1>7, <1>8, <1>9, <1>10, ClientAbove
  <1> QED BY <1>2, <1>4, <1>6, <1>7, <1>11 DEF HciInv

LEMMA ClientReturnsKeeps ==
    ASSUME HciInv(h), ClientReturns
    PROVE  HciInv(h')
  <1> DEFINE st == h.stack
             q == Tail(st)
  <1>1. h \in Hubs /\ Formed(st) /\ Listed(h.tasks, Waiting(st), h.owned)
        /\ Stopping(h.up, h.hci, h.tasks, st) /\ Wanted(h.found, h.asked, h.owned)
        /\ h.fault # "InquiryTask" /\ st \in Seq(Frame)
    BY Typed DEF HciInv
  <1>2. st # <<>> /\ Head(st).do = "client" /\ h' = [h EXCEPT !.stack = q]
    BY DEF ClientReturns, Top, InLoop
  <1>3. /\ q \in Seq(Frame) /\ Formed(q) /\ Waiting(q) = Waiting(st)
        /\ Head(st) = st[1]
        /\ Closes(q) = {i - 1 : i \in Closes(st) \ {1}}
    <2> HIDE DEF st
    <2>1. Head(st).do \in Calling
      BY <1>2 DEF Calling
    <2> QED BY <1>1, <1>2, <2>1, Popped
  <1> HIDE DEF q
  <1>4. /\ h' \in Hubs /\ h'.stack = q
        /\ h'.up = h.up /\ h'.hci = h.hci /\ h'.tasks = h.tasks /\ h'.owned = h.owned
        /\ h'.found = h.found /\ h'.asked = h.asked /\ h'.fault = h.fault
    BY <1>1, <1>2, <1>3 DEF Hubs
  <1> HIDE DEF st
  <1>5. 1 \notin Closes(st)
    BY <1>2, <1>3 DEF Closes
  <1>6. Closes(q) = {i - 1 : i \in Closes(st)}
    BY <1>3, <1>5
  <1>7. \A i, j \in Closes(q) : i = j
    BY <1>1, <1>6 DEF Stopping
  <1>8. Closes(q) = {} <=> Closes(st) = {}
    BY <1>6
  <1>9. Stopping(h.up, h.hci, h.tasks, q)
    BY <1>1, <1>7, <1>8 DEF Stopping
  <1> QED BY <1>1, <1>3, <1>4, <1>9 DEF HciInv

\* The frame of a function that reports is taken away.
LEMMA ReportTaken ==
    ASSUME HciInv(h), ~InLoop, Head(h.stack).do \notin Calling
    PROVE  LET r == [h EXCEPT !.stack = Tail(@)] IN
           /\ r \in Hubs /\ r.stack = <<>> /\ Closes(h.stack) = {}
           /\ Head(h.stack) \in Frame
           /\ Waiting(h.stack) = IF Head(h.stack).do = "done" THEN Head(h.stack).ended ELSE <<>>
           /\ r.up = h.up /\ r.hci = h.hci /\ r.tasks = h.tasks /\ r.owned = h.owned
           /\ r.found = h.found /\ r.asked = h.asked /\ r.fault = h.fault
           /\ Stopping(r.up, r.hci, r.tasks, <<>>)
  <1> DEFINE st == h.stack
             r == [h EXCEPT !.stack = Tail(@)]
  <1>1. h \in Hubs /\ st \in Seq(Frame) /\ Formed(st) /\ st # <<>> /\ Head(st).do \notin Calling
        /\ Stopping(h.up, h.hci, h.tasks, st)
    BY Typed DEF HciInv, InLoop
  <1>2. /\ Head(st) \in Frame /\ Tail(st) = <<>> /\ Closes(st) = {}
        /\ Waiting(st) = IF Head(st).do = "done" THEN Head(st).ended ELSE <<>>
    <2> HIDE DEF st
    <2> QED BY <1>1, Reporting
  <1>3. <<>> \in Seq(Frame)
    BY Bare
  <1>4. r = [h EXCEPT !.stack = <<>>]
    BY <1>2
  <1> HIDE DEF r
  <1>5. /\ r \in Hubs /\ r.stack = <<>>
        /\ r.up = h.up /\ r.hci = h.hci /\ r.tasks = h.tasks /\ r.owned = h.owned
        /\ r.found = h.found /\ r.asked = h.asked /\ r.fault = h.fault
    BY <1>1, <1>3, <1>4 DEF Hubs
  <1>6. Stopping(r.up, r.hci, r.tasks, <<>>)
    BY <1>1, <1>2, <1>5, Bare DEF Stopping
  <1> QED BY <1>2, <1>5, <1>6 DEF r

LEMMA TaskDoneKeeps ==
    ASSUME HciInv(h), TaskDone
    PROVE  HciInv(h')
  <1> DEFINE f == Head(h.stack)
             e == f.ended
             r == [h EXCEPT !.stack = Tail(@)]
             w == Head(e)
             g == Done(Tail(e))
             p == Push(r, g)
  <1>1. /\ ~InLoop /\ f.do = "done"
        /\ h' = IF e = <<>> THEN r ELSE CallResult(p, w)
    BY DEF TaskDone, Top
  <1>2. f.do \notin Calling
    BY <1>1 DEF Calling
  <1>3. /\ Listed(h.tasks, Waiting(h.stack), h.owned) /\ Formed(h.stack)
        /\ Wanted(h.found, h.asked, h.owned) /\ h.fault # "InquiryTask"
    BY DEF HciInv
  <1>4. /\ r \in Hubs /\ r.stack = <<>> /\ Closes(h.stack) = {}
        /\ f \in Frame /\ Waiting(h.stack) = IF f.do = "done" THEN e ELSE <<>>
        /\ r.up = h.up /\ r.hci = h.hci /\ r.tasks = h.tasks /\ r.owned = h.owned
        /\ r.found = h.found /\ r.asked = h.asked /\ r.fault = h.fault
        /\ Stopping(r.up, r.hci, r.tasks, <<>>)
    BY <1>1, <1>2, ReportTaken
  <1>5. e \in Seq(Owner) /\ Waiting(h.stack) = e
    <2> HIDE DEF f
    <2>1. PICK s \in Seq(Owner) : f = Done(s)
      BY <1>1, <1>4, Frames
    <2>2. f.ended = s
      BY <2>1, Frames
    <2> QED BY <1>1, <1>4, <2>1, <2>2
  <1>6. Listed(h.tasks, e, h.owned)
    BY <1>3, <1>5
  <1>7. Inquiry \in ToSet(e) => ToSet(e) = {Inquiry}
    BY <1>3, <1>5 DEF Formed
  <1> HIDE DEF f, e, r, p
  <1>8. CASE e = <<>>
    <2>1. h' = r
      BY <1>1, <1>8
    <2>2. Listed(r.tasks, Waiting(r.stack), r.owned)
      BY <1>4, <1>6, <1>8, Bare
    <2>3. Formed(r.stack)
      BY <1>4, Bare
    <2> QED BY <1>3, <1>4, <2>1, <2>2, <2>3 DEF HciInv
  <1>9. CASE e # <<>>
    <2> DEFINE t == Tail(e)
    <2>1. /\ w \in ToSet(e) /\ t \in Seq(Owner) /\ Distinct(t) /\ ToSet(t) = ToSet(e) \ {w}
          /\ w \in Owner
      <3>1. Distinct(e)
        BY <1>6 DEF Listed
      <3>2. w \in ToSet(e) /\ t \in Seq(Owner) /\ Distinct(t) /\ ToSet(t) = ToSet(e) \ {w}
        BY <1>5, <1>9, <3>1, TailDoes
      <3> QED BY <1>5, <3>2, InList
    <2> HIDE DEF w, t
    <2>2. g \in Frame /\ g.do = "done" /\ g.ended = t
      BY <2>1, Frames DEF t
    <2> HIDE DEF g
    <2>3. /\ p \in Hubs /\ p.stack = <<g>> \o r.stack
          /\ p.up = r.up /\ p.hci = r.hci /\ p.tasks = r.tasks /\ p.owned = r.owned
          /\ p.found = r.found /\ p.asked = r.asked /\ p.fault = r.fault
      BY <1>4, <2>2, PushDoes DEF p
    <2>4. p.stack = <<g>>
      BY <1>4, <2>2, <2>3
    <2>5. Inquiry \notin ToSet(t)
      BY <1>7, <2>1
    <2>6. Formed(<<g>>) /\ Closes(<<g>>) = {} /\ Waiting(<<g>>) = t
      BY <2>2, <2>5, Alone
    <2>7. Listed(p.tasks, Waiting(p.stack), p.owned \ {w})
      BY <1>4, <1>6, <2>1, <2>3, <2>4, <2>6 DEF Listed
    <2>8. Stopping(p.up, p.hci, p.tasks, p.stack)
      BY <1>4, <2>3, <2>4, <2>6, Bare DEF Stopping
    <2>9. Wanted(p.found, p.asked, p.owned) /\ p.fault # "InquiryTask"
      BY <1>3, <1>4, <2>3
    <2>10. HciInv(CallResult(p, w))
      BY <2>1, <2>3, <2>4, <2>5, <2>6, <2>7, <2>8, <2>9, CallResultKeeps
    <2> QED BY <1>1, <1>9, <2>10 DEF w
  <1> QED BY <1>8, <1>9

\* The inquiry is taken out of the list and put at its end: the same tasks.
LEMMA MovedToEnd ==
    ASSUME NEW list \in Seq(Owner), Distinct(list), Contains(list, Inquiry)
    PROVE  LET q == Append(Among(list, Device), Inquiry) IN
           q \in Seq(Owner) /\ Distinct(q) /\ ToSet(q) = ToSet(list)
  <1> DEFINE a == Among(list, Device)
             q == Append(a, Inquiry)
  <1>1. a \in Seq(Owner) /\ Distinct(a) /\ ToSet(a) = ToSet(list) \cap Device
    BY AmongDoes
  <1>2. Inquiry \in ToSet(list) /\ ToSet(list) \subseteq Owner
    BY InList DEF Contains
  <1>3. Inquiry \in Owner /\ Inquiry \notin Device
    BY OwnerAssumption DEF Owner
  <1> HIDE DEF a
  <1>4. q \in Seq(Owner) /\ Distinct(q) /\ ToSet(q) = ToSet(a) \cup {Inquiry}
    BY <1>1, <1>3, AppendDoes
  <1>5. ToSet(list) = (ToSet(list) \cap Device) \cup {Inquiry}
    BY <1>2 DEF Owner
  <1> QED BY <1>1, <1>4, <1>5 DEF a

LEMMA DeviceFoundKeeps ==
    ASSUME HciInv(h), DeviceFound
    PROVE  HciInv(h')
  <1> DEFINE f == Head(h.stack)
             l == f.devices
             d == Head(l)
             r == [h EXCEPT !.stack = Tail(@)]
             t == Append(Among(r.tasks, Device), Inquiry)
             s == [r EXCEPT !.tasks = Append(Among(@, Device), Inquiry)]
             g == Found(Tail(l))
             n == Push(s, g)
             m == [n EXCEPT !.found = @ \cup {d}]
  <1>1. /\ ~InLoop /\ f.do = "found"
        /\ h' = IF l = <<>> \/ ~Contains(r.tasks, Inquiry) THEN r
                ELSE IF d \in r.found THEN n ELSE Push(m, Client)
    BY DEF DeviceFound, Top
  <1>2. f.do \notin Calling /\ f.do # "done"
    BY <1>1 DEF Calling
  <1>3. /\ Listed(h.tasks, Waiting(h.stack), h.owned) /\ h \in Hubs
        /\ Wanted(h.found, h.asked, h.owned) /\ h.fault # "InquiryTask"
    BY DEF HciInv
  <1>4. /\ r \in Hubs /\ r.stack = <<>> /\ Closes(h.stack) = {}
        /\ f \in Frame /\ Waiting(h.stack) = IF f.do = "done" THEN f.ended ELSE <<>>
        /\ r.up = h.up /\ r.hci = h.hci /\ r.tasks = h.tasks /\ r.owned = h.owned
        /\ r.found = h.found /\ r.asked = h.asked /\ r.fault = h.fault
        /\ Stopping(r.up, r.hci, r.tasks, <<>>)
    BY <1>1, <1>2, ReportTaken
  <1>5. l \in Seq(Device)
    <2> HIDE DEF f
    <2>1. PICK e \in Seq(Device) : f = Found(e)
      BY <1>1, <1>4, Frames
    <2>2. f.devices = e
      BY <2>1, Frames
    <2> QED BY <2>1, <2>2
  <1>6. Listed(h.tasks, <<>>, h.owned)
    BY <1>2, <1>3, <1>4
  <1>7. s = [r EXCEPT !.tasks = t]
    OBVIOUS
  <1> HIDE DEF f, l, r, s
  <1>8. CASE l = <<>> \/ ~Contains(r.tasks, Inquiry)
    <2>1. h' = r
      BY <1>1, <1>8
    <2> QED BY <1>3, <1>4, <1>6, <2>1, Bare DEF HciInv
  <1>9. CASE l # <<>> /\ Contains(r.tasks, Inquiry)
    <2>1. r.tasks \in Seq(Owner) /\ Distinct(r.tasks) /\ ToSet(r.tasks) = r.owned
      BY <1>4, <1>6, Typed, Bare DEF Listed
    <2>2. t \in Seq(Owner) /\ Distinct(t) /\ ToSet(t) = r.owned
      <3> DEFINE list == r.tasks
      <3>1. list \in Seq(Owner) /\ Distinct(list) /\ Contains(list, Inquiry)
        BY <1>9, <2>1
      <3> HIDE DEF list
      <3>2. /\ Append(Among(list, Device), Inquiry) \in Seq(Owner)
            /\ Distinct(Append(Among(list, Device), Inquiry))
            /\ ToSet(Append(Among(list, Device), Inquiry)) = ToSet(list)
        BY <3>1, MovedToEnd
      <3> QED BY <2>1, <3>2 DEF list
    <2>3. Inquiry \in r.owned
      BY <1>9, <2>1, InList DEF Contains
    <2> HIDE DEF t
    <2>4. /\ s \in Hubs /\ s.tasks = t /\ s.stack = <<>>
          /\ s.up = r.up /\ s.hci = r.hci /\ s.owned = r.owned
          /\ s.found = r.found /\ s.asked = r.asked /\ s.fault = r.fault
      BY <1>4, <1>7, <2>2 DEF Hubs
    <2>5. g \in Frame /\ g.do = "found" /\ d \in Device
      <3> DEFINE tl == Tail(l)
      <3>1. tl \in Seq(Device) /\ d \in Device
        BY <1>5, <1>9
      <3> HIDE DEF tl
      <3>2. Found(tl) \in Frame /\ Found(tl).do = "found"
        BY <3>1, Frames
      <3> QED BY <3>1, <3>2 DEF tl
    <2> HIDE DEF g, d, n
    <2>6. /\ n \in Hubs /\ n.stack = <<g>> \o s.stack
          /\ n.up = s.up /\ n.hci = s.hci /\ n.tasks = s.tasks /\ n.owned = s.owned
          /\ n.found = s.found /\ n.asked = s.asked /\ n.fault = s.fault
      BY <2>4, <2>5, PushDoes DEF n
    <2>7. n.stack = <<g>>
      BY <2>4, <2>5, <2>6
    <2>8. <<g>> \in Seq(Frame) /\ Formed(<<g>>) /\ Closes(<<g>>) = {} /\ Waiting(<<g>>) = <<>>
      BY <2>5, Alone
    <2>9. r.tasks = <<>> => t = <<>>
      BY <2>1, <2>2, NoneIn
    <2>10. Stopping(n.up, n.hci, n.tasks, n.stack)
      BY <1>4, <2>4, <2>6, <2>7, <2>8, <2>9, Bare DEF Stopping
    <2>11. Listed(n.tasks, Waiting(n.stack), n.owned)
      BY <2>2, <2>4, <2>6, <2>7, <2>8, Bare DEF Listed
    <2>12. HciInv(n)
      BY <1>3, <1>4, <2>4, <2>6, <2>7, <2>8, <2>10, <2>11 DEF HciInv
    <2>13. /\ m \in Hubs /\ m.found = n.found \cup {d}
           /\ m.up = n.up /\ m.hci = n.hci /\ m.tasks = n.tasks /\ m.owned = n.owned
           /\ m.asked = n.asked /\ m.stack = n.stack /\ m.fault = n.fault
      BY <2>5, <2>6 DEF Hubs
    <2> HIDE DEF m
    <2> DEFINE p == Push(m, Client)
    <2>14. Client \in Frame
      BY Frames
    <2>15. /\ p \in Hubs /\ p.stack = <<Client>> \o m.stack
           /\ p.up = m.up /\ p.hci = m.hci /\ p.tasks = m.tasks /\ p.owned = m.owned
           /\ p.found = m.found /\ p.asked = m.asked /\ p.fault = m.fault
      BY <2>13, <2>14, PushDoes
    <2>16. Inquiry \notin ToSet(Waiting(<<g>>))
      BY <2>8, Bare
    <2> DEFINE q == <<g>>
    <2>17. q \in Seq(Frame) /\ Formed(q) /\ Inquiry \notin ToSet(Waiting(q))
           /\ Stopping(n.up, n.hci, n.tasks, q) /\ n.stack = q
      BY <2>7, <2>8, <2>10, <2>16
    <2> HIDE DEF p, q
    <2>18. Formed(<<Client>> \o q) /\ Waiting(<<Client>> \o q) = Waiting(q)
           /\ Stopping(n.up, n.hci, n.tasks, <<Client>> \o q)
      BY <2>17, ClientAbove
    <2>19. Wanted(p.found, p.asked, p.owned)
      BY <1>3, <1>4, <2>3, <2>4, <2>6, <2>13, <2>15 DEF Wanted
    <2>20. HciInv(p)
      BY <2>12, <2>13, <2>15, <2>17, <2>18, <2>19 DEF HciInv
    <2> QED BY <1>1, <1>9, <2>12, <2>20 DEF p
  <1> QED BY <1>8, <1>9

LEMMA ShutdownStepKeeps ==
    ASSUME HciInv(h), ShutdownStep
    PROVE  HciInv(h')
  <1> DEFINE st == h.stack
             c == [h EXCEPT !.hci = FALSE, !.armed = FALSE]
             w == Head(c.tasks)
             u == Unlinked(c, {w})
  <1>1. /\ st # <<>> /\ Head(st).do = "down" /\ h' = HciShutdown(h)
    BY DEF ShutdownStep, Top, InLoop
  <1>2. h \in Hubs /\ Formed(st) /\ Listed(h.tasks, Waiting(st), h.owned)
        /\ Stopping(h.up, h.hci, h.tasks, st) /\ Wanted(h.found, h.asked, h.owned)
        /\ h.fault # "InquiryTask" /\ st \in Seq(Frame)
    BY Typed DEF HciInv
  <1>3. /\ Tail(st) \in Seq(Frame) /\ Formed(Tail(st)) /\ Waiting(Tail(st)) = Waiting(st)
        /\ Inquiry \notin ToSet(Waiting(st))
        /\ Head(st) = st[1] /\ 1 \in 1 .. Len(st)
        /\ Closes(Tail(st)) = {i - 1 : i \in Closes(st) \ {1}}
    <2> HIDE DEF st
    <2>1. Head(st).do \in Calling
      BY <1>1 DEF Calling
    <2> QED BY <1>1, <1>2, <2>1, Popped
  <1>4. /\ c \in Hubs /\ c.hci = FALSE /\ c.up = h.up /\ c.tasks = h.tasks
        /\ c.owned = h.owned /\ c.found = h.found /\ c.asked = h.asked
        /\ c.stack = st /\ c.fault = h.fault
    BY <1>2 DEF Hubs
  <1>5. 1 \in Closes(st)
    BY <1>1, <1>3 DEF Closes
  <1>6. h.up = FALSE /\ \A i, j \in Closes(st) : i = j
    BY <1>2, <1>5, Typed DEF Stopping
  <1>7. h' = IF c.tasks # <<>> THEN CallResult(u, w)
             ELSE [c EXCEPT !.stack = Tail(@),
                            !.fault = IF Inquiry \in c.owned THEN "InquiryTask" ELSE @]
    BY <1>1 DEF HciShutdown
  <1> HIDE DEF st, c
  <1>8. CASE c.tasks # <<>>
    <2>1. c.tasks \in Seq(Owner) /\ Distinct(c.tasks)
      BY <1>2, <1>4, Typed DEF Listed
    <2>2. w \in ToSet(c.tasks) /\ w \in Owner
      <3> DEFINE list == c.tasks
      <3>1. list \in Seq(Owner) /\ Distinct(list) /\ list # <<>>
        BY <1>8, <2>1
      <3> HIDE DEF list
      <3>2. Head(list) \in ToSet(list) /\ Head(list) \in Owner
        BY <3>1, TailDoes, InList
      <3> QED BY <3>2 DEF list
    <2> HIDE DEF w
    <2>3. /\ u \in Hubs /\ Distinct(u.tasks) /\ ToSet(u.tasks) = ToSet(c.tasks) \ {w}
          /\ u.up = c.up /\ u.hci = c.hci /\ u.owned = c.owned /\ u.stack = c.stack
          /\ u.found = c.found /\ u.asked = c.asked /\ u.fault = c.fault
      BY <1>4, <2>1, UnlinkedDoes
    <2> HIDE DEF u
    <2>4. Listed(u.tasks, Waiting(u.stack), u.owned \ {w})
      BY <1>2, <1>4, <2>2, <2>3 DEF Listed
    <2>5. Stopping(u.up, u.hci, u.tasks, u.stack)
      BY <1>4, <1>5, <1>6, <2>3 DEF Stopping
    <2>6. Wanted(u.found, u.asked, u.owned) /\ u.fault # "InquiryTask"
          /\ Formed(u.stack) /\ Inquiry \notin ToSet(Waiting(u.stack))
      BY <1>2, <1>3, <1>4, <2>3
    <2>7. HciInv(CallResult(u, w))
      BY <2>2, <2>3, <2>4, <2>5, <2>6, CallResultKeeps
    <2> QED BY <1>7, <1>8, <2>7
  <1>9. CASE c.tasks = <<>>
    <2> DEFINE q == Tail(st)
    <2>1. Inquiry \notin c.owned
      BY <1>2, <1>3, <1>4, <1>9, Bare DEF Listed
    <2>2. h' = [c EXCEPT !.stack = Tail(@)]
      <3>1. h' = [c EXCEPT !.stack = Tail(@), !.fault = @]
        BY <1>7, <1>9, <2>1
      <3> QED BY <1>4, <3>1 DEF Hubs
    <2>3. h' = [c EXCEPT !.stack = q]
      BY <1>4, <2>2
    <2>4. q \in Seq(Frame) /\ Formed(q) /\ Waiting(q) = Waiting(st)
          /\ Closes(q) = {i - 1 : i \in Closes(st) \ {1}}
      BY <1>3
    <2> HIDE DEF q
    <2>5. /\ h' \in Hubs /\ h'.stack = q
          /\ h'.up = c.up /\ h'.hci = c.hci /\ h'.tasks = c.tasks /\ h'.owned = c.owned
          /\ h'.found = c.found /\ h'.asked = c.asked /\ h'.fault = c.fault
      BY <1>4, <2>3, <2>4 DEF Hubs
    <2>6. Closes(st) = {1}
      BY <1>5, <1>6
    <2>7. Closes(q) = {}
      BY <2>4, <2>6
    <2>8. Stopping(h'.up, h'.hci, h'.tasks, h'.stack)
      BY <1>4, <1>6, <1>9, <2>5, <2>7 DEF Stopping
    <2> QED BY <1>2, <1>4, <2>4, <2>5, <2>8 DEF HciInv
  <1> QED BY <1>7, <1>8, <1>9

LEMMA AcceptedKeeps ==
    ASSUME HciInv(h), NEW d \in Device, Accepted(d)
    PROVE  HciInv(h')
  <1> DEFINE r == [h EXCEPT !.sent = @ \ {d}, !.busy = @ \cup {d}]
  <1>1. PICK ncmd \in BOOLEAN : h' = CommandStatus(r, "name", "ok", ncmd)
    BY DEF Accepted
  <1>2. h.stack = <<>> /\ h.up /\ h \in Hubs /\ h.fault = "none"
    BY UpWhenReading DEF Accepted
  <1>3. r \in Hubs /\ Alike(r, h) /\ r.fault = h.fault
    BY <1>2 DEF Hubs, Alike
  <1> HIDE DEF r
  <1>4. HciInv(r) /\ r.stack = <<>> /\ r.up
    BY <1>2, <1>3, AlikeKeeps DEF Alike
  <1> QED BY <1>1, <1>4, CommandStatusKeeps

LEMMA RefusedKeeps ==
    ASSUME HciInv(h), NEW d \in Device, Refused(d)
    PROVE  HciInv(h')
  <1> DEFINE r == [h EXCEPT !.sent = @ \ {d}]
             b == [r EXCEPT !.busy = @ \cup {d}]
  <1>1. PICK ncmd \in BOOLEAN :
           h' \in {CommandStatus(r, "name", "disallowed", ncmd),
                   CommandStatus(r, "name", "error", ncmd),
                   CommandStatus(b, "name", "repeated", ncmd)}
    BY DEF Refused
  <1>2. h.stack = <<>> /\ h.up /\ h \in Hubs /\ h.fault = "none"
    BY UpWhenReading DEF Refused
  <1>3. r \in Hubs /\ Alike(r, h) /\ r.fault = h.fault
    BY <1>2 DEF Hubs, Alike
  <1> HIDE DEF r
  <1>4. b \in Hubs /\ Alike(b, h) /\ b.fault = h.fault
    BY <1>3 DEF Hubs, Alike
  <1> HIDE DEF b
  <1>5. HciInv(r) /\ r.stack = <<>> /\ r.up /\ HciInv(b) /\ b.stack = <<>> /\ b.up
    BY <1>2, <1>3, <1>4, AlikeKeeps DEF Alike
  <1> QED BY <1>1, <1>5, CommandStatusKeeps

LEMMA ForeignStatusKeeps ==
    ASSUME HciInv(h), ForeignStatus
    PROVE  HciInv(h')
  <1>1. h.stack = <<>> /\ h.up
    BY UpWhenReading DEF ForeignStatus
  <1> QED BY <1>1, CommandStatusKeeps DEF ForeignStatus

LEMMA NopKeeps ==
    ASSUME HciInv(h), Nop
    PROVE  HciInv(h')
  <1>1. h.stack = <<>> /\ h.up /\ h' = CommandStatus(h, "other", "ok", TRUE)
    BY UpWhenReading DEF Nop
  <1> QED BY <1>1, CommandStatusKeeps

LEMMA InquiryResultKeeps ==
    ASSUME HciInv(h), InquiryResult
    PROVE  HciInv(h')
  <1>1. PICK first \in Device, second \in {<<>>} \cup {<<d>> : d \in Device} :
           h' = Push(h, Found(<<first>> \o second))
    BY DEF InquiryResult
  <1>2. h.stack = <<>> /\ h.up /\ h \in Hubs /\ h.fault = "none"
    BY UpWhenReading DEF InquiryResult
  <1> DEFINE s == <<first>> \o second
             g == Found(s)
  <1>3. s \in Seq(Device)
    <2>1. second \in Seq(Device)
      <3>1. CASE second = <<>>
        BY <3>1
      <3>2. ASSUME NEW d \in Device, second = <<d>> PROVE second \in Seq(Device)
        BY <3>2
      <3> QED BY <3>1, <3>2
    <2>2. <<first>> \in Seq(Device)
      OBVIOUS
    <2> QED BY <2>1, <2>2
  <1> HIDE DEF s
  <1>4. g \in Frame /\ g.do = "found"
    BY <1>3, Frames
  <1>5. h' = Push(h, g)
    BY <1>1 DEF s
  <1> HIDE DEF g
  <1>6. /\ h' \in Hubs /\ h'.stack = <<g>> \o h.stack
        /\ h'.up = h.up /\ h'.hci = h.hci /\ h'.tasks = h.tasks /\ h'.owned = h.owned
        /\ h'.found = h.found /\ h'.asked = h.asked /\ h'.fault = h.fault
    BY <1>2, <1>4, <1>5, PushDoes
  <1>7. h'.stack = <<g>>
    BY <1>2, <1>4, <1>6
  <1>8. Formed(<<g>>) /\ Closes(<<g>>) = {} /\ Waiting(<<g>>) = <<>>
    BY <1>4, Alone
  <1>9. /\ Listed(h.tasks, <<>>, h.owned) /\ Stopping(h.up, h.hci, h.tasks, h.stack)
        /\ Wanted(h.found, h.asked, h.owned)
    BY <1>2, Bare DEF HciInv
  <1>10. Stopping(h'.up, h'.hci, h'.tasks, h'.stack)
    BY <1>2, <1>6, <1>7, <1>8, <1>9 DEF Stopping
  <1> QED BY <1>2, <1>6, <1>7, <1>8, <1>9, <1>10 DEF HciInv

LEMMA CompleteKeeps ==
    ASSUME HciInv(h), NEW w \in Owner, Complete(w)
    PROVE  HciInv(h')
  <1>1. h.stack = <<>> /\ h.up /\ h' = Ended(h, {w})
    BY UpWhenReading DEF Complete
  <1>2. Inquiry \in {w} => {w} = {Inquiry}
    OBVIOUS
  <1> QED BY <1>1, <1>2, EndedKeeps

LEMMA HciResubmitKeeps ==
    ASSUME HciInv(h), HciResubmit
    PROVE  HciInv(h')
  <1> DEFINE r == [h EXCEPT !.needed = FALSE, !.armed = FALSE, !.resubmit = {}]
             again == h.resubmit \ {Inquiry}
             sends == [r EXCEPT !.sent = @ \cup again]
             lost == [r EXCEPT !.fault = "ResendLost"]
  <1>1. h' = sends \/ h' = lost
    BY DEF HciResubmit
  <1>2. h \in Hubs /\ h.fault # "InquiryTask"
    BY DEF HciInv
  <1>3. again \subseteq Device
    BY <1>2, Typed DEF Owner
  <1>4. r \in Hubs /\ Alike(r, h) /\ r.fault = h.fault
    BY <1>2 DEF Hubs, Alike
  <1> HIDE DEF r, again
  <1>5. sends \in Hubs /\ Alike(sends, h) /\ sends.fault = h.fault
    BY <1>3, <1>4 DEF Hubs, Alike
  <1>6. lost \in Hubs /\ Alike(lost, h) /\ lost.fault = "ResendLost"
    BY <1>4 DEF Hubs, Alike
  <1> HIDE DEF sends, lost
  <1> QED BY <1>1, <1>2, <1>5, <1>6, AlikeKeeps

-----------------------------------------------------------------------------

LEMMA HciInvInit == HciInit => HciInv(h)
  <1> SUFFICES ASSUME HciInit PROVE HciInv(h)
    OBVIOUS
  <1>1. NoWaiting \in [Device -> 0 .. MaxAsked] /\ \A d \in Device : NoWaiting[d] = 0
    BY BoundAssumption DEF NoWaiting
  <1> DEFINE n == NoWaiting
  <1>2. n \in [Device -> 0 .. MaxAsked] /\ \A d \in Device : n[d] = 0
    BY <1>1
  <1>3. /\ h.up = FALSE /\ h.hci = FALSE /\ h.tasks = <<>> /\ h.owned = {} /\ h.found = {}
        /\ h.asked = n /\ h.stack = <<>> /\ h.fault = "none"
    BY DEF HciInit
  <1> HIDE DEF n
  <1>4. h \in Hubs
    <2>1. <<>> \in Seq(Frame) /\ <<>> \in Seq(Owner)
      BY Bare
    <2> QED BY <1>2, <2>1 DEF HciInit, Hubs, n
  <1>5. Listed(h.tasks, Waiting(h.stack), h.owned)
    BY <1>3, Bare DEF Listed
  <1>6. Stopping(h.up, h.hci, h.tasks, h.stack)
    BY <1>3, Bare DEF Stopping
  <1>7. Wanted(h.found, h.asked, h.owned)
    BY <1>2, <1>3 DEF Wanted
  <1> QED BY <1>3, <1>4, <1>5, <1>6, <1>7, Bare DEF HciInv

LEMMA HciInvStep == HciInv(h) /\ [HciNext]_h => HciInv(h')
  <1> SUFFICES ASSUME HciInv(h), [HciNext]_h PROVE HciInv(h')
    OBVIOUS
  <1>1. CASE \E d \in Device : ResolveName(d) \/ GetName(d) \/ DeviceDeleted(d)
    BY <1>1, ResolveNameKeeps, GetNameKeeps, DeviceDeletedKeeps
  <1>2. CASE StartInquiry \/ StopInquiry \/ Start \/ Stop \/ ClientReturns
    BY <1>2, StartInquiryKeeps, StopInquiryKeeps, StartKeeps, StopKeeps, ClientReturnsKeeps
  <1>3. CASE TaskDone \/ DeviceFound \/ ShutdownStep
    BY <1>3, TaskDoneKeeps, DeviceFoundKeeps, ShutdownStepKeeps
  <1>4. CASE \E d \in Device : Accepted(d) \/ Refused(d)
    BY <1>4, AcceptedKeeps, RefusedKeeps
  <1>5. CASE \E w \in Owner : Complete(w)
    BY <1>5, CompleteKeeps
  <1>6. CASE ForeignStatus \/ Nop \/ InquiryResult \/ HciResubmit
    BY <1>6, ForeignStatusKeeps, NopKeeps, InquiryResultKeeps, HciResubmitKeeps
  <1>7. CASE UNCHANGED h
    BY <1>7
  <1> QED BY <1>1, <1>2, <1>3, <1>4, <1>5, <1>6, <1>7 DEF HciNext

\* Of the lists, only that of BtHci and that of the last frame have tasks.
LEMMA OwnedFromInv == HciInv(h) => TasksOwned
  <1> SUFFICES ASSUME HciInv(h) PROVE TasksOwned
    OBVIOUS
  <1> DEFINE l == Len(h.stack)
             t == h.tasks
             e == Waiting(h.stack)
  <1>1. h \in Hubs /\ Formed(h.stack) /\ Listed(t, e, h.owned)
        /\ Stopping(h.up, h.hci, t, h.stack) /\ Wanted(h.found, h.asked, h.owned)
        /\ h.fault # "InquiryTask"
    BY DEF HciInv
  <1>2. h.stack \in Seq(Frame) /\ l \in Nat /\ (l = 0 <=> h.stack = <<>>) /\ Lists = 0 .. l
    <2>1. h.stack \in Seq(Frame)
      BY <1>1, Typed
    <2> QED BY <2>1 DEF Lists
  <1>3. t \in Seq(Owner) /\ e \in Seq(Owner)
    BY <1>1, <1>2, WaitingType, Typed
  <1>4. ASSUME NEW n \in Lists
        PROVE  List(n) = IF n = 0 THEN t ELSE IF n = l THEN e ELSE <<>>
    <2>1. CASE n = 0
      BY <2>1 DEF List
    <2>2. CASE n # 0 /\ n = l
      BY <1>2, <2>2 DEF List, Waiting
    <2>3. CASE n # 0 /\ n # l
      <3>1. n \in 1 .. l /\ n < l
        BY <1>2, <2>3
      <3>2. h.stack[n].do \in Calling
        BY <1>1, <3>1 DEF Formed
      <3>3. h.stack[n].do # "done"
        BY <3>2 DEF Calling
      <3> QED BY <2>3, <3>3 DEF List
    <2> QED BY <2>1, <2>2, <2>3
  <1>5. l = 0 => e = <<>>
    BY <1>2, Bare
  <1>6. 0 \in Lists /\ l \in Lists
    BY <1>2
  <1> HIDE DEF l, t, e
  <1>7. h.owned = UNION {ToSet(List(n)) : n \in Lists}
    <2>1. h.owned = ToSet(t) \cup ToSet(e)
      BY <1>1 DEF Listed
    <2>2. ToSet(List(0)) = ToSet(t) /\ (l # 0 => ToSet(List(l)) = ToSet(e))
      BY <1>4, <1>6
    <2>3. ASSUME NEW n \in Lists PROVE ToSet(List(n)) \subseteq ToSet(t) \cup ToSet(e)
      BY <1>4, Bare
    <2>4. l = 0 => ToSet(e) = {}
      BY <1>5, Bare
    <2> QED BY <1>6, <2>1, <2>2, <2>3, <2>4
  <1>8. ASSUME NEW m \in Lists, NEW n \in Lists,
               NEW i \in DOMAIN List(m), NEW j \in DOMAIN List(n), List(m)[i] = List(n)[j]
        PROVE  m = n /\ i = j
    <2>1. DOMAIN t = 1 .. Len(t) /\ DOMAIN e = 1 .. Len(e) /\ DOMAIN <<>> = {}
      BY <1>3
    <2>2. \A x \in 1 .. Len(t), y \in 1 .. Len(e) : t[x] # e[y]
      <3>1. \A x \in 1 .. Len(t) : t[x] \in ToSet(t)
        BY <1>3, InList
      <3>2. \A y \in 1 .. Len(e) : e[y] \in ToSet(e)
        BY <1>3, InList
      <3>3. ToSet(t) \cap ToSet(e) = {}
        BY <1>1 DEF Listed
      <3> QED BY <3>1, <3>2, <3>3
    <2>3. (m = 0 \/ m = l) /\ (n = 0 \/ n = l)
      BY <1>4, <2>1
    <2>4. \A x, y \in 1 .. Len(t) : t[x] = t[y] => x = y
      BY <1>1 DEF Listed, Distinct
    <2>5. \A x, y \in 1 .. Len(e) : e[x] = e[y] => x = y
      BY <1>1 DEF Listed, Distinct
    <2>6. CASE m = 0 /\ n = 0
      BY <1>4, <1>8, <2>1, <2>4, <2>6
    <2>7. CASE m = 0 /\ n # 0
      <3>1. List(m) = t /\ List(n) = e
        BY <1>4, <2>3, <2>7
      <3> QED BY <1>8, <2>1, <2>2, <3>1
    <2>8. CASE m # 0 /\ n = 0
      <3>1. List(m) = e /\ List(n) = t
        BY <1>4, <2>3, <2>8
      <3> QED BY <1>8, <2>1, <2>2, <3>1
    <2>9. CASE m # 0 /\ n # 0
      <3>1. m = n /\ List(m) = e /\ List(n) = e
        BY <1>4, <2>3, <2>9
      <3> QED BY <1>8, <2>1, <2>5, <3>1
    <2> QED BY <2>6, <2>7, <2>8, <2>9
  <1>9. InLoop /\ ~h.up /\ Ok => h.owned = {}
    <2> SUFFICES ASSUME InLoop, ~h.up PROVE h.owned = {}
      OBVIOUS
    <2>1. h.stack = <<>>
      BY DEF InLoop
    <2>2. t = <<>> /\ e = <<>>
      BY <1>1, <2>1, Bare DEF Stopping, e
    <2> QED BY <1>1, <2>2, Bare DEF Listed
  <1> QED BY <1>1, <1>7, <1>8, <1>9 DEF TasksOwned, Wanted

Coherent == HciInv(h)

LEMMA AlwaysCoherent == HciSpec => []Coherent
  <1>1. HciInit => Coherent
    BY HciInvInit DEF Coherent
  <1>2. Coherent /\ [HciNext]_h => Coherent'
    BY HciInvStep DEF Coherent
  <1> QED BY <1>1, <1>2, PTL DEF HciSpec

\* However events and calls come, the owners of tasks and the lists of BtHci and
\* of HciDataReadyNot agree (Queue, Cancel, HciDataReadyNot, HciShutdown,
\* StopInquiry, ResolveName, ~BtDevice).
THEOREM TasksAlwaysOwned == HciSpec => []TasksOwned
  <1>1. Coherent => TasksOwned
    BY OwnedFromInv DEF Coherent
  <1> QED BY <1>1, AlwaysCoherent, PTL

\* The state of the controller and of its users has its type (BtHci, BtHub).
THEOREM HciTypeCorrect == HciSpec => []HciTypeOK
  <1>1. Coherent => HciTypeOK
    BY DEF Coherent, HciInv, Hubs, HciTypeOK
  <1> QED BY <1>1, AlwaysCoherent, PTL

=============================================================================
