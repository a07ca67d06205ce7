------------------------------- MODULE HciTasks -------------------------------
(***************************************************************************)
(* The commands that BtHub gives to the Bluetooth controller (BtHci in     *)
(* libhfp/bt.cpp): one inquiry for the hub, one name request per device,   *)
(* and the requests for names that hfpd keeps waiting (hfpd/objects.cpp).  *)
(*                                                                         *)
(* The events of the controller name a kind of command and a device, never *)
(* a task, and those of other programs arrive as well: any event may come  *)
(* at any time, and is applied to every task that it fits.                 *)
(*                                                                         *)
(* Everything runs in one thread.  stack holds what the functions under    *)
(* way have still to do, the innermost first:                              *)
(*    "client"   the client, in one of its callbacks                       *)
(*    "done"     HciDataReadyNot with tasks that have ended                *)
(*    "found"    HciDataReadyNot with results of the inquiry               *)
(*    "down"     BtHub::__Stop, from the stop of the SDP tasks on          *)
(* The hub is started from the event loop only.  How devices are counted   *)
(* and how the hub restarts itself is in BtSessions; failures to allocate  *)
(* or to send on D-Bus are left out.                                       *)
(***************************************************************************)
EXTENDS Sequences, SequencesExt, FiniteSets, Naturals

CONSTANTS
    Device,
    Inquiry,        \* the hub, as the owner of m_inquiry_task
    MaxAsked,       \* bound: requests for one name
    MaxTasks        \* bound: tasks at the same time

ASSUME OwnerAssumption == Inquiry \notin Device
ASSUME BoundAssumption == MaxAsked \in Nat /\ MaxTasks \in Nat

VARIABLE
    h       \* the hub, its BtHci and its devices, and what the controller does

Owner == Device \cup {Inquiry}

NoWaiting == [d \in Device |-> 0]

HciInit ==
    h = [up |-> FALSE,           \* m_sdp # 0
         hci |-> FALSE,          \* m_hci_fh >= 0
         tasks |-> <<>>,         \* m_hci_tasks, by their owners
         resubmit |-> {},        \* tasks with m_resubmit
         submitted |-> FALSE,    \* m_submitted of the inquiry
         needed |-> FALSE,       \* m_resubmit_needed
         armed |-> FALSE,        \* m_resubmit_set, and the timer with it
         owned |-> {},           \* m_inquiry_task # 0, m_name_task # 0
         found |-> {},           \* m_inquiry_found
         asked |-> NoWaiting,    \* requests queued with SetPrivate
         sent |-> {},            \* requests for names whose status is awaited
         busy |-> {},            \* those that the controller is executing
         stack |-> <<>>,
         fault |-> "none"]

-----------------------------------------------------------------------------
(* Tasks.                                                                  *)

Kind(w) == IF w = Inquiry THEN "inquiry" ELSE "name"

Push(r, frame) == [r EXCEPT !.stack = <<frame>> \o @]

Client == [do |-> "client"]
Down == [do |-> "down"]
Done(ended) == [do |-> "done", ended |-> ended]
Found(devices) == [do |-> "found", devices |-> devices]

\* The tasks of a list that are among these, in its order.
Among(list, these) ==
    FoldLeft(LAMBDA seen, w : IF w \in these THEN Append(seen, w) ELSE seen, <<>>, list)

\* BtHci::Queue, once the command is sent, of a new task.
Queue(r, w) ==
    [r EXCEPT !.tasks = Append(@, w), !.owned = @ \cup {w}, !.sent = @ \cup ({w} \ {Inquiry})]

\* The tasks of a set are unlinked.  Their marks go with them, and the events
\* of their commands become those of somebody else.
Unlinked(r, gone) ==
    [r EXCEPT !.tasks = Among(@, Owner \ gone),
              !.resubmit = @ \ gone,
              !.submitted = @ /\ Inquiry \notin gone,
              !.sent = @ \ gone, !.busy = @ \ gone]

\* Mutant: a task that has not been submitted yet stays in the list.
CancelsSubmitted(r, w) ==
    [(IF w = Inquiry /\ ~r.submitted THEN r ELSE Unlinked(r, {w}))
       EXCEPT !.owned = @ \ {w}]

\* BtHci::Cancel, and the task is deleted.
Cancelled(r, w) == [Unlinked(r, {w}) EXCEPT !.owned = @ \ {w}]

\* HciInquiryResult of a completed inquiry, NameResolutionResult and hfpd's
\* NotifyNameResolved; then the client is called.
CallResult(r, w) ==
    LET e == [r EXCEPT !.owned = @ \ {w}] IN
    Push(IF w = Inquiry THEN [e EXCEPT !.found = {}] ELSE [e EXCEPT !.asked[w] = 0], Client)

\* HciDataReadyNot takes the tasks that have ended from the list.
Ended(r, gone) ==
    LET done == Among(r.tasks, gone) IN
    IF done = <<>> THEN r ELSE Push(Unlinked(r, gone), Done(done))

\* The timer is set when the controller takes commands again.
Armed(r, ncmd) == [r EXCEPT !.armed = @ \/ (ncmd /\ r.needed)]

\* Mutant: refused tasks are marked, but nobody looks after them.
MarkedOnly(r, kind) ==
    [r EXCEPT !.resubmit = @ \cup {w \in ToSet(r.tasks) : Kind(w) = kind}]

\* A command of this kind is refused: tasks that may have sent it are marked.
Disallowed(r, kind) ==
    LET marks == {w \in ToSet(r.tasks) : Kind(w) = kind /\ ~(w = Inquiry /\ r.submitted)} IN
    [r EXCEPT !.resubmit = @ \cup marks, !.needed = @ \/ marks # {}]

\* EVT_CMD_STATUS: all tasks with the opcode are concerned.
CommandStatus(r, kind, status, ncmd) ==
    CASE status = "ok" ->
            Armed([r EXCEPT !.submitted = @ \/ (kind = "inquiry" /\ Inquiry \in ToSet(r.tasks))],
                  ncmd)
      [] status = "disallowed" -> Armed(Disallowed(r, kind), ncmd)
      [] status = "repeated" -> Armed(r, ncmd)
      [] status = "error" -> Armed(Ended(r, {w \in ToSet(r.tasks) : Kind(w) = kind}), ncmd)

\* HciShutdown closes the controller and fails each task; __Stop asserts that
\* the inquiry has ended.
HciShutdown(r) ==
    LET c == [r EXCEPT !.hci = FALSE, !.armed = FALSE]
        w == Head(c.tasks) IN
    IF c.tasks # <<>> THEN CallResult(Unlinked(c, {w}), w)
    ELSE [c EXCEPT !.stack = Tail(@),
                   !.fault = IF Inquiry \in c.owned THEN "InquiryTask" ELSE @]

-----------------------------------------------------------------------------
(* Actions: the client and the daemon.                                     *)

Ok == h.fault = "none"

InLoop == h.stack = <<>>

Top(do) == ~InLoop /\ Head(h.stack).do = do

InClient == Ok /\ (InLoop \/ Top("client"))

Room == Cardinality(h.owned) < MaxTasks

ResolveName(d) ==
    /\ InClient /\ h.hci /\ d \notin h.owned /\ Room
    /\ h' = Queue(h, d)

\* HandsFree::GetName, of a name that is not known (m_name_resolved is left
\* out).  A request that cannot be sent is answered with the error.
GetName(d) ==
    /\ Ok /\ InLoop /\ h.asked[d] < MaxAsked
    /\ d \in h.owned \/ (h.hci /\ Room)
    /\ h' = [(IF d \in h.owned THEN h ELSE Queue(h, d)) EXCEPT !.asked[d] = @ + 1]

\* BtHub::StartInquiry.  When the command cannot be sent it returns false and
\* leaves the error unset, and HandsFree::StartInquiry asserts that it is set.
StartInquiry ==
    /\ InClient /\ h.up /\ Inquiry \notin h.owned /\ Room
    /\ h' \in {Queue(h, Inquiry), [h EXCEPT !.fault = "ErrorUnset"]}

\* The command that cancels the inquiry may fail, unnoticed.
StopInquiry ==
    /\ InClient /\ h.up /\ Inquiry \in h.owned
    /\ h' = [Cancelled(h, Inquiry) EXCEPT !.found = {}]

\* Once nobody refers to a device its record is deleted, from a timer.
DeviceDeleted(d) ==
    /\ Ok /\ InLoop /\ d \notin h.found /\ h.asked[d] = 0
    /\ d \in h.owned
    /\ h' = Cancelled(h, d)

\* m_resubmit_needed is not initialized.
Start ==
    /\ Ok /\ InLoop /\ ~h.up
    /\ \E needed \in BOOLEAN : h' = [h EXCEPT !.up = TRUE, !.hci = TRUE, !.needed = needed]

\* BtHub::Stop, or InvoluntaryStop when the controller or the SDP server is
\* lost.  Services are stopped and SDP tasks fail before the controller is
\* closed, and the client hears of it.
Stop ==
    /\ InClient /\ h.up
    /\ h' = Push(Push([h EXCEPT !.up = FALSE], Down), Client)

ClientReturns ==
    /\ Ok /\ Top("client")
    /\ h' = [h EXCEPT !.stack = Tail(@)]

-----------------------------------------------------------------------------
(* Actions: the rest of the functions that called the client.              *)

TaskDone ==
    /\ Ok /\ Top("done")
    /\ LET f == Head(h.stack)
           r == [h EXCEPT !.stack = Tail(@)] IN
       h' = IF f.ended = <<>> THEN r
            ELSE CallResult(Push(r, Done(Tail(f.ended))), Head(f.ended))

\* Each result looks for the inquiry again and takes it to the end of the list;
\* a new device is reported.
DeviceFound ==
    /\ Ok /\ Top("found")
    /\ LET f == Head(h.stack)
           d == Head(f.devices)
           r == [h EXCEPT !.stack = Tail(@)]
           n == Push([r EXCEPT !.tasks = Append(Among(@, Device), Inquiry)], Found(Tail(f.devices)))
       IN  h' = IF f.devices = <<>> \/ ~Contains(r.tasks, Inquiry) THEN r
                ELSE IF d \in r.found THEN n
                ELSE Push([n EXCEPT !.found = @ \cup {d}], Client)

ShutdownStep ==
    /\ Ok /\ Top("down")
    /\ h' = HciShutdown(h)

-----------------------------------------------------------------------------
(* Actions: the controller.                                                *)

HciDataReady == Ok /\ InLoop /\ h.hci

Accepted(d) ==
    /\ HciDataReady /\ d \in h.sent
    /\ LET r == [h EXCEPT !.sent = @ \ {d}, !.busy = @ \cup {d}] IN
       \E ncmd \in BOOLEAN : h' = CommandStatus(r, "name", "ok", ncmd)

\* A repeated command means that the controller executes another one like it.
Refused(d) ==
    /\ HciDataReady /\ d \in h.sent
    /\ LET r == [h EXCEPT !.sent = @ \ {d}] IN
       \E ncmd \in BOOLEAN :
          h' \in {CommandStatus(r, "name", "disallowed", ncmd),
                 CommandStatus(r, "name", "error", ncmd),
                 CommandStatus([r EXCEPT !.busy = @ \cup {d}], "name", "repeated", ncmd)}

\* The status of an inquiry, of a command that was cancelled, or of another
\* program's.
ForeignStatus ==
    /\ HciDataReady
    /\ \E kind \in {"inquiry", "name", "other"}, ncmd \in BOOLEAN,
          status \in {"ok", "disallowed", "error"} :
          h' = CommandStatus(h, kind, status, ncmd)

\* The controller takes commands again.
Nop ==
    /\ HciDataReady /\ h.needed /\ ~h.armed
    /\ h' = CommandStatus(h, "other", "ok", TRUE)

InquiryResult ==
    /\ HciDataReady /\ Inquiry \in h.owned
    /\ \E first \in Device, second \in {<<>>} \cup {<<d>> : d \in Device} :
          h' = Push(h, Found(<<first>> \o second))

\* EVT_INQUIRY_COMPLETE, EVT_REMOTE_NAME_REQ_COMPLETE
Complete(w) ==
    /\ HciDataReady
    /\ h' = Ended(h, {w})

\* The timer, for all tasks that are marked.  When one cannot be sent, nobody is
\* told and it waits for ever.
HciResubmit ==
    /\ Ok /\ InLoop /\ h.armed
    /\ LET r == [h EXCEPT !.needed = FALSE, !.armed = FALSE, !.resubmit = {}] IN
       \/ h' = [r EXCEPT !.sent = @ \cup (h.resubmit \ {Inquiry})]
       \/ h.resubmit # {} /\ h' = [r EXCEPT !.fault = "ResendLost"]

HciNext ==
    \/ \E d \in Device : ResolveName(d) \/ GetName(d) \/ DeviceDeleted(d)
    \/ StartInquiry \/ StopInquiry \/ Start \/ Stop \/ ClientReturns
    \/ TaskDone \/ DeviceFound \/ ShutdownStep
    \/ \E d \in Device : Accepted(d) \/ Refused(d)
    \/ \E w \in Owner : Complete(w)
    \/ ForeignStatus \/ Nop \/ InquiryResult \/ HciResubmit

\* Callbacks return and functions go on.  A request sent again and again is
\* accepted in the end, what is accepted completes, the controller does not
\* refuse commands for ever, and a timer that is due is run.
HciFairness ==
    /\ SF_h(ClientReturns \/ TaskDone \/ DeviceFound \/ ShutdownStep)
    /\ \A d \in Device : SF_h(Accepted(d)) /\ SF_h(d \in h.busy /\ Complete(d))
    /\ SF_h(Nop) /\ SF_h(HciResubmit)

HciSpec == HciInit /\ [][HciNext]_h /\ HciFairness

-----------------------------------------------------------------------------
(* Properties.                                                             *)

\* The lists of tasks: the one of BtHci, and for each HciDataReadyNot under way
\* those that it still has to report.
Lists == 0 .. Len(h.stack)

List(n) ==
    IF n = 0 THEN h.tasks ELSE IF h.stack[n].do = "done" THEN h.stack[n].ended ELSE <<>>

HciTypeOK ==
    /\ {h.up, h.hci, h.submitted, h.needed, h.armed} \subseteq BOOLEAN
    /\ h.tasks \in Seq(Owner)
    /\ h.resubmit \cup h.owned \subseteq Owner
    /\ h.found \subseteq Device
    /\ h.asked \in [Device -> 0..MaxAsked]
    /\ h.fault \in {"none", "ErrorUnset", "ResendLost", "InquiryTask"}
    /\ h.sent \cup h.busy \subseteq Device

\* Whatever is called from the callbacks, the owners of tasks and the lists that
\* hold them agree: an owner's task is in one list, once, where an event, a
\* shutdown or a cancel will find it, and no list holds a deleted task.  Results
\* are kept only for an inquiry that runs, requests wait only for a name that is
\* being asked for, and a stopped hub has none of them (Queue, Cancel,
\* HciDataReadyNot, HciShutdown, StopInquiry, ResolveName, ~BtDevice).
TasksOwned ==
    /\ h.owned = UNION {ToSet(List(n)) : n \in Lists}
    /\ \A m, n \in Lists : \A i \in DOMAIN List(m), j \in DOMAIN List(n) :
          List(m)[i] = List(n)[j] => m = n /\ i = j
    /\ h.found # {} => Inquiry \in h.owned
    /\ \A d \in Device : h.asked[d] > 0 => d \in h.owned
    /\ InLoop /\ ~h.up /\ Ok => h.owned = {}
    /\ h.fault # "InquiryTask"

\* Every name that is asked for is found or fails, whoever else uses the
\* controller and whatever it refuses for a time: HciResubmit sends again what
\* was refused, although a refusal does not say which command it means.
EveryNameSettles ==
    \A d \in Device : d \in h.owned ~> d \notin h.owned \/ ~Ok

===============================================================================
