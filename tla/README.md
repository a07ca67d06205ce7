# A verification development for nohands

nohands is a Bluetooth hands-free implementation: the library libhfp
(`src/libhfp`, `src/include/libhfp`), a D-Bus daemon hfpd (`src/hfpd`) and
front ends. This directory holds TLA+ models of the library and of the daemon,
configurations that check them with TLC, and proofs checked by TLAPS.
`PROJECT.json` is the index: components, runs, mutants, the source lines that
each definition models, hazards, theorems.

## Inventory

Almost all of nohands is event driven and runs in **one thread**. Sockets and
timers call handlers, handlers call clients back, and the documentation
promises that a client may call any method from any callback (`bt.h`, section
callbacks). Concurrency is between handlers, the peer device, the controller,
the helper process and the timers; and inside a handler the client's calls come
at each callback, between two statements of the library. The exception is the
ALSA endpoint, which has **a thread for each direction** and makes the event
loop and the packet buffer shared objects.

| Component | State | Operations | What makes it correct | Module |
|---|---|---|---|---|
| SDP task handler, bt.cpp 60-410 | queue of tasks, "current aborted" flag, two pipes, a forked helper | submit, cancel, reply, end of file, create, shut down | each reply to the request it answers; every task settled once; the pipe never fills | `SdpTasks` |
| Hub, managed objects, bt.cpp 1110-1720 | started or not, HCI, autorestart, the dead, one shared timer | Start, Stop, InvoluntaryStop, Get, Put, Timeout | nothing deleted in use, nothing leaked; restart and cleanup share a timer | `BtSessions` |
| RFCOMM service and sessions, rfcomm.cpp | connection, lookup, operation timer, two reconnection lists | Connect, Disconnect, SetAutoReconnect; accept, connect, loss, timeout | references balanced; what waits is listed and timed | `BtSessions` |
| HCI handler, inquiry, names, bt.cpp 410-970, 1420-1530, 1690-1866 | tasks, what must be sent again, results of the inquiry | queue, cancel, events, refusals, timeouts, shutdown | an owner's task is in one list, once; every name settles | `HciTasks` |
| HFP command engine, hfp.cpp | queue of AT commands, command timer, pending objects | AddCommand, Cancel, response, timeout, handshake, disconnect | one command at a time; each pending object called exactly once | `HfpCommands` |
| HFP call state, hfp.cpp 2046-2150, 2719-3003 | call, callsetup, presumed setup, caller identity, two timers | indicators, RING, +CLIP, +CCWA, results, timeouts | timers match what they limit; the client is told; the caller shown is the caller | `CallSetup` |
| HFP audio (SCO), hfp.cpp 739-1400 | audio connection, stream, pending abort | open, start, stop, close, accept, lose, packets | the promise of an asynchronous endpoint | `ScoAudio` |
| HFP service, hfp.cpp 52-622 | listening socket, SDP record | start, stop, configure | the record and the socket follow the configuration | `HfpService` |
| Sound manager, soundio-manager.cpp | primary and secondary endpoint, mute, filters | set endpoints, mute, filters, start, stop | streams and the card agree with what runs; filters in place | `SoundManager` |
| Sound pump, soundio-pump.cpp | endpoints, queues, levels, watchdog | process, start, stop, replace ends | levels known and kept; a file ends after its last sample | `SoundPump`, `SoundStream` |
| ALSA driver, soundio-alsa.cpp | device, two threads, condition, pending abort | open, start, stop, packets, underruns | no thread outlives its stream; stops return; ends are told | `AlsaCard` |
| Packet buffer, soundio-buf.h | list of packets, two ends | get and put, peek and dequeue, clear | a pointer stays good while the other side works | `PacketSeq` |
| Event loop, events-indep.cpp | timers, wake pipe, sleeping flag | set, cancel, run, wake | no event of a thread is slept through | `EventLoop` |
| hfpd objects, objects.cpp | claims, gateways, the sound stream, settings | D-Bus methods, callbacks, loss of a client | the states told agree; strangers are refused; settings survive | `HfpdAudio`, `HfpdSettings` |
| D-Bus binding, dbus.cpp | calls that wait for memory | dispatch, reply, error | every call is answered once | `HfpdSettings` |
| Configuration, configfile.cpp | layers of values, files | get, set, save, load | what was saved is read again | `ConfigFile` |
| Text parsers, containers, OSS, front ends | - | - | - | not modelled |

What is hard about it: (1) callbacks in the middle of functions, after which
state read before may be stale; (2) objects deleted by a nested call under the
function that uses them; (3) a peer, a controller and a helper process that
die, answer late or not at all; (4) one timer or flag with two purposes;
(5) reference counts over many paths of failure; (6) retries that must go on;
(7) starts of several parts of which one fails; (8) threads that use a buffer
without a lock and must wake a sleeping loop; (9) clocks that drift. Each
hazard is in `PROJECT.json` at its line.

## Modules

| Module | Models | Composition |
|---|---|---|
| `TaskService` | abstract: a lookup is settled once, by its own answer, a reset or its owner | |
| `SdpTasks` | the SDP task handler and its helper process | implements `TaskService` |
| `BtSessions` | hub, managed objects, RFCOMM service and sessions | uses `TaskService`'s promise |
| `HfpCommands` | command queue, handshake, pending objects, disconnection | |
| `CallSetup` | `UpdateCallSetup` and everything that calls it | |
| `HciTasks` | controller commands, inquiry, name requests | |
| `AsyncEndpoint` | abstract: a `SoundIo` with asynchronous start and stop | |
| `HfpService` | operators on the state of the service | |
| `ScoAudio` | audio of a session, composed with `HfpService` | implements `AsyncEndpoint` |
| `SoundPump` | operators on the state of the pump: ends, filters, halting | |
| `SoundManager` | the manager over `SoundPump` | |
| `SoundStream` | the samples: configuration, `BestXfer`, `AsyncProcess` | |
| `EventLoop` | timers and wake pipe, as operators on a dispatcher | |
| `AlsaCard` | the ALSA endpoint in its three modes over `EventLoop` | |
| `SampleFifo` | abstract: samples come out as they went in | |
| `PacketSeq` | the list of packets with a pointer on each side | implements `SampleFifo` |
| `HfpdAudio` | claims, gateways and the sound stream of the daemon | |
| `ConfigFile` | operators on configuration layers and files | |
| `HfpdSettings` | settings through D-Bus, memory and file, over `ConfigFile` | |
| `*Proofs` | theorems about `SdpTasks`, `BtSessions`, `HfpCommands`, `CallSetup`, `ScoAudio`, `SoundManager` (with `SoundPump`); `EndpointProofs` about `PacketSeq`, `AlsaCard` and `SoundStream`, `HfpdProofs` about `HfpdAudio` and `HfpdSettings` | |
| `MC*` | model values for TLC | |

### How state and actions correspond to the code

*Callbacks.* In `BtSessions`, `HfpCommands`, `HciTasks`, `ScoAudio` and
`AlsaCard` the variable (or field) `stack` is the call stack of the main
thread, reduced to what each function under way has still to do. A function
that calls a client pushes a frame for the client on top of a frame for its own
rest. While the client is on top its calls are enabled and push frames of their
own; its return pops it. A handler of the event loop needs an empty stack. So a
handler is one action up to its first callback and one action from each
callback to the next: exactly the points at which anything else can happen.
`SdpTasks` has only one function that calls back in the middle, and a variable
`pc` suffices. In `SoundManager`, `HfpdAudio` and `HfpdSettings` the methods
make no callbacks that matter, or only at their end; a call with all it leads
to is one action, written as operators from one state record to the next.

*Threads.* In `AlsaCard` a critical section of `m_lock` is one step; between
two of them a thread waits in the device or on the condition. The event loop's
own lock is never held when a handler is called, so each use of it is a step of
its own. `PacketSeq` has one action from lock to unlock, and its pointers are
variables, since they are used in between.

*Faults.* A failed assertion, a null timer, a deleted object that is used sets
`fault` to the place and ends the behaviour (in `AlsaCard`, `stuck` is the main
thread waiting for its own lock). What a fault needs is stated exactly:
`OnlyIdleDeathFaults`, `OnlyNestedCallsFault`, `OnlyDisconnectionFaults`,
`OnlyMembufFaults`.

*SdpTasks.* `open`, `tasks`, `aborted` are `m_rqpipe >= 0`, `m_tasks`,
`m_current_aborted`. A request is its serial number, so that a reply handed to
another task than the one that asked is visible. `current` is the session's
side. `HelperRead`, `HelperReply`, `HelperDies` are the forked process.
`DataReady*` are the branches of `SdpDataReadyNot`; `ShutdownResult`,
`CallbackReturns`, `ShutdownDone`, `Sweep` the loops of `SdpShutdown` and
`InvoluntaryStop`.

*BtSessions.* One action per public method, per handler and per continuation.
`held` counts the references of clients; `refs` is `m_refs`; `list[s]` is the
list that `m_autoreconnect_links` is on, `"retry"` being the local list of
`AutoReconnectTimeout`. `aborted` is `m_current_aborted` of the SDP handler: a
cancellation in a callback of `SdpShutdown` sets it again, and the next
`SdpCreateThread`, of a Start or of the autorestart, asserts that it is clear.
`HubCalls` is what clients call on the hub from callbacks.

*HfpCommands.* `queue` is `m_commands`; a command is its kind and `m_pend`;
`wire` is what the device has not yet answered. Commands that differ in control
have kinds of their own (CMER, BRSF, CHLD, ATD, COPS, CIND?). `__Disconnect`
calls clients twice: when it deletes the commands (hfp.cpp:745), and when it
tells them of the audio (757), before the session is disconnected (763). What a
client issues then is queued with its timer and outlives the connection
(`Outlived`).

*CallSetup.* Every event computes the new state by one operator,
`UpdateCallSetup`, as in the code. `told` is what the client was last told.

*HciTasks.* `tasks` is the list of tasks, `resubmit` those to send again,
`owned` what owners have; events carry a kind and a device and no task, as in
HCI, and events of other programs come too.

*ScoAudio, HfpService.* `s` is the session (`m_sco_state`, `m_async_state`,
the pending abort, what the client believes), `v` the service (the hub's
state, sockets, the record the service has and the one the SDP server has).
`s.command` is a command that a client has issued: `Disconnect` deletes it, and
that calls the client's pending object from within the client's call.

*SoundManager, SoundPump.* `s` is the sound system: ends, filter chain, what is
started, prepared, opened. `bad` is the set of outside calls that fail in this
step, chosen anew at each.

*SoundStream.* Samples are counted. `qs` is what the pump believes of the
queues (`m_bottom_qs`, `m_top_qs`), `dev` what is in them. `Clock(e)` is a card
moving a packet, `Process(e)` its call to `AsyncProcess`, with all of
`BestXfer`, tossing, transfer, padding and the decision to halt. `lead` is how
far one card's clock is ahead.

*AlsaCard, EventLoop.* `rec`, `play` are where the threads stand; `idle` is
`m_play_idle`, `underrun` `m_play_xrun`; `disp` is the dispatcher, with the
timers due and the run list of `RunTimers`. `missed` remembers an underrun that
the client has not heard of.

*PacketSeq.* The list is `npackets`, `headStart`, `tailEnd`. Places are
numbered from the first packet that was ever in the list, so that a pointer
into a packet that was released and used again would be seen to be wrong.

*HfpdAudio.* `d` is the daemon: for each gateway its link, audio, owner, and
what waits; for the stream its state, its end points and who holds it. The
options are chosen at the start and kept.

*HfpdSettings, ConfigFile.* One setting stands for those with the same
protocol. `bad` is what fails in a call: opening, writing, listening, the sound
system, sending a reply. A gateway has two keys in the configuration: `device`,
its address as `ba2str` spells it, which `SetKnown` and `SetAutoReconnect` use,
and `alias`, as a client may spell it in `AddDevice`; keys are compared letter
by letter. `latest` and `filed` are which of the two was set last, in memory and
in the file, since the last line of a file decides. `changed` remembers that the
call being dispatched has changed what is in force in an earlier dispatch, and
`filter` is what the signal processing was last configured with.

## Runs

The runs below find no error. Each of their properties has a mutant: an operator
beside the definition it replaces, with a plausible error, under which TLC finds
the property violated.

| Run | Instance | Distinct states | Shows |
|---|---|---|---|
| `sdp_tasks` | 3 tasks, 4 requests, 2 deaths | 18,133 | OneInFlight, ReplyMatchesHead, QueueIsWaiters, OnlyIdleDeathFaults; implements TaskService; every lookup settles |
| `sessions` | 2 sessions, Stop from callbacks | 158,072 | ReferencesSound, TimersSound, OnlyNestedCallsFault; TimersServe (retries and burials happen) |
| `commands` | 2 pending objects, 4 queued | 211,031 | CalledExactlyOnce, OrderKept, OnlyDisconnectionFaults; every command completes |
| `call_setup` | 2 callers | 116 | TimersMatch, CallerIsWaiting, ClientKnows; presumptions end |
| `hci` | 2 devices, 2 tasks | 33,448 | TasksOwned; every name settles |
| `sco` | 1 session, 2 configurations, 5 frames | 52,832 | implements AsyncEndpoint; ServiceMatchesConfig; NoCallsFromMethods |
| `sound` | 2 cards, 2 sessions, a file, 1 filter | 29,512 | StreamsMatch, FiltersReady |
| `stream` | 14 pairs of endpoints | 10,105 | LevelsHold, PlayedToTheEnd; ComesToRest |
| `alsa` | 3 modes, 2 packets | 151,972 | Safety; StopReturns, LoopWakes |
| `packets` | packets of 3 samples, 10 samples | 1,724 | BufferSafe; implements SampleFifo |
| `hfpd` | 2 gateways, 1 client, all options | 270,208 | AudioAgrees, OnlyMembufFaults, StrangersRefused, StrangersLeave |
| `settings` | any 2 settings of the daemon and of its sound, or a gateway in two spellings with autosave; 2 failing calls | 764,075 | SettingsSurvive, AnsweredOnce, ErrorsChangeNothing |

### Bounds and why they are enough

* `SdpTasks`: three tasks give a head, a task behind it and one submitted while
  both move; four requests let a task be submitted again after a cancellation;
  two deaths let a helper die, be recreated and die again.
* `BtSessions`: two sessions, since the loops over sessions are disturbed by at
  most one that is not the one they are at. `MaxHeld = 1`: a second reference
  of the client behaves as the first. `MaxDepth = 6` is a Stop in a callback of
  a retry, with the callbacks of its shutdown. In the run clients stop the hub
  from callbacks and start it outside of them: one that stops and starts it in
  one callback may do so for ever, and nothing is live then. Of Starts from
  callbacks the safety properties are proved, for every `HubCalls`.
* `HfpCommands`: `MaxQueue = 4`, `MaxWire = 2` bound what clients add; the
  handshake queues up to six whatever they say. `MaxNested = 1`: deeper
  callbacks only unwind.
* `CallSetup` is finite; two callers make a stale identity visible.
* `HciTasks`: two devices and the inquiry, so that an event may be taken for
  another's; `MaxTasks = 2` lets a task wait behind another, whose refusal it
  meets; `MaxAsked = 1`: further requests for a name only join the first.
* `ScoAudio`: `MaxDepth = 5` is a client that closes and reopens from the stop
  notification inside a disconnection. One command stands for the queue, whose
  order `HfpCommands` is about.
* `SoundManager`: two cards to move between, two sessions and a file so that an
  end is replaced by one of its own and of the other kind, one client filter
  between the two that the manager inserts itself.
* `SoundStream`: packets of 2 and 4 samples and buffers of up to 16; pairs of
  every kind that may meet, with default and large levels, with calls one and
  three packets late. `MaxLead = 2` lets one clock run a packet ahead of the
  other, both ways. `SampNums = 1024` is the width of a sample count: far above
  every level, it makes the unsigned underflow at soundio-pump.cpp:1608 visible.
* `AlsaCard`: `MaxQueued = 2` is a packet in use and one more. Every failure,
  every break and any number of starts and stops are in it; only packets are
  bounded.
* `PacketSeq`: three full packets and a begun one, so that the list has inner
  packets. The theorem removes the bounds.
* `HfpdAudio`: two gateways are needed for a claim or a connection to disturb
  another's stream; they are symmetric.
* `HfpdSettings`: settings interact through the file only, and `Together` has
  one saved while another is changed: any two of the daemon's, or autosave and
  both keys of a gateway. `MCHfpdSettings` chooses at the start which of the two
  clients work with (`part`); the theorems are about both together.
  `MaxFailures = 2` lets the answer of a call fail and then its repetition.

### Fairness

* `SdpTasks`: weak fairness of the handler of the pipe (the loop polls a
  readable descriptor), of returning functions, of the helper (libbluetooth
  bounds its lookups).
* `BtSessions`, `HfpCommands`, `ScoAudio`, `HciTasks`: weak fairness of the
  continuations; strong fairness of the client's return, because a callback
  makes finitely many calls; strong fairness of timers that are set, because
  `RunTimers` is called in each round of the loop. For an AT command, its timer
  expires or the device answers. In `ScoAudio` a client that is told of a
  deleted command does not always issue another one: otherwise `__Disconnect`
  would delete commands for ever.
* `HciTasks` also assumes that the controller accepts, refuses or completes
  what it is sent, and that it says now and again that it can take a command
  (`Accepted`, `Complete`, `Nop`): that is the contract of HCI.
* `CallSetup`: weak fairness of the two timers. `PresumptionsEnd` supposes that
  the device says no more; each RING starts the timer again by design.
* `SoundStream`: cards go on and their calls are delivered.
* `AlsaCard`: threads run and get the lock; the device moves packets; callbacks
  return; the loop goes round, and `select()` returns when its pipe is
  readable, its timeout is over, or (in the modes without threads) its device
  is ready.

Nothing else is assumed of clients' choices, and nothing of peers or of the
death of the helper. No liveness is claimed of the daemon or of the sound manager, whose
progress is that of the parts above.

## Refinement

* `SdpTasks => TaskService`: `current` and `outcome` are the same in both. The
  property is safety; that lookups settle is `EveryLookupSettles`. Proved.
* `ScoAudio => AsyncEndpoint`: open is `s.sco # "Invalid"`, a notification is
  owed while the abort is pending and the client still streams. Its liveness is
  that what is owed is paid, unless the client stops, closes or reopens. The
  safety part is proved (`EndpointSafety`), the liveness part model-checked. The
  sound manager relies on just this promise of its ends.
* `PacketSeq => SampleFifo`: the two counters. Proved. `SoundStream` counts
  samples on the strength of it.

## Proofs

`SdpTasksProofs` proves, for every set of tasks, every number of requests and
deaths, and every `DiesWhen` and `NestedCancel`: `TypeCorrect`,
`PipesNeverFill` (OneInFlight), `RepliesMatch` (ReplyMatchesHead),
`QueueTracksWaiters` (QueueIsWaiters) and `Refinement`
(`Spec => ImplementsService`). None of these is inductive by itself. That at
most one request travels needs to know that it travels exactly when the queue
is not empty or a request is aborted; that it answers the head needs the queue
to hold waiting tasks once each, and that needs the requests of different tasks
to be different. `IInv` is the conjunction of these facts. The step of the
refinement uses it: an answer settles the request of the head because the head
is waiting. `FaultsNeedIdleDeath` (OnlyIdleDeathFaults) needs more, `Faultless`,
which holds until an assertion fails: unless the helper has died with nothing to
do, a dead helper leaves somebody to be told and an empty pipe, a shutdown that
sweeps the queue still has all the waiting tasks in it, a closed handler has no
tasks, and only a cancellation made from the shutdown aborts what is closed.

The second half of `SdpTasksProofs` is about `HciTasks`, the other handler of
tasks: `HciTypeCorrect` and `TasksAlwaysOwned` (TasksOwned), for any devices,
bounds, events and depth of callbacks. `Among`, a fold that keeps the tasks of a
list that are in a set, is described by `AmongDoes`, the induction over the list
being made by a least set of places (`LeastPart`). `HciInv` adds to TasksOwned
where tasks can be at all: only the function that the event loop called last
reports tasks that have ended (`Formed`), an inquiry that has ended did so alone
and nothing is above it, and `__Stop` is under way at most once (`Stopping`).
That is why `StopInquiry`, called from a callback, never deletes a task that is
still to be reported, and why no inquiry is left when the controller is closed.

`BtSessionsProofs` proves `ReferencesAlwaysSound` (ReferencesSound),
`TimersAlwaysSound` (TimersSound) and `OnlyNestedCallsMayFault`
(OnlyNestedCallsFault), for any number of sessions and callbacks nested to any
depth. What a function under way has still to release is on the stack, so the
references that a session should have (`Due`) count the Put()s owed there.
`IInv` says that the references are those (`References`), that the stack is
well formed (`Shaped`: a shutdown of the SDP handler is followed by what
resumes `__Stop`), that whatever waits has its timer, or the function that will
set it is under way (`WaitingIsTimed`, `HubTimer`), and that a stopped hub has
no lookup but those that its shutdown has still to reset (`Drained`). The last
theorem needs no hypothesis on `HubCalls`: SdpCreateThread asserts that no task is
queued and nothing is aborted, and by `Drained` a stopped hub has tasks only while
its shutdown is under way.

`CallSetupProofs` proves `TypeCorrect`, `TimersAlwaysMatch`,
`CallerAlwaysWaiting` and `ClientAlwaysKnows` for every set of callers. `IInv`
adds that commands are under way only when connected: their OK updates the call
state without a test of its own. As every event goes through `UpdateCallSetup`,
lemmas state once what that operator does under a condition `Ready` on its
arguments, and each event shows `Ready`.

`EndpointProofs` proves `BufferAlwaysSafe` (BufferSafe) and `BufferIsFifo`
(FifoSpec) for packets of every size and any number of samples. The invariant
adds to BufferSafe that in a single packet the first sample lies before the
end. The arithmetic of places (products of packets and their size) is in
lemmas, since the solver does not multiply variables by itself; `DequeueInv` is
the heart: whatever number of packets a Dequeue releases, the places of the
samples that are left do not move, so the writer's pointer stays good.

The second half of `EndpointProofs` is about the ALSA endpoint, in all its modes:
`CardTypeCorrect` and `CardAlwaysSafe` (Safety), from `AlsaAssumption`. (`AlsaCard`,
`SoundStream`, `HfpdSettings` and `HciTasks` call their specifications AlsaSpec, StreamSpec,
SettingsSpec and HciSpec, so that one module of proofs can extend several components.) Safety is not inductive: that a
thread works only for a stream that is started or being joined needs to know what the main
thread may be in the middle of. `Shaped` says which functions may wait below which
(a callback is below everything that the client called from it), `EndNoted` that a
failure is noted only of a stream that was started and that the client believes
in, unless the end is already under way (`Reports`), and `Modes` that only the
mode with threads has threads and the notifier they set. Each action is then
shown to keep the parts it can disturb by what it does to the top of the stack.

Its third part proves `LevelsAlwaysHold` (LevelsHold) for the pump, from
`StreamAssumption` and `FilterAssumption`: any two endpoints that
`ConfigureEndpoints` accepts, with packets, buffers and contents of any size, any
lateness and any drift. LevelsHold is nearly inductive. `StreamInv` adds that no
queue of a card is negative, that what the pump believes is itself below the
upper levels also for a card that has not called yet (`Followed`), and the types.
`CardLevels` shows that the two levels of a card are in order however its buffer
cuts them, and `AmountsDo` that `BestXfer` answers with a number, and with none
below zero unless there is a loopback. `CardMoves` is the heart: whatever number of
samples is moved, tossing brings the input of a card under its highest level, and
filling and padding leave the output between its two. It does not depend on
how BestXfer weighs the bounds: the levels are safe even from a bad choice, which
costs only samples. A negative number does no harm either, because the one
card that faces a loopback is always padded.

`ScoAudioProofs` proves `ServiceAlwaysMatches` (ServiceMatchesConfig),
`MethodsDoNotCall` (NoCallsFromMethods) and `EndpointSafety`: every step of
`ScoAudio` is a step of `AsyncEndpoint` or a stutter, for any configurations and
for callbacks nested to any depth. The service and the session are separate
arguments, since no operator on one reads the other. For the service, lemmas
show that a start, a stop and each change of the configuration keep the record
and the socket matched whichever calls fail; the invariant is
ServiceMatchesConfig with the types. For the session, `Sound` is what is needed
beyond types: an abort is pending only without a connection, and the socket is
waited for only while it connects. Then `Disconnects` says once what
`__DisconnectSco` leaves owed or paid, for every choice of its three flags, and
each action moves the endpoint by one of its own actions. That methods do not
notify follows from the same lemma: with no notification asked for, or an
asynchronous abort, nothing is pushed. `Disconnect` is the exception that
NoCallsFromMethods names: it calls the objects of the commands it deletes.

`HfpCommandsProofs` proves `AlwaysCalledOnce` (CalledExactlyOnce),
`AlwaysInOrder` (OrderKept) and `FaultsNeedDisconnection`
(OnlyDisconnectionFaults), for any pending objects, any number of commands and
callbacks nested to any depth. The depth is the difficulty: between two steps of
`DeleteFirstCommand` or `__Disconnect` a client may do anything, and what is owed
is on the stack. `IInv` says, besides the types and the two properties that are
inductive with it, that as long as no deleted command was used `Running` holds:
each waiting object is in one command (`Tracks`); whatever is queued has its
timer, unless a disconnection is emptying the queue (`Timed`); a disconnection
that tells clients of the audio, when they may queue commands that outlive it,
is not made while a command is being answered, unless in the handshake, which
has no commands of clients (`Late`); the command that is going to be deleted has called its
client, or a frame above will make it or disconnect (`CompletedFirst`); the
command that is going to be used is there, or a disconnection was made or is
above (`StillThere`); nobody uses a command below the frame that deletes it
(`Ordered`); and the wire holds the first command or nothing, by what is still
being answered or has outlived its connection (`WireFollows`). Lemmas say what
pushing and popping a frame does to each of these, and what each operation on the queue does to `Tracks`.

`SoundManagerProofs` proves `StreamsAlwaysMatch` (StreamsMatch) and
`FiltersAlwaysReady` (FiltersReady), for any cards, endpoints and filters. The
inductive invariant, `Settled`, holds between calls of the manager and is made
of two independent parts. `Streams`: the flags of the manager and of the pump
agree with the ends that are set, the two ends differ, and what is open or
streams is what they believe. `Stacked`: a filter is on the list once, and
prepared exactly while the pump runs, the signal processing first and the mute
last. Within a call less is true: the card may be open with nothing that runs.
So the lemmas about each method of the manager and of the pump are about `Sound`,
which leaves that out, and each call is shown to restore it.

`HfpdProofs` proves `AudioAlwaysAgrees` (AudioAgrees), `OnlyMembufMayFault`
(OnlyMembufFaults) and `StrangersAlwaysRefused` (StrangersRefused), for any
number of gateways and clients. `Agree`, the invariant, is `Routing` of the
stream and, for each gateway, `Linked` and `Persists` of its session and
`Claims`, `Awaits` and `Feeds` between the two: only the gateway of the stream
may stream, wait, have a stop pending or be kept for its audio, and what the
stream waits for is coming or its end is going to be reported. A method of
`objects.cpp` calls others in the middle of a change, so no method is shown to
keep `Agree` alone; its lemma says what it needs of a state half changed
(`Releasable` for EpRelease, `Setup` for EpAudioGatewayComplete, `AudioChanged`
for NotifyAudioConnection, `LinkChanged` for NotifyConnection, `Loose` for
what stops the stream), what it restores, and what it leaves alone (`Follows`:
claims, options, no connection or audio that comes about). All of it is under
the condition that no assertion has failed, and each assertion about a gateway
is shown to hold where it stands: that is why only those about memory buffers
are left in OnlyMembufFaults. When a client goes, what it held is released in a
loop over a list (`PeerNotified`, a fold); `PeerGood` is the induction over it,
by the least set of members for which the claim would fail (`LeastSet`).

The second half of `HfpdProofs` proves `SettingsAlwaysSurvive`
(SettingsSurvive), `AlwaysAnsweredOnce` (AnsweredOnce) and `ErrorsNeverChange`
(ErrorsChangeNothing), for any number of settings changed and of calls that
fail, from `CallAssumption` alone. SettingsSurvive speaks of the
settings in force and of the file, but what is written comes from the
configuration in memory, so the invariant, `Settled`, goes through it: what is in
memory is what is in force, except what was refused (`Valued` for the settings
with a value, `Listed` for a gateway under its two spellings), and what a load of
the file would give is what is in memory, once it was saved (`Filed`).
Both need that a name has one section, in memory and in the file (`Once`), as the
code finds the first. The lemmas about `ConfigFile` say that Set and Delete
change one value and that what is written is read back; the latter is about a
fold over the sections, and is again an induction by `LeastSet`. Then `Stored`
and `Forgotten` are described once (`Stores`), and each setter by what it does
from the state in which a call begins (`Begun`, `Asked`). `Owing` is what makes
the count of answers inductive: only the call for a gateway neither known nor
claimed may be dispatched again after it was answered, and then that gateway is
still neither. ErrorsChangeNothing is about all the dispatches of a call, and
rests on `TookEffect`: a call that waits and has changed what is in force finds,
when it is dispatched again, that it has had its effect, or is one of those that
do not look; so an error after a change can only be one of theirs.

The assumptions are those of the modules on their constants (`SdpAssumption`,
`SessionsAssumption`, `CommandsAssumption`, `CallersAssumption`,
`DepthAssumption`, `CardsAssumption`, `EndpointsAssumption`,
`FiltersAssumption`, `SizeAssumption`, `OptionsAssumption`,
`GatewayAssumption`, `AlsaAssumption`, `CallAssumption`, `OwnerAssumption`,
`BoundAssumption`, `StreamAssumption`, `FilterAssumption`), evaluated by the runs. They
say that different kinds of things are different values, that bounds are numbers,
that there are finitely many gateways, and that the packet of the filter, found by
halving, is not empty (`BestXfer` divides by it; a card with packets of a single sample
could make it so).

**Only model-checked:** all liveness properties (liveness under fairness and
ENABLED are out of reach of the provers), with the liveness part of the
refinement of AsyncEndpoint; PlayedToTheEnd of `SoundStream`, which, unlike the
levels, depends on which number `BestXfer` picks and on how often a card has called
before a file ends; and StrangersLeave of `HfpdAudio`.
The library's induction theorems take an operator as a parameter, which none of
the provers can instantiate; for finite sets `LeastSet` and `LeastMember` (a least
set exists, by the well-founded order of subsets) get around it, and what
`HfpdProofs` and `SdpTasksProofs` need of folds and `EndpointProofs` of minima is
proved so.

## Defects and divergences found while modelling

The models contain these behaviours, exempt them by name in the properties, or
start beyond them, as said. They are documented here and not repaired.

* **The helper dies while idle** (bt.cpp:186): the handler asserts that a task
  is queued before it reads the end of file which the code below means to
  handle. In `SdpTasks`; a fault needs it (`OnlyIdleDeathFaults`).
* **Stop from the callback of an automatic attempt** (rfcomm.cpp:171) deletes
  the timer that `AutoReconnectTimeout` then sets, against "A client may
  therefore invoke any method call from any callback" (bt.h:138). In
  `BtSessions` (`OnlyNestedCallsFault`).
* **Disconnect from a callback of `SdpShutdown`** (bt.cpp:296): the cancellation
  of another session's lookup sets `m_current_aborted` after it was cleared, and
  the next Start or autorestart fails SdpCreateThread's assertion. In `SdpTasks`
  and `BtSessions` (`OnlyNestedCallsFault`).
* **Start from a callback inside `__Stop`** (bt.cpp:1338): the helper is created
  while lookups are still to be reset, which fails an assertion, or `__Stop` goes
  on to shut down the HCI of the new start. In `BtSessions`: the assertion is in
  `OnlyNestedCallsFault`, and a hub that is started without its HCI does what it
  can.
* **AT+CMER refused** (hfp.cpp:3019): the command disconnects, which deletes
  it, and `DeleteFirstCommand` finds no command; likewise a client that
  disconnects from the callback of the command that completes. In `HfpCommands`
  (`OnlyDisconnectionFaults`).
* **A command issued inside a disconnection** (hfp.cpp:757): clients are told of
  the audio after the queue was emptied and before the session is disconnected.
  A command that they issue then is accepted and waits for its timer, in front
  of the next handshake; a session that is deleted before that fails
  `assert(m_commands.Empty())` (hfp.cpp:663). In `HfpCommands` (`Outlived` in
  OrderKept), but for the deletion of the session.
* **Disconnect calls pending objects from within the call** (hfp.cpp:746),
  against bt.h:125 ("none of the callbacks ... are ever invoked in a nested
  fashion from client method calls"). In `ScoAudio`, as the exception of
  NoCallsFromMethods.
* **A command that cannot be sent** (hfp.cpp:2252) calls a pending object that
  nobody can have registered with. In `HfpCommands`, as a fault.
* **An inquiry that cannot be sent** (bt.cpp:1508) fails without an error, and
  objects.cpp:195 asserts that there is one. In `HciTasks`, as a fault; there
  too a resubmission that cannot be sent (bt.cpp:804) is forgotten for ever,
  and the completion of an inquiry of another program ends the hub's own.
* **ALSA, failure found by `AsyncProcess`** (soundio-alsa.cpp:1428): it calls
  `SndHandleAbort`, which takes `m_lock`, with `m_lock` held. The main thread
  waits for itself. In `AlsaCard`, as `stuck`.
* **A captured card that is unplugged** (soundio-alsa.cpp:1800): with mapped
  memory, an error of `snd_pcm_avail_update` gives an empty queue and `CheckXrun`
  (738) looks for underruns only, so the client is never told, against
  soundio.h:530. In `AlsaCard` (`Unasked` in EndIsTold).
* **`m_wake_pending` is not initialised** (events-indep.cpp:558, an object on
  the stack of hfpd.cpp:147): when it is TRUE by accident, no thread ever wakes
  the loop. `AlsaCard` starts with either value; `LoopWakes` supposes FALSE.
* **`SndGetQueueState` reads without the lock** in `BufProcess`
  (soundio-buf.h:447): a data race with the threads; the value is stale at once
  in any case.
* **`PacketSeq::Dequeue`** that empties two or more full packets in one call
  leaves `m_tail_end` behind, and the next `GetUnfilled` fails its assertion.
  The pump keeps a sample when it tosses, so it does not come to that; `Toss`
  keeps one.
* **A file played to the headset never ends** (hfp.cpp:1065): the voice endpoint
  reports no underrun, for which soundio-pump.cpp:1050 waits, against the
  comment at soundio-pump.cpp:1037. `ComesToRest` leaves this pair out.
* **Samples** (soundio-pump.cpp): the maximum of the top input subtracts the
  minimum of the bottom output and may underflow (1608); the levels that the
  pump chooses itself are not free of loss when a call is one packet late
  (`Roomy` says what is enough); the last samples are cut when the call that
  queues them reports the underrun itself; a truncated audio file pads for ever;
  a memory buffer gives its size in bytes (soundio-util.cpp:186); packets may be
  halved to zero; output made up of silence is counted twice when a buffer was
  left over; `MixBuffer` clamps to -32767.
* **Sound manager and pump**: `SetTop` configures the new endpoint against
  itself; `SetTop(0)` and `SetBottom(0)` while started use a null pointer (the
  manager stops first); the watchdog never accuses the top; `SetMute` that fails
  leaves its flags; `SetDsp(0)` asserts. Calls that assert are left out.
* **HFP audio**: the hub closes its SDP session before the service stops, so the
  first configuration after a stop fails on a stale record; a client that closes
  or reopens while notifications are pending sees states that hfp.h:894 and
  hfp.h:1771 exclude; `SndOpen` for neither direction is documented to fail and
  connects; audio accepted while an abort is pending fails an assertion.
* **hfpd**: a routing of audio to a gateway that nobody has claimed closes its
  own stream; `m_unbind_on_audio_close` survives a new claim; `AddDevice` that
  cannot be saved answers an error and keeps the claim; a memory buffer that
  cannot be opened leaves the secondary endpoint set, a second `MembufStart`
  deletes the buffer that streams, and `EpRelease` deletes the snoop filter with
  it (`OnlyMembufFaults` names the three); the document's state 4 "connected and
  streaming" is told while audio is not connected; `CloseAudio` withdraws the
  report of a stop.
* **Settings**: a section of the system's file hides that of the user's
  (configfile.cpp:494, against the comment at configfile.cpp:320); a refused
  value stays in memory; the file is emptied before it is written
  (`SettingsSurvive` exempts a torn file); `SetAutoReconnect` may be answered
  twice and `SetMute` and `GetName` be retried for ever for want of memory; a
  filter that could not be saved is not configured back (objects.cpp:3791).
* **The spelling of an address** (objects.cpp:2049): `AddDevice` stores a gateway
  as its caller spells it, the other methods as `ba2str` does, so a gateway added
  in lower case cannot be forgotten, against hfpd-dbus-doc.cs:2344. In
  `HfpdSettings` (the spelling `alias` in SettingsSurvive).
* **An error for a call that took effect** (dbus.cpp:1513): `SetKnown` and
  `SetDenoise` that could not be answered are repeated from the start, and when
  they then cannot be saved their caller is told of an error although the change
  is in force. In `HfpdSettings` (`IsRepeated` in ErrorsChangeNothing).

## Not modelled, and why

* Failure of allocations in the library: it is on nearly every path and none of
  its consequences is documented. Where the daemon handles one (a reply for
  which there is no memory) it is in `HfpdSettings`.
* Contents: text of AT commands and of D-Bus messages, names, formats, and the
  values of samples (filters, mixing, the audio file library).
* Durations: a timer that is set may expire at any later moment, so every order
  of expiry is covered. Timers are relative to the last round of the loop and
  may expire early after a long handler (events-indep.cpp:263). The heap of
  timers is a set, of which immediate ones come first.
* Security modes, the search for a free channel in `RfcommListen`, hardware
  parameters and lists of ALSA devices, the OSS driver: sequences of system
  calls that change no state the models tell apart.
* `SetSaveFile`, `SetMute` of the daemon; call state in the daemon, which passes
  on what `CallSetup` shows; use of a pending object after its command has gone,
  which leaves a dangling pointer (hfp.cpp:1509).
* A client that uses the buffers of a memory-mapped ALSA stream after it has
  stopped it.
* The parsers, the intrusive lists, the front ends and the test programs:
  `not_modelled` in `PROJECT.json`, each with its reason.

## What is left

* A proof that the end of a file is played (PlayedToTheEnd), for which the choice of
  `BestXfer` matters.
* The pairing heap of the timers as a module of its own, against a set of
  (timer, time).
* The composition of `HfpdAudio` with `ScoAudio` and `SoundManager`, which it
  replaces by what they promise: larger than TLC can search.
