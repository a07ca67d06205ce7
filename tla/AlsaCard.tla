------------------------------ MODULE AlsaCard ------------------------------
(***************************************************************************)
(* The ALSA endpoint (libhfp/soundio-alsa.cpp) in its three modes of       *)
(* access: with a thread for each direction that blocks in the device      *)
(* (SoundIoAlsaProcThread), by procedure (SoundIoAlsaProcAsync) and by     *)
(* mapped memory (SoundIoAlsaMmap), with a client that opens, starts,      *)
(* stops and closes it at any time, from its callbacks too.                *)
(*                                                                         *)
(* A critical section of m_lock is one step: what a thread does between    *)
(* two of them is to wait in the device or on the condition.  Samples are  *)
(* counted in packets.  An overrun or underrun is repaired by              *)
(* HandleInterruption, a device that is gone is not.                       *)
(***************************************************************************)
EXTENDS EventLoop, Integers, Sequences

CONSTANTS
    Access,     \* the modes of access that are tried
    MaxQueued   \* packets in a buffer

ASSUME AlsaAssumption ==
    /\ Access \subseteq {"thread", "proc", "mmap"}
    /\ MaxQueued \in Nat \ {0}
    /\ Immediate = {"async", "abort"} /\ Delayed = {"wake"}
    /\ WakePending \subseteq BOOLEAN

VARIABLES
    access,
    device,     \* "closed", "ready", or "broken": it will not work any more
    started,    \* m_async_not, or the notifiers of the device, exist
    dirs,       \* directions that are streamed
    rec, play,  \* the threads
    idle,       \* m_play_idle
    aborted,    \* m_abort is set
    processing, \* m_async_state is set
    underrun,   \* m_play_xrun
    input, output,  \* packets in m_input and m_output
    stack,      \* functions the main thread is in, the innermost first
    believes,   \* the client has started the stream and not heard of its end
    missed,     \* an underrun that the client has not been told of
    stuck       \* the main thread waits for a lock that it holds

threadVars == <<rec, play, idle>>
queueVars == <<input, output, underrun, missed>>
alsaVars == <<disp, access, device, started, dirs, threadVars, aborted, processing, queueVars,
          stack, believes, stuck>>

Threaded == access = "thread"
Alive == {"begin", "reading", "writing", "waiting", "woken", "aborting"}

AlsaTypeOK ==
    /\ disp \in Dispatcher
    /\ access \in Access
    /\ device \in {"closed", "ready", "broken"}
    /\ dirs \subseteq {"rec", "play"}
    /\ {rec, play} \subseteq Alive \cup {"none", "done"}
    /\ {started, idle, aborted, processing, underrun, believes, missed, stuck} \subseteq BOOLEAN
    /\ input \in 0 .. MaxQueued /\ output \in 0 .. MaxQueued

AlsaInit ==
    /\ DispInit
    /\ access \in Access
    /\ device = "closed" /\ started = FALSE /\ dirs = {}
    /\ rec = "none" /\ play = "none" /\ idle = FALSE
    /\ aborted = FALSE /\ processing = FALSE
    /\ input = 0 /\ output = 0 /\ underrun = FALSE /\ missed = FALSE
    /\ stack = <<>>
    /\ believes = FALSE /\ stuck = FALSE

-----------------------------------------------------------------------------
(* Helpers.                                                                *)

Top == IF stack = <<>> THEN "loop" ELSE Head(stack)
Returns == stack' = Tail(stack)
Calls(fs) == stack' = fs \o stack
Becomes(fs) == stack' = fs \o Tail(stack)

\* Mutant: the condition is not signalled.
NotSignalled == play

\* pthread_cond_signal
Signalled == IF play = "waiting" THEN "woken" ELSE play

\* BufAbort: the first failure is kept and its handler will be called.
BufAbort(d) == IF aborted THEN d ELSE SetTimer(d, "abort")

\* BufCancelAbort
BufCancelAbort(d) == CancelTimer(d, "abort")

\* What there is to do of BufClose: it also tells a BufProcess that has called the client.
BufClose ==
    /\ aborted' = FALSE /\ processing' = FALSE
    /\ input' = 0 /\ output' = 0 /\ missed' = FALSE
    /\ UNCHANGED underrun

-----------------------------------------------------------------------------
(* The record thread.                                                      *)

\* What the loop of a thread comes to when the stream has ended.
GoesOn(state) == IF started THEN state ELSE "done"

RecBegins ==
    /\ rec = "begin" /\ rec' = GoesOn("reading")
    /\ UNCHANGED <<disp, aborted, queueVars>>

\* A packet has come, or an overrun was repaired.
RecReads ==
    /\ rec = "reading" /\ device = "ready"
    /\ rec' = GoesOn("reading")
    /\ \/ /\ input' = IF input < MaxQueued THEN input + 1 ELSE input
          /\ disp' = IF started THEN SetTimer(disp, "async") ELSE disp
       \/ UNCHANGED <<input, disp>>
    /\ UNCHANGED <<aborted, output, underrun, missed>>

RecFails ==
    /\ rec = "reading" /\ device = "broken"
    /\ rec' = "aborting"
    /\ UNCHANGED <<disp, aborted, queueVars>>

RecAborts ==
    /\ rec = "aborting" /\ rec' = "done"
    /\ disp' = BufAbort(disp) /\ aborted' = TRUE
    /\ UNCHANGED queueVars

RecThread ==
    /\ ~stuck
    /\ RecBegins \/ RecReads \/ RecFails \/ RecAborts
    /\ UNCHANGED <<access, device, started, dirs, play, idle, processing, stack, believes, stuck>>

-----------------------------------------------------------------------------
(* The playback thread.                                                    *)

\* Mutant: an underrun that was noticed is forgotten.
ForgetsUnderrun(found) == FALSE

\* m_play_xrun after CheckXrun: it keeps what HandleInterruption has noted.
Noted(found) == underrun \/ found

\* The loop of the thread up to where it waits, n packets being in the buffer,
\* and an underrun being found or not.
PlayLoop(n, found) ==
    LET d == SetTimer(disp, "async") IN
    /\ output' = n
    /\ IF ~started THEN play' = "done" /\ UNCHANGED <<disp, idle, underrun, missed>>
       ELSE /\ underrun' = Noted(found)
            /\ missed' = (missed \/ found)
            /\ IF n = 0 THEN /\ play' = "waiting" /\ idle' = TRUE
                             /\ disp' = SetTimer(d, "wake")
               ELSE /\ play' = "writing" /\ idle' = FALSE
                    /\ disp' = IF idle THEN CancelTimer(d, "wake") ELSE d

Underruns == IF device = "ready" THEN BOOLEAN ELSE {FALSE}

PlayRuns ==
    /\ play \in {"begin", "woken"}
    /\ \E found \in Underruns : PlayLoop(output, found)
    /\ UNCHANGED aborted

\* A packet was written, or none because of an underrun.
PlayWrites ==
    /\ play = "writing" /\ device = "ready"
    /\ \E found \in BOOLEAN : PlayLoop(IF found THEN output ELSE output - 1, found)
    /\ UNCHANGED aborted

PlayFails ==
    /\ play = "writing" /\ device = "broken"
    /\ play' = "aborting"
    /\ UNCHANGED <<disp, idle, aborted, output, underrun, missed>>

PlayAborts ==
    /\ play = "aborting" /\ play' = "done"
    /\ disp' = BufAbort(disp) /\ aborted' = TRUE
    /\ UNCHANGED <<idle, output, underrun, missed>>

PlayThread ==
    /\ ~stuck
    /\ PlayRuns \/ PlayWrites \/ PlayFails \/ PlayAborts
    /\ UNCHANGED <<access, device, started, dirs, rec, processing, input, stack, believes, stuck>>

-----------------------------------------------------------------------------
(* What the main thread is called for.                                     *)

\* SoundIoAlsaProcThread::AsyncProcess.  It handles a failure with m_lock held.
ThreadProcess ==
    /\ Top = "async" /\ Threaded
    /\ IF aborted THEN stuck' = TRUE /\ UNCHANGED <<processing, underrun, missed, stack>>
       ELSE /\ underrun' = FALSE
            /\ missed' = (missed /\ ~underrun)
            /\ processing' = TRUE
            /\ Becomes(<<"packet">>)
            /\ UNCHANGED stuck
    /\ UNCHANGED <<disp, access, device, started, dirs, threadVars, aborted, input, output, believes>>

\* AsyncProcess of the other modes.  CheckXrun only looks for an underrun or overrun:
\* a device that is gone (SND_PCM_STATE_DISCONNECTED) is noticed by it if the device
\* is not repaired after one, and otherwise only where samples are moved.
CheckXrunFails == IF device = "broken" THEN BOOLEAN ELSE {FALSE}

\* SoundIoAlsaProcAsync reads all there is before it calls the client.
ReadFails == device = "broken" /\ "rec" \in dirs

ProcProcess ==
    /\ Top = "async" /\ access = "proc"
    /\ \E found \in CheckXrunFails :
       IF aborted \/ ReadFails \/ found
       THEN Becomes(<<"handle">>) /\ aborted' = TRUE /\ UNCHANGED <<processing, input>>
       ELSE /\ Becomes(<<"packet">>) /\ processing' = TRUE
            /\ input' = IF "rec" \in dirs THEN MaxQueued ELSE 0
            /\ UNCHANGED aborted
    /\ UNCHANGED <<disp, access, device, started, dirs, threadVars, output, underrun, missed,
                   believes, stuck>>

\* SoundIoAlsaMmap moves nothing here, and an error of snd_pcm_avail_update is an
\* empty queue to it.
MmapProcess ==
    /\ Top = "async" /\ access = "mmap"
    /\ \E found \in CheckXrunFails : aborted' = (aborted \/ found)
    /\ Becomes(IF aborted' THEN <<"handle">> ELSE <<"packet">>)
    /\ UNCHANGED <<disp, access, device, started, dirs, threadVars, processing, queueVars,
                   believes, stuck>>

\* BufProcess after the client has been called: SndPushOutput.
Push ==
    /\ Top = "push"
    /\ IF access # "mmap" /\ ~processing
       THEN Returns /\ UNCHANGED <<disp, play, aborted, output>>
       ELSE /\ Becomes(<<"after">>)
            /\ play' = IF ~aborted /\ idle /\ output > 0 THEN Signalled ELSE play
            /\ IF access = "proc" /\ ~aborted /\ output > 0
               THEN IF device = "broken"
                    THEN aborted' = TRUE /\ disp' = BufAbort(disp) /\ UNCHANGED output
                    ELSE output' = 0 /\ UNCHANGED <<aborted, disp>>
               ELSE UNCHANGED <<disp, aborted, output>>
    /\ UNCHANGED <<access, device, started, dirs, rec, idle, processing, input, underrun, missed,
                   believes, stuck>>

AfterPush ==
    /\ Top = "after"
    /\ processing' = FALSE
    /\ IF aborted THEN Becomes(<<"handle">>) ELSE Returns
    /\ UNCHANGED <<disp, access, device, started, dirs, threadVars, aborted, queueVars,
                   believes, stuck>>

\* BufAsyncAbort, the handler of m_abort_to.
BufAsyncAbort ==
    /\ Top = "abort"
    /\ aborted' = FALSE
    /\ IF aborted THEN Becomes(<<"handle">>) ELSE Returns
    /\ UNCHANGED <<disp, access, device, started, dirs, threadVars, processing, queueVars,
                   believes, stuck>>

\* SndHandleAbort
SndHandleAbort ==
    /\ Top = "handle"
    /\ disp' = BufCancelAbort(disp) /\ aborted' = FALSE
    /\ Becomes(<<"stop", "tell">>)
    /\ UNCHANGED <<access, device, started, dirs, threadVars, processing, queueVars, believes, stuck>>

\* cb_NotifyAsyncStop
Tell ==
    /\ Top = "tell"
    /\ believes' = FALSE
    /\ Becomes(<<"told">>)
    /\ UNCHANGED <<disp, access, device, started, dirs, threadVars, aborted, processing, queueVars,
                   stuck>>

PlayThreadWakeup ==
    /\ Top = "wakeup"
    /\ idle' = FALSE
    /\ play' = IF idle THEN Signalled ELSE play
    /\ Returns
    /\ UNCHANGED <<disp, access, device, started, dirs, rec, aborted, processing, queueVars,
                   believes, stuck>>

\* SndAsyncStop.  The threads are told to end and waited for.
SndAsyncStop ==
    /\ Top = "stop"
    /\ started' = FALSE /\ dirs' = {}
    /\ IF Threaded
       THEN /\ IF started THEN Becomes(<<"join">>) ELSE Returns
            /\ disp' = CancelTimer(disp, "async")
            /\ play' = Signalled
            /\ UNCHANGED <<aborted, processing, queueVars>>
       ELSE /\ Returns
            /\ disp' = BufCancelAbort(disp)
            /\ BufClose
            /\ UNCHANGED play
    /\ UNCHANGED <<access, device, rec, idle, believes, stuck>>

\* Mutant: only the record thread is waited for.
RecEnded == rec \in {"none", "done"}

\* pthread_join has returned for both.
Ended == rec \in {"none", "done"} /\ play \in {"none", "done"}

Join ==
    /\ Top = "join" /\ Ended
    /\ rec' = IF rec = "done" THEN "none" ELSE rec
    /\ play' = IF play = "done" THEN "none" ELSE play
    /\ disp' = CancelTimer(BufCancelAbort(disp), "wake")
    /\ BufClose
    /\ Returns
    /\ UNCHANGED <<access, device, started, dirs, idle, believes, stuck>>

\* The rest of SndClose, and that of SndSetFormat, which sets up the device anew.
CloseDevice ==
    /\ Top = "close" /\ device' = "closed"
    /\ disp' = BufCancelAbort(disp)
    /\ BufClose
    /\ Returns
    /\ UNCHANGED <<access, started, dirs, threadVars, believes, stuck>>

Reconfigure ==
    /\ Top = "format"
    /\ disp' = BufCancelAbort(disp)
    /\ BufClose
    /\ Returns
    /\ UNCHANGED <<access, device, started, dirs, threadVars, believes, stuck>>

Handler ==
    /\ ~stuck
    /\ \/ ThreadProcess \/ ProcProcess \/ MmapProcess \/ Push \/ AfterPush
       \/ BufAsyncAbort \/ SndHandleAbort \/ Tell \/ PlayThreadWakeup
       \/ SndAsyncStop \/ Join \/ CloseDevice \/ Reconfigure

-----------------------------------------------------------------------------
(* The client, which is called or comes from the event loop.  It is told   *)
(* nothing of a stream that it ends itself.                                *)

InClient == ~stuck /\ \/ Top \in {"packet", "told"}
                      \/ stack = <<>> /\ disp.at = "sockets"

\* A call of the client from the event loop is all that a round of it does.
Served(d) == IF stack = <<>> THEN BackToTop(d) ELSE d

SndOpen ==
    /\ InClient /\ device = "closed"
    /\ device' = "ready"
    /\ aborted' = (aborted /\ access = "mmap")
    /\ disp' = Served(disp)
    /\ UNCHANGED <<access, started, dirs, threadVars, processing, queueVars, stack, believes, stuck>>

\* Each of the threads may not be created; what there is is stopped then.
ThreadStart(ds) ==
    /\ Threaded
    /\ \E done \in {ds, {}, {"rec"} \cap ds} :
        /\ believes' = (done = ds)
        /\ dirs' = IF done = ds THEN ds ELSE {}
        /\ rec' = IF "rec" \in done THEN "begin" ELSE "none"
        /\ play' = IF "play" \in done THEN "begin" ELSE "none"
        /\ IF done = ds THEN UNCHANGED stack ELSE Calls(<<"stop">>)
    /\ started' = TRUE /\ idle' = ("play" \in ds)

\* The notifiers of the device are created for both directions or for none.
NotifierStart(ds) ==
    /\ ~Threaded
    /\ \E done \in BOOLEAN :
        /\ started' = done /\ believes' = done
        /\ dirs' = IF done THEN ds ELSE {}
    /\ UNCHANGED <<threadVars, stack>>

SndAsyncStart(ds) ==
    /\ InClient /\ device # "closed" /\ ~started
    /\ ThreadStart(ds) \/ NotifierStart(ds)
    /\ disp' = Served(disp)
    /\ UNCHANGED <<access, device, aborted, processing, queueVars, stuck>>

ClientStops ==
    /\ InClient /\ device # "closed"
    /\ believes' = FALSE
    /\ disp' = Served(disp)
    /\ \E then \in {<<>>, <<"close">>, <<"format">>} : Calls(<<"stop">> \o then)
    /\ UNCHANGED <<access, device, started, dirs, threadVars, aborted, processing, queueVars, stuck>>

\* SndQueueOBuf, when it is not in a callback: it pushes.
ClientQueues ==
    /\ InClient /\ "play" \in dirs /\ ~processing /\ access # "mmap"
    /\ output < MaxQueued
    /\ IF Threaded
       THEN /\ output' = output + 1
            /\ play' = IF idle THEN Signalled ELSE play
            /\ disp' = Served(disp)
            /\ UNCHANGED aborted
       ELSE /\ device = "broken" /\ output' = output + 1
            /\ disp' = BufAbort(Served(disp)) /\ aborted' = TRUE
            /\ UNCHANGED play
    /\ UNCHANGED <<access, device, started, dirs, rec, idle, processing, input, underrun, missed,
                   stack, believes, stuck>>

\* With mapped memory it is when a client maps a buffer that a device is noticed to
\* be gone.  A client fills the output whenever it is called, but it takes no input
\* where it is told that there is none.
MapFails == access = "mmap" /\ started /\ device = "broken"
Maps == IF "play" \in dirs THEN {TRUE} ELSE BOOLEAN

\* The client has taken the input and filled the output, if it still streams.
ClientReturns ==
    /\ ~stuck /\ Top \in {"packet", "told"}
    /\ IF Top = "packet"
       THEN /\ Becomes(<<"push">>)
            /\ input' = IF started THEN 0 ELSE input
            /\ output' = IF processing /\ "play" \in dirs THEN MaxQueued ELSE output
            /\ \E maps \in Maps : aborted' = (aborted \/ (MapFails /\ maps))
       ELSE Returns /\ UNCHANGED <<input, output, aborted>>
    /\ UNCHANGED <<disp, access, device, started, dirs, threadVars, processing, underrun, missed,
                   believes, stuck>>

Client ==
    \/ SndOpen \/ ClientStops \/ ClientQueues
    \/ \E ds \in SUBSET {"rec", "play"} \ {{}} : SndAsyncStart(ds)

-----------------------------------------------------------------------------
(* The event loop, between handlers.                                       *)

InLoop(at) == ~stuck /\ stack = <<>> /\ disp.at = at
EndpointSame == UNCHANGED <<access, device, started, dirs, threadVars, aborted, processing,
                            queueVars, believes, stuck>>

HandlerOf(t) == CASE t = "async" -> "async" [] t = "abort" -> "abort" [] t = "wake" -> "wakeup"

RunsEarly ==
    /\ InLoop("top")
    /\ \E t \in First(disp.due \cap Immediate) :
        disp' = RunEarly(disp, t) /\ stack' = <<HandlerOf(t)>>

FallsAsleep ==
    /\ \/ InLoop("top") /\ disp.due \cap Immediate = {}
       \/ InLoop("early") /\ disp.run = {}
    /\ disp' = FallAsleep(disp) /\ UNCHANGED stack

RunsTimer ==
    /\ InLoop("early") \/ InLoop("late")
    /\ \E t \in disp.run : disp' = Takes(disp, t) /\ stack' = <<HandlerOf(t)>>

\* select() returns, and the timers in due have expired.
WakesUp(due) ==
    /\ InLoop("asleep")
    /\ IF due = {} THEN disp' = ReadSockets(WakeUp(disp)) /\ UNCHANGED stack
       ELSE \E t \in First(due) :
            disp' = RunTimers(WakeUp(disp), due, t) /\ stack' = <<HandlerOf(t)>>

\* It returns for the wake pipe, for a timer, or for another socket.
PipeWakes == disp.pipe /\ \E due \in Expired(disp) : WakesUp(due)
TimerWakes == disp.timed /\ \E due \in Expired(disp) \ {{}} : WakesUp(due)
OtherWakes == \E due \in Expired(disp) : WakesUp(due)

ReadsSockets == InLoop("late") /\ disp.run = {} /\ disp' = ReadSockets(disp) /\ UNCHANGED stack
GoesRound == InLoop("sockets") /\ disp' = BackToTop(disp) /\ UNCHANGED stack

\* A notifier of the device is among the sockets that are ready.
Watched == ~Threaded /\ started

DeviceReady ==
    /\ InLoop("sockets") /\ Watched
    /\ disp' = BackToTop(disp) /\ stack' = <<"async">>

Loop ==
    /\ \/ RunsEarly \/ RunsTimer \/ FallsAsleep \/ PipeWakes \/ TimerWakes \/ OtherWakes
       \/ ReadsSockets \/ DeviceReady \/ GoesRound
    /\ EndpointSame

-----------------------------------------------------------------------------

DeviceBreaks ==
    /\ ~stuck /\ device = "ready" /\ device' = "broken"
    /\ UNCHANGED <<disp, access, started, dirs, threadVars, aborted, processing, queueVars, stack,
                   believes, stuck>>

\* Nothing happens any more: the threads will wait for m_lock too.
Stuck == stuck /\ UNCHANGED alsaVars

AlsaNext ==
    \/ RecThread \/ PlayThread \/ Handler \/ Client \/ ClientReturns \/ Loop
    \/ DeviceBreaks \/ Stuck

\* Threads run and the device makes progress, the callbacks of the client return,
\* select() returns for what it waits for, and a device that streams is ready
\* now and again.
Fairness ==
    /\ WF_alsaVars(RecThread) /\ WF_alsaVars(PlayThread)
    /\ WF_alsaVars(Handler) /\ SF_alsaVars(ClientReturns)
    /\ WF_alsaVars(EndpointSame /\ (RunsEarly \/ RunsTimer \/ FallsAsleep \/ ReadsSockets \/ GoesRound))
    /\ WF_alsaVars(EndpointSame /\ PipeWakes)
    /\ SF_alsaVars(EndpointSame /\ TimerWakes)
    /\ WF_alsaVars(EndpointSame /\ OtherWakes /\ Watched)
    /\ SF_alsaVars(EndpointSame /\ DeviceReady)

AlsaSpec == AlsaInit /\ [][AlsaNext]_alsaVars /\ Fairness

-----------------------------------------------------------------------------
(* Properties.                                                             *)

\* No thread outlives its stream: the device is never closed or set up again, and
\* never streamed from anew, under a thread that still works in it.
ThreadsJoined ==
    {rec, play} \cap Alive # {} =>
        /\ device # "closed"
        /\ started \/ \E i \in DOMAIN stack : stack[i] = "join"
        /\ Top # "format"

\* The client is told of the end of a stream that it believes in, never of one
\* that it has ended itself or has been told of before.
ToldOnce == Top = "tell" => believes

\* An underrun that a thread has noticed is in m_play_xrun until the client is told.
UnderrunsKept == missed => underrun

Safety == ThreadsJoined /\ ToldOnce /\ UnderrunsKept

\* m_wake_pending is not initialised: if it happens to be TRUE no byte is ever
\* written to the pipe.  This is said of the first state.
Wakes == ~disp.pending

\* Whatever the loop was doing when a thread had read a packet, the client gets
\* it: IndepTimerNotifier::Set wakes the loop, and wakes it again the next time.
PacketsCome == Wakes => (input > 0 ~> input = 0 \/ stuck)

\* SndAsyncStop does not wait for ever for its threads, which may be in the
\* device, wait on the condition or be about to.
StopReturns == Top = "join" ~> Top # "join"

\* A client that streams hears of it when the device is gone, whichever thread
\* finds out and whatever the main thread is doing; but for a device that is only
\* captured from by mapped memory, which nobody asks.
Unasked == access = "mmap" /\ dirs = {"rec"}
EndIsTold == Wakes => (device = "broken" /\ believes /\ ~Unasked ~> ~believes \/ stuck)

\* No event of a thread is slept through.
LoopWakes == PacketsCome /\ EndIsTold
=============================================================================
