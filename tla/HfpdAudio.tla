----------------------------- MODULE HfpdAudio -----------------------------
(***************************************************************************)
(* The audio gateways and the sound stream of hfpd (hfpd/objects.cpp):     *)
(* which D-Bus clients have claimed which gateway, which gateways may      *)
(* connect and open audio, what the sound card streams with, and what the  *)
(* clients have last been told of it.                                      *)
(*                                                                         *)
(* hfpd has one thread and calls nobody back from its own methods, so an   *)
(* action is a method call, a callback of the library or the loss of a     *)
(* D-Bus client, with all it leads to: the methods of AudioGateway and     *)
(* SoundIoObj are operators from a state of the daemon to the next.        *)
(* Underneath, a session is what ScoAudio shows it to be, and the sound    *)
(* manager what SoundManager is: a stream with a gateway that has ended is *)
(* reported by a timer, unless the audio is closed or opened anew first.   *)
(*                                                                         *)
(* Left out: Bluetooth being stopped, the properties that are only stored  *)
(* (HfpdSettings), call state and commands (HfpCommands, CallSetup), and   *)
(* replies that cannot be sent for lack of memory.                         *)
(***************************************************************************)
EXTENDS Naturals, Sequences, FiniteSets, SequencesExt

CONSTANTS
    Gateway,    \* remote devices
    Client,     \* D-Bus clients
    None,
    Options     \* subset of {"acceptunknown", "voicepersist",
                \* "voiceautoconnect"} that may be on

ASSUME OptionsAssumption ==
    Options \subseteq {"acceptunknown", "voicepersist", "voiceautoconnect"}

\* A gateway is none of the other things that a stream or a client can have.
ASSUME GatewayAssumption ==
    /\ IsFiniteSet(Gateway)
    /\ None \notin Gateway \cup Client \cup {"File", "Membuf"}
    /\ Gateway \cap {"File", "Membuf", "stream"} = {}

VARIABLE d

\* A gateway and its session.
GatewayInit ==
    [exists |-> FALSE,
     known |-> FALSE,           \* m_known
     owner |-> None,            \* m_owner, by its client
     unbind |-> FALSE,          \* m_unbind_on_audio_close
     bind |-> FALSE,            \* m_audio_bind is the SoundIoObj
     conn |-> "Disconnected",   \* State()
     audio |-> "Disconnected",  \* AudioState()
     told |-> "Disconnected",   \* m_audio_state
     watched |-> FALSE,         \* the session waits for its SCO socket
     streams |-> FALSE,         \* SndIsAsyncStarted()
     stop |-> FALSE,            \* cb_NotifyAsyncStop is pending
     voice |-> FALSE]           \* cb_NotifyAudioConnection is pending

\* The SoundIoObj and its manager.
SoundInit ==
    [state |-> "Stopped",       \* m_state
     bound |-> None,            \* m_bound_ag
     holder |-> None,           \* m_state_owner, by its client
     running |-> FALSE,         \* m_sound->IsStarted()
     secondary |-> None,        \* m_sound->GetSecondary()
     dsp |-> TRUE,              \* m_sound->IsDspEnabled()
     membuf |-> FALSE,          \* m_membuf exists
     volume |-> FALSE,          \* a MicVolumeFilter is at the top
     snoop |-> "none",          \* m_snoop
     cut |-> FALSE,             \* the audio under the stream was closed or
                                \* opened anew without a word to the stream
     fault |-> "none"]

Init == \E on \in SUBSET Options :
    d = [ag |-> [a \in Gateway |-> GatewayInit], on |-> on, snd |-> SoundInit]

Idle == {"Stopped", "Connecting"}
Streams == {"AudioGateway", "File", "Loopback", "Membuf"}
Links == {"Disconnected", "Connecting", "Connected"}

TypeOK ==
    /\ \A a \in Gateway :
          /\ d.ag[a].owner \in Client \cup {None}
          /\ {d.ag[a].conn, d.ag[a].audio, d.ag[a].told} \subseteq Links
    /\ d.snd.state \in Idle \cup Streams
    /\ d.snd.bound \in Gateway \cup {None}
    /\ d.snd.holder \in Client \cup {None}
    /\ d.snd.secondary \in Gateway \cup {None, "File", "Membuf"}
    /\ d.snd.snoop \in {"none", "installed", "dangling"}

\* The assertion p holds; the first that does not is remembered.
Checked(r, p, name) ==
    IF p \/ r.snd.fault # "none" THEN r ELSE [r EXCEPT !.snd.fault = name]

-----------------------------------------------------------------------------
(* The session, as ScoAudio has it.                                        *)

\* SndClose withdraws what is pending.
SndClose(r, a) ==
    [r EXCEPT !.ag[a] = [@ EXCEPT !.audio = "Disconnected", !.watched = FALSE,
                                  !.streams = FALSE, !.stop = FALSE, !.voice = FALSE],
              !.snd.cut = @ \/ r.ag[a].streams \/ r.ag[a].stop]

\* SndOpen or an inbound connection forgets a stop that is pending.
Opened(r, a, audio) ==
    [r EXCEPT !.ag[a] = [@ EXCEPT !.audio = audio, !.watched = (audio = "Connecting"),
                                  !.stop = FALSE, !.voice = FALSE],
              !.snd.cut = @ \/ r.ag[a].stop]

\* Mutant: the audio is left to its device.
DisconnectKeepsAudio(r, a) == [r EXCEPT !.ag[a].conn = "Disconnected"]

\* Mutant: the stream is not told.
DisconnectSilent(r, a) ==
    [r EXCEPT !.ag[a] = [@ EXCEPT !.conn = "Disconnected", !.audio = "Disconnected",
                                  !.watched = FALSE, !.streams = FALSE, !.voice = FALSE]]

\* HfpSession::Disconnect; the stream is told by a timer.
SessionDisconnect(r, a) ==
    [r EXCEPT !.ag[a] = [@ EXCEPT !.conn = "Disconnected", !.audio = "Disconnected",
                                  !.watched = FALSE, !.streams = FALSE,
                                  !.stop = r.ag[a].stop \/ r.ag[a].streams,
                                  !.voice = FALSE]]

\* SoundIoManager::Stop.  The pump stops its secondary endpoint whether that
\* still streams or not.
StopsAll(r, which) ==
    [r EXCEPT !.snd.running = FALSE,
              !.ag = [a \in Gateway |->
                         IF a \in which
                         THEN [@[a] EXCEPT !.streams = FALSE, !.watched = FALSE, !.stop = FALSE]
                         ELSE @[a]]]

SoundStop(r) == IF r.snd.running THEN StopsAll(r, {r.snd.secondary}) ELSE r

-----------------------------------------------------------------------------
(* Releasing the stream.                                                   *)

\* NotifyConnection of a gateway with no audio and no stream waiting for it.
Parted(r, a) == [r EXCEPT !.ag[a].unbind = FALSE, !.ag[a].told = "Disconnected"]

\* NotifyAudioConnection of a gateway with no audio and no stream waiting for
\* it.
AudioClosed(r, a) ==
    IF r.ag[a].unbind THEN Parted(SessionDisconnect(r, a), a)
    ELSE [r EXCEPT !.ag[a].told = "Disconnected"]

\* The end of EpRelease for a gateway.
UnboundFrom(r, a) ==
    [AudioClosed([SndClose(r, a) EXCEPT !.ag[a].bind = FALSE], a) EXCEPT
        !.snd.bound = None, !.snd.cut = FALSE]

Unbound(r) ==
    IF r.snd.bound = None THEN Checked(r, FALSE, "NoGateway") ELSE UnboundFrom(r, r.snd.bound)

Cleared(r) == [SoundStop(r) EXCEPT !.snd.secondary = None]

\* Mutant: the client is forgotten, but the stream stays its own.
UnheldStays(r) == r

Unheld(r) == [r EXCEPT !.snd.holder = None]

\* RemoveTop takes the snoop filter when there is no volume filter above it.
TopRemoved(r) ==
    [r EXCEPT !.snd.volume = FALSE,
              !.snd.snoop = IF ~r.snd.volume /\ @ = "installed" THEN "dangling" ELSE @]

Released(r, state) ==
    CASE state = "Stopped" ->
            Checked(r, /\ ~r.snd.running /\ r.snd.secondary = None /\ r.snd.dsp
                       /\ r.snd.bound = None /\ r.snd.holder = None, "NotStopped")
      [] state = "AudioGateway" ->
            Unbound(Cleared(Checked(r, r.snd.secondary = r.snd.bound /\ r.snd.dsp, "OtherSecondary")))
      [] state = "Connecting" ->
            Unbound(Checked(r, r.snd.secondary = None /\ r.snd.dsp, "SecondarySet"))
      [] state = "File" ->
            Unheld([Cleared(Checked(r, r.snd.secondary # None /\ ~r.snd.dsp, "NoFile")) EXCEPT
                       !.snd.dsp = TRUE])
      [] state = "Loopback" ->
            Unheld(SoundStop(Checked(r, r.snd.secondary = None, "SecondarySet")))
      [] state = "Membuf" ->
            Unheld(TopRemoved(Cleared(Checked(r, r.snd.membuf /\ r.snd.secondary = "Membuf", "NoMembuf"))))

\* EpRelease
EpRelease(r, state) == [Released(r, state) EXCEPT !.snd.state = "Stopped"]

\* The stream is stopped and the card free, as EpRelease asserts when called
\* again.
EpStopped(r) == EpRelease(EpRelease(r, r.snd.state), "Stopped")

-----------------------------------------------------------------------------
(* A stream with a gateway.                                                *)

\* The stream is fitted with a, and started if it can be.
Fitted(r, a, starts) ==
    IF ~starts THEN EpRelease(r, "AudioGateway")
    ELSE [r EXCEPT !.snd.running = TRUE, !.ag[a].streams = TRUE, !.snd.state = "AudioGateway"]

\* Mutant: the stream that is being set up stays when the audio fails.
CompleteWaits(r, a, starts) ==
    IF r.ag[a].audio = "Disconnected"
    THEN [r EXCEPT !.ag[a].bind = FALSE]
    ELSE IF r.ag[a].audio = "Connecting"
    THEN [r EXCEPT !.snd.state = "Connecting", !.ag[a].told = "Connecting"]
    ELSE Fitted([r EXCEPT !.ag[a].bind = FALSE, !.snd.secondary = a], a, starts)

\* EpAudioGatewayComplete
EpAudioGatewayComplete(r, a, starts) ==
    CASE r.snd.bound # a -> Checked(r, FALSE, "OtherGateway")
      [] r.snd.bound = a /\ r.ag[a].audio = "Disconnected" ->
            EpRelease([r EXCEPT !.ag[a].bind = FALSE], r.snd.state)
      [] r.snd.bound = a /\ r.ag[a].audio = "Connecting" ->
            [r EXCEPT !.snd.state = "Connecting", !.ag[a].told = "Connecting"]
      [] r.snd.bound = a /\ r.ag[a].audio = "Connected" ->
            Fitted([Checked(r, r.snd.state \in Idle, "Streaming") EXCEPT
                       !.ag[a].bind = FALSE, !.snd.secondary = a], a, starts)

Bound(r, a) ==
    Checked([r EXCEPT !.snd.bound = a, !.ag[a].bind = TRUE], ~r.ag[a].bind, "Bound")

\* EpAudioGateway: with opens, an audio connection may be made and can be.
Attached(r, a, opens, starts) ==
    IF r.ag[a].audio # "Disconnected" THEN EpAudioGatewayComplete(Bound(r, a), a, starts)
    ELSE IF opens /\ r.ag[a].conn = "Connected"
    THEN EpAudioGatewayComplete(Bound(Opened(r, a, "Connecting"), a), a, starts)
    ELSE r

EpAudioGateway(r, a, opens, starts) == Attached(EpStopped(r), a, opens, starts)

-----------------------------------------------------------------------------
(* Callbacks of a session.                                                 *)

\* Audio that nobody has asked for is refused.
Refuses(r, a) ==
    /\ r.ag[a].owner = None
    /\ ~(r.ag[a].known /\ "voiceautoconnect" \in r.on)
    /\ r.ag[a].audio # "Disconnected"

Told(r, a) == [r EXCEPT !.ag[a].told = r.ag[a].audio]

Heard(r, a) == Told(IF Refuses(r, a) THEN SndClose(r, a) ELSE r, a)

\* The stream that waits for the audio of a.
Completed(r, a, starts) ==
    IF r.ag[a].bind THEN EpAudioGatewayComplete(r, a, starts) ELSE r

\* The audio of a known gateway that nobody has claimed is routed when there
\* is no stream, and closed otherwise, also when the stream is its own.
RoutedOrClosed(r, a) == IF r.snd.state = "Stopped" THEN SndClose(r, a) ELSE r

Routed(r, a, starts) ==
    IF r.snd.state # "Stopped" THEN SndClose(r, a)
    ELSE RoutedOrClosed(EpAudioGateway(r, a, FALSE, starts), a)

Routes(r, a) == r.ag[a].owner = None /\ r.ag[a].known /\ r.ag[a].audio = "Connected"

\* A gateway forgotten while it was streaming goes with its audio.
Unneeded(r, a, closed) ==
    IF r.ag[a].unbind /\ closed THEN Parted(SessionDisconnect(r, a), a) ELSE r

RoutedThenUnneeded(r, a) == Unneeded(r, a, r.ag[a].audio = "Disconnected")

\* What has become of the audio in the meantime is only looked at after it is
\* routed.
HeardOf(r, a, starts) ==
    IF Routes(r, a) THEN RoutedThenUnneeded(Routed(Completed(r, a, starts), a, starts), a)
    ELSE Unneeded(Completed(r, a, starts), a, r.ag[a].audio = "Disconnected")

\* NotifyAudioConnection
NotifyAudioConnection(r, a, starts) == HeardOf(Heard(r, a), a, starts)

Unwelcome(r, a) ==
    /\ "acceptunknown" \notin r.on /\ r.ag[a].owner = None /\ ~r.ag[a].known
    /\ r.ag[a].conn # "Disconnected"

LinkHeard(r, a) ==
    IF r.ag[a].conn # "Disconnected" THEN r
    ELSE NotifyAudioConnection(
            Checked([r EXCEPT !.ag[a].unbind = FALSE],
                    r.ag[a].audio = "Disconnected", "AudioOpen"), a, FALSE)

\* Mutant: a device that is unknown stays connected.
NotifyConnectionAccepts(r, a) == LinkHeard(r, a)

\* NotifyConnection
NotifyConnection(r, a) ==
    LinkHeard(IF Unwelcome(r, a) THEN SessionDisconnect(r, a) ELSE r, a)

DoDisconnect(r, a) == NotifyConnection(SessionDisconnect(r, a), a)

\* NotifySoundStop: the pump has halted, its endpoints stopped.
NotifySoundStop(r) == EpRelease(SoundStop(r), r.snd.state)

\* SndHandleAbort of the session: stop and voice say who is called.
StopHeard(r, stop) == IF stop /\ r.snd.running THEN NotifySoundStop(r) ELSE r

VoiceHeard(r, a, voice) == IF voice THEN NotifyAudioConnection(r, a, FALSE) ELSE r

HandleAbort(r, a, stop, voice) ==
    VoiceHeard(StopHeard([r EXCEPT !.ag[a].stop = FALSE, !.ag[a].voice = FALSE], stop), a, voice)

-----------------------------------------------------------------------------
(* D-Bus clients.                                                          *)

\* Mutant: the connection is persisted without audio.
OwnerGonePersists(r, a) ==
    IF r.ag[a].known \/ r.ag[a].conn = "Disconnected"
    THEN [r EXCEPT !.ag[a].owner = None]
    ELSE IF "voicepersist" \in r.on
    THEN [r EXCEPT !.ag[a].owner = None, !.ag[a].unbind = TRUE]
    ELSE DoDisconnect([r EXCEPT !.ag[a].owner = None], a)

\* Mutant: the gateway of a client that goes stays connected.
OwnerGoneStays(r, a) == [r EXCEPT !.ag[a].owner = None]

\* OwnerDisconnectNotify
OwnerDisconnectNotify(r, a) ==
    IF r.ag[a].known \/ r.ag[a].conn = "Disconnected"
    THEN [r EXCEPT !.ag[a].owner = None]
    ELSE IF r.ag[a].streams /\ "voicepersist" \in r.on
    THEN [r EXCEPT !.ag[a].owner = None, !.ag[a].unbind = TRUE]
    ELSE DoDisconnect([r EXCEPT !.ag[a].owner = None], a)

\* DbusPeerImpl::Disconnected: what the client held, in the order that it came
\* to hold it.  StateOwnerDisconnectNotify releases the stream.
PeerNotified(r, what) ==
    IF what \in Gateway THEN OwnerDisconnectNotify(r, what)
    ELSE EpRelease(r, r.snd.state)

HeldBy(r, c) ==
    {a \in Gateway : r.ag[a].owner = c} \cup {x \in {"stream"} : r.snd.holder = c}

-----------------------------------------------------------------------------
(* Actions: methods of AudioGateway and HandsFree.                         *)

Ok == d.snd.fault = "none"

\* AddDevice.  The claim is kept when the device cannot be saved as known.
AddDevice(c) == Ok /\ \E a \in Gateway, setknown, saves \in BOOLEAN :
    /\ setknown \/ d.ag[a].owner \in {None, c}
    /\ d' = [d EXCEPT !.ag[a] =
                 [d.ag[a] EXCEPT !.exists = TRUE,
                                 !.owner = IF d.ag[a].owner = None THEN c ELSE d.ag[a].owner,
                                 !.known = d.ag[a].known \/ (setknown /\ saves)]]

RemoveDevice(c) == Ok /\ \E a \in Gateway :
    /\ d.ag[a].exists /\ d.ag[a].owner \in {None, c}
    /\ d' = [(IF d.ag[a].known THEN d ELSE DoDisconnect(d, a)) EXCEPT !.ag[a].owner = None]

SetKnown(a) == Ok /\ d.ag[a].exists /\ \E val \in BOOLEAN :
    d' = [d EXCEPT !.ag[a].known = val]

Connect(a) ==
    /\ Ok /\ d.ag[a].exists /\ d.ag[a].conn = "Disconnected"
    /\ d' = [d EXCEPT !.ag[a].conn = "Connecting"]

Disconnect(a) ==
    /\ Ok /\ d.ag[a].exists
    /\ d' = DoDisconnect(d, a)

OpenAudio(a) ==
    /\ Ok /\ d.ag[a].conn = "Connected" /\ d.ag[a].audio = "Disconnected"
    /\ d' = [Opened(d, a, "Connecting") EXCEPT !.ag[a].told = "Connecting"]

CloseAudio(a) ==
    /\ Ok /\ d.ag[a].exists
    /\ d' = NotifyAudioConnection(
                SndClose(IF d.ag[a].streams THEN EpRelease(d, d.snd.state) ELSE d, a), a, FALSE)

-----------------------------------------------------------------------------
(* Actions: methods of SoundIoObj.                                         *)

Stop == Ok /\ d' = EpRelease(d, d.snd.state)

AudioGatewayStart(a) ==
    /\ Ok /\ d.ag[a].exists
    /\ d.snd.bound # a
    /\ \E opens, starts \in BOOLEAN : d' = EpAudioGateway(d, a, opens, starts)

\* FileStart and EpFile, once the file is open.
FileStart(c) == Ok /\ \E starts \in BOOLEAN :
    LET q == [EpStopped(d) EXCEPT !.snd.dsp = FALSE, !.snd.secondary = "File"]
    IN  d' = IF ~starts THEN EpRelease(q, "File")
             ELSE [q EXCEPT !.snd.running = TRUE, !.snd.state = "File", !.snd.holder = c]

LoopbackStart(c) == Ok /\ \E starts \in BOOLEAN :
    LET q == EpStopped(d)
    IN  d' = IF ~starts THEN q
             ELSE [q EXCEPT !.snd.running = TRUE, !.snd.state = "Loopback", !.snd.holder = c]

\* MembufStart and EpMembuf.  A buffer of another size replaces one that may be
\* streaming; a buffer that cannot be opened stays the secondary endpoint.
MembufStart(c) == Ok /\ \E resize, volume, opens, starts \in BOOLEAN :
    LET m == Checked([d EXCEPT !.snd.membuf = TRUE],
                     ~(resize /\ d.snd.state = "Membuf"), "MembufFreed")
        q == [EpStopped(m) EXCEPT !.snd.secondary = "Membuf"]
    IN  d' = IF ~opens THEN q
             ELSE IF ~starts THEN [q EXCEPT !.snd.secondary = None]
             ELSE [q EXCEPT !.snd.running = TRUE, !.snd.state = "Membuf",
                            !.snd.volume = volume, !.snd.holder = c]

MembufClear == Ok /\
    LET q == IF d.snd.state = "Membuf" THEN EpRelease(d, "Membuf") ELSE d
    IN  d' = [Checked(q, q.snd.secondary # "Membuf", "MembufFreed") EXCEPT !.snd.membuf = FALSE]

\* SetSnoopFile: the former filter goes when the new one, if any, is in place.
SetSnoopFile == Ok /\ \E new \in {"none", "installed"} :
    d' = [Checked(d, d.snd.snoop # "dangling", "SnoopFreed") EXCEPT !.snd.snoop = new]

-----------------------------------------------------------------------------
(* Actions: events.                                                        *)

\* RFCOMM: a session is made for a device that connects, when it may be.
Inbound(a) ==
    /\ Ok /\ d.ag[a].conn = "Disconnected"
    /\ d.ag[a].exists \/ "acceptunknown" \in d.on
    /\ d' = NotifyConnection([d EXCEPT !.ag[a].exists = TRUE, !.ag[a].conn = "Connecting"], a)

\* It takes several events, so a timer that is due has run before.
Established(a) ==
    /\ Ok /\ d.ag[a].conn = "Connecting"
    /\ ~d.ag[a].stop
    /\ d' = NotifyConnection([d EXCEPT !.ag[a].conn = "Connected"], a)

\* HfpSession::__Disconnect with a reason: the audio first.
Parts(r, a) ==
    IF r.ag[a].conn = "Disconnected" THEN r
    ELSE NotifyConnection([r EXCEPT !.ag[a].conn = "Disconnected"], a)

LinkLost(a) ==
    /\ Ok /\ d.ag[a].conn # "Disconnected"
    /\ d' = Parts(HandleAbort(
                [d EXCEPT !.ag[a] = [@ EXCEPT !.audio = "Disconnected",
                                              !.watched = FALSE, !.streams = FALSE]],
                a, d.ag[a].stop \/ d.ag[a].streams,
                d.ag[a].voice \/ d.ag[a].audio # "Disconnected"), a)

\* ScoListenNotify
AudioInbound(a) ==
    /\ Ok /\ d.ag[a].conn = "Connected" /\ d.ag[a].audio = "Disconnected"
    /\ \E starts \in BOOLEAN : d' = NotifyAudioConnection(Opened(d, a, "Connected"), a, starts)

\* ScoConnectNotify
AudioAnswered(a) ==
    /\ Ok /\ d.ag[a].watched
    /\ \E audio \in {"Connected", "Disconnected"}, starts \in BOOLEAN :
          d' = NotifyAudioConnection(
                  [d EXCEPT !.ag[a].audio = audio, !.ag[a].watched = FALSE], a, starts)

\* The audio connection is lost, which is noticed while it is streamed.
AudioLost(a) ==
    /\ Ok /\ d.ag[a].streams
    /\ d' = [d EXCEPT !.ag[a] = [@ EXCEPT !.audio = "Disconnected", !.streams = FALSE,
                                          !.stop = TRUE, !.voice = TRUE]]

\* BufAsyncAbort
AbortTimeout(a) ==
    /\ Ok /\ (d.ag[a].stop \/ d.ag[a].voice)
    /\ d' = HandleAbort(d, a, d.ag[a].stop, d.ag[a].voice)

\* The card has failed, the file has been played, or the watchdog has barked.
SoundFails == Ok /\ d.snd.running /\ d' = NotifySoundStop(d)

PeerDisconnected(c) == Ok /\ HeldBy(d, c) # {} /\
    \E order \in SetToSeqs(HeldBy(d, c)) :
        d' = FoldLeft(PeerNotified, d, order)

\* NotifyDestroy: nobody refers to the session any more.
Destroyed(a) ==
    /\ Ok /\ d.ag[a].exists /\ d.ag[a].conn = "Disconnected"
    /\ d.ag[a].owner = None /\ ~d.ag[a].known /\ d.snd.bound # a
    /\ d' = [d EXCEPT !.ag[a] = GatewayInit]

Next ==
    \/ \E c \in Client :
          \/ AddDevice(c) \/ RemoveDevice(c) \/ PeerDisconnected(c)
          \/ FileStart(c) \/ LoopbackStart(c) \/ MembufStart(c)
    \/ \E a \in Gateway :
          \/ SetKnown(a) \/ Connect(a) \/ Disconnect(a) \/ OpenAudio(a) \/ CloseAudio(a)
          \/ AudioGatewayStart(a)
          \/ Inbound(a) \/ Established(a) \/ LinkLost(a) \/ Destroyed(a)
          \/ AudioInbound(a) \/ AudioAnswered(a) \/ AudioLost(a) \/ AbortTimeout(a)
    \/ Stop \/ MembufClear \/ SetSnoopFile \/ SoundFails

Spec == Init /\ [][Next]_d

-----------------------------------------------------------------------------
(* Properties.                                                             *)

\* What is streamed with, who waits for whom and who holds the stream agree
\* with the state that clients see, whatever becomes of gateways, clients and
\* the card.  A stream with a gateway has its audio, or its end is still to be
\* reported, unless the audio was closed or opened anew under it (EpRelease,
\* EpAudioGateway, NotifyAudioConnection).
StreamHasAudio ==
    Ok => /\ d.snd.running <=> d.snd.state \in Streams
          /\ d.snd.bound # None <=> d.snd.state \in {"Connecting", "AudioGateway"}
          /\ d.snd.state = "AudioGateway" => d.snd.secondary = d.snd.bound
          /\ \A a \in Gateway : d.ag[a].bind <=> d.snd.state = "Connecting" /\ d.snd.bound = a
          /\ d.snd.holder # None <=> d.snd.state \in {"File", "Loopback", "Membuf"}
          /\ d.snd.dsp <=> d.snd.state # "File"
          /\ d.snd.state = "AudioGateway" =>
                d.ag[d.snd.bound].streams \/ d.ag[d.snd.bound].stop \/ d.snd.cut

\* Audio that is open, or is being opened, belongs to a connected gateway.  One
\* that is to be disconnected when its audio closes is still connected, and the
\* stream has that audio or the session has still to report that it closed,
\* unless it was closed or opened anew under the stream
\* (OwnerDisconnectNotify, NotifyAudioConnection, EpRelease).
AudioOnlyWhenConnected ==
    Ok => \A a \in Gateway :
        /\ d.ag[a].audio # "Disconnected" => d.ag[a].conn = "Connected"
        /\ d.ag[a].unbind => d.ag[a].conn # "Disconnected"
        /\ d.ag[a].unbind /\ d.snd.bound # a => d.ag[a].voice \/ d.snd.cut

\* A device that nobody has claimed or knows only connects when unknown devices
\* are accepted, also when its owner goes, or it is forgotten, while it connects
\* (NotifyConnection).
StrangersRefused ==
    [][\A a \in Gateway :
          d'.ag[a].conn = "Connected" /\ d.ag[a].conn # "Connected" =>
             "acceptunknown" \in d.on \/ d.ag[a].owner # None \/ d.ag[a].known]_d

\* A gateway that nobody has claimed or knows, and that is not disconnected.
Lingers(r, a) ==
    r.ag[a].owner = None /\ ~r.ag[a].known /\ r.ag[a].conn # "Disconnected"

\* "If the device is connecting or connected, and is not permanently known to
\* HFPD, and does not have a persisting audio connection, it will be
\* disconnected" when its client goes (hfpd-dbus-doc.cs): whatever else the
\* client held, in whatever order that is released, and when it gives the
\* gateway up itself.  A gateway only comes to linger by connecting, which
\* StrangersRefused is about, by being forgotten when nobody has claimed it, or
\* for the audio it streams, and is then noted to go with that
\* (OwnerDisconnectNotify, RemoveDevice, SetKnown, NotifyConnection).
StrangersLeave ==
    [][\A a \in Gateway :
          Lingers(d', a) /\ ~Lingers(d, a) =>
             \/ d.ag[a].conn = "Disconnected"
             \/ d.ag[a].known /\ d.ag[a].owner = None
             \/ d.ag[a].streams /\ "voicepersist" \in d.on /\ d'.ag[a].unbind]_d

\* The assertions about gateways never fail: only memory buffers and the
\* filters around them can bring the daemon down.
OnlyMembufFaults ==
    d.snd.fault \in {"none", "NotStopped", "MembufFreed", "SnoopFreed"}

\* Streams, audio connections and gateways agree with each other.
AudioAgrees == StreamHasAudio /\ AudioOnlyWhenConnected
=============================================================================
