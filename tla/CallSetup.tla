------------------------------ MODULE CallSetup ------------------------------
(***************************************************************************)
(* The call state of HfpSession (libhfp/hfp.cpp): whether a call is        *)
(* established, the incomplete call, and the identity of its caller.       *)
(*                                                                         *)
(* The audio gateway reports these with indicators, RING, +CLIP and +CCWA  *)
(* lines, in any order and incompletely, so the session presumes a state   *)
(* from each event and puts a time limit on its presumption; and it holds  *)
(* a ring back for a moment to report it together with the caller.         *)
(*                                                                         *)
(* Every function ends with its callback, or looks at the connection after *)
(* it, and in it a client can do nothing to this state at once but         *)
(* disconnect, which resets all of it: each action is a whole function     *)
(* with its callbacks, and Disconnect may follow it.                       *)
(***************************************************************************)
EXTENDS Naturals

CONSTANTS
    Callers,    \* the identities of callers
    NoClip      \* none

ASSUME CallersAssumption == NoClip \notin Callers

VARIABLES
    connected,      \* IsConnected()
    call,           \* m_state_call
    callsetup,      \* m_state_callsetup: 0 none, 1 incoming, 2 and 3 outgoing
    presumed,       \* m_callsetup_presumed
    timer,          \* m_timer is set
    clip,           \* m_clip_state
    clipValue,      \* m_clip_value
    clipTimer,      \* m_clip_timer is set
    clipEnabled,    \* m_clip_enabled
    told,           \* call and callsetup when the client was last called
    sent            \* the call command that is with the device: "Dial" one
                    \* that starts a call, "Clear" one that ends or answers

vars == <<connected, call, callsetup, presumed, timer, clip, clipValue,
          clipTimer, clipEnabled, told, sent>>

Calls == [call : BOOLEAN, callsetup : 0 .. 3]

TypeOK ==
    /\ connected \in BOOLEAN /\ call \in BOOLEAN /\ presumed \in BOOLEAN
    /\ timer \in BOOLEAN /\ clipTimer \in BOOLEAN /\ clipEnabled \in BOOLEAN
    /\ callsetup \in 0 .. 3
    /\ clip \in {"Unknown", "Waiting", "Final"}
    /\ clipValue \in Callers \cup {NoClip}
    /\ told \in Calls
    /\ sent \in {"none", "Dial", "Clear"}

Init ==
    /\ connected = FALSE /\ call = FALSE /\ callsetup = 0
    /\ presumed = FALSE /\ timer = FALSE
    /\ clip = "Unknown" /\ clipValue = NoClip /\ clipTimer = FALSE
    /\ clipEnabled = FALSE
    /\ told = [call |-> FALSE, callsetup |-> 0]
    /\ sent = "none"

-----------------------------------------------------------------------------
(* UpdateCallSetup.  Its caller may have changed m_state_call and          *)
(* m_clip_state, and a timer that has expired is not set any more: now is  *)
(* what it starts from.                                                    *)

Now == [call |-> call, timer |-> timer, clip |-> clip, clipTimer |-> clipTimer]

\* Mutant: a presumption is not renewed.
PresumesOnce(val, timed) == connected /\ timed /\ callsetup # val

\* The new state is presumed, and the timer set.
Presumes(val, timed) == connected /\ timed /\ (presumed \/ callsetup # val)

\* Mutant: the timer is not set again when a presumption is renewed.
ArmsFirst(val, timed) == Presumes(val, timed) /\ ~presumed

Arms(val, timed) == Presumes(val, timed)

\* Mutant: an outgoing call does not clear the identity of an incoming one.
ClearsIncoming(val) == val = 0 \/ (val = 1 /\ callsetup \in {2, 3})

\* ClearClip is called.
Clears(val) ==
    \/ val = 0
    \/ val = 1 /\ callsetup \in {2, 3}
    \/ val \in {2, 3} /\ callsetup = 1

ClearedClip(now, val) == IF Clears(val) THEN "Unknown" ELSE now.clip

\* m_clip_state at the end.
NextClip(now, val, ring, caller) ==
    CASE val = 0 -> "Unknown"
      [] val \in {2, 3} \/ caller # NoClip -> "Final"
      [] OTHER -> IF ClearedClip(now, val) = "Unknown" /\ ring # 0
                  THEN IF clipEnabled THEN "Waiting" ELSE "Final"
                  ELSE ClearedClip(now, val)

\* m_clip_value at the end.
NextValue(val, caller) ==
    IF caller # NoClip THEN caller
    ELSE IF Clears(val) THEN NoClip ELSE clipValue

\* A wait for the caller that starts sets the timer, one that ends cancels it.
NextClipTimer(now, next) ==
    IF next = now.clip THEN now.clipTimer
    ELSE next = "Waiting" \/ (now.clipTimer /\ now.clip # "Waiting")

\* A ring (1) means that there is no call, a second call (2) that there is.
NextCall(now, ring) == CASE ring = 1 -> FALSE [] ring = 2 -> TRUE [] OTHER -> now.call

\* Mutant: the client is not told of a call that ends or starts.
NotifiesSetup(now, val, ring, caller) == val # callsetup

\* cb_NotifyCall is invoked.
Notifies(now, val, ring, caller) ==
    \/ NextCall(now, ring) # now.call
    \/ val # callsetup
    \/ ClearedClip(now, val) = "Waiting" /\ caller # NoClip
    \/ ClearedClip(now, val) = "Final" /\ caller \notin {NoClip, clipValue}
    \/ ring # 0 /\ NextClip(now, val, ring, caller) = "Final"

UpdateCallSetup(now, val, ring, caller, timed) ==
    /\ presumed' = Presumes(val, timed)
    /\ timer' = (Arms(val, timed) \/ (now.timer /\ ~presumed))
    /\ clip' = NextClip(now, val, ring, caller)
    /\ clipValue' = NextValue(val, caller)
    /\ clipTimer' = NextClipTimer(now, clip')
    /\ call' = NextCall(now, ring)
    /\ callsetup' = val
    /\ told' = IF connected /\ Notifies(now, val, ring, caller)
               THEN [call |-> call', callsetup |-> callsetup'] ELSE told

\* The rest of the state.
Goes == UNCHANGED <<connected, clipEnabled, sent>>

-----------------------------------------------------------------------------
(* The connection, and the commands of the client (CmdDial, CmdRedial,     *)
(* CmdAnswer, CmdHangUp, CmdCallDropHeldUdub).                             *)

\* HfpHandshakeDone; the AG may have refused AT+CLIP.
HandshakeDone ==
    /\ ~connected
    /\ connected' = TRUE
    /\ clipEnabled' \in BOOLEAN
    /\ told' = [call |-> call, callsetup |-> callsetup]
    /\ UNCHANGED <<call, callsetup, presumed, timer, clip, clipValue, clipTimer, sent>>

\* __Disconnect and, in NotifyConnectionState, UpdateCallSetup(0), at which
\* the session is not connected any more and the client is not told.
Reset ==
    /\ connected' = FALSE
    /\ clipEnabled' = FALSE
    /\ call' = FALSE /\ callsetup' = 0
    /\ presumed' = FALSE /\ timer' = (timer /\ ~presumed)
    /\ clip' = "Unknown" /\ clipValue' = NoClip
    /\ clipTimer' = (clipTimer /\ clip # "Waiting")
    /\ sent' = "none"
    /\ UNCHANGED told

Disconnect ==
    /\ connected
    /\ Reset

Command(kind) ==
    /\ connected /\ sent = "none"
    /\ sent' = kind
    /\ UNCHANGED <<connected, call, callsetup, presumed, timer, clip, clipValue,
                   clipTimer, clipEnabled, told>>

-----------------------------------------------------------------------------
(* Lines from the device, and OK to a command (UpdateIndicator,            *)
(* ResponseDefault, AtdCommand, AtCommandClearCallSetup).                  *)

\* A client is told of the call first.
CallIndicator(new) ==
    /\ connected /\ new # call
    /\ IF new /\ presumed
       THEN UpdateCallSetup([Now EXCEPT !.call = new], 0, 0, NoClip, FALSE)
       ELSE /\ call' = new
            /\ told' = [call |-> new, callsetup |-> callsetup]
            /\ UNCHANGED <<callsetup, presumed, timer, clip, clipValue, clipTimer>>
    /\ Goes

Recognised == 0 .. 3

\* The value 1 is not trusted.  One that is not recognised disconnects, after
\* the presumption has been dropped.
CallSetupIndicator(val) ==
    /\ connected /\ val # 1
    /\ IF val \in Recognised
       THEN UpdateCallSetup(Now, val, 0, NoClip, FALSE)
            /\ Goes
       ELSE Reset

ServiceLost ==
    /\ connected
    /\ UpdateCallSetup([Now EXCEPT !.call = FALSE, !.timer = FALSE],
                       0, 0, NoClip, FALSE)
    /\ Goes

Ring ==
    /\ connected
    /\ UpdateCallSetup(Now, 1, 1, NoClip, TRUE)
    /\ Goes

\* +CLIP; a line that cannot be parsed has no caller.
Clip(caller) ==
    /\ connected
    /\ UpdateCallSetup(Now, 1, 0, caller, TRUE)
    /\ Goes

\* +CCWA: a call waits while another is established.
CallWaiting(caller) ==
    /\ connected
    /\ UpdateCallSetup(Now, 1, 2, caller, TRUE)
    /\ Goes

HasConnectingCall == callsetup > 1 /\ ~call

\* OK to ATD or AT+BLDN.
Dialed ==
    /\ sent = "Dial"
    /\ sent' = "none"
    /\ IF HasConnectingCall
       THEN UNCHANGED <<call, callsetup, presumed, timer, clip, clipValue,
                        clipTimer, told>>
       ELSE UpdateCallSetup(Now, 2, 0, NoClip, TRUE)
    /\ UNCHANGED <<connected, clipEnabled>>

\* OK to ATA, AT+CHUP or AT+CHLD=0.
ClearCallSetup ==
    /\ sent = "Clear"
    /\ sent' = "none"
    /\ UpdateCallSetup(Now, 0, 0, NoClip, FALSE)
    /\ UNCHANGED <<connected, clipEnabled>>

\* ERROR to either.
Refused ==
    /\ sent # "none"
    /\ sent' = "none"
    /\ UNCHANGED <<connected, call, callsetup, presumed, timer, clip, clipValue,
                   clipTimer, clipEnabled, told>>

-----------------------------------------------------------------------------
(* Timers.                                                                 *)

Timeout ==
    /\ timer
    /\ UpdateCallSetup([Now EXCEPT !.timer = FALSE], 0, 0, NoClip, FALSE)
    /\ Goes

\* The caller is not known: the ring is reported without.
ClipTimeout ==
    /\ clipTimer
    /\ UpdateCallSetup([Now EXCEPT !.clip = "Final", !.clipTimer = FALSE],
                       1, 1, NoClip, TRUE)
    /\ Goes

-----------------------------------------------------------------------------
Line ==
    \/ \E new \in BOOLEAN : CallIndicator(new)
    \/ \E val \in 0 .. 4 : CallSetupIndicator(val)
    \/ ServiceLost \/ Ring
    \/ \E caller \in Callers \cup {NoClip} : Clip(caller) \/ CallWaiting(caller)
    \/ Dialed \/ ClearCallSetup \/ Refused

Next ==
    \/ HandshakeDone \/ Disconnect
    \/ \E kind \in {"Dial", "Clear"} : Command(kind)
    \/ Line \/ Timeout \/ ClipTimeout

Spec == Init /\ [][Next]_vars

(* A timer that stays set expires.                                         *)
Fairness == WF_vars(Timeout) /\ WF_vars(ClipTimeout)

FairSpec == Spec /\ Fairness

-----------------------------------------------------------------------------
(* Properties.                                                             *)

\* Each timer runs exactly while what it limits lasts, so that neither expires
\* when its handler's assertions would fail, and a waiting call is always a
\* presumption: no line of the device can leave the session ringing without a
\* time limit (hfp.cpp Timeout, ClipTimeout, UpdateCallSetup).
TimersMatch ==
    /\ timer <=> presumed
    /\ presumed => connected /\ callsetup # 0
    /\ callsetup = 1 => presumed
    /\ clipTimer <=> clip = "Waiting"
    /\ clip = "Waiting" => connected /\ callsetup = 1

\* WaitingCallIdentity() is of the incoming call that waits: never of an
\* earlier one, nor shown with an outgoing call, nor while it is awaited
\* (hfp.cpp ClearClip, UpdateCallSetup).
CallerIsWaiting ==
    clipValue # NoClip => callsetup = 1 /\ clip = "Final"

\* cb_NotifyCall tells the client of every change of the incomplete call and
\* of every call that is established.  It is not told that a call has ended
\* when the device loses its service (hfp.cpp UpdateIndicator, UpdateCallSetup).
ClientKnows ==
    connected => told.callsetup = callsetup /\ (call => told.call)

\* Once the device says no more, whatever is presumed ends, and every call
\* that waits (hfp.cpp Timeout).
PresumptionsEnd ==
    <>[][~Line]_vars => <>[](~presumed /\ callsetup # 1)
=============================================================================
