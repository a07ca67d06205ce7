--------------------------- MODULE CallSetupProofs ---------------------------
(***************************************************************************)
(* Proofs about CallSetup: whatever the device sends in whatever order,    *)
(* and whatever the lengths of the timeouts, the timers match what they    *)
(* limit, the identity shown is that of the waiting caller, and the client *)
(* knows the incomplete call.                                              *)
(*                                                                         *)
(* The invariants are inductive together.  Nearly every action is a use of *)
(* UpdateCallSetup, which is dealt with once, under the conditions its     *)
(* callers meet (Ready).                                                   *)
(***************************************************************************)
EXTENDS CallSetup, TLAPS

\* A command is only with the device while the session is connected.
CommandsConnected == sent # "none" => connected

IInv == /\ TypeOK
        /\ TimersMatch
        /\ CallerIsWaiting
        /\ ClientKnows
        /\ CommandsConnected

Start == [call : BOOLEAN, timer : BOOLEAN, clip : {"Unknown", "Waiting", "Final"},
          clipTimer : BOOLEAN]

\* What the callers of UpdateCallSetup guarantee.
Ready(now, val, ring, caller, timed) ==
    /\ connected
    /\ now \in Start
    /\ val \in 0 .. 3 /\ ring \in 0 .. 2 /\ caller \in Callers \cup {NoClip}
    /\ timed \in BOOLEAN
    /\ now.timer => presumed
    /\ now.clipTimer <=> now.clip = "Waiting"
    /\ now.clip = "Waiting" => callsetup = 1
    /\ clipValue # NoClip => now.clip = "Final"
    /\ now.call => told.call \/ callsetup # val
    /\ timed => val # 0
    /\ val = 1 => timed
    /\ ring # 0 \/ caller # NoClip => val = 1

\* What they do besides.
Rest ==
    /\ UNCHANGED <<connected, clipEnabled>>
    /\ sent' \in {sent, "none"}

-----------------------------------------------------------------------------
(* UpdateCallSetup.                                                        *)

LEMMA UpdateTypes ==
    ASSUME TypeOK, NEW now, NEW val, NEW ring, NEW caller, NEW timed,
           Ready(now, val, ring, caller, timed),
           UpdateCallSetup(now, val, ring, caller, timed), Rest
    PROVE  TypeOK'
<1> USE DEF Ready, TypeOK
<1>1. presumed' \in BOOLEAN /\ timer' \in BOOLEAN
  BY DEF UpdateCallSetup, Presumes, Arms
<1>2. clip' \in {"Unknown", "Waiting", "Final"}
  <2>1. clip' = NextClip(now, val, ring, caller)
    BY DEF UpdateCallSetup
  <2>2. ClearedClip(now, val) \in {"Unknown", "Waiting", "Final"}
    BY DEF ClearedClip, Start
  <2> QED
    BY <2>1, <2>2 DEF NextClip
<1>3. clipValue' \in Callers \cup {NoClip}
  BY DEF UpdateCallSetup, NextValue
<1>4. clipTimer' \in BOOLEAN
  <2>1. now.clipTimer \in BOOLEAN
    BY DEF Start
  <2>2. clipTimer' = NextClipTimer(now, clip')
    BY DEF UpdateCallSetup
  <2> QED
    BY <2>1, <2>2 DEF NextClipTimer
<1>5. call' \in BOOLEAN
  <2>1. now.call \in BOOLEAN
    BY DEF Start
  <2>2. call' = NextCall(now, ring)
    BY DEF UpdateCallSetup
  <2> QED
    BY <2>1, <2>2 DEF NextCall
<1>6. callsetup' \in 0 .. 3
  BY DEF UpdateCallSetup
<1>7. told' \in Calls
  BY <1>5, <1>6 DEF UpdateCallSetup, Calls
<1>8. connected' \in BOOLEAN /\ clipEnabled' \in BOOLEAN
      /\ sent' \in {"none", "Dial", "Clear"}
  BY DEF Rest
<1> QED
  BY <1>1, <1>2, <1>3, <1>4, <1>5, <1>6, <1>7, <1>8

\* The clip state and its timer, in terms of what the properties say of them.
LEMMA UpdateClip ==
    ASSUME TypeOK, NEW now, NEW val, NEW ring, NEW caller, NEW timed,
           Ready(now, val, ring, caller, timed),
           UpdateCallSetup(now, val, ring, caller, timed)
    PROVE  /\ clipTimer' <=> clip' = "Waiting"
           /\ clip' = "Waiting" => val = 1
           /\ clipValue' # NoClip => val # 0
           /\ clipValue' # NoClip => clip' = "Final"
<1> USE DEF Ready
<1>1. clip' = NextClip(now, val, ring, caller)
  BY DEF UpdateCallSetup
<1>2. clipTimer' = NextClipTimer(now, clip')
  BY DEF UpdateCallSetup
<1>3. clipValue' = NextValue(val, caller)
  BY DEF UpdateCallSetup
<1>4. now.clipTimer \in BOOLEAN /\ now.clip \in {"Unknown", "Waiting", "Final"}
  BY DEF Start
<1>5. val \in {0, 1, 2, 3}
  OBVIOUS
<1>6. clip' = "Waiting" => val = 1
  BY <1>1, <1>5 DEF NextClip
<1>7. clipTimer' <=> clip' = "Waiting"
  BY <1>2, <1>4 DEF NextClipTimer
<1>8. clipValue' # NoClip => val # 0 /\ clip' = "Final"
  BY <1>1, <1>3, <1>4, <1>5 DEF NextClip, NextValue, ClearedClip, Clears
<1> QED
  BY <1>6, <1>7, <1>8

\* The identity is dropped when the incomplete call is not an incoming one.
LEMMA UpdateCaller ==
    ASSUME TypeOK, CallerIsWaiting,
           NEW now, NEW val, NEW ring, NEW caller, NEW timed,
           Ready(now, val, ring, caller, timed),
           UpdateCallSetup(now, val, ring, caller, timed)
    PROVE  CallerIsWaiting'
<1> USE DEF Ready
<1>1. clipValue' = NextValue(val, caller) /\ callsetup' = val
  BY DEF UpdateCallSetup
<1>2. clipValue' # NoClip => clip' = "Final"
  BY UpdateClip
<1>3. val \in {0, 1, 2, 3}
  OBVIOUS
<1>4. clipValue' # NoClip => val = 1
  BY <1>1, <1>3 DEF NextValue, Clears, CallerIsWaiting
<1> QED
  BY <1>1, <1>2, <1>4 DEF CallerIsWaiting

LEMMA UpdateTimers ==
    ASSUME TypeOK, TimersMatch,
           NEW now, NEW val, NEW ring, NEW caller, NEW timed,
           Ready(now, val, ring, caller, timed),
           UpdateCallSetup(now, val, ring, caller, timed), Rest
    PROVE  TimersMatch'
<1> USE DEF Ready
<1>1. callsetup' = val /\ connected' = connected
  BY DEF UpdateCallSetup, Rest
<1>2. presumed' = (connected /\ timed /\ (presumed \/ callsetup # val))
  BY DEF UpdateCallSetup, Presumes
<1>3. timer' = (presumed' \/ (now.timer /\ ~presumed))
  BY DEF UpdateCallSetup, Arms
<1>4. timer' <=> presumed'
  BY <1>3
<1>5. presumed' => connected' /\ callsetup' # 0
  BY <1>1, <1>2
<1>6. callsetup' = 1 => presumed'
  BY <1>1, <1>2 DEF TimersMatch
<1>7. (clipTimer' <=> clip' = "Waiting") /\ (clip' = "Waiting" => val = 1)
  BY UpdateClip
<1> QED
  BY <1>1, <1>4, <1>5, <1>6, <1>7 DEF TimersMatch

LEMMA UpdateTold ==
    ASSUME TypeOK, ClientKnows,
           NEW now, NEW val, NEW ring, NEW caller, NEW timed,
           Ready(now, val, ring, caller, timed),
           UpdateCallSetup(now, val, ring, caller, timed)
    PROVE  ClientKnows'
<1> USE DEF Ready
<1>1. callsetup' = val /\ call' = NextCall(now, ring)
  BY DEF UpdateCallSetup
<1>2. CASE Notifies(now, val, ring, caller)
  <2>1. told' = [call |-> call', callsetup |-> callsetup']
    BY <1>2 DEF UpdateCallSetup
  <2> QED
    BY <2>1 DEF ClientKnows
<1>3. CASE ~Notifies(now, val, ring, caller)
  <2>1. told' = told
    BY <1>3 DEF UpdateCallSetup
  <2>2. NextCall(now, ring) = now.call /\ val = callsetup
    BY <1>3 DEF Notifies
  <2> QED
    BY <1>1, <2>1, <2>2 DEF ClientKnows
<1> QED
  BY <1>2, <1>3

LEMMA UpdatePreserves ==
    ASSUME IInv, NEW now, NEW val, NEW ring, NEW caller, NEW timed,
           Ready(now, val, ring, caller, timed),
           UpdateCallSetup(now, val, ring, caller, timed), Rest
    PROVE  IInv'
<1>1. TypeOK' /\ TimersMatch' /\ CallerIsWaiting' /\ ClientKnows'
  BY UpdateTypes, UpdateTimers, UpdateCaller, UpdateTold DEF IInv
<1>2. CommandsConnected'
  BY DEF Rest, IInv, CommandsConnected
<1> QED
  BY <1>1, <1>2 DEF IInv

-----------------------------------------------------------------------------
(* The actions.                                                            *)

LEMMA InitInv == Init => IInv
<1> SUFFICES ASSUME Init PROVE IInv
  OBVIOUS
<1>1. TypeOK
  <2>1. told \in Calls
    BY DEF Init, Calls
  <2>2. callsetup \in 0 .. 3
    BY DEF Init
  <2> QED
    BY <2>1, <2>2, Zenon DEF Init, TypeOK
<1>2. TimersMatch /\ CallerIsWaiting
  BY DEF Init, TimersMatch, CallerIsWaiting
<1>3. ClientKnows
  BY DEF Init, ClientKnows
<1>4. CommandsConnected
  BY DEF Init, CommandsConnected
<1> QED
  BY <1>1, <1>2, <1>3, <1>4 DEF IInv

\* A call of UpdateCallSetup that leaves the state it starts from alone.
LEMMA NowStart ==
    ASSUME IInv
    PROVE  /\ Now \in Start
           /\ Now.call => told.call \/ ~connected
           /\ Now.timer => presumed
           /\ Now.clipTimer <=> Now.clip = "Waiting"
           /\ Now.clip = "Waiting" => callsetup = 1
           /\ clipValue # NoClip => Now.clip = "Final"
BY DEF Now, Start, IInv, TypeOK, TimersMatch, CallerIsWaiting, ClientKnows

LEMMA ResetInv == ASSUME IInv, Reset PROVE IInv'
<1>1. timer' = (timer /\ ~presumed) /\ clipTimer' = (clipTimer /\ clip # "Waiting")
  BY DEF Reset
<1>2. timer' = FALSE /\ clipTimer' = FALSE
  BY <1>1 DEF IInv, TypeOK, TimersMatch
<1>3. TypeOK'
  <2>1. /\ connected' = FALSE /\ call' = FALSE /\ presumed' = FALSE
        /\ clipEnabled' = FALSE /\ callsetup' = 0
        /\ clip' = "Unknown" /\ clipValue' = NoClip /\ sent' = "none"
        /\ told' = told
    BY DEF Reset
  <2>2. told' \in Calls
    BY <2>1 DEF IInv, TypeOK
  <2>3. callsetup' \in 0 .. 3
    BY <2>1
  <2> QED
    BY <1>2, <2>1, <2>2, <2>3, Zenon DEF TypeOK
<1>4. TimersMatch' /\ CallerIsWaiting' /\ ClientKnows' /\ CommandsConnected'
  BY <1>2 DEF Reset, TimersMatch, CallerIsWaiting, ClientKnows, CommandsConnected
<1> QED
  BY <1>3, <1>4 DEF IInv

\* Only sent changes.
LEMMA SentInv ==
    ASSUME IInv, sent' \in {"none", "Dial", "Clear"}, sent' # "none" => connected,
           UNCHANGED <<connected, call, callsetup, presumed, timer, clip, clipValue,
                       clipTimer, clipEnabled, told>>
    PROVE  IInv'
<1>1. TypeOK'
  BY DEF IInv, TypeOK, Calls
<1>2. TimersMatch' /\ CallerIsWaiting' /\ ClientKnows'
  BY DEF IInv, TimersMatch, CallerIsWaiting, ClientKnows
<1>3. CommandsConnected'
  BY DEF CommandsConnected
<1> QED
  BY <1>1, <1>2, <1>3 DEF IInv

LEMMA GoesRest == ASSUME IInv, Goes PROVE Rest
BY DEF Goes, Rest

LEMMA LineInv == ASSUME IInv, Line PROVE IInv'
<1>1. ASSUME NEW new \in BOOLEAN, CallIndicator(new) PROVE IInv'
  <2>1. connected /\ new # call
    BY <1>1 DEF CallIndicator
  <2>2. CASE new /\ presumed
    <3> DEFINE now == [Now EXCEPT !.call = new]
    <3>1. UpdateCallSetup(now, 0, 0, NoClip, FALSE) /\ Goes
      BY <1>1, <2>2 DEF CallIndicator, Goes
    <3>2. now.call = new /\ now.timer = timer /\ now.clip = clip
          /\ now.clipTimer = clipTimer /\ now \in Start
      BY DEF Now, Start, IInv, TypeOK
    <3>3. Ready(now, 0, 0, NoClip, FALSE)
      BY <2>1, <2>2, <3>2
         DEF Ready, IInv, TypeOK, TimersMatch, CallerIsWaiting
    <3> QED
      BY <3>1, <3>3, UpdatePreserves, GoesRest
  <2>3. CASE ~(new /\ presumed)
    <3>1. /\ call' = new
          /\ told' = [call |-> new, callsetup |-> callsetup]
          /\ UNCHANGED <<callsetup, presumed, timer, clip, clipValue, clipTimer>>
          /\ UNCHANGED <<connected, clipEnabled, sent>>
      BY <1>1, <2>3 DEF CallIndicator, Goes
    <3> QED
      BY <3>1 DEF IInv, TypeOK, TimersMatch, CallerIsWaiting, ClientKnows, Calls,
                    CommandsConnected
  <2> QED
    BY <2>2, <2>3
<1>2. ASSUME NEW val \in 0 .. 4, CallSetupIndicator(val) PROVE IInv'
  <2>1. CASE val \in Recognised
    <3>1. connected /\ val # 1 /\ val \in 0 .. 3
      BY <1>2, <2>1 DEF CallSetupIndicator, Recognised
    <3>2. UpdateCallSetup(Now, val, 0, NoClip, FALSE) /\ Goes
      BY <1>2, <2>1 DEF CallSetupIndicator
    <3>3. Ready(Now, val, 0, NoClip, FALSE)
      BY <3>1, NowStart DEF Ready
    <3> QED
      BY <3>2, <3>3, UpdatePreserves, GoesRest
  <2>2. CASE val \notin Recognised
    BY <1>2, <2>2, ResetInv DEF CallSetupIndicator
  <2> QED
    BY <2>1, <2>2
<1>3. ASSUME ServiceLost PROVE IInv'
  <2> DEFINE now == [Now EXCEPT !.call = FALSE, !.timer = FALSE]
  <2>1. connected /\ UpdateCallSetup(now, 0, 0, NoClip, FALSE) /\ Goes
    BY <1>3 DEF ServiceLost
  <2>2. now.call = FALSE /\ now.timer = FALSE /\ now.clip = clip
        /\ now.clipTimer = clipTimer /\ now \in Start
    BY DEF Now, Start, IInv, TypeOK
  <2>3. Ready(now, 0, 0, NoClip, FALSE)
    BY <2>1, <2>2 DEF Ready, IInv, TypeOK, TimersMatch, CallerIsWaiting
  <2> QED
    BY <2>1, <2>3, UpdatePreserves, GoesRest
<1>4. ASSUME Ring PROVE IInv'
  <2>1. connected /\ UpdateCallSetup(Now, 1, 1, NoClip, TRUE) /\ Goes
    BY <1>4 DEF Ring
  <2>2. Ready(Now, 1, 1, NoClip, TRUE)
    BY <2>1, NowStart DEF Ready
  <2> QED
    BY <2>1, <2>2, UpdatePreserves, GoesRest
<1>5. ASSUME NEW caller \in Callers \cup {NoClip}, Clip(caller) PROVE IInv'
  <2>1. connected /\ UpdateCallSetup(Now, 1, 0, caller, TRUE) /\ Goes
    BY <1>5 DEF Clip
  <2>2. Ready(Now, 1, 0, caller, TRUE)
    BY <2>1, NowStart DEF Ready
  <2> QED
    BY <2>1, <2>2, UpdatePreserves, GoesRest
<1>6. ASSUME NEW caller \in Callers \cup {NoClip}, CallWaiting(caller) PROVE IInv'
  <2>1. connected /\ UpdateCallSetup(Now, 1, 2, caller, TRUE) /\ Goes
    BY <1>6 DEF CallWaiting
  <2>2. Ready(Now, 1, 2, caller, TRUE)
    BY <2>1, NowStart DEF Ready
  <2> QED
    BY <2>1, <2>2, UpdatePreserves, GoesRest
<1>7. ASSUME Dialed PROVE IInv'
  <2>1. connected
    BY <1>7 DEF Dialed, IInv, CommandsConnected
  <2>2. CASE HasConnectingCall
    <3>1. sent' = "none"
          /\ UNCHANGED <<connected, call, callsetup, presumed, timer, clip,
                         clipValue, clipTimer, clipEnabled, told>>
      BY <1>7, <2>2 DEF Dialed
    <3> QED
      BY <3>1, SentInv
  <2>3. CASE ~HasConnectingCall
    <3>1. UpdateCallSetup(Now, 2, 0, NoClip, TRUE) /\ Rest
      BY <1>7, <2>3 DEF Dialed, Rest
    <3>2. Ready(Now, 2, 0, NoClip, TRUE)
      BY <2>1, NowStart DEF Ready
    <3> QED
      BY <3>1, <3>2, UpdatePreserves
  <2> QED
    BY <2>2, <2>3
<1>8. ASSUME ClearCallSetup PROVE IInv'
  <2>1. connected
    BY <1>8 DEF ClearCallSetup, IInv, CommandsConnected
  <2>2. UpdateCallSetup(Now, 0, 0, NoClip, FALSE) /\ Rest
    BY <1>8 DEF ClearCallSetup, Rest
  <2>3. Ready(Now, 0, 0, NoClip, FALSE)
    BY <2>1, NowStart DEF Ready
  <2> QED
    BY <2>2, <2>3, UpdatePreserves
<1>9. ASSUME Refused PROVE IInv'
  <2>1. sent' = "none"
        /\ UNCHANGED <<connected, call, callsetup, presumed, timer, clip,
                       clipValue, clipTimer, clipEnabled, told>>
    BY <1>9 DEF Refused
  <2> QED
    BY <2>1, SentInv
<1> QED
  BY <1>1, <1>2, <1>3, <1>4, <1>5, <1>6, <1>7, <1>8, <1>9 DEF Line

LEMMA TimeoutInv == ASSUME IInv, Timeout PROVE IInv'
<1> DEFINE now == [Now EXCEPT !.timer = FALSE]
<1>1. connected /\ UpdateCallSetup(now, 0, 0, NoClip, FALSE) /\ Goes
  BY DEF Timeout, IInv, TimersMatch
<1>2. now.call = call /\ now.timer = FALSE /\ now.clip = clip
      /\ now.clipTimer = clipTimer /\ now \in Start
  BY DEF Now, Start, IInv, TypeOK
<1>3. Ready(now, 0, 0, NoClip, FALSE)
  BY <1>1, <1>2 DEF Ready, IInv, TypeOK, TimersMatch, CallerIsWaiting, ClientKnows
<1> QED
  BY <1>1, <1>3, UpdatePreserves, GoesRest

LEMMA ClipTimeoutInv == ASSUME IInv, ClipTimeout PROVE IInv'
<1> DEFINE now == [Now EXCEPT !.clip = "Final", !.clipTimer = FALSE]
<1>1. connected /\ UpdateCallSetup(now, 1, 1, NoClip, TRUE) /\ Goes
  BY DEF ClipTimeout, IInv, TimersMatch
<1>2. now.call = call /\ now.timer = timer /\ now.clip = "Final"
      /\ now.clipTimer = FALSE /\ now \in Start
  BY DEF Now, Start, IInv, TypeOK
<1>3. Ready(now, 1, 1, NoClip, TRUE)
  BY <1>1, <1>2 DEF Ready, IInv, TypeOK, TimersMatch, CallerIsWaiting, ClientKnows
<1> QED
  BY <1>1, <1>3, UpdatePreserves, GoesRest

LEMMA NextInv == IInv /\ [Next]_vars => IInv'
<1> SUFFICES ASSUME IInv, [Next]_vars PROVE IInv'
  OBVIOUS
<1>1. ASSUME HandshakeDone PROVE IInv'
  <2>1. connected' /\ clipEnabled' \in BOOLEAN /\ connected' \in BOOLEAN
    BY <1>1 DEF HandshakeDone
  <2>2. /\ told' = [call |-> call, callsetup |-> callsetup]
        /\ UNCHANGED <<call, callsetup, presumed, timer, clip, clipValue,
                       clipTimer, sent>>
    BY <1>1 DEF HandshakeDone
  <2>3. TypeOK'
    BY <2>1, <2>2 DEF IInv, TypeOK, Calls
  <2>4. TimersMatch' /\ CallerIsWaiting'
    BY <2>1, <2>2 DEF IInv, TimersMatch, CallerIsWaiting
  <2>5. ClientKnows' /\ CommandsConnected'
    BY <2>1, <2>2 DEF ClientKnows, CommandsConnected
  <2> QED
    BY <2>3, <2>4, <2>5 DEF IInv
<1>2. ASSUME Disconnect PROVE IInv'
  BY <1>2, ResetInv DEF Disconnect
<1>3. ASSUME NEW kind \in {"Dial", "Clear"}, Command(kind) PROVE IInv'
  <2>1. sent' = kind /\ connected
        /\ UNCHANGED <<connected, call, callsetup, presumed, timer, clip,
                       clipValue, clipTimer, clipEnabled, told>>
    BY <1>3 DEF Command
  <2> QED
    BY <2>1, SentInv
<1>4. CASE UNCHANGED vars
  <2>1. sent' = sent
        /\ UNCHANGED <<connected, call, callsetup, presumed, timer, clip,
                       clipValue, clipTimer, clipEnabled, told>>
    BY <1>4 DEF vars
  <2>2. sent \in {"none", "Dial", "Clear"} /\ (sent # "none" => connected)
    BY DEF IInv, TypeOK, CommandsConnected
  <2> QED
    BY <2>1, <2>2, SentInv
<1> QED
  BY <1>1, <1>2, <1>3, <1>4, LineInv, TimeoutInv, ClipTimeoutInv DEF Next

-----------------------------------------------------------------------------
(* The theorems.                                                           *)

\* The invariants hold in every reachable state.
THEOREM Invariant == Spec => []IInv
BY InitInv, NextInv, PTL DEF Spec

\* The variables keep their types: in particular a callsetup value that is out
\* of range never gets into m_state_callsetup.
THEOREM TypeCorrect == Spec => []TypeOK
<1>1. IInv => TypeOK
  BY DEF IInv
<1> QED
  BY <1>1, Invariant, PTL

\* The timers run exactly while what they limit lasts: the assertions of
\* Timeout and ClipTimeout cannot fail, and a waiting call is never without a
\* time limit.
THEOREM TimersAlwaysMatch == Spec => []TimersMatch
<1>1. IInv => TimersMatch
  BY DEF IInv
<1> QED
  BY <1>1, Invariant, PTL

\* WaitingCallIdentity() is of the incoming call that waits.
THEOREM CallerAlwaysWaiting == Spec => []CallerIsWaiting
<1>1. IInv => CallerIsWaiting
  BY DEF IInv
<1> QED
  BY <1>1, Invariant, PTL

\* The client has been told of the incomplete call, and of any established one.
THEOREM ClientAlwaysKnows == Spec => []ClientKnows
<1>1. IInv => ClientKnows
  BY DEF IInv
<1> QED
  BY <1>1, Invariant, PTL
=============================================================================
