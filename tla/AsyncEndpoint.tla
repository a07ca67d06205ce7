--------------------------- MODULE AsyncEndpoint ---------------------------
(***************************************************************************)
(* What a SoundIo promises the client that streams through it              *)
(* (libhfp/soundio.h: SndAsyncStart, SndAsyncStop, cb_NotifyPacket and     *)
(* cb_NotifyAsyncStop), for an endpoint that may lose its device at any    *)
(* time, as an audio connection does.  The client is called with packets   *)
(* while it streams; a stream that ends by itself leaves a notification    *)
(* owed, which is paid once, unless the client stops or closes first.      *)
(*                                                                         *)
(* The one exception is in reopened: a client that opens the endpoint      *)
(* again before it has been told gives the notification up.                *)
(***************************************************************************)

VARIABLES
    open,       \* there is a device, or one is being connected
    started,    \* SndIsAsyncStarted()
    owed,       \* cb_NotifyAsyncStop is still to be called
    believes    \* the client has started the stream and not heard of its end

vars == <<open, started, owed, believes>>

TypeOK == {open, started, owed, believes} \subseteq BOOLEAN

Init == ~open /\ ~started /\ ~owed /\ ~believes

Open == ~open /\ open' = TRUE /\ owed' = FALSE /\ UNCHANGED <<started, believes>>

AsyncStart ==
    /\ open /\ ~owed
    /\ started' = TRUE /\ believes' = TRUE
    /\ UNCHANGED <<open, owed>>

AsyncStop ==
    /\ started' = FALSE /\ owed' = FALSE /\ believes' = FALSE
    /\ UNCHANGED open

Close ==
    /\ open' = FALSE /\ started' = FALSE /\ owed' = FALSE
    /\ believes' \in {believes, FALSE}

\* The device is gone.  Only a client that was streaming is owed a call, and
\* it may be made at once.
Fail ==
    /\ open /\ open' = FALSE /\ started' = FALSE
    /\ \/ owed' = started /\ believes' = believes
       \/ started /\ owed' = FALSE /\ believes' = FALSE

Notify ==
    /\ owed /\ ~open
    /\ owed' = FALSE /\ believes' = FALSE
    /\ UNCHANGED <<open, started>>

Next == Open \/ AsyncStart \/ AsyncStop \/ Close \/ Fail \/ Notify

\* The call that is owed is made, unless it is no longer.
Spec == Init /\ [][Next]_vars /\ WF_vars(Notify)
=============================================================================
