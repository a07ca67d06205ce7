----------------------------- MODULE HfpService -----------------------------
(***************************************************************************)
(* HfpService (libhfp/hfp.cpp): the listening sockets for connections and  *)
(* for audio, and the record that advertises the service in the local SDP  *)
(* server, as the Bluetooth hub starts and stops and a client changes the  *)
(* capabilities and the name that the record carries.                      *)
(*                                                                         *)
(* The functions are operators on the record v of the service; a module    *)
(* that composes it with sessions holds v in a variable (ScoAudio).  bad   *)
(* is the set of the system calls that fail.  The description is another   *)
(* name, SetServiceDesc another SetServiceName.                            *)
(***************************************************************************)
EXTENDS Naturals, Sequences, FiniteSets

CONSTANT
    Config      \* what the record advertises: capabilities and name

\* No record.
Absent == "Absent"

\* What may fail in a call of the service.
ServiceCalls == {"rfcomm", "sco", "nosco", "record", "again"}

ServiceInit(config) ==
    [hub |-> FALSE,             \* BtHub::IsStarted()
     autorestart |-> TRUE,      \* of the hub
     rfcomm |-> FALSE,          \* m_rfcomm_listen_not exists
     listening |-> FALSE,       \* m_sco_listen_not exists
     scoEnabled |-> TRUE,       \* m_sco_enable
     config |-> config,
     record |-> Absent,         \* m_sdp_rec, by what it advertises
     server |-> Absent]         \* what the SDP server advertises for us

-----------------------------------------------------------------------------
\* SdpRegister.  The hub refuses when it is stopped.
Registers(v, bad) == v.hub /\ "record" \notin bad

SdpRegister(v) == [v EXCEPT !.record = v.config, !.server = v.config]

\* Mutant: the old record stays with the server.
UnregisterKeepsRecord(v) == [v EXCEPT !.record = Absent]

SdpUnregister(v) ==
    [v EXCEPT !.record = Absent,
              !.server = IF v.hub /\ v.record # Absent THEN Absent ELSE @]

\* ScoListen: no HCI, unsuitable packet sizes or voice setting, or a system
\* call that fails.  A kernel without SCO ends the restarting of the hub.
Listens(v, bad) == v.hub /\ {"sco", "nosco"} \cap bad = {}

ScoRefused(v, bad) ==
    [v EXCEPT !.autorestart = @ /\ ~(v.hub /\ "nosco" \in bad /\ "sco" \notin bad)]

ScoCleanup(v) == [v EXCEPT !.listening = FALSE]

\* Stop.  The hub has given up the SDP server when it stops its services, so
\* the record is kept, as it is when Start fails for another service later.
ServiceStop(v) ==
    ScoCleanup([(IF v.hub THEN SdpUnregister(v) ELSE v) EXCEPT !.rfcomm = FALSE])

ServiceStart(v, bad) ==
    LET r == [v EXCEPT !.rfcomm = TRUE]
        l == [r EXCEPT !.listening = v.scoEnabled]
    IN  IF "rfcomm" \in bad THEN ServiceStop(v)
        ELSE IF v.scoEnabled /\ ~Listens(r, bad) THEN ServiceStop(ScoRefused(r, bad))
        ELSE IF ~Registers(l, bad) THEN ServiceStop(l)
        ELSE SdpRegister(l)

\* BtHub::Start with the services, the failure of one stopping them all, and
\* BtHub::__Stop, which closes the connection to the SDP server first.
HubStart(v, bad) ==
    LET r == ServiceStart([v EXCEPT !.hub = TRUE], bad)
    IN  IF r.rfcomm THEN r ELSE [r EXCEPT !.hub = FALSE, !.server = Absent]

HubStop(v) == ServiceStop([v EXCEPT !.hub = FALSE, !.server = Absent])

\* SetScoEnabled
ScoEnabled(v, on, bad) ==
    IF v.scoEnabled = on THEN v
    ELSE IF ~v.hub THEN [v EXCEPT !.scoEnabled = on]
    ELSE IF ~on THEN [ScoCleanup(v) EXCEPT !.scoEnabled = FALSE]
    ELSE IF Listens(v, bad) THEN [v EXCEPT !.listening = TRUE, !.scoEnabled = TRUE]
    ELSE ScoRefused(v, bad)

\* Mutant: the old record is registered again under the new configuration.
ConfiguredNotBack(v, config, bad) ==
    LET n == [SdpUnregister(v) EXCEPT !.config = config]
    IN  IF v.record = Absent THEN [v EXCEPT !.config = config]
        ELSE IF Registers(n, bad) THEN SdpRegister(n)
        ELSE IF v.hub /\ "again" \notin bad THEN [SdpRegister(SdpUnregister(v)) EXCEPT !.config = config]
        ELSE n

\* SetCaps, SetServiceName and SetServiceDesc: a record that is held is
\* replaced, and the former one registered again when that fails.
Configured(v, config, bad) ==
    LET n == [SdpUnregister(v) EXCEPT !.config = config]
        o == SdpUnregister(v)
    IN  IF v.record = Absent THEN [v EXCEPT !.config = config]
        ELSE IF Registers(n, bad) THEN SdpRegister(n)
        ELSE IF v.hub /\ "again" \notin bad THEN SdpRegister(o)
        ELSE o
=============================================================================
