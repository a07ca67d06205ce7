---------------------------- MODULE HfpdSettings ----------------------------
(***************************************************************************)
(* The settings of the daemon (hfpd/objects.cpp) and its configuration     *)
(* file: calls of D-Bus clients change a setting in force and the          *)
(* configuration, which is written at once (autosave), on request or not   *)
(* at all; a restart reads it back.  D-Bus dispatches a call again until   *)
(* its handler has been able to answer it.                                 *)
(*                                                                         *)
(* One setting stands for those with the same protocol: acceptunknown for  *)
(* autorestart, voicepersist, voiceautoconnect and the buffer hints;       *)
(* scoenabled for secmode; denoise for the five DSP settings; driver for   *)
(* the driver and its options.  One gateway stands for the known ones: its *)
(* key in the configuration is its address, device as the code spells it   *)
(* and alias as a client may, in lower case.                               *)
(*                                                                         *)
(* bad is the set of what fails in a call: opening the file, writing it,   *)
(* listening for audio, the sound system, sending a reply (memory).        *)
(* SetSaveFile, which moves the file, is left out.                         *)
(***************************************************************************)
EXTENDS ConfigFile

CONSTANTS
    MaxFailures,    \* bound: calls in which something fails
    Together,       \* bound: the sets of settings that are changed together
    NoCall          \* no call

VARIABLE conf       \* the daemon, its file, and the call being answered

Spellings == {"device", "alias"}
Keys == {"autosave", "acceptunknown", "scoenabled", "denoise", "driver"} \cup Spellings
Switches == {"true", "false"}

\* The calls of D-Bus clients, with their arguments.
Calls ==
    ({"autosave", "acceptunknown", "scoenabled", "denoise"} \X Switches)
        \cup ({"driver"} \X {NoValue, "alsa"})
        \cup ({"known", "reconnect"} \X BOOLEAN)
        \cup ({"add"} \X Spellings \X BOOLEAN)
        \cup {<<"remove">>, <<"save">>}

ASSUME CallAssumption == NoCall \notin Calls

SectionOf == [autosave |-> "daemon", acceptunknown |-> "daemon", scoenabled |-> "daemon",
              denoise |-> "dsp", driver |-> "audio", device |-> "devices", alias |-> "devices"]
Default == [autosave |-> "false", acceptunknown |-> "false", scoenabled |-> "true",
            denoise |-> "true", driver |-> NoValue, device |-> NoValue, alias |-> NoValue]

\* The settings that a daemon takes from its configuration: LoadDeviceConfig
\* and SoundIoObj::Init.
InForce(mem) == [k \in Keys |-> Get(mem, SectionOf[k], k, Default[k])]

\* ConfigHandler::Init.  The system's file, which is read first, is taken to be
\* absent: each of its sections would hide the one of the user's file.
Loaded(file) == Load(<<>>, file, UserLayer)

\* A gateway in it is known, whatever the spelling and the value; the value that
\* stays is the last one, that of the spelling that was set latest, if it is there.
IsListed(settings) == \E k \in Spellings : settings[k] # NoValue
LastOf(settings, latest) ==
    IF settings[latest] # NoValue THEN latest
    ELSE IF latest = "device" THEN "alias" ELSE "device"

Live(settings, latest) ==
    [autosave |-> settings.autosave, acceptunknown |-> settings.acceptunknown,
     scoenabled |-> settings.scoenabled, denoise |-> settings.denoise,
     driver |-> settings.driver, known |-> IsListed(settings),
     reconnect |-> settings[LastOf(settings, latest)] = "true"]

Daemon(file, latest) ==
    LET settings == InForce(Loaded(file)) IN
    [file |-> file,             \* the user's file
     mem |-> Loaded(file),      \* the configuration
     latest |-> LastOf(settings, latest),       \* the spelling that was set latest in it
     filed |-> LastOf(settings, latest),        \* and in the file
     live |-> Live(settings, latest),           \* the settings in force
     filter |-> settings.denoise,               \* what m_sigproc is configured with
     owner |-> FALSE,           \* a client has claimed the gateway
     dirty |-> FALSE,           \* m_config_dirty
     torn |-> FALSE,            \* the last attempt to write the file failed
     refused |-> {},            \* settings whose last change was not accepted
     retry |-> NoCall,          \* the call to be dispatched again
     changed |-> FALSE,         \* it has changed what is in force already
     owed |-> 0,                \* answers that the last call is owed
     result |-> "ok",           \* what the last call was told first
     stranger |-> FALSE,        \* it was for a gateway neither known nor claimed
     failures |-> 0]

SettingsInit == conf = Daemon(<<>>, "device")

SettingsTypeOK ==
    /\ conf.live.autosave \in Switches /\ conf.live.scoenabled \in Switches
    /\ conf.refused \subseteq Keys
    /\ conf.failures \in 0..MaxFailures
    /\ conf.owed \in Int

-----------------------------------------------------------------------------
\* SaveConfig: whether it writes, and what it leaves.  The file is emptied
\* before it is written, so a failure leaves a part of it, here none.
WritesNow(r, force) == force \/ r.live.autosave = "true"
CannotWrite(bad) == {"open", "write"} \cap bad # {}

SaveFails(r, force, bad) == WritesNow(r, force) /\ CannotWrite(bad)

SaveConfig(r, force, bad) ==
    IF ~WritesNow(r, force) THEN [r EXCEPT !.dirty = TRUE]
    ELSE IF "open" \in bad THEN r
    ELSE IF "write" \in bad
         THEN [r EXCEPT !.file = <<>>, !.torn = TRUE]
    ELSE [r EXCEPT !.dirty = FALSE, !.torn = FALSE, !.file = Written(r.mem, UserLayer),
                   !.filed = r.latest]

Refused(r, k, force, bad) ==
    IF SaveFails(r, force, bad) THEN r.refused \cup {k} ELSE r.refused \ {k}

Stored(r, k, v, force, bad) ==
    SaveConfig([r EXCEPT !.mem = Set(@, SectionOf[k], k, v),
                         !.latest = IF k \in Spellings THEN k ELSE @,
                         !.refused = Refused(r, k, force, bad)],
               force, bad)

\* Mutant: a forgotten setting stays in the configuration.
ForgottenStays(r, k, bad) ==
    SaveConfig([r EXCEPT !.refused = Refused(r, k, FALSE, bad)], FALSE, bad)

Forgotten(r, k, bad) ==
    SaveConfig([r EXCEPT !.mem = Delete(@, SectionOf[k], k),
                         !.refused = Refused(r, k, FALSE, bad)],
               FALSE, bad)

-----------------------------------------------------------------------------
\* DbusDispatch: a call whose handler returns false, for want of memory, is
\* dispatched again, before any other.
Bad(can) == IF conf.failures < MaxFailures THEN SUBSET can ELSE {{}}

Called(call, bad) ==
    [conf EXCEPT !.retry = call,
                 !.owed = IF conf.retry = NoCall THEN 1 ELSE @,
                 !.stranger = FALSE,
                 !.failures = @ + (IF bad = {} THEN 0 ELSE 1)]

\* What is in force is what is reported and what the filter is configured with.
ChangesForce(r, s) == s.live # r.live \/ s.filter # r.filter
Pending(r) == r.retry # NoCall

\* call is dispatched and leaves the daemon in the state r.
Dispatched(call, r) ==
    /\ conf.retry \in {NoCall, call}
    /\ conf' = [r EXCEPT !.changed = Pending(r) /\ (conf.changed \/ ChangesForce(conf, r))]
    /\ \E keys \in Together : UNION {DOMAIN r.mem[i].tuples : i \in DOMAIN r.mem} \subseteq keys

Answered(r, result, bad) ==
    IF "reply" \in bad THEN r
    ELSE [r EXCEPT !.retry = NoCall, !.owed = @ - 1,
                   !.result = IF r.owed = 1 THEN result ELSE @]

\* Mutant: the setter sends an error and lets the caller send a reply too.
ErrorAndReply(r, bad) ==
    IF "reply" \in bad THEN r
    ELSE [r EXCEPT !.retry = NoCall, !.owed = @ - 2, !.result = "error"]

Error(r, bad) == Answered(r, "error", bad)
Success(r, bad) == Answered(r, "ok", bad)

\* Mutant: it does not look whether the setting is in force already.
FileFirstAgain(r, k, v, force, bad) ==
    LET s == Stored(r, k, v, force, bad) IN
    IF SaveFails(r, force, bad) THEN Error(s, bad)
    ELSE Success([s EXCEPT !.live[k] = v], bad)

\* A setting that is stored before it is put in force.  It cannot be stored
\* while it is in force, so a refused change cannot be taken back.
FileFirst(r, k, v, force, bad) ==
    LET s == Stored(r, k, v, force, bad) IN
    IF r.live[k] = v THEN Success(r, bad)
    ELSE IF SaveFails(r, force, bad) THEN Error(s, bad)
    ELSE Success([s EXCEPT !.live[k] = v], bad)

\* One that is put in force first, and put back if it cannot be stored.
Relistens(v, bad) == v = "false" \/ "listen" \notin bad

\* Mutant: it is not put back.
ScoNotBack(r, v, bad) ==
    LET s == Stored(r, "scoenabled", v, FALSE, bad) IN
    IF r.live.scoenabled = v THEN Success(r, bad)
    ELSE IF ~Relistens(v, bad) THEN Error(r, bad)
    ELSE IF SaveFails(r, FALSE, bad) THEN Error([s EXCEPT !.live.scoenabled = v], bad)
    ELSE Success([s EXCEPT !.live.scoenabled = v], bad)

ScoEnabled(r, v, bad) ==
    LET s == Stored(r, "scoenabled", v, FALSE, bad) IN
    IF r.live.scoenabled = v THEN Success(r, bad)
    ELSE IF ~Relistens(v, bad) THEN Error(r, bad)
    ELSE IF SaveFails(r, FALSE, bad)
         THEN Error([s EXCEPT !.live.scoenabled =
                        IF Relistens(r.live.scoenabled, bad) THEN @ ELSE v], bad)
    ELSE Success([s EXCEPT !.live.scoenabled = v], bad)

\* Mutant: the settings keep what the filter has refused.
DenoiseUnchecked(r, v, bad) ==
    LET s == Stored([r EXCEPT !.filter = v], "denoise", v, FALSE, bad) IN
    IF "sound" \in bad THEN Error([r EXCEPT !.live.denoise = v], bad)
    ELSE IF SaveFails(r, FALSE, bad) THEN Error(s, bad)
    ELSE Success([s EXCEPT !.live.denoise = v], bad)

\* The filter is not configured back, m_procprops are.
Denoise(r, v, bad) ==
    LET s == Stored([r EXCEPT !.filter = v], "denoise", v, FALSE, bad) IN
    IF "sound" \in bad THEN Error(r, bad)
    ELSE IF SaveFails(r, FALSE, bad) THEN Error(s, bad)
    ELSE Success([s EXCEPT !.live.denoise = v], bad)

\* The driver is put back also when the answer cannot be sent; the file is not.
Driver(r, v, bad) ==
    LET s == Stored(r, "driver", v, FALSE, bad) IN
    IF "sound" \in bad THEN Error(r, bad)
    ELSE IF SaveFails(r, FALSE, bad) THEN Error(s, bad)
    ELSE IF "reply" \in bad THEN [s EXCEPT !.refused = @ \cup {"driver"}]
    ELSE Success([s EXCEPT !.live.driver = v], bad)

Reconnect(r) == IF r.live.reconnect THEN "true" ELSE "false"

\* Mutant: the gateway is known before that is saved.
KnownAtOnce(r, on, bad) ==
    LET s == IF on THEN Stored(r, "device", Reconnect(r), FALSE, bad)
             ELSE Forgotten(r, "device", bad)
        w == [s EXCEPT !.live.known = on]
    IN IF SaveFails(r, FALSE, bad) THEN Error(w, bad) ELSE Success(w, bad)

Known(r, on, bad) ==
    LET s == IF on THEN Stored(r, "device", Reconnect(r), FALSE, bad)
             ELSE Forgotten(r, "device", bad)
    IN IF SaveFails(r, FALSE, bad) THEN Error(s, bad)
       ELSE Success([s EXCEPT !.live.known = on], bad)

\* DoSetAutoReconnect, and whether it fails.
ReconnectFails(r, on, bad) ==
    on # r.live.reconnect /\ r.live.known /\ SaveFails(r, FALSE, bad)

DoSetAutoReconnect(r, on, bad) ==
    LET s == IF r.live.known /\ on # r.live.reconnect
             THEN Stored(r, "device", IF on THEN "true" ELSE "false", FALSE, bad) ELSE r
    IN IF ReconnectFails(r, on, bad) THEN s ELSE [s EXCEPT !.live.reconnect = on]

\* A stranger's gateway: the error is sent, and then a reply as well.
Unclaimed(r, bad) ==
    IF "reply" \in bad THEN r
    ELSE LET s == Error([r EXCEPT !.stranger = TRUE], bad) IN
         IF "again" \in bad THEN [s EXCEPT !.retry = r.retry] ELSE Success(s, bad)

AutoReconnect(r, on, bad) ==
    IF on /\ ~r.owner /\ ~r.live.known THEN Unclaimed(r, bad)
    ELSE LET s == DoSetAutoReconnect(r, on, bad) IN
         IF ReconnectFails(r, on, bad) THEN Error(s, bad) ELSE Success(s, bad)

\* AddDevice, with the client's spelling of the address: what it has done for a
\* caller it cannot answer is undone, as far as the file can be written.  A caller
\* who is told of an error keeps the claim.
Added(r, addr, setknown, bad) ==
    LET stores == setknown /\ ~r.live.known
        s == IF stores THEN Stored(r, addr, Reconnect(r), FALSE, bad) ELSE r
        undo == IF stores THEN Forgotten(s, addr, IF "again" \in bad THEN {"write"} ELSE {})
                ELSE s
    IN IF stores /\ SaveFails(r, FALSE, bad)
       THEN Error([s EXCEPT !.owner = @ \/ "reply" \notin bad], bad)
       ELSE IF "reply" \in bad THEN undo
       ELSE Success([s EXCEPT !.owner = TRUE, !.live.known = @ \/ setknown], bad)

-----------------------------------------------------------------------------
Saving == {"open", "write", "reply"}

SetAutoSave == \E v \in Switches, bad \in Bad(Saving) :
    LET call == <<"autosave", v>>  r == Called(call, bad) IN
    Dispatched(call, FileFirst(r, "autosave", v, v = "true", bad))

SetAcceptUnknown == \E v \in Switches, bad \in Bad(Saving) :
    LET call == <<"acceptunknown", v>>  r == Called(call, bad) IN
    Dispatched(call, FileFirst(r, "acceptunknown", v, FALSE, bad))

SetScoEnabled == \E v \in Switches, bad \in Bad(Saving \cup {"listen"}) :
    LET call == <<"scoenabled", v>>  r == Called(call, bad) IN
    Dispatched(call, ScoEnabled(r, v, bad))

SetDenoise == \E v \in Switches, bad \in Bad(Saving \cup {"sound"}) :
    LET call == <<"denoise", v>>  r == Called(call, bad) IN
    Dispatched(call, Denoise(r, v, bad))

SetDriver == \E v \in {NoValue, "alsa"}, bad \in Bad(Saving \cup {"sound"}) :
    LET call == <<"driver", v>>  r == Called(call, bad) IN
    Dispatched(call, Driver(r, v, bad))

\* AudioGateway::SetKnown.
SetGatewayKnown == \E on \in BOOLEAN, bad \in Bad(Saving) :
    LET call == <<"known", on>>  r == Called(call, bad) IN
    Dispatched(call, Known(r, on, bad))

SetAutoReconnect == \E on \in BOOLEAN, bad \in Bad(Saving \cup {"again"}) :
    LET call == <<"reconnect", on>>  r == Called(call, bad) IN
    Dispatched(call, AutoReconnect(r, on, bad))

\* HandsFree::AddDevice.
AddGateway == \E addr \in Spellings, on \in BOOLEAN, bad \in Bad(Saving \cup {"again"}) :
    LET call == <<"add", addr, on>>  r == Called(call, bad) IN
    Dispatched(call, Added(r, addr, on, bad))

\* HandsFree::RemoveDevice: the claim is given up once the answer is sent.
RemoveGateway == \E bad \in Bad({"reply"}) :
    LET call == <<"remove">>  r == Called(call, bad) IN
    Dispatched(call, Success([r EXCEPT !.owner = @ /\ "reply" \in bad], bad))

SaveSettings == \E bad \in Bad(Saving) :
    LET call == <<"save">>  r == Called(call, bad) IN
    Dispatched(call, LET s == SaveConfig(r, TRUE, bad) IN
                     IF CannotWrite(bad) THEN Error(s, bad) ELSE Success(s, bad))

\* OwnerDisconnectNotify: the client that has claimed the gateway is gone.
OwnerGone ==
    /\ conf.owner
    /\ conf' = [conf EXCEPT !.owner = FALSE, !.live.reconnect = @ /\ conf.live.known,
                            !.result = "ok"]

\* NotifyConnection: the user has disconnected the gateway at the device.
\* Nobody hears of a failure to save that.
UserDisconnects ==
    \E bad \in Bad({"open", "write"}) :
        /\ conf.live.reconnect
        /\ conf' = [DoSetAutoReconnect(conf, FALSE, bad)
                    EXCEPT !.failures = @ + (IF bad = {} THEN 0 ELSE 1), !.result = "ok"]

\* The daemon is stopped and started again.
Restart == conf' = [Daemon(conf.file, conf.filed) EXCEPT !.failures = conf.failures]

SettingsNext ==
    \/ SetAutoSave \/ SetAcceptUnknown \/ SetScoEnabled \/ SetDenoise \/ SetDriver
    \/ SetGatewayKnown \/ SetAutoReconnect \/ AddGateway \/ RemoveGateway
    \/ SaveSettings \/ OwnerGone \/ UserDisconnects \/ Restart

SettingsSpec == SettingsInit /\ [][SettingsNext]_conf

-----------------------------------------------------------------------------
\* The settings that a restart would put in force are those in force now, when
\* they have been saved and no change of them has been refused since; with
\* autosave nothing is left to be saved, and the filter works as the settings
\* report, but after a change that could not be saved, when only the settings
\* have been put back (SaveConfig, SetDenoise and each setter).  A gateway that
\* was forgotten comes back only if its address is in the file in a spelling of
\* a client's, which SetKnown does not delete.
SettingsSurvive ==
    LET saved == InForce(Loaded(conf.file))
        again == Live(saved, conf.filed)
    IN
    /\ conf.live.autosave = "true" => ~conf.dirty
    /\ ~conf.dirty /\ ~conf.torn =>
        /\ \A k \in Keys \ (conf.refused \cup Spellings) : again[k] = conf.live[k]
        /\ conf.latest \notin conf.refused /\ conf.live.known =>
              again.known /\ again.reconnect = conf.live.reconnect
        /\ "device" \notin conf.refused /\ again.known =>
              conf.live.known \/ saved.alias # NoValue
    /\ "denoise" \in conf.refused \/ conf.filter = conf.live.denoise

\* Calls that do not notice, when they are dispatched again, that they have had
\* their effect: SetKnown and SetDenoise do not look, and what SetAutoReconnect
\* has enabled may have been disabled since.
IsRepeated(call) == call[1] \in {"known", "denoise"} \/ call = <<"reconnect", TRUE>>

\* A call that is answered with an error has changed nothing that is in force,
\* at none of its dispatches, but: audio that cannot be listened for again stays
\* disabled (SetScoEnabled), the filter stays as it was configured when that
\* cannot be saved (SetDenoise), and a call that took effect without having been
\* answered may fail when it is repeated (DbusDispatch).
ErrorsChangeNothing ==
    [][conf'.retry = NoCall /\ conf'.result = "error"
        => /\ \/ conf'.live = conf.live
              \/ conf'.live = [conf.live EXCEPT !.scoenabled = "false"]
           /\ conf'.filter = conf.filter \/ "denoise" \in conf'.refused
           /\ conf.changed => IsRepeated(conf.retry)]_conf

\* Each call is answered exactly once, however often it is dispatched, except
\* SetAutoReconnect for a gateway neither known nor claimed (DbusDispatch,
\* DbusPropSetMarshallMember).
AnsweredOnce == conf.retry = NoCall => conf.owed = 0 \/ conf.stranger
=============================================================================
