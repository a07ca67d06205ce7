--------------------------- MODULE MCHfpdSettings ---------------------------
(* The settings of the daemon and of its sound, or those of a gateway: the
   two meet in the file only, where autosave stands for the others.        *)
EXTENDS HfpdSettings

VARIABLE part

Scalars == Keys \ Spellings
PairsOrGateway ==
    {{k, l} : k, l \in Scalars} \cup {Spellings \cup {"autosave"}}

PartsInit == SettingsInit /\ part \in {"daemon", "gateway"}

PartsNext ==
    /\ \/ part = "daemon" /\ (\/ SetAcceptUnknown \/ SetScoEnabled \/ SetDenoise
                              \/ SetDriver \/ SaveSettings)
       \/ part = "gateway" /\ (\/ SetGatewayKnown \/ SetAutoReconnect \/ AddGateway
                               \/ RemoveGateway \/ OwnerGone \/ UserDisconnects)
       \/ SetAutoSave
       \/ Restart
    /\ UNCHANGED part

PartsSpec == PartsInit /\ [][PartsNext]_<<conf, part>>
=============================================================================
