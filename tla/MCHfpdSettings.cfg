\* Any two settings of the daemon and of its sound, or a gateway under both spellings
\* of its address with autosave on and off; two calls in which anything may fail.
SPECIFICATION PartsSpec
CONSTANTS
    NoCall = NoCall
    MaxFailures = 2
    Together <- PairsOrGateway
INVARIANTS SettingsSurvive AnsweredOnce
 
CHECK_DEADLOCK FALSE
