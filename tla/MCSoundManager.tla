--------------------------- MODULE MCSoundManager ---------------------------
(* Model values for checking SoundManager with TLC.                        *)
EXTENDS SoundManager

OneCard == {"card"}
TwoCards == {"card", "card2"}
TwoSessions == {"sco", "sco2"}
File == {"file"}
Snoop == {"Snoop"}
AllCalls ==
    {"open", "driver", "setformat", "format", "bottom", "top", "prepare", "progress"}
=============================================================================
