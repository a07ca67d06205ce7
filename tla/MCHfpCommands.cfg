SPECIFICATION FairSpec
CONSTANTS
    p1 = p1
    p2 = p2
    NoPend = NoPend
    Pend <- TwoPends
    MaxQueue = 4
    MaxWire = 2
    MaxNested = 1
    NestedCalls = {"Command", "Cancel", "Disconnect"}
INVARIANTS CalledExactlyOnce OrderKept OnlyDisconnectionFaults
PROPERTIES EveryCommandCompletes
CHECK_DEADLOCK FALSE
