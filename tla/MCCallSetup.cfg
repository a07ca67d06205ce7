SPECIFICATION FairSpec
CONSTANTS
    c1 = c1
    c2 = c2
    Callers <- TwoCallers
    NoClip = NoClip
INVARIANTS TimersMatch CallerIsWaiting ClientKnows
PROPERTY PresumptionsEnd
