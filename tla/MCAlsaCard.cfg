\* Two packets fill a buffer; the wake flag starts with either value.
SPECIFICATION AlsaSpec
CONSTANTS
    Access <- AllModes
    MaxQueued = 2
    Immediate <- ZeroTimers
    Delayed <- OtherTimers
    WakePending <- AnyFlag
INVARIANT Safety
PROPERTY StopReturns
PROPERTY LoopWakes
