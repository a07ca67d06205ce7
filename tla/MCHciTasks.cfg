\* Every event at every time.
SPECIFICATION HciSpec
CONSTANTS
    d1 = d1
    d2 = d2
    Inquiry = Inquiry
    Device <- TwoDevices
    MaxAsked = 1
    MaxTasks = 2
INVARIANT TasksOwned
PROPERTY EveryNameSettles
CHECK_DEADLOCK FALSE
