\* Three sessions; the helper may die at any moment and clients cancel from
\* callbacks.  The process stops when an assertion fails, hence no deadlock
\* check.
SPECIFICATION FairSpec
CONSTANTS
    t1 = t1
    t2 = t2
    t3 = t3
    Task <- ThreeTasks
    MaxRequests = 4
    MaxDeaths = 2
    DiesWhen = {"busy", "idle"}
    NestedCancel = TRUE
INVARIANTS OneInFlight ReplyMatchesHead QueueIsWaiters OnlyIdleDeathFaults
PROPERTIES ImplementsService EveryLookupSettles
CHECK_DEADLOCK FALSE
