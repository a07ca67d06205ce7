\* Two sessions; clients stop the hub from callbacks too.  MaxDepth lets them
\* make calls in the callbacks of SdpShutdown inside a Stop inside a callback.
\* Starts are made outside of callbacks: a client that stops and starts the hub
\* in one callback may do so for ever.
\* The process stops when it fails an assertion, hence no deadlock check.
SPECIFICATION FairSpec
CONSTANTS
    s1 = s1
    s2 = s2
    Session <- TwoSessions
    MaxHeld = 1
    MaxDepth = 6
    HubCalls = {"Stop"}
INVARIANTS ReferencesSound TimersSound OnlyNestedCallsFault
PROPERTY TimersServe
CHECK_DEADLOCK FALSE
