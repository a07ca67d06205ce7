\* Two cards, two audio gateways and a file to stream to and from, one filter of
\* the client; every call may fail.  A failed assertion ends the process.
SPECIFICATION Spec
CONSTANTS
    None = None
    Cards <- TwoCards
    Clocked <- TwoSessions
    Sources <- File
    DefaultCard = "card"
    Filters <- Snoop
    BadCalls <- AllCalls
INVARIANTS StreamsMatch FiltersReady
CHECK_DEADLOCK FALSE
