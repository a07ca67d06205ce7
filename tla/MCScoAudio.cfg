\* Every call of the client in every callback, several callbacks deep.
SPECIFICATION Spec
CONSTANTS
    Config <- TwoConfigs
    MaxDepth = 5
INVARIANT ServiceMatchesConfig
PROPERTIES ImplementsEndpoint NoCallsFromMethods
CHECK_DEADLOCK FALSE
