CONSTANTS
    Setups <- MCSetups
    SampNums = 1024
    MaxLead = 2
SPECIFICATION StreamSpec
INVARIANT LevelsHold
INVARIANT PlayedToTheEnd
PROPERTY ComesToRest
