SPECIFICATION FairSpec
CONSTANTS
    MaxSetters = 3
    MaxItems = 2
    Setups <- TwoPages
PROPERTY NeverEmptied
CHECK_DEADLOCK FALSE
