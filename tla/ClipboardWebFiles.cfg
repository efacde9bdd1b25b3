SPECIFICATION FairSpec
CONSTANTS
    MaxSetters = 3
    MaxItems = 2
    Setups <- TwoPages
INVARIANT FilesInWorkingDir
CHECK_DEADLOCK FALSE
