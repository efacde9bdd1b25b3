SPECIFICATION SendSpec
CONSTANTS
    MaxInterfaces = 3
    MaxThreads = 2
    FilterMax = 4
    SendMax = 2
    Setups <- AllSetups
INVARIANTS AutoSendInv OnlyAllowed JoinedBeforeFreed
PROPERTIES RoundEnds
CHECK_DEADLOCK FALSE
