SPECIFICATION FairSpec
CONSTANTS
    MaxSetters = 2
    MaxItems = 2
    Setups <- AllSetups
INVARIANTS ClipboardInv
PROPERTIES CommandsKeepClipboard RunsServeAndEnd EveryItemOffered EveryCopySent
CHECK_DEADLOCK FALSE
