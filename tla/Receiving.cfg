SPECIFICATION Spec
CONSTANTS
    Transfers = {"web", "command"}
    Existing = {"a"}
    CONFIG_FILE = "conf"
    WorkingDirSet = FALSE
    Version = 4
    DirIds = {"d1", "d2"}
    MaxNumber = 2
    Numbered <- NumberedNames
    Setups <- AllSetups
INVARIANTS ReceivingInv AckedFilesPlaced NoPartialFile
PROPERTY KeptApart
