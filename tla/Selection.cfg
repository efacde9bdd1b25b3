SPECIFICATION FairSpec
CONSTANTS
    MAX_RECURSE_DEPTH = 2
    max_text_length = 3
    auto_send_max_files = 3
    Tree <- HomeTree
    Setups <- AllSetups
INVARIANTS SelectionInv ContentsFitType OkSendsAll NamesFollowTree
PROPERTIES RequestEnds
CHECK_DEADLOCK FALSE
