SPECIFICATION Spec
CONSTANTS
    Word = 12
    Half = 6
    Short = 4
    Thousand = 3
    PROTOCOL_MIN = 1
    PROTOCOL_MAX = 4
    Default <- Defaults
    MaxStarts = 3
    Setups <- OneEndless
PROPERTY ReadingEnds
CHECK_DEADLOCK FALSE
