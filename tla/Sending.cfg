SPECIFICATION Spec
CONSTANTS
    Sizes <- SmallSizes
    Limit = 6
    FILE_BUF_SZ = 3
    Tries = 10
INVARIANTS TypeOK SentIsAnnounced NeverShort ExcessIsBounded
PROPERTY TransferEnds
