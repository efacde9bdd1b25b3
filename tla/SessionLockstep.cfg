SPECIFICATION FairSpec
CONSTANTS
    PROTOCOL_MIN = 1
    PROTOCOL_MAX = 4
    MaxFiles = 2
    Faults = {}
    Requests <- AllRequests
    ServerRanges <- AllRanges
INVARIANTS InStep VersionsAgree OkMeansDelivered
PROPERTIES NegotiationSucceeds ServerReleased KeepsPromise
