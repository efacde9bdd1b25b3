SPECIFICATION Spec
CONSTANTS
    PROTOCOL_MIN = 1
    PROTOCOL_MAX = 4
    MaxFiles = 2
    Faults = {"crash"}
    Requests <- DefaultRequests
    ServerRanges <- OneVersionRanges
INVARIANTS
    SentFilesOkMeansDelivered
