SPECIFICATION ClientFairSpec
CONSTANTS
    PROTOCOL_MIN = 1
    PROTOCOL_MAX = 4
    MaxFiles = 2
    Faults = {"timeout", "crash", "garbage", "local"}
    Requests <- DefaultRequests
    ServerRanges <- OneVersionRanges
INVARIANTS AckMeansPlaced OkSurvivesFaults
PROPERTIES AnswerIsFinal Answered
