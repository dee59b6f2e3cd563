SPECIFICATION MCExchangeSpec
CONSTANTS
    Requests <- MCExchangeRequests
    MaxRequests = 1
    PipelineDepth = 1
    BodyDepth = 1
    Window = 1
    ResponseSizes = {0, 4}
    ResponseDepth = 1
INVARIANTS
    FinalAnswer
    ExpectHonoured
    UpgradeAgreed
    NoAnswerLost
PROPERTIES
    ExchangeEnds
CHECK_DEADLOCK FALSE
