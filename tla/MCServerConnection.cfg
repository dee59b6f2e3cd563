SPECIFICATION MCSpec
CONSTANTS
    Requests <- MCRequests
    MaxRequests = 3
    PipelineDepth = 1
    BodyDepth = 2
INVARIANTS
    TypeOK
    ResponsesInOrder
    NothingAfterClose
    KeepAliveAtBoundary
    HeaderAtBoundary
    UpgradeExclusive
    ConcurrencyBounded
PROPERTIES
    ImplementsResponses
    Answered
    ContinueSent
    TasksEnd
