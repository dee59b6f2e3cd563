SPECIFICATION FairSpec
CONSTANTS
    Requests <- MCEchoRequests
    MaxRequests = 1
    PipelineDepth = 1
    BodyDepth = 1
PROPERTIES
    Answered
CHECK_DEADLOCK FALSE
