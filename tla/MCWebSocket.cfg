SPECIFICATION FairSpec
CONSTANTS
    Role = "client"
    Capacity = 3
    Frames <- MCFrames
    MaxFrames = 3
    MaxSends = 1
    Flight = 3
    Window = 1
CHECK_DEADLOCK FALSE
INVARIANTS
    TypeOK
    MessagesExact
    CloseExplains
    WireFramed
    CloseLast
PROPERTIES
    OffenceAnswered
