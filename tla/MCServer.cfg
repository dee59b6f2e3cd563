SPECIFICATION MCSpec
CONSTANTS
    Conns = {c1, c2, c3}
    MaxConnections = 2
    Bytes = 3
    ReadTimeout = 2
    WriteTimeout = 2
INVARIANTS
    ServerTypeOK
    PermitsConserved
    TypeOK
    NothingLost
    DeadlineKept
PROPERTIES
    Served
