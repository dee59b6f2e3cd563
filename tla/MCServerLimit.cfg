SPECIFICATION ServerSpec
CONSTANTS
    Conns = {c1, c2, c3}
    MaxConnections = 1
INVARIANTS
    ConnectionsBounded
CHECK_DEADLOCK FALSE
