SPECIFICATION FairSpec
CONSTANTS
    Scripts <- MCScripts
    MaxLineLength = 5
INVARIANTS
    TypeOK
    PrefixDelivered
    RoundTrip
    BoundaryExact
PROPERTIES
    Delivered
