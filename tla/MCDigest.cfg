CONSTANTS
    LineBound = 6
    HeaderBound = 5
    UrlBound = 5
    QueryBound = 4
    NumberBound = 4
    CallBound = 3
    ListBound = 2
    FrameBound = 5

SPECIFICATION Spec
CHECK_DEADLOCK FALSE

INVARIANT DigestSupported
