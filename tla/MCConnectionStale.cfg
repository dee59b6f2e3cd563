SPECIFICATION Spec
CONSTANTS
    Bytes = 1
    ReadTimeout = 2
    WriteTimeout = 1
PROPERTIES
    TimeoutEarned
