SPECIFICATION FairSpec
CONSTANTS
    Scripts <- MCEmptyItem
    MaxLineLength = 5
INVARIANTS
    RoundTrip
