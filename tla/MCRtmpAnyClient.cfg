SPECIFICATION Spec
CONSTANTS
    WriteFaults = TRUE
    Offered <- MCOffered
    MaxMessages = 4
CHECK_DEADLOCK FALSE
INVARIANTS
    OrderlyNeverPanics
    TeardownComplete
