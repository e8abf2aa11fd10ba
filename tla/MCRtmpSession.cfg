SPECIFICATION FairSpec
CONSTANTS
    WriteFaults = TRUE
    MaxSends = 5
    AssignedId = 5
    MaxQueued = 8
CHECK_DEADLOCK FALSE
INVARIANTS
    ChunkSizesAgree
    MediaAfterStart
    SuccessIsReal
    SessionNeverPanics
PROPERTIES
    SessionSettles
    OutcomeReported
    SenderServed
