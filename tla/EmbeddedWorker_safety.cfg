SPECIFICATION FairSpec
CONSTANTS
    a = a
    b = b
    Paths = {a, b}
    BufferSize = 1
    None = None
    MaxEdits = 4
    MaxFaults = 1
INVARIANTS
    NoEditLost
    RuntimeAgrees
PROPERTIES
    FailureShows
    StopReturns
    CatchesUp
CHECK_DEADLOCK FALSE
