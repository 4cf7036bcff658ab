SPECIFICATION Spec
CONSTANTS
    NumCores = 2
    NumStreams = 2
    RingLength = 2
    MaxRequests = 5
    MaxPending = 2
    Eager = FALSE
INVARIANTS AllReturned
