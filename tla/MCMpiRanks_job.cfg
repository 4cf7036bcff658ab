SPECIFICATION FairSpec
CONSTANTS
    NumCores = 2
    NumStreams = 2
    RingLength = 3
    MaxRequests = 9
    MaxPending = 2
    Eager = TRUE
INVARIANTS DataMatches NothingForSender ResultsCounted
PROPERTIES JobEnds
