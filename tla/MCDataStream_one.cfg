SPECIFICATION FairSpec
CONSTANTS
    NumSegments = 5
    SegmentUnits = 4
    Blocks = 2
    SendBytes = 3
    FlagsPerInt = 1
    MaxSends = 6
    SecondUnits = 2
    Delay = 1
    Scans <- OneScan
    Files <- LongFile
    Requests <- Longer
INVARIANTS SentRight NothingLost
PROPERTIES HeldStable Terminates
