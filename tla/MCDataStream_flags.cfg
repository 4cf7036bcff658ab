SPECIFICATION Spec
CONSTANTS
    NumSegments = 5
    SegmentUnits = 4
    Blocks = 2
    SendBytes = 3
    FlagsPerInt = 3
    MaxSends = 6
    SecondUnits = 2
    Delay = 1
    Scans <- OneScan
    Files <- TwoFiles
    Requests <- InOrder
INVARIANT NothingLost
