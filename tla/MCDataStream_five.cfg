SPECIFICATION FairSpec
CONSTANTS
    NumSegments = 5
    SegmentUnits = 2
    Blocks = 2
    SendBytes = 2
    FlagsPerInt = 1
    MaxSends = 3
    SecondUnits = 2
    Delay = 1
    Scans <- OneScan
    Files <- TwoFiles
    Requests <- InOrder
PROPERTY Terminates
