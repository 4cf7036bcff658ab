SPECIFICATION Spec
CONSTANTS
    NumSegments = 6
    SegmentUnits = 2
    Blocks = 2
    SendBytes = 2
    FlagsPerInt = 1
    MaxSends = 3
    SecondUnits = 2
    Delay = 1
    Scans <- TwoScans
    Files <- SecondScan
    Requests <- InOrder
INVARIANT SentRight
