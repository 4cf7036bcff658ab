CONSTANTS
    MaxVis = 6
    VisBufferLength = 4
    MonitorSkip = 2
SPECIFICATION FairSpec
INVARIANTS LinkInv
PROPERTY WriterEnds
