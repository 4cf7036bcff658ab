CONSTANTS
    NumCores = 2
    VisBufferLength = 6
    ScanDuration <- MCShortDuration
    IntTime <- MCShortIntTime
    MayInterrupt = TRUE
SPECIFICATION FairSpec
INVARIANTS BufferInv WrittenRight
PROPERTIES Terminates
