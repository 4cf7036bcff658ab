CONSTANTS
    NumCores = 2
    VisBufferLength = 6
    ScanDuration <- MCDuration
    IntTime <- MCShortIntTime
    MayInterrupt = FALSE
SPECIFICATION Spec
INVARIANT WrittenBelong
