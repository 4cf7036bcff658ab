CONSTANTS
    NumCores = 2
    VisBufferLength = 10
    ScanDuration <- MCMixedDuration
    IntTime <- MCMixedIntTime
    MayInterrupt = FALSE
SPECIFICATION Spec
INVARIANT ReleasedFull
