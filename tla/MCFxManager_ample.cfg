CONSTANTS
    NumCores = 2
    VisBufferLength = 10
    ScanDuration <- MCDuration
    IntTime <- MCIntTime
    MayInterrupt = TRUE
SPECIFICATION Spec
INVARIANTS Attribution HeldWhileAdding ReleasedFull WrittenBelong OnDiskOnce
