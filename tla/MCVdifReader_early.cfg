SPECIFICATION Spec
CONSTANTS
    Slots = 5
    SlotUnits = 7
    ReadUnits = 3
    MinLeft = 1
    MaxUsed = 4
    Inputs <- ShortFile
    JobMayEnd = TRUE
INVARIANT NeverStray
CHECK_DEADLOCK FALSE
