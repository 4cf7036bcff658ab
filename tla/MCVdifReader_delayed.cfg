SPECIFICATION Spec
CONSTANTS
    Slots = 5
    SlotUnits = 7
    ReadUnits = 3
    MinLeft = 1
    MaxUsed = 4
    Inputs <- PastFile
    JobMayEnd = TRUE
INVARIANT StartsLocked
CHECK_DEADLOCK FALSE
