SPECIFICATION Spec
CONSTANTS
    Slots = 5
    SlotUnits = 7
    ReadUnits = 3
    MinLeft = 1
    MaxUsed = 4
    Inputs <- LongFile
    JobMayEnd = TRUE
INVARIANT StartsAtBeginning
CHECK_DEADLOCK FALSE
