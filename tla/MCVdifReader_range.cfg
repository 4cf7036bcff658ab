SPECIFICATION Spec
CONSTANTS
    Slots = 5
    SlotUnits = 7
    ReadUnits = 3
    MinLeft = 1
    MaxUsed = 4
    Inputs <- LastSlotFile
    JobMayEnd = TRUE
INVARIANT SlotInRange
CHECK_DEADLOCK FALSE
