SPECIFICATION FairSpec
CONSTANTS
    Slots = 5
    SlotUnits = 7
    ReadUnits = 3
    MinLeft = 1
    MaxUsed = 4
    Inputs <- PassInputs
    JobMayEnd = TRUE
INVARIANTS SlotsInv ShownInOrder NothingLeft
PROPERTIES ConsumerEnds
CHECK_DEADLOCK FALSE
