SPECIFICATION FairSpec
CONSTANTS
    Slots = 5
    SlotUnits = 7
    ReadUnits = 3
    MinLeft = 1
    MaxUsed = 4
    Inputs <- TwoFiles
    JobMayEnd = FALSE
PROPERTY AlwaysEnds
CHECK_DEADLOCK FALSE
