SPECIFICATION FairSpec
CONSTANTS
    numthreads = 2
    readframes = 10
    framespersecond = 5
    FirstFrame = 3
    MaxSlots = 82
    Window = 2
    MaxLost = 2
    LossEvery = 12
    MaxUnwanted = 1
INVARIANTS RingsRight OutputInOrder ValidIfRecorded NeverTooFar
PROPERTIES FileRead
CHECK_DEADLOCK FALSE
