SPECIFICATION Spec
CONSTANTS
    numthreads = 2
    readframes = 6
    framespersecond = 5
    FirstFrame = 3
    MaxSlots = 20
    Window = 1
    MaxLost = 0
    LossEvery = 1
    MaxUnwanted = 0
INVARIANTS NothingInRings
CHECK_DEADLOCK FALSE
