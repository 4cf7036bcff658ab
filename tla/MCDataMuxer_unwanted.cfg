SPECIFICATION Spec
CONSTANTS
    numthreads = 2
    readframes = 6
    framespersecond = 5
    FirstFrame = 3
    MaxSlots = 40
    Window = 1
    MaxLost = 0
    LossEvery = 1
    MaxUnwanted = 14
INVARIANTS ValidIfRecorded
CHECK_DEADLOCK FALSE
