SPECIFICATION Spec
CONSTANTS
    numthreads = 2
    readframes = 4
    framespersecond = 5
    FirstFrame = 3
    MaxSlots = 30
    Window = 1
    MaxLost = 6
    LossEvery = 1
    MaxUnwanted = 0
INVARIANTS NeverTooFar
CHECK_DEADLOCK FALSE
