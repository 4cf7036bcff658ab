SPECIFICATION Spec
CONSTANTS
    udpsize = 3
    readbytes = 8
    Catch = {1, 2}
    First = 1
    MaxSequence = 9
    MaxLost = 0
    MaxLate = 0
INVARIANTS LeftUnderstood
CHECK_DEADLOCK FALSE
