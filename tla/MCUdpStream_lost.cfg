SPECIFICATION Spec
CONSTANTS
    udpsize = 3
    readbytes = 9
    Catch = {}
    First = 1
    MaxSequence = 9
    MaxLost = 1
    MaxLate = 0
INVARIANTS LeftUnderstood
CHECK_DEADLOCK FALSE
