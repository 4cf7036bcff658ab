SPECIFICATION Spec
CONSTANTS
    udpsize = 3
    readbytes = 8
    Catch = {5}
    First = 1
    MaxSequence = 9
    MaxLost = 0
    MaxLate = 0
INVARIANTS CaughtUp
CHECK_DEADLOCK FALSE
