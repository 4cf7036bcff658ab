SPECIFICATION Spec
CONSTANTS
    udpsize = 3
    readbytes = 8
    Catch = {}
    First = 0
    MaxSequence = 6
    MaxLost = 0
    MaxLate = 0
INVARIANTS InPlace
CHECK_DEADLOCK FALSE
