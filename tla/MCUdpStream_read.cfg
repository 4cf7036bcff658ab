SPECIFICATION Spec
CONSTANTS
    udpsize = 3
    readbytes = 8
    Catch = {1, 2, 5}
    First = 1
    MaxSequence = 12
    MaxLost = 2
    MaxLate = 2
INVARIANTS CallsSafe SegmentRight OffsetRight
CHECK_DEADLOCK FALSE
