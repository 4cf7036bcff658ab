CONSTANTS
    NumThreads = 3
    MaxSubints = 7
    ConfigOf <- MCConfigOf
    Configs = {0, 1}
    Spurious = TRUE
SPECIFICATION Spec
INVARIANTS TypeOK ResultsWhole SlotExclusive UnlocksOwn RingInv
