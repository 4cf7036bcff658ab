CONSTANTS
    NumThreads = 1
    MaxSubints = 6
    ConfigOf <- MCConfigOf
    Configs = {0, 1}
    Spurious = FALSE
SPECIFICATION Spec
INVARIANTS FreesOldSpace
