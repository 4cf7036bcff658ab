CONSTANTS
    NumThreads = 2
    MaxSubints = 6
    ConfigOf <- MCConfigOf
    Configs = {0, 1}
    Spurious = FALSE
SPECIFICATION FairSpec
INVARIANTS CleanExit
PROPERTIES ReturnsAll Terminates
