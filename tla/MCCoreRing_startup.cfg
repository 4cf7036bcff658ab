CONSTANTS
    NumThreads = 1
    MaxSubints = 4
    ConfigOf <- MCConfigOf
    Configs = {0, 1}
    Spurious = TRUE
SPECIFICATION FairSpec
PROPERTIES StartupEnds
CHECK_DEADLOCK FALSE
