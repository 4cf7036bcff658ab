CONSTANTS
    MaxVis = 3
    VisBufferLength = 2
    MonitorSkip = 1
SPECIFICATION FairSpec
PROPERTY StartupEnds
