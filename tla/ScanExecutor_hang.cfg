\* One OnStart and one OnStop.
SPECIFICATION FairSpec
CONSTANTS
    MAX_THREAD = 4
    SizeMod = 16
    MaxCommits = 1
    MaxStarts = 1
    ClientScans = FALSE
    SpuriousWakeups = FALSE
PROPERTIES
    StopReturns
CHECK_DEADLOCK FALSE
