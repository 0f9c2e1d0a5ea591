\* Two lives of the ability, ScanFile and ScanDir at any time; one commit more than threads.
SPECIFICATION FairSpec
CONSTANTS
    MAX_THREAD = 2
    SizeMod = 8
    MaxCommits = 3
    MaxStarts = 2
    ClientScans = TRUE
    SpuriousWakeups = TRUE
INVARIANTS
    TypeOK
    TaskAccounting
    CounterMeaning
    CounterCoversQueue
    QueueServed
    EarlyCommitsGetThreads
    UnfinishedMeansRunning
PROPERTIES
    TasksLeave
    NoTaskComesBack
    WaitingStopReturns
\* Once every commit is made and served nothing is left to do.
CHECK_DEADLOCK FALSE
