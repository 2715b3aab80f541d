SPECIFICATION FairSpec
CONSTANTS
    w1 = w1
    w2 = w2
    Workers <- TwoWorkers
    N = 2
    MaxRetry = 1
    MaxThread = 1
    MayFail <- AllMayFail
    MayShutdown = TRUE
    MayCancel = TRUE
    NoTask = NoTask
    Garbage = Garbage
INVARIANT TypeOK
INVARIANT InOrder
INVARIANT NilMeansComplete
INVARIANT OneHolder
INVARIANT ThreadsBounded
INVARIANT CleanAlone
PROPERTY ImplementsDownload
PROPERTY DoReturns
PROPERTY ShutdownEnds
PROPERTY NothingLeaks
CHECK_DEADLOCK FALSE
