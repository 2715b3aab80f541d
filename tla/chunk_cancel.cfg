SPECIFICATION FairSpec
CONSTANTS
    w1 = w1
    w2 = w2
    Workers <- TwoWorkers
    N = 2
    MaxRetry = 0
    MaxThread = 1
    MayFail <- NoneMayFail
    MayShutdown = FALSE
    MayCancel = TRUE
    NoTask = NoTask
    Garbage = Garbage
PROPERTY CancelAborts
CHECK_DEADLOCK FALSE
