SPECIFICATION Spec
CONSTANTS
    w1 = w1
    w2 = w2
    Workers <- TwoWorkers
    N = 2
    MaxRetry = 0
    MaxThread = 1
    MayFail <- NoneMayFail
    MayShutdown = TRUE
    MayCancel = FALSE
    NoTask = NoTask
    Garbage = Garbage
INVARIANT NilMeansFile
CHECK_DEADLOCK FALSE
