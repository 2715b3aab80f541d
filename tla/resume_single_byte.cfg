SPECIFICATION Spec
CONSTANTS
    Total = 5
    ChunkSizes <- OneSize
    MaxCrashes = 0
INVARIANT DoneIsWhole
CHECK_DEADLOCK FALSE
