SPECIFICATION Spec
CONSTANTS
    Total = 8
    ChunkSizes <- OneSize
    MaxCrashes = 1
INVARIANT OutputIsPrefix
CHECK_DEADLOCK FALSE
