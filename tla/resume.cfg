SPECIFICATION FairSpec
CONSTANTS
    Total = 8
    ChunkSizes <- EvenSizes
    MaxCrashes = 2
INVARIANT TypeOK
INVARIANT PlanIsExact
INVARIANT DoneIsWhole
INVARIANT FilesDisjoint
PROPERTY Finishes
CHECK_DEADLOCK FALSE
