CONSTANTS
    Ratio = 3
    ChunkSizes = {1, 2, 4, 5}
    MaxInput = 16
    Period = 2
SPECIFICATION FairSpec
CHECK_DEADLOCK FALSE
INVARIANTS
    TypeOK
    PlayedInOrder
    SampleSpacing
PROPERTIES
    EveryFrameHeard
