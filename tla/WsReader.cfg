CONSTANTS
    Lengths = {0, 2, 3}
    Medium = 3
    Long = 9
    MaxMessage = 4
    MaxFrames = 3
    MaxMisreads = 1
SPECIFICATION FairSpec
CHECK_DEADLOCK FALSE
INVARIANTS
    TypeOK
    MessagesWhole
    PongsInOrder
    PlaceKept
    NeverStarves
PROPERTIES
    ImplementsFrameReader
    EveryMessageDelivered
