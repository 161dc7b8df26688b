CONSTANTS
    Lengths = {3}
    Medium = 9
    Long = 10
    MaxMessage = 9
    MaxFrames = 2
    MaxMisreads = 1
SPECIFICATION Spec
CHECK_DEADLOCK FALSE
INVARIANTS
    LeftoverAppended
