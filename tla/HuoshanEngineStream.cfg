CONSTANTS
    MaxConn = 2
    MaxChunks = 1
SPECIFICATION Spec
CHECK_DEADLOCK FALSE
INVARIANTS
    StreamAlone
