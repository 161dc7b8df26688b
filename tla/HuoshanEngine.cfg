CONSTANTS
    MaxConn = 2
    MaxChunks = 3
SPECIFICATION FairSpec
CHECK_DEADLOCK FALSE
INVARIANTS
    TypeOK
    OneChain
    ReadyMeansSession
    HandshakeInOrder
    OneStaleChunk
    NeverStranded
PROPERTIES
    ImplementsSessions
    SessionAgain
