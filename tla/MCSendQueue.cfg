CONSTANTS
    main = main
    capture = capture
    a1 = a1
    a2 = a2
    a3 = a3
    c1 = c1
    c2 = c2
    none = none
    Threads <- MCThreads
    Main <- main
    Msgs <- MCMsgs
    CloseMsgs <- MCCloseMsgs
    Callbacks <- MCCallbacks
    TimeoutIdle = TRUE
    None <- none
SPECIFICATION FairSpec
CHECK_DEADLOCK FALSE
INVARIANTS
    TypeOK
    OneWriteOfTheHead
    WireInOrder
    CallbacksTellTheTruth
    CloseOnce
PROPERTIES
    ImplementsChannel
    EveryCallbackCalled
