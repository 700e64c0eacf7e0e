SPECIFICATION FairSpec
CONSTANTS
    main = main
    w1 = w1
    w2 = w2
    app = app
    memory = memory
    backtrace = backtrace
    NONE = NONE
    Thread <- MCThread
    Main = main
    Code <- MCCode
    App = app
    SizeOf <- MCSizeOf
    BUFFER_SIZE = 4
    MaxMsgNum = 5
    MaxPreInitMsg = 2
    OpenMayFail = FALSE
    WritesMayFail = FALSE
    ConcurrentExit = FALSE
INVARIANTS
    TypeOK
    BufferInBounds
    NothingLost
    EveryNumberOnce
    ThreadOrder
    NothingStranded
PROPERTY AllDelivered
\* the traced process ends and MaxMsgNum stops it
CHECK_DEADLOCK FALSE
