SPECIFICATION Spec
CONSTANTS
    main = main
    w1 = w1
    w2 = w2
    app = app
    memory = memory
    backtrace = backtrace
    NONE = NONE
    Thread <- MCTwoThreads
    Main = main
    Code <- MCCode
    App = app
    SizeOf <- MCSizeOf
    BUFFER_SIZE = 4
    MaxMsgNum = 4
    MaxPreInitMsg = 2
    OpenMayFail = FALSE
    WritesMayFail = FALSE
    ConcurrentExit = TRUE
INVARIANT NothingStranded
\* the traced process ends and MaxMsgNum stops it
CHECK_DEADLOCK FALSE
