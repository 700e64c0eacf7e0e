SPECIFICATION Spec
SYMMETRY MCWorkers
CONSTANTS
    main = main
    w1 = w1
    w2 = w2
    app = app
    memory = memory
    backtrace = backtrace
    NONE = NONE
    Thread <- MCThread
    Main = main
    Code <- MCCode
    App = app
    SizeOf <- MCSizeOf
    BUFFER_SIZE = 4
    MaxMsgNum = 4
    MaxPreInitMsg = 2
    OpenMayFail = TRUE
    WritesMayFail = TRUE
    ConcurrentExit = FALSE
INVARIANT WholeMessages
PROPERTY ChannelSpec
\* the traced process ends and MaxMsgNum stops it
CHECK_DEADLOCK FALSE
