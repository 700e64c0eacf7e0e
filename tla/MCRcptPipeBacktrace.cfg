SPECIFICATION Spec
CONSTANTS
    Code = {"app", "memory", "backtrace"}
    SizeOf <- MCSizeOf
    Header = 2
    ReadSize = 9
    BufferSize = 18
    Modes = {"namedpipe"}
    MaxMsg = 3
INVARIANT EveryBacktraceHandled
\* the traced process may stop writing
CHECK_DEADLOCK FALSE
