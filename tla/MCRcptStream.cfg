SPECIFICATION FairSpec
CONSTANTS
    Code = {"app", "memory", "backtrace"}
    SizeOf <- MCSizeOf
    Header = 2
    ReadSize = 9
    BufferSize = 18
    Modes = {"namedpipe", "tcp", "udp"}
    MaxMsg = 3
INVARIANTS
    TypeOK
    InSync
    BufferFits
    HandledInOrder
    OnlyBacktracesDropped
PROPERTY InboxDrained
\* the traced process may stop writing
CHECK_DEADLOCK FALSE
