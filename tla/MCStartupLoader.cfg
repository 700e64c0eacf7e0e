SPECIFICATION Spec
CONSTANTS
    NULL = NULL
    Sizes = {1, 2}
    TMPBUF = 4
    PREINIT = 4
    MaxLookup = 2
    MaxBlock = 3
INVARIANTS
    TypeOK
    LookupsFreeTheirOwn
    ReportsMatchHeap
    FailureNoticed
    BacktracePrepared
\* the process may end, and the program may stop
CHECK_DEADLOCK FALSE
