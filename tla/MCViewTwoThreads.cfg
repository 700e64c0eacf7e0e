SPECIFICATION FairSpec
CONSTANTS
    t0 = t0
    p = p
    q = q
    NULL = NULL
    Main = t0
    Addr = {p, q}
    AllocCode = {"malloc"}
    Filters <- MCFilters
    MaxReceived = 3
    MaxSession = 1
    MaxTime = 2
    IntRange = 65536
    WordRange = 131072
    CountRange = 65536
INVARIANTS
    TypeOK
    ViewOfSession
    FilterAgrees
    ChartDrawn
PROPERTY HandlersEnd
\* the process may send nothing more
CHECK_DEADLOCK FALSE
