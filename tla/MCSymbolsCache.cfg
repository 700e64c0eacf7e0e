SPECIFICATION FairSpec
CONSTANTS
    t1 = t1
    t2 = t2
    a = a
    b = b
    c = c
    NULL = NULL
    Thread = {t1, t2}
    Address = {a, b, c}
    CELLS = 2
    INT_MAX = 2
    Backtraces <- MCBacktraces
    MaxBacktrace = 3
    MaxProcess = 2
INVARIANTS
    TypeOK
    SymbolOnItsWay
    NamesAreOwn
    SentOnce
PROPERTY NamesArrive
\* the traced program may stop doing anything
CHECK_DEADLOCK FALSE
