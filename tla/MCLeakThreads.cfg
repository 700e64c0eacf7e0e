SPECIFICATION Spec
CONSTANTS
    t0 = t0
    t1 = t1
    t2 = t2
    p = p
    q = q
    NULL = NULL
    Thread = {t0, t1}
    Main = t0
    Addr = {p, q}
    AllocCode = {"malloc", "calloc"}
    SendBacktrace = FALSE
    Scenarios <- MCView
    IntRange = 65536
    WordRange = 131072
    CountRange = 65536
SYMMETRY AddrSymmetry
INVARIANTS
    TypeOK
    LeaksAreReal
    SizesAreReal
    FreeFindsAlloc
    StatisticsMatchList
    ThreadUsageExact
    ThreadUsageAddsUp
    ChartConsistent
\* the program may stop doing anything
CHECK_DEADLOCK FALSE
