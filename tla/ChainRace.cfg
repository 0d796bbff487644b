SPECIFICATION Spec
CONSTANTS
    t1 = t1
    t2 = t2
    t3 = t3
    Threads = {t1, t2, t3}
    p1 = p1
    p2 = p2
    p3 = p3
    Pools = {p1, p2, p3}
    Capacity = 2
    MaxPanics = 1
    MaxWaiting = 1
    NoThread = NoThread
    NoPool = NoPool
SYMMETRY Symmetry
CHECK_DEADLOCK FALSE
INVARIANTS
    TypeOK
    PoolsOutliveUse
    ChainLinked
    FreeListExact
    FlushWalksAll
    NoPoolLeaks
    TraversalMeetsAll
