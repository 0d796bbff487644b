SPECIFICATION Spec
CONSTANTS
    t1 = t1
    t2 = t2
    t3 = t3
    Threads = {t1, t2, t3}
    s1 = s1
    Scopes = {s1}
    Overlap = TRUE
    MaxHandles = 2
    MaxSlots = 1
    NoThread = NoThread
    NoScope = NoScope
SYMMETRY Symmetry
CHECK_DEADLOCK FALSE
INVARIANTS
    TypeOK
    NoUseAfterFree
    RetiredIsQuiet
    LeaseIsGranted
    FinalizedByOne
