SPECIFICATION Spec
CONSTANTS
    t1 = t1
    t2 = t2
    Threads = {t1, t2}
    s1 = s1
    s2 = s2
    Scopes = {s1, s2}
    Overlap = FALSE
    MaxHandles = 1
    MaxSlots = 1
    NoThread = NoThread
    NoScope = NoScope
CHECK_DEADLOCK FALSE
INVARIANTS
    NoUseAfterFree
