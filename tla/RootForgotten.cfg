SPECIFICATION FairSpec
CONSTANTS
    t1 = t1
    t2 = t2
    Threads = {t1, t2}
    s1 = s1
    Scopes = {s1}
    Overlap = TRUE
    MaxHandles = 2
    MaxSlots = 1
    NoThread = NoThread
    NoScope = NoScope
PROPERTIES
    RootIsFreed
CHECK_DEADLOCK FALSE
