SPECIFICATION Spec
CONSTANTS
    t1 = t1
    t2 = t2
    Threads = {t1, t2}
    Retains = {r1, r2}
    Views = {v1, v2}
    WeakMod = 4
    MaxObjects = 2
    MaxHandles = 2
    NoRetain = NoRetain
    NoView = NoView
    NoThread = NoThread
SYMMETRY Symmetry
INVARIANTS
    DestructorOnLiveChunk
CHECK_DEADLOCK FALSE
