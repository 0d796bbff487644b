SPECIFICATION Spec
CONSTANTS
    Threads = {t1, t2}
    NoCall = NoCall
    NoThread = NoThread
    CountMod = 4
    ChunkFlags = {1}
    StrongMod = 4
    MaxRetains = 3
    MaxStrong = 2
INVARIANTS
    CountIsExact
    StrongCountExact
PROPERTIES
    ImplementsAtomic
