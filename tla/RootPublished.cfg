SPECIFICATION FairSpec
CONSTANTS
    Threads = {t1, t2}
    Roots = {r1, r2}
    Objects = {o1, o2, o3}
    DataTypes = {A}
    Hooks = {H}
    Entity = Entity
    Null = Null
    Sentinel = Sentinel
    NoRoot = NoRoot
    NoObject = NoObject
    NoHook = NoHook
    NoEntry = NoEntry
INVARIANTS
    OneInitialiser
    PublishedIsReady
    NoRootLost
    AllDestroyedOnce
PROPERTIES
    CallsReturn
