SPECIFICATION Spec
CONSTANTS
    Shapes <- MCShapes
    Bases <- MCBases
    PageSize = 48
    WeakHeader = 8
    MaxIndex = 15
    NoPool = NoPool
    NoIndex = NoIndex
INVARIANTS
    TypeOK
    ChunksApart
    PartsApart
    OrderFindsPool
    FoundWhereWritten
    SlotsFindPool
PROPERTIES
    FreshPoolFits
