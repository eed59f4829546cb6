SPECIFICATION StorageSpec
CONSTANTS
    DEPTH = 3
    DECL_DEPTH = 3
    OVERFLOW = TRUE
    Data = {d1, d2}
    NoData = NoData
    NODES = 4
    NODE_RANGE = 8
    ListDecls <- CheckedLists
    REQUESTS = 6
INVARIANTS
    OccupancyInv
    HeadsAreFresh
    PoolIsExact
PROPERTIES
    ImplementsQueue
    BodiesImplement
    ClassesAgree
    ImplementsLists
