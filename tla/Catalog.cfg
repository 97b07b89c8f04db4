CONSTANTS
    A = A
    B = B
    p = p
    q = q
    v = v
    w = w
    none = none
    Names = {A, B}
    Threads = {t1, t2, t3}
    NoThread = NoThread
    Keys = {p, q}
    Schemas = {v, w}
    EmptySchema = none
    Preloaded <- OneTable
    ColonPrefix <- APrefixOfB
    CacheCapacity = 1
    Requests <- Catalog
    PoolSize = 2
    Faults = {}
    MaxRequests = 4
    MaxTxns = 0
SYMMETRY ThreadSymmetry
SPECIFICATION Spec
INVARIANTS
    TypeOK
    CacheCoherent
    SchemaHistoryComplete
PROPERTIES
    CatalogImplemented
