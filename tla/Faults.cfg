CONSTANTS
    A = A
    B = B
    p = p
    q = q
    v = v
    w = w
    none = none
    Names = {A, B}
    Threads = {t1, t2}
    NoThread = NoThread
    Keys = {p, q}
    Schemas = {v, w}
    EmptySchema = none
    Preloaded <- OneTable
    ColonPrefix <- NoPrefix
    CacheCapacity = 2
    Requests <- Everything
    PoolSize = 3
    Faults = {"statement", "commit", "connect", "crash"}
    MaxRequests = 4
    MaxTxns = 1
SYMMETRY ThreadSymmetry
SPECIFICATION Spec
CHECK_DEADLOCK FALSE
INVARIANTS
    CacheCoherent
    SchemaHistoryComplete
    NothingLeaked
PROPERTIES
    CatalogImplemented
