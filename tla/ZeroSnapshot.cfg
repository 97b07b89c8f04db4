CONSTANTS
    A = A
    B = B
    p = p
    q = q
    v = v
    w = w
    none = none
    Names = {A, B}
    Threads = {t1}
    NoThread = NoThread
    Keys = {p, q}
    Schemas = {v, w}
    EmptySchema = none
    Preloaded <- OneTable
    ColonPrefix <- NoPrefix
    CacheCapacity = 2
    Requests <- ZeroSnapshot
    PoolSize = 2
    Faults = {}
    MaxRequests = 4
    MaxTxns = 1
SPECIFICATION Spec
CHECK_DEADLOCK FALSE
INVARIANTS
    ZeroReadsLatest
