CONSTANTS
    A = A
    B = B
    p = p
    q = q
    v = v
    w = w
    none = none
    Names = {A, B}
    Threads = {t1, t2, t3}
    NoThread = NoThread
    Keys = {p, q}
    Schemas = {v, w}
    EmptySchema = none
    Preloaded <- OneTable
    ColonPrefix <- NoPrefix
    CacheCapacity = 2
    Requests <- Liveness
    PoolSize = 1
    Faults = {}
    MaxRequests = 3
    MaxTxns = 0
SPECIFICATION FairSpec
PROPERTIES
    RequestsTerminate
