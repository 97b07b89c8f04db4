CONSTANTS
    A = A
    B = B
    p = p
    q = q
    v = v
    w = w
    none = none
    Names = {A, B}
    Threads = {t1, t2}
    NoThread = NoThread
    Keys = {p, q}
    Schemas = {v, w}
    EmptySchema = none
    Preloaded <- TwoTables
    ColonPrefix <- NoPrefix
    CacheCapacity = 2
    Requests <- CrossRename
    PoolSize = 2
    Faults = {}
    MaxRequests = 2
    MaxTxns = 0
SPECIFICATION FairSpec
CHECK_DEADLOCK FALSE
PROPERTIES
    RequestsTerminate
