CONSTANTS
    A = A
    B = B
    p = p
    q = q
    v = v
    w = w
    none = none
    Names = {A, B}
    Threads = {t1, t2}
    NoThread = NoThread
    Keys = {p, q}
    Schemas = {v, w}
    EmptySchema = none
    Preloaded <- OneTable
    ColonPrefix <- NoPrefix
    CacheCapacity = 2
    Requests <- ForkedHistory
    PoolSize = 2
    Faults = {"current_read"}
    MaxRequests = 3
    MaxTxns = 0
SYMMETRY ThreadSymmetry
SPECIFICATION Spec
CHECK_DEADLOCK FALSE
INVARIANTS
    LinearHistory
