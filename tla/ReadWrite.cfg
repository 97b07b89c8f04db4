CONSTANTS
    A = A
    B = B
    p = p
    q = q
    v = v
    w = w
    none = none
    Names = {A, B}
    Threads = {t1, t2, t3}
    NoThread = NoThread
    Keys = {p, q}
    Schemas = {v}
    EmptySchema = none
    Preloaded <- OneTable
    ColonPrefix <- NoPrefix
    CacheCapacity = 2
    Requests <- ReadWrite
    Queries <- AllQueries
    PoolSize = 2
    Faults = {"crash", "connect"}
    MaxRequests = 4
    MaxTxns = 1
CHECK_DEADLOCK FALSE
SYMMETRY ThreadSymmetry
SPECIFICATION QuerySpec
INVARIANTS
    LinearHistory
    AckedCommitIsCurrent
    ReadsExact
    MetadataIsOneSnapshot
    WalkIsComplete
    ListIsChain
    CommittedIsListed
PROPERTIES
    SnapshotImmutable
