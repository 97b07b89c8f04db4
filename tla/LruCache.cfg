CONSTANTS
    A = A
    B = B
    Names = {A, B}
    Threads = {t1}
    NoThread = NoThread
    ColonPrefix <- APrefixOfB
    CacheCapacity = 3
    Snapshots = {1, 2}
    Values = {v, w}
    MaxCalls = 6
SPECIFICATION Spec
CHECK_DEADLOCK FALSE
INVARIANTS
    IteratorsValid
    ListIsRecentUse
PROPERTIES
    CacheImplemented
