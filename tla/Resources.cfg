CONSTANTS
    A = A
    B = B
    Names = {A, B}
    Threads = {t1, t2, t3}
    NoThread = NoThread
    PoolSize = 2
    Unreliable = TRUE
    Handlers <- AllHandlers
    MaxRequests = 3
SPECIFICATION ResourcesFairSpec
INVARIANTS
    UnlockLegal
    NoLostWakeup
PROPERTIES
    LocksImplemented
    PoolImplemented
    HandlersFinish
