CONSTANTS
    Threads = {t1, t2}
    NoThread = NoThread
    TxnTimeout = 0
    MaxTxns = 2
    MaxTime = 1
    Faults = {"statement", "connect", "crash"}
    MaxFaults = 1
SPECIFICATION TxnFairSpec
INVARIANTS
    TypeOK
    CommitsNumbered
    ActiveReadsPast
    NoStrayPins
    AcksAreCommits
    RowsFollowCommits
    EndedNeverCommits
PROPERTIES
    HandlersReturn
