CONSTANTS
    Threads = {t1, t2, t3, t4}
    NULL = NULL
    DONE = DONE
SPECIFICATION FairSpec
INVARIANTS
    TypeOK
    WalkerReadsLiveRecords
    SemaphoreReturnedEmpty
    NobodyLeftBehind
PROPERTIES
    ImplementsOnce
    EveryCallReturns
