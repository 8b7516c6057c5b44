CONSTANTS
    Threads = {t1, t2, t3}
    Orig = 1
    LongMax = 2
    MaxPosts = 3
    Backend = "mach"
SPECIFICATION FairSpec
CHECK_DEADLOCK FALSE
INVARIANTS
    WakeupsAccounted
    NoLostWakeup
    NoUseAfterDispose
PROPERTIES
    ImplementsSemaphore
    Settles
