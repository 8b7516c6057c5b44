CONSTANTS
    Threads = {t1, t2, t3}
    Records = {n1, n2}
    NULL = NULL
    Orig = 1
    MaxPosts = 2
SPECIFICATION FairSpec
CHECK_DEADLOCK FALSE
INVARIANTS
    RecordsInOrder
    NobodyForgotten
    NeverDisposedInUse
    ReferencesBalanced
PROPERTIES
    Settles
