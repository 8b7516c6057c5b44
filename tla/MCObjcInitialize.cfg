\* When all classes are initialized no message has anything to do.
SPECIFICATION FairSpec
CONSTANTS
    Root = Root
    Middle = Middle
    Leaf = Leaf
    Other = Other
    Threads = {t1, t2}
    Classes = {Root, Middle, Leaf, Other}
    Super <- MCSuper
    Messaged <- MCMessaged
    NULL = NULL
INVARIANTS
    Contiguous
    NeverAborts
PROPERTIES
    NobodyRunsEarly
    EveryMessageDelivered
CHECK_DEADLOCK FALSE
