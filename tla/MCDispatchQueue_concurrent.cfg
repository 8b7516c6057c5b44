CONSTANTS
    Clients = {c1, c2}
    Workers = {w1, w2}
    Works = {a1}
    NULL = NULL
    Width = 4
    Calls = {"async", "sync", "barrier_async", "barrier_sync"}
    MaxSuspend = 1
SPECIFICATION Spec
SYMMETRY Symmetry
CHECK_DEADLOCK FALSE
INVARIANTS
    BarriersExclude
    OnRootOnce
PROPERTIES
    TakenInOrder
