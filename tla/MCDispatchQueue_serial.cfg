CONSTANTS
    Clients = {c1, c2}
    Workers = {w1, w2}
    Works = {a1, a2}
    NULL = NULL
    Width = 1
    Calls = {"barrier_async", "barrier_sync", "suspend"}
    MaxSuspend = 1
SPECIFICATION Spec
SYMMETRY Symmetry
CHECK_DEADLOCK FALSE
INVARIANTS
    BarriersRunAlone
    NeverStalls
    NeverDisposedInUse
    BalancedAtRest
PROPERTIES
    ImplementsSerialQueue
