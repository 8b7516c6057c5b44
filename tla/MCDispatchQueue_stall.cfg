CONSTANTS
    Clients = {c1, c2}
    Workers = {w1, w2}
    Works = {a1, a2}
    NULL = NULL
    Width = 4
    Calls = {"async", "barrier_async"}
    MaxSuspend = 1
SPECIFICATION Spec
SYMMETRY Symmetry
CHECK_DEADLOCK FALSE
INVARIANTS
    NeverStalls
