\* c1 may apply with all three processors, c2 only submits.
SPECIFICATION Spec
CONSTANTS
    c1 = c1
    c2 = c2
    Clients = {c1, c2}
    Workers = {w1, w2}
    Works = {a1}
    Items <- MCItems
    Iterations <- MCIterations
    Cpus = 3
    PoolSize = 1
    Mediator = Mediator
    NULL = NULL
INVARIANTS
    NothingLeftBehind
    AppliedOnce
PROPERTY
    EverythingRuns
\* The process may end up with nothing to do.
CHECK_DEADLOCK FALSE
