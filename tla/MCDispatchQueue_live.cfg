CONSTANTS
    Clients = {c1, c2}
    Workers = {w1}
    Works = {a1}
    NULL = NULL
    Width = 4
    Calls = {"barrier_async", "barrier_sync", "sync"}
    MaxSuspend = 1
SPECIFICATION FairSpec
CHECK_DEADLOCK FALSE
PROPERTIES
    EveryItemRuns
