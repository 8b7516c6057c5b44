\* At the end of the clock, with the calls made, everything may stop.
SPECIFICATION Spec
CONSTANTS
    m1 = m1
    m2 = m2
    A = A
    B = B
    C = C
    Threads = {t1}
    Modes = {m1, m2}
    Timers = {A, B, C}
    Interval <- MCInterval
    Tolerance <- MCTolerance
    Placed <- MCPlaced
    Calls <- MCCalls
    MaxTime = 2
    MaxDepth = 2
    MaxCalls = 2
    NULL = NULL
INVARIANTS
    SortedByDate
    ArmedForEarliest
CHECK_DEADLOCK FALSE
