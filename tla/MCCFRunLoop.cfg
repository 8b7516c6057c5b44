\* Clients call what they like until they have made MaxCalls calls, and the
\* loop then sleeps for ever: no deadlock check.
SPECIFICATION Spec
CONSTANTS
    m1 = m1
    m2 = m2
    s1 = s1
    p1 = p1
    b1 = b1
    b2 = b2
    Threads = {t1, t2}
    Modes = {m1, m2}
    CommonModes = {m1}
    Sources = {s1}
    PortSources = {p1}
    Blocks = {b1, b2}
    Where <- MCWhere
    Nesting = {"sources", "main", "port"}
    Runs <- MCRuns
    MaxDepth = 2
    MaxCalls = 2
    NULL = NULL
INVARIANTS
    NeverSleepsThroughWork
    BlocksKeptInOrder
PROPERTY
    SignalsServed
CHECK_DEADLOCK FALSE
