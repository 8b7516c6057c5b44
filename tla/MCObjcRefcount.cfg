\* Two inline references overflow into the side table; deadlocks are errors.
SPECIFICATION Spec
CONSTANTS
    o1 = o1
    o2 = o2
    Threads = {t1, t2}
    Objects = {o1, o2}
    Refs = {r1, r2, r3}
    Slots = {s1}
    Half = 1
    Stripe <- MCStripe
    NULL = NULL
SYMMETRY MCSymmetry
INVARIANTS
    CountsAgree
    NothingDangles
PROPERTY
    ImplementsReferences
