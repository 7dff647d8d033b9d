CONSTANTS
    Requests = {r1, r2}
    Limit = 2
    Second = 2
    Minute = 4
    Ttl = 6
    Delay = 2
    MaxTime = 11
    Never = Never
SPECIFICATION Spec
SYMMETRY Symmetry
INVARIANTS
    TypeOK
    BudgetWithOverlap
    ExpiryHarmless
    IInv
PROPERTIES
    PromiseKept
    KeepsMeter
\* The clock stops at MaxTime.
CHECK_DEADLOCK FALSE
