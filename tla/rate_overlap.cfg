CONSTANTS
    Requests = {r1, r2}
    Limit = 1
    Second = 1
    Minute = 2
    Ttl = 4
    Delay = 2
    MaxTime = 8
    Never = Never
SPECIFICATION Spec
INVARIANT AdmittedWithinBudget
\* The clock stops at MaxTime.
CHECK_DEADLOCK FALSE
