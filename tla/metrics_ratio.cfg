CONSTANTS
    Uploads = {u1, u2, u3}
    Workers = {w1}
    Keys = {k1}
    Files = {f1}
    Types = {inv}
    Invoice = inv
    Answers = {good}
    Valid = {good}
    MaxAttempts = 1
    AtomicPut = TRUE
    Faults = {}
    None = None
    Readers = {r1}
    Limits = {1}
SPECIFICATION SpecAll
INVARIANT RatioIsFraction
\* The system stops when every request is answered and every worker is idle.
CHECK_DEADLOCK FALSE
