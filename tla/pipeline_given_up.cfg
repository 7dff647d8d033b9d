CONSTANTS
    Uploads = {u1}
    Workers = {w1}
    Keys = {k1}
    Files = {f1}
    Types = {inv}
    Invoice = inv
    Answers = {good}
    Valid = {good}
    MaxAttempts = 3
    AtomicPut = TRUE
    Faults = {"storage"}
    None = None
SPECIFICATION Spec
INVARIANT GivenUpIsFailed
CHECK_DEADLOCK FALSE
