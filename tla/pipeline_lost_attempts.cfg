CONSTANTS
    Uploads = {u1}
    Workers = {w1}
    Keys = {k1}
    Files = {f1}
    Types = {inv}
    Invoice = inv
    Answers = {good, bad}
    Valid = {good}
    MaxAttempts = 3
    AtomicPut = TRUE
    Faults = {"llm"}
    None = None
SPECIFICATION Spec
INVARIANT AuditComplete
CHECK_DEADLOCK FALSE
