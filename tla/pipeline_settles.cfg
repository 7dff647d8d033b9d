CONSTANTS
    Uploads = {u1, u2}
    Workers = {w1, w2}
    Keys = {k1}
    Files = {f1}
    Types = {inv, gen}
    Invoice = inv
    Answers = {good, bad}
    Valid = {good}
    MaxAttempts = 2
    AtomicPut = FALSE
    Faults = {"db", "storage", "redis", "kill", "ocr", "llm"}
    None = None
SPECIFICATION FairSpec
PROPERTIES
    AcceptedSettles
    KeepsFairLifecycle
    QueueDrains
    DoneIsReused
\* The system stops when every upload is answered and every worker is idle.
CHECK_DEADLOCK FALSE
