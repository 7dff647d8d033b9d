CONSTANTS
    Uploads = {u1, u2}
    Workers = {w1, w2}
    Keys = {k1, k2}
    Files = {f1, f2}
    Types = {inv, gen}
    Invoice = inv
    Answers = {good, bad}
    Valid = {good}
    MaxAttempts = 3
    AtomicPut = FALSE
    Faults = {"db", "storage", "redis", "kill", "ocr", "llm"}
    None = None
SPECIFICATION Spec
SYMMETRY Symmetry
INVARIANTS
    TypeOK
    HandOff
    AcceptedIsTracked
    VerdictIsEarned
    CacheProvenance
    AuditTellsTheStory
    DamagedByRival
    IInv
PROPERTIES
    SettledStaysSettled
    KeepsLifecycle
    KeepsTrail
\* The system stops when every upload is answered and every worker is idle.
CHECK_DEADLOCK FALSE
