CONSTANTS
    Uploads = {u1, u2, u3}
    Workers = {w1}
    Keys = {k1, k2}
    Files = {f1}
    Types = {inv}
    Invoice = inv
    Answers = {good}
    Valid = {good}
    MaxAttempts = 1
    AtomicPut = TRUE
    Faults = {}
    None = None
    Readers = {r1}
    Limits = {1, 2}
SPECIFICATION SpecAll
SYMMETRY Symmetry
INVARIANTS
    ReadsOK
    OwnerAloneFindsJob
    PagingMissesNothing
    PagingRepeatsArrivals
    ScrapeDrift
    CacheProvenance
\* The system stops when every request is answered and every worker is idle.
CHECK_DEADLOCK FALSE
