CONSTANTS
    Replies <- SomeReplies
    None = None
    NaN = NaN
SPECIFICATION Spec
INVARIANTS
    TypeOK
    RepromptsWithLastErrors
    OutcomeMatchesRecords
    ScoresSeparateVerdicts
    AcceptedReconciles
    RightIsAccepted
PROPERTY ImplementsLoop
\* The loop returns.
CHECK_DEADLOCK FALSE
