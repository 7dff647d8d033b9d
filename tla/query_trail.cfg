CONSTANTS
    Queries = {q1, q2}
    Readers = {r1}
    MaxAttempts = 2
    Nobody = nobody
SPECIFICATION Spec
INVARIANTS
    TypeOK
    AnsweredIsRecorded
    NumbersFollowClient
    AuditFollowsClient
    AuditIsWhole
SYMMETRY Symmetry
\* Every request ends and so does the job.
CHECK_DEADLOCK FALSE
