CONSTANTS
    Queries = {q1}
    Readers = {r1}
    MaxAttempts = 2
    Nobody = nobody
SPECIFICATION Spec
INVARIANT AuditAnswers
\* Every request ends and so does the job.
CHECK_DEADLOCK FALSE
