SPECIFICATION Spec
CONSTANTS
    a1 = a1
    a2 = a2
    a3 = a3
    Analyses = {a1}
    Queued = {a1}
    MaxRetries = 2
    Files <- GoodFiles
INVARIANTS
    InvalidRepliesAreRetried

\* Every analysis ends, and no other arrives.
CHECK_DEADLOCK FALSE
