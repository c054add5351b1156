SPECIFICATION Spec
CONSTANTS
    a1 = a1
    a2 = a2
    a3 = a3
    Analyses = {a3}
    Queued = {}
    MaxRetries = 2
    Files <- GoodFiles
INVARIANTS
    RequestsCountedOnce

\* Every analysis ends, and no other arrives.
CHECK_DEADLOCK FALSE
