SPECIFICATION Spec
CONSTANTS
    Messages = {1, 2}
    Malformed = {2}
    PrefetchCount = 2
    MaxPublishAttempts = 2
    ResultsBound = TRUE
    AckTimeout = TRUE
    Disturbances <- AllDisturbances
    MaxDisturbances = 2
INVARIANTS
    TypeOK
    AckedIsAnswered
    VerdictMatchesRequest
    DuplicatesHaveACause
    OutcomesNeverOvercounted
PROPERTIES
    SettledForGood
    ImplementsAtLeastOnce
\* The instance stops: all requests settled, no disturbance left.
CHECK_DEADLOCK FALSE
