SPECIFICATION Spec
CONSTANTS
    Messages = {1}
    Malformed = {}
    PrefetchCount = 1
    MaxPublishAttempts = 3
    ResultsBound = TRUE
    AckTimeout = TRUE
    Disturbances <- PublishTrouble
    MaxDisturbances = 3
INVARIANTS
    FailuresSurface
\* The instance stops: all requests settled, no disturbance left.
CHECK_DEADLOCK FALSE
