SPECIFICATION Spec
CONSTANTS
    Messages = {1}
    Malformed = {}
    PrefetchCount = 1
    MaxPublishAttempts = 3
    ResultsBound = FALSE
    AckTimeout = TRUE
    Disturbances <- Undisturbed
    MaxDisturbances = 0
INVARIANTS
    AckedIsAnswered
\* The instance stops: all requests settled, no disturbance left.
CHECK_DEADLOCK FALSE
