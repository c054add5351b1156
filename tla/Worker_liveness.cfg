SPECIFICATION FairSpec
CONSTANTS
    Messages = {1, 2, 3}
    Malformed = {2}
    PrefetchCount = 1
    MaxPublishAttempts = 2
    ResultsBound = TRUE
    AckTimeout = TRUE
    Disturbances <- Outages
    MaxDisturbances = 2
INVARIANTS
    WorkBounded
PROPERTIES
    EventuallySettled
\* The instance stops: all requests settled, no disturbance left.
CHECK_DEADLOCK FALSE
