SPECIFICATION FairSpec
CONSTANTS
    Messages = {1, 2}
    Malformed = {2}
    PrefetchCount = 2
    MaxPublishAttempts = 2
    AckTimeout = TRUE
    Disturbances <- Outages
    MaxDisturbances = 1
    MaxRetries = 2
    Files <- TwoFiles
INVARIANTS
    OutcomesBalance
    AnswersComeFromAnalyses
    SettledByItsOwnAnalysis
    CallsBounded
PROPERTIES
    ImplementsWorker
\* The instance stops: all requests settled, no disturbance left.
CHECK_DEADLOCK FALSE
