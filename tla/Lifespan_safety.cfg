SPECIFICATION FairSpec
CONSTANTS
    MaxDelay = 3
    MaxDisturbances = 3
INVARIANTS
    TypeOK
    QueueConnectedIsLive
    NothingOutlives
PROPERTIES
    ImplementsWorker
    StartupEnds
    ShutdownEnds

\* A process that serves may just go on, once no disturbance is left.
CHECK_DEADLOCK FALSE
