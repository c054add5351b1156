SPECIFICATION Spec
CONSTANTS
    MaxDelay = 3
    MaxDisturbances = 1
INVARIANTS
    DegradedStartupShows

\* A process that serves may just go on, once no disturbance is left.
CHECK_DEADLOCK FALSE
