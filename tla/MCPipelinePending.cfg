CONSTANTS
    Videos = {v1}
    Workers = {w1}
    MaxRetries = 1
    MaxFaults = 1
    MaxLeftover = 0
    NoJob = NoJob
SPECIFICATION FairSpec
CHECK_DEADLOCK FALSE
PROPERTIES
    PendingEnds
