CONSTANTS
    Videos = {v1, v2}
    Workers = {w1, w2}
    MaxRetries = 2
    MaxFaults = 1
    MaxLeftover = 0
    NoJob = NoJob
SPECIFICATION FairSpec
CHECK_DEADLOCK FALSE
PROPERTIES
    QueuedVideoSettles
