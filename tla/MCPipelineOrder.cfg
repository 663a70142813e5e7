CONSTANTS
    Videos = {v1, v2}
    Workers = {w1}
    MaxRetries = 1
    MaxFaults = 0
    MaxLeftover = 0
    NoJob = NoJob
SPECIFICATION Spec
CHECK_DEADLOCK FALSE
PROPERTIES
    OldestJobFirst
