CONSTANTS
    MaxVideo = 2
    Readers = {r1}
    Limit = 2
    TTL = 2
    MaxFill = 1
    MaxFaults = 0
SPECIFICATION Spec
CHECK_DEADLOCK FALSE
INVARIANTS
    NewVideoVisible
