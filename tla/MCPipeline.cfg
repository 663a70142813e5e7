CONSTANTS
    Videos = {v1, v2}
    Workers = {w1, w2}
    MaxRetries = 2
    MaxFaults = 2
    MaxLeftover = 1
    NoJob = NoJob
SYMMETRY Symmetry
SPECIFICATION Spec
CHECK_DEADLOCK FALSE
INVARIANTS
    TypeOK
    PollMatchesUrls
    HostedUrlsExist
    NoStrandedVideo
    OneJobPerVideo
    TmpDirsAccounted
PROPERTIES
    LifecycleSpec
