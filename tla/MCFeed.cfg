CONSTANTS
    MaxVideo = 2
    Readers = {r1, r2}
    Limit = 1
    TTL = 2
    MaxFill = 1
    MaxFaults = 1
SPECIFICATION Spec
CHECK_DEADLOCK FALSE
SYMMETRY Symmetry
INVARIANTS
    TypeOK
    DeletedVideoLeaves
    QuietFeedIsExact
    BustedFeedShowsVideo
