SPECIFICATION Spec
CONSTANTS
    Writers = {w1, w2, w3}
    MaxBytes = 3
    Counts = {0, 1, 2}
    MaxIndex = 3
    OldSizes = {2, 4}
    MaxChunk = 4
    MaxReads = 5
    MaxKills = 1
    None = None
CHECK_DEADLOCK FALSE
SYMMETRY Symmetric
INVARIANTS
    TypeOK
    OnlyOldestLost
    LatestBytesKept
    LogBounded
