SPECIFICATION FairSpec
CONSTANTS
    Roles = {a, b}
    MaxRuns = 2
    MaxDumps = 2
    MaxDbs = 2
    MaxDeaths = 1
    None = None
CHECK_DEADLOCK FALSE
INVARIANTS
    TypeOK
    AtMostThreeCopies
    OwnScratchOnly
    RolesRecorded
    VerdictHonest
PROPERTIES
    ForeignKept
    RunsEndUnlessHung
