SPECIFICATION Spec
CONSTANTS
    Ids = {p1, p2}
    Service = service
    Names = {n1}
    Hosts = {h1, h2}
    Keeps = {0, 1}
    Days = 1
    Weeks = 0
    Months = 0
    MaxRuns = 2
    MaxDay = 1
    MaxKills = 1
    None = None
SYMMETRY Symmetric
INVARIANTS
    TypeOK
    LatestKept
    OwnBounded
    StageCleared
PROPERTIES
    FreshOnly
