SPECIFICATION FairSpec
CONSTANTS
    Batches = {b1, b2}
    Verifiers = {v1}
    Probes = {p1, p2}
    NProfiles = 2
    MaxFaults = 2
    None = None
    Orphan = Orphan
INVARIANTS
    TypeOK
    BatchReportsFailures
PROPERTIES
    ImplementsAccess
    LockReleased
    BatchEnds
