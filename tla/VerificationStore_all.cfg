SPECIFICATION FairSpec
CONSTANTS
    Jobs = {j1, j2}
    Readers = {r1}
    Snapshots = {s1}
    ReaderKinds = {"all", "load"}
    None = None
INVARIANTS
    TypeOK
    OwnWorkDirOnly
    OutcomeRecorded
PROPERTIES
    ImplementsService
    InterruptedOverlaps
    VerifyLockReleased
