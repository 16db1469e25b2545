SPECIFICATION Spec
CONSTANTS
    Requests = {r1, r2}
    Local = {b1}
    Cron = {b2}
    MaxKills = 2
    None = None
SYMMETRY Symmetric
INVARIANTS
    TypeOK
    PruneAlone
    HoldingProves
PROPERTIES
    AloneNeverRefused
