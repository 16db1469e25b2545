SPECIFICATION FairSpec
CONSTANTS
    Requests = {r1, r2}
    Cron = Cron
    Ops = {"create", "update", "schedule", "delete", "legacy", "add", "remove"}
    Ids = {p1}
    Repos = {default, x1}
    Default = default
    Times = {t1}
    Fallback = t1
    MaxRestarts = 1
    None = None
INVARIANTS
    TypeOK
    CronCurrent
PROPERTIES
    NoResurrection
    CronLockReleased
