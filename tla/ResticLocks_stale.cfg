SPECIFICATION Spec
CONSTANTS
    Requests = {r1}
    Local = {b1}
    Cron = {}
    MaxKills = 1
    None = None
PROPERTIES
    BatchClearsStale
