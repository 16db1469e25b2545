SPECIFICATION Spec
CONSTANTS
    Ids = {p1, p2}
    Service = service
    Names = {n1}
    Hosts = {h1}
    Keeps = {1, 2}
    Days = 1
    Weeks = 0
    Months = 0
    MaxRuns = 3
    MaxDay = 0
    MaxKills = 0
    None = None
SYMMETRY Symmetric
PROPERTIES
    KeptByNameRetention
