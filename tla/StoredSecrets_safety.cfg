SPECIFICATION Spec
CONSTANTS
    Requests = {r1, r2}
    Profiles = {p1}
    Repositories = {default}
    Default = default
    Types = {"redis", "postgresql", "local"}
    Values = {v1}
    NonStrings = {n1}
    Entered <- OneOfEach
    Keys = {k1, k2}
    MaxRedeploys = 1
    Absent = Absent
    Blank = Blank
    Null = Null
    None = None
SYMMETRY Symmetric
INVARIANTS
    Sealed
    StillValid
PROPERTIES
    BlankKeeps
