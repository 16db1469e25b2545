SPECIFICATION ReplaySpec
CONSTANTS
    Encodings = {utf8, latin1}
    Utf8 = utf8
    MaxLines = 5
    NoPsql = NoPsql
CHECK_DEADLOCK FALSE
INVARIANTS
    ReplayTypeOK
    FedAsMeant
