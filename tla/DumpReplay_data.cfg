SPECIFICATION ReplaySpec
CONSTANTS
    Encodings = {utf8, latin1}
    Utf8 = utf8
    MaxLines = 4
    NoPsql = NoPsql
CHECK_DEADLOCK FALSE
INVARIANTS
    DataIntact
