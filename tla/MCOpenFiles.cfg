CONSTANTS
    Proc = {p0, p1, p2}
    NULL = NULL
    FileName = {f, g, h}
    Byte = {1}
    POF_MAXNUM = 2
    SOF_MAXNUM = 2
    MaxCalls = 8
    MaxBytes = 2
    Settings <- AllSettings

SPECIFICATION Spec
INVARIANTS TablesAgree CounterIsReferences OffsetInFile
SYMMETRY Symmetry
CHECK_DEADLOCK FALSE
