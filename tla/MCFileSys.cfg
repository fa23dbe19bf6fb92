CONSTANTS
    Name = {a, b, c, d}
    Handle = {h}
    NULL = NULL
    Text <- Texts
    Size = {0, 3, 5}
    UnixFile <- Unix
    Contents <- Chunk
    SectorSize = 2
    NumSectors = 11
    NumDirect = 2
    NumDirEntries = 3
    Straddle = 1
    TransferSize = 2
    MaxCalls = 7
    MaxCrashes = 1
    Settings = {"calls", "fstest"}

SPECIFICATION Spec
INVARIANTS DiskInv NoSectorLeaks OthersSurvive ReadsLastWrite CopiesAndPrintsAll
SYMMETRY Symmetry
CHECK_DEADLOCK FALSE
