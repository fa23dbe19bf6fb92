CONSTANTS
    p0 = p0
    p1 = p1
    p2 = p2
    p3 = p3
    pidLock = pidLock
    NULL = NULL
    Thread = {p0, p1, p2, p3}
    MainThread = p0
    Semaphore = {}
    Lock = {pidLock}
    Condition = {}
    Machines <- AllMachines
SPECIFICATION FairSpec
INVARIANTS
    ProcessesInv
    FaultHasCause
    JoinReturnsStatus
PROPERTY
    EverybodyExits
CHECK_DEADLOCK FALSE
