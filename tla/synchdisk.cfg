CONSTANTS
    main = main
    t1 = t1
    t2 = t2
    semaphore = semaphore
    lock = lock
    NULL = NULL
    Thread = {main, t1, t2}
    MainThread = main
    Semaphore = {semaphore}
    Lock = {lock}
    Condition = {}
    Sector = {0}
    Data = {0, 1}
    InitData = 0
    MaxCalls = 1
    Preemptive = TRUE
SPECIFICATION FairSpec
INVARIANTS
    SynchDiskInv
PROPERTY
    ImplementsAtomicDisk
CHECK_DEADLOCK FALSE
