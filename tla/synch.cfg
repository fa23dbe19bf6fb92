SPECIFICATION FairSpec
CONSTANTS
    main = main
    t1 = t1
    t2 = t2
    t3 = t3
    sem = sem
    lock = lock
    cond = cond
    Thread = {main, t1, t2, t3}
    MainThread = main
    Semaphore = {sem}
    Lock = {lock}
    Condition = {cond}
    NULL = NULL
    InitialValue = 0
    MaxValue = 2
    Device = {sem}
PROPERTY ReadyThreadRuns
INVARIANTS ThreadsInv SemaphoreWakeup
CHECK_DEADLOCK FALSE
