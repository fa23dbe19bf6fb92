CONSTANTS
    main = main
    t1 = t1
    t2 = t2
    sp = sp
    mx = mx
    br = br
    lk = lk
    NULL = NULL
    Thread = {main, t1, t2}
    MainThread = main
    Forked <- TwoForked
    Semaphore = {sp, mx, br}
    Lock = {lk}
    Condition = {}
    Builds = {"SEMAPHORES", "LOCKS"}
    Iterations = 2
    Preemptive = TRUE
SPECIFICATION FairSpec
INVARIANTS
    BarrierInv
PROPERTY
    EverybodyFinishes
CHECK_DEADLOCK FALSE
