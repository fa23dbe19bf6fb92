CONSTANTS
    main = main
    worker = worker
    s1 = s1
    u = u
    r1 = r1
    box0 = box0
    lock0 = lock0
    cond0 = cond0
    messageAvailable = messageAvailable
    messageSent = messageSent
    sendLock = sendLock
    NULL = NULL
    Thread = {main, worker, s1, r1, u}
    MainThread = main
    Worker = worker
    Senders = {s1, u}
    Receivers = {r1, u}
    BoxOf <- BothReadBoxZero
    Semaphore = {messageAvailable, messageSent}
    Lock = {lock0, sendLock}
    Condition = {cond0}
    List = {box0}
    listLock <- OneBoxLock
    listEmpty <- OneBoxCond
    MaxMail = 2
    Programs <- Small
    Reliable = FALSE
    Preemptive = TRUE
SPECIFICATION FairSpec
INVARIANTS
    PostOfficeInv
    MailInOrder
PROPERTY
    MailIsRead
CHECK_DEADLOCK FALSE
