--------------------------- MODULE SynchDiskProofs ---------------------------
(***************************************************************************)
(* The synchronous disk: its invariant, and that it implements the atomic  *)
(* disk, for any number of threads, sectors and other locks.               *)
(***************************************************************************)
EXTENDS SynchDisk, ThreadsProofs

\* What the steps below are about: the kernel's invariant and the disk's own.
DiskInv == ThreadsInv /\ SynchDiskInv

\* RequestUnderLock in two parts: what it says of thread t, and of a disk nobody waits for.
CallOK(t) ==
    /\ pc[t] = "Idle" => frame[t] \in {"start", "user", "finish"} /\ t \notin inside[lock]
    /\ pc[t] = "Request" => /\ frame[t] \in {"user", lock}
                            /\ frame[t] = "user" <=> t \in inside[lock]
    /\ pc[t] = "Release" => frame[t] \in {"user", semaphore} /\ t \in inside[lock]
    /\ pc[t] = "Release" /\ frame[t] = semaphore => (active <=> value[semaphore] = 0)
    /\ pc[t] = "Release" /\ frame[t] = "user" => value[semaphore] = 0
    /\ pc[t] # "Idle" => calls[t] < MaxCalls
Quiet == (\A t \in Thread : pc[t] # "Release") => ~active /\ value[semaphore] = 0

USE DEF SynchDiskTypeOK, OneRequestAtATime, ReturnsWhenDone, RequestUnderLock

-----------------------------------------------------------------------------
\* At most one thread is between Acquire and Release of the disk's lock, and the frames
\* of the disk's threads are told apart.
LEMMA OneHolder ==
    ASSUME ThreadsInv
    PROVE  /\ \A t, u \in Thread : t \in inside[lock] /\ u \in inside[lock] => t = u
           /\ \A t \in Thread : t \in inside[lock] <=> lockHolder[lock] = t
           /\ lock # semaphore /\ {lock, semaphore} \cap {"start", "user", "finish"} = {}
           /\ frame \in [Thread -> {"start", "user", "finish"} \cup Semaphore \cup Lock]
           /\ value \in [Semaphore -> Nat]
           /\ inside \in [Lock -> SUBSET Thread]
  BY SynchDiskAssumption, ThreadsAssumption
     DEF ThreadsInv, MutualExclusion, ThreadsTypeOK

\* Initially nobody has called the disk.
LEMMA DiskInit == Init => DiskInv
  <1> SUFFICES ASSUME Init PROVE DiskInv
    BY Zenon
  <1>1. ThreadsInv
    <2>1. [s \in Semaphore |-> 0] \in [Semaphore -> Nat]
      BY Zenon
    <2> QED BY <2>1, ThreadsInitInv, Zenon DEF Init
  <1>2. (CHOOSE o \in Operation : TRUE) \in Operation
    <2>1. PICK s \in Sector : TRUE
      BY SynchDiskAssumption, Zenon
    <2>2. [kind |-> "read", sector |-> s, data |-> InitData] \in Operation
      BY SynchDiskAssumption, Zenon DEF Operation
    <2> QED BY <2>2, Zenon
  <1>3. SynchDiskTypeOK
    <2>1. value[semaphore] = 0
      BY SynchDiskAssumption, Zenon DEF Init, ThreadsInit
    <2>2. 0 \in 0..MaxCalls
      BY SynchDiskAssumption
    <2> QED BY <1>2, <2>1, <2>2, SynchDiskAssumption, Zenon DEF Init
  <1>4. RequestUnderLock
    BY SynchDiskAssumption, Zenon DEF Init, ThreadsInit
  <1>5. OneRequestAtATime /\ ReturnsWhenDone
    BY <1>4, Zenon DEF Init
  <1> QED BY <1>1, <1>3, <1>4, <1>5, Zenon DEF DiskInv, SynchDiskInv

-----------------------------------------------------------------------------
(***************************************************************************)
(* The steps of a call.                                                    *)
(***************************************************************************)
\* lock->Acquire(): the thread sleeps, or the lock was free and no request is under way.
LEMMA EnterInv ==
    ASSUME DiskInv, NEW o \in Operation, Enter(o)
    PROVE  DiskInv'
  <1>0. ThreadsInv /\ SynchDiskInv
    BY Zenon DEF DiskInv
  <1>1. ThreadsInv'
    BY <1>0, DoAcquireInv, SynchDiskAssumption, Zenon DEF Enter, At, Acquire, InUser
  <1>2. me \in Thread /\ pc[me] = "Idle" /\ me \notin inside[lock] /\ calls[me] < MaxCalls
    BY <1>0, Zenon DEF SynchDiskInv, Enter, At, ThreadsInv, ThreadsTypeOK, me
  <1>3. /\ pc' = [pc EXCEPT ![me] = "Request"]
        /\ op' = [op EXCEPT ![me] = o]
        /\ UNCHANGED <<sectors, active, buffer, calls, value>>
        /\ \/ frame' = [frame EXCEPT ![me] = lock] /\ inside' = inside
           \/ /\ frame' = [frame EXCEPT ![me] = "user"]
              /\ inside[lock] = {} /\ inside' = [inside EXCEPT ![lock] = @ \cup {me}]
    BY <1>0, SynchDiskAssumption, Zenon
       DEF Enter, Acquire, DoAcquire, Goto, me, ThreadsInv, MutualExclusion
  <1>4. SynchDiskTypeOK'
    BY <1>0, <1>2, <1>3, Zenon DEF SynchDiskInv
  <1>5. ASSUME NEW t \in Thread, t # me
        PROVE  /\ pc'[t] = pc[t] /\ frame'[t] = frame[t] /\ calls'[t] = calls[t]
               /\ t \in inside'[lock] <=> t \in inside[lock]
    BY <1>3, <1>5, OneHolder, <1>0, <1>2, SynchDiskAssumption DEF SynchDiskInv
  <1>6. /\ pc'[me] = "Request" /\ frame'[me] \in {"user", lock} /\ calls'[me] < MaxCalls
        /\ frame'[me] = "user" <=> me \in inside'[lock]
        /\ frame'[me] = "user" => inside[lock] = {}
    <2>1. /\ pc'[me] = "Request" /\ calls'[me] < MaxCalls
          /\ me \in DOMAIN frame /\ lock \in DOMAIN inside /\ lock # "user"
      BY <1>3, OneHolder, <1>0, <1>2, SynchDiskAssumption DEF SynchDiskInv
    <2> QED BY <1>2, <1>3, <2>1, Zenon
  <1>7. RequestUnderLock'
    <2>1. ASSUME NEW t \in Thread PROVE CallOK(t)'
      <3>1. CASE t = me
        BY <3>1, <1>6, Zenon DEF CallOK
      <3>2. CASE t # me
        BY <3>2, <1>0, <1>3, <1>5 DEF CallOK, SynchDiskInv
      <3> QED BY <3>1, <3>2, Zenon
    <2>2. Quiet'
      BY <1>0, <1>2, <1>3, <1>5, Zenon DEF Quiet, SynchDiskInv
    <2> QED BY <2>1, <2>2, Zenon DEF CallOK, Quiet
  <1>8. OneRequestAtATime' /\ ReturnsWhenDone'
    BY <1>0, <1>2, <1>3, <1>5, <1>6, OneHolder DEF SynchDiskInv
  <1> QED BY <1>1, <1>4, <1>7, <1>8, Zenon DEF DiskInv, SynchDiskInv

\* disk->ReadRequest or disk->WriteRequest, then semaphore->P(): the caller holds the lock,
\* so nobody else has a request, the semaphore is at zero and P sleeps.
LEMMA RequestInv ==
    ASSUME DiskInv, At("Request"), active' = TRUE, AwaitDone,
           sectors' \in [Sector -> Data], buffer' \in [Thread -> Data]
    PROVE  DiskInv'
  <1>0. ThreadsInv /\ SynchDiskInv
    BY Zenon DEF DiskInv
  <1>1. ThreadsInv'
    BY <1>0, DoPInv, SynchDiskAssumption, Zenon DEF AwaitDone, At, P, InUser
  <1>2. /\ me \in Thread /\ pc[me] = "Request" /\ frame[me] = "user" /\ calls[me] < MaxCalls
        /\ me \in inside[lock] /\ value[semaphore] = 0
    BY <1>0, Zenon DEF SynchDiskInv, At, InUser, ThreadsInv, ThreadsTypeOK, me
  <1>3. /\ pc' = [pc EXCEPT ![me] = "Release"]
        /\ frame' = [frame EXCEPT ![me] = semaphore]
        /\ UNCHANGED <<op, calls, value, inside>>
    BY <1>2, Zenon DEF AwaitDone, P, DoP, Goto, me
  <1>4. SynchDiskTypeOK'
    BY <1>0, <1>2, <1>3, Zenon DEF SynchDiskInv
  <1>5. ASSUME NEW t \in Thread, t # me
        PROVE  /\ pc'[t] = pc[t] /\ frame'[t] = frame[t]
               /\ pc[t] # "Release" /\ ~(pc[t] = "Request" /\ frame[t] = "user")
    BY <1>0, <1>2, <1>3, <1>5, OneHolder DEF SynchDiskInv
  <1>6. pc'[me] = "Release" /\ frame'[me] = semaphore
    BY <1>0, <1>2, <1>3, OneHolder DEF SynchDiskInv
  <1>7. RequestUnderLock'
    <2>1. ASSUME NEW t \in Thread PROVE CallOK(t)'
      <3>1. CASE t = me
        BY <3>1, <1>2, <1>3, <1>6, OneHolder, <1>0, Zenon DEF CallOK
      <3>2. CASE t # me
        BY <3>2, <1>0, <1>3, <1>5 DEF CallOK, SynchDiskInv
      <3> QED BY <3>1, <3>2, Zenon
    <2>2. Quiet'
      BY <1>2, <1>6, Zenon DEF Quiet
    <2> QED BY <2>1, <2>2, Zenon DEF CallOK, Quiet
  <1>8. OneRequestAtATime' /\ ReturnsWhenDone'
    <2>1. semaphore # "user"
      BY <1>0, OneHolder, Zenon
    <2> QED BY <1>5, <1>6, <2>1, Zenon
  <1> QED BY <1>1, <1>4, <1>7, <1>8, Zenon DEF DiskInv, SynchDiskInv

\* lock->Release(), after P has returned.
LEMMA LeaveInv ==
    ASSUME DiskInv, Leave
    PROVE  DiskInv'
  <1>0. ThreadsInv /\ SynchDiskInv
    BY Zenon DEF DiskInv
  <1>1. ThreadsInv'
    BY <1>0, ReleaseInv, SynchDiskAssumption, Zenon DEF Leave
  <1>2. /\ me \in Thread /\ pc[me] = "Release" /\ frame[me] = "user" /\ calls[me] < MaxCalls
        /\ me \in inside[lock] /\ value[semaphore] = 0 /\ ~active
    BY <1>0, Zenon DEF SynchDiskInv, Leave, At, InUser, ThreadsInv, ThreadsTypeOK, me
  <1>3. /\ pc' = [pc EXCEPT ![me] = "Idle"]
        /\ calls' = [calls EXCEPT ![me] = @ + 1]
        /\ inside' = [inside EXCEPT ![lock] = @ \ {me}]
        /\ UNCHANGED <<sectors, active, op, buffer, frame, value>>
    <2>1. isHeldByCurrentThread(lock)
      BY <1>0, <1>2, OneHolder, Zenon DEF isHeldByCurrentThread, me
    <2> QED BY <2>1, Zenon DEF Leave, Release, FreeLock, Goto, me
  <1>4. SynchDiskTypeOK'
    BY <1>0, <1>2, <1>3, SynchDiskAssumption DEF SynchDiskInv
  <1>5. ASSUME NEW t \in Thread, t # me
        PROVE  /\ pc'[t] = pc[t] /\ calls'[t] = calls[t] /\ pc[t] # "Release"
               /\ t \in inside'[lock] <=> t \in inside[lock]
    BY <1>0, <1>2, <1>3, <1>5, OneHolder, SynchDiskAssumption DEF SynchDiskInv
  <1>6. pc'[me] = "Idle" /\ me \notin inside'[lock]
    BY <1>0, <1>2, <1>3, OneHolder, SynchDiskAssumption DEF SynchDiskInv
  <1>7. RequestUnderLock'
    <2>1. ASSUME NEW t \in Thread PROVE CallOK(t)'
      <3>1. CASE t = me
        BY <3>1, <1>2, <1>3, <1>6, Zenon DEF CallOK
      <3>2. CASE t # me
        BY <3>2, <1>0, <1>3, <1>5, Zenon DEF CallOK, SynchDiskInv
      <3> QED BY <3>1, <3>2, Zenon
    <2>2. Quiet'
      BY <1>2, <1>3, Zenon DEF Quiet
    <2> QED BY <2>1, <2>2, Zenon DEF CallOK, Quiet
  <1>8. OneRequestAtATime' /\ ReturnsWhenDone'
    BY <1>0, <1>2, <1>3, <1>5, <1>6, Zenon DEF SynchDiskInv
  <1> QED BY <1>1, <1>4, <1>7, <1>8, Zenon DEF DiskInv, SynchDiskInv

-----------------------------------------------------------------------------
(***************************************************************************)
(* The interrupt and the kernel.                                           *)
(***************************************************************************)
\* RequestDone: the disk was busy, so the semaphore is at zero and its unit goes to the
\* thread whose request it was.
LEMMA HandleInterruptInv ==
    ASSUME DiskInv, HandleInterrupt
    PROVE  DiskInv'
  <1>0. ThreadsInv /\ SynchDiskInv
    BY Zenon DEF DiskInv
  <1>1. ThreadsInv'
    BY <1>0, DoVInv, SynchDiskAssumption, Zenon DEF HandleInterrupt, Handler
  <1>2. /\ active /\ active' = FALSE
        /\ value' = [value EXCEPT ![semaphore] = @ + 1]
        /\ UNCHANGED <<sectors, pc, op, buffer, calls, frame, inside>>
    BY <1>0, Zenon DEF HandleInterrupt, Handler, DoV, SynchDiskInv
  <1>3. PICK t \in Thread : pc[t] = "Release"
    BY <1>0, <1>2, Zenon DEF SynchDiskInv
  <1>4. frame[t] = semaphore /\ value[semaphore] = 0 /\ t \in inside[lock]
    BY <1>0, <1>2, <1>3, Zenon DEF SynchDiskInv
  <1>5. value'[semaphore] = 1
    BY <1>0, <1>2, <1>4, OneHolder, SynchDiskAssumption
  <1>6. \A u \in Thread : u # t => /\ pc[u] # "Release"
                                   /\ ~(pc[u] = "Request" /\ frame[u] = "user")
    BY <1>0, <1>4, OneHolder, Zenon DEF SynchDiskInv
  <1>7. RequestUnderLock'
    <2>1. ASSUME NEW u \in Thread PROVE CallOK(u)'
      <3>1. CASE u = t
        BY <3>1, <1>0, <1>2, <1>3, <1>4, <1>5, OneHolder DEF CallOK, SynchDiskInv
      <3>2. CASE u # t
        BY <3>2, <1>0, <1>2, <1>6, Zenon DEF CallOK, SynchDiskInv
      <3> QED BY <3>1, <3>2, Zenon
    <2>2. Quiet'
      BY <1>2, <1>3, Zenon DEF Quiet
    <2> QED BY <2>1, <2>2, Zenon DEF CallOK, Quiet
  <1>8. SynchDiskTypeOK'
    BY <1>0, <1>2, <1>5, Zenon DEF SynchDiskInv
  <1>9. OneRequestAtATime' /\ ReturnsWhenDone'
    BY <1>2, <1>3, <1>6, Zenon
  <1> QED BY <1>1, <1>7, <1>8, <1>9, Zenon DEF DiskInv, SynchDiskInv

\* A thread that continues in Acquire takes the lock or sleeps again.
LEMMA ResumeAcquireInv ==
    ASSUME DiskInv, NEW l \in Lock, ResumeAcquire(l), UNCHANGED diskVars
    PROVE  DiskInv'
  <1>0. ThreadsInv /\ SynchDiskInv
    BY Zenon DEF DiskInv
  <1>1. ThreadsInv'
    BY <1>0, DoAcquireInv, Zenon DEF ResumeAcquire
  <1>2. me \in Thread /\ frame[me] = l
    BY <1>0, Zenon DEF ThreadsInv, ThreadsTypeOK, me, ResumeAcquire
  <1>3. l = lock /\ pc[me] = "Request" /\ me \notin inside[lock] /\ calls[me] < MaxCalls
    <2>1. l \notin {"start", "user", "finish", semaphore}
      BY ThreadsAssumption, SynchDiskAssumption, Zenon
    <2>2. pc[me] \in {"Idle", "Request", "Release"}
      BY <1>0, <1>2, Zenon DEF SynchDiskInv
    <2> QED BY <1>0, <1>2, <2>1, <2>2, Zenon DEF SynchDiskInv
  <1>4. /\ UNCHANGED <<sectors, active, pc, op, buffer, calls, value>>
        /\ \/ frame' = [frame EXCEPT ![me] = lock] /\ inside' = inside
           \/ /\ frame' = [frame EXCEPT ![me] = "user"]
              /\ inside[lock] = {} /\ inside' = [inside EXCEPT ![lock] = @ \cup {me}]
    BY <1>0, <1>3, SynchDiskAssumption, Zenon
       DEF ResumeAcquire, DoAcquire, diskVars, me, ThreadsInv, MutualExclusion
  <1>5. ASSUME NEW t \in Thread, t # me
        PROVE  /\ frame'[t] = frame[t]
               /\ t \in inside'[lock] <=> t \in inside[lock]
    BY <1>0, <1>2, <1>4, <1>5, OneHolder, SynchDiskAssumption
  <1>6. /\ frame'[me] \in {"user", lock}
        /\ frame'[me] = "user" <=> me \in inside'[lock]
        /\ frame'[me] = "user" => inside[lock] = {}
    <2>1. me \in DOMAIN frame /\ lock \in DOMAIN inside /\ lock # "user"
      BY <1>0, <1>2, OneHolder, SynchDiskAssumption, Zenon
    <2> QED BY <1>2, <1>3, <1>4, <2>1, Zenon
  <1>7. RequestUnderLock'
    <2>1. ASSUME NEW t \in Thread PROVE CallOK(t)'
      <3>1. CASE t = me
        BY <3>1, <1>3, <1>4, <1>6, Zenon DEF CallOK
      <3>2. CASE t # me
        BY <3>2, <1>0, <1>4, <1>5, Zenon DEF CallOK, SynchDiskInv
      <3> QED BY <3>1, <3>2, Zenon
    <2>2. Quiet'
      BY <1>0, <1>4, Zenon DEF Quiet, SynchDiskInv
    <2> QED BY <2>1, <2>2, Zenon DEF CallOK, Quiet
  <1>8. SynchDiskTypeOK'
    BY <1>0, <1>4, Zenon DEF SynchDiskInv
  <1>9. OneRequestAtATime' /\ ReturnsWhenDone'
    BY <1>0, <1>3, <1>4, <1>5, <1>6 DEF SynchDiskInv
  <1> QED BY <1>1, <1>7, <1>8, <1>9, Zenon DEF DiskInv, SynchDiskInv

\* A thread that continues in P takes the unit RequestDone left or sleeps again.
LEMMA ResumePInv ==
    ASSUME DiskInv, NEW s \in Semaphore, ResumeP(s), UNCHANGED diskVars
    PROVE  DiskInv'
  <1>0. ThreadsInv /\ SynchDiskInv
    BY Zenon DEF DiskInv
  <1>1. ThreadsInv'
    BY <1>0, DoPInv, Zenon DEF ResumeP
  <1>2. me \in Thread /\ frame[me] = s
    BY <1>0, Zenon DEF ThreadsInv, ThreadsTypeOK, me, ResumeP
  <1>3. /\ s = semaphore /\ pc[me] = "Release" /\ me \in inside[lock] /\ calls[me] < MaxCalls
        /\ active <=> value[semaphore] = 0
    <2>1. s \notin {"start", "user", "finish", lock}
      BY ThreadsAssumption, SynchDiskAssumption, Zenon
    <2>2. pc[me] \in {"Idle", "Request", "Release"}
      BY <1>0, <1>2, Zenon DEF SynchDiskInv
    <2> QED BY <1>0, <1>2, <2>1, <2>2, Zenon DEF SynchDiskInv
  <1>4. /\ UNCHANGED <<sectors, active, pc, op, buffer, calls, inside>>
        /\ \/ active /\ value' = value /\ frame' = [frame EXCEPT ![me] = semaphore]
           \/ /\ ~active /\ value[semaphore] = 1
              /\ value' = [value EXCEPT ![semaphore] = 0]
              /\ frame' = [frame EXCEPT ![me] = "user"]
    <2>1. value[semaphore] # 0 => value[semaphore] = 1 /\ value[semaphore] - 1 = 0
      BY <1>0 DEF SynchDiskInv
    <2> QED BY <1>3, <2>1, Zenon DEF ResumeP, DoP, diskVars, me
  <1>5. ASSUME NEW t \in Thread, t # me
        PROVE  /\ frame'[t] = frame[t]
               /\ pc[t] # "Release" /\ ~(pc[t] = "Request" /\ frame[t] = "user")
    BY <1>0, <1>2, <1>3, <1>4, <1>5, OneHolder DEF SynchDiskInv
  <1>6. /\ value'[semaphore] = 0
        /\ \/ active /\ frame'[me] = semaphore
           \/ ~active /\ frame'[me] = "user"
    <2>1. me \in DOMAIN frame /\ semaphore \in DOMAIN value
      BY <1>0, <1>2, OneHolder, SynchDiskAssumption, Zenon
    <2> QED BY <1>2, <1>3, <1>4, <2>1, Zenon
  <1>7. RequestUnderLock'
    <2>0. semaphore # "user"
      BY <1>0, OneHolder, Zenon
    <2>1. ASSUME NEW t \in Thread PROVE CallOK(t)'
      <3>1. CASE t = me
        BY <3>1, <2>0, <1>3, <1>4, <1>6, Zenon DEF CallOK
      <3>2. CASE t # me
        BY <3>2, <1>0, <1>4, <1>5, Zenon DEF CallOK, SynchDiskInv
      <3> QED BY <3>1, <3>2, Zenon
    <2>2. Quiet'
      BY <1>2, <1>3, <1>4, Zenon DEF Quiet
    <2> QED BY <2>1, <2>2, Zenon DEF CallOK, Quiet
  <1>8. SynchDiskTypeOK'
    BY <1>0, <1>4, <1>6, Zenon DEF SynchDiskInv
  <1>9. OneRequestAtATime' /\ ReturnsWhenDone'
    <2>1. semaphore # "user"
      BY <1>0, OneHolder, Zenon
    <2> QED BY <1>2, <1>3, <1>4, <1>5, <1>6, <2>1, Zenon
  <1> QED BY <1>1, <1>7, <1>8, <1>9, Zenon DEF DiskInv, SynchDiskInv

\* Steps in which no thread enters or leaves a call: at most a thread outside of the
\* disk's routines starts or finishes.
LEMMA OutsideInv ==
    ASSUME DiskInv, ThreadsInv', UNCHANGED diskVars, value' = value, inside' = inside,
           \/ frame' = frame
           \/ \E f \in {"user", "finish"} :
                 pc[me] = "Idle" /\ frame' = [frame EXCEPT ![me] = f]
    PROVE  DiskInv'
  <1>0. ThreadsInv /\ SynchDiskInv
    BY Zenon DEF DiskInv
  <1>1. UNCHANGED <<sectors, active, pc, op, buffer, calls>>
    BY Zenon DEF diskVars
  <1>2. \A t \in Thread : \/ frame'[t] = frame[t]
                          \/ pc[t] = "Idle" /\ frame'[t] \in {"user", "finish"}
    BY <1>0, OneHolder, Zenon
  <1>3. RequestUnderLock'
    <2>1. ASSUME NEW t \in Thread PROVE CallOK(t)'
      BY <1>0, <1>1, <1>2, Zenon DEF CallOK, SynchDiskInv
    <2>2. Quiet'
      BY <1>0, <1>1, Zenon DEF Quiet, SynchDiskInv
    <2> QED BY <2>1, <2>2, Zenon DEF CallOK, Quiet
  <1>4. SynchDiskTypeOK'
    BY <1>0, <1>1, Zenon DEF SynchDiskInv
  <1>5. OneRequestAtATime' /\ ReturnsWhenDone'
    BY <1>0, <1>1, <1>2 DEF SynchDiskInv
  <1> QED BY <1>3, <1>4, <1>5, Zenon DEF DiskInv, SynchDiskInv

\* Every step of a call, of the disk and of the kernel keeps the invariant.
LEMMA DiskStep ==
    ASSUME DiskInv, [Next]_vars
    PROVE  DiskInv'
  <1>0. ThreadsInv /\ SynchDiskInv
    BY Zenon DEF DiskInv
  <1>1. ASSUME NEW o \in Operation, Enter(o) PROVE DiskInv'
    BY <1>1, EnterInv, Zenon
  <1>2. CASE ReadRequest
    <2>1. buffer' \in [Thread -> Data]
      BY <1>0, <1>2, Zenon DEF ReadRequest, SynchDiskInv, Operation, me, ThreadsInv, ThreadsTypeOK
    <2> QED BY <1>0, <1>2, <2>1, RequestInv, Zenon DEF ReadRequest, SynchDiskInv
  <1>3. CASE WriteRequest
    <2>1. sectors' \in [Sector -> Data]
      BY <1>0, <1>3, Zenon DEF WriteRequest, SynchDiskInv, Operation, me, ThreadsInv, ThreadsTypeOK
    <2> QED BY <1>0, <1>3, <2>1, RequestInv, Zenon DEF WriteRequest, SynchDiskInv
  <1>4. CASE Leave
    BY <1>4, LeaveInv, Zenon
  <1>5. CASE ForkCaller
    <2>1. PICK t \in Thread : Fork(t)
      BY <1>5, Zenon DEF ForkCaller
    <2>2. ThreadsInv'
      BY <1>0, <2>1, ForkInv, Zenon
    <2>3. UNCHANGED <<value, inside, frame, diskVars>>
      BY <1>5, <2>1, Zenon DEF ForkCaller, Fork, syncVars
    <2> QED BY <2>2, <2>3, OutsideInv, Zenon
  <1>6. CASE CallerFinishes
    <2>1. ThreadsInv'
      BY <1>0, <1>6, FinishInv, Zenon DEF CallerFinishes
    <2>2. /\ UNCHANGED <<value, inside, diskVars>>
          /\ pc[me] = "Idle" /\ frame' = [frame EXCEPT ![me] = "finish"]
      BY <1>6, Zenon DEF CallerFinishes, Finish, syncVars, At, me
    <2> QED BY <2>1, <2>2, OutsideInv, Zenon
  <1>7. CASE HandleInterrupt
    BY <1>7, HandleInterruptInv, Zenon
  <1>8. ASSUME Resume, UNCHANGED diskVars PROVE DiskInv'
    <2>1. CASE ThreadRoot
      <3>1. ThreadsInv'
        BY <1>0, <2>1, ThreadRootInv, Zenon
      <3>2. /\ UNCHANGED <<value, inside>>
            /\ frame[me] = "start" /\ frame' = [frame EXCEPT ![me] = "user"]
        BY <2>1, Zenon DEF ThreadRoot, syncVars, me
      <3>3. pc[me] = "Idle"
        <4>1. me \in Thread /\ "start" \notin {"user", lock, semaphore}
          BY <1>0, OneHolder, Zenon DEF ThreadsInv, ThreadsTypeOK, me
        <4> QED BY <1>0, <3>2, <4>1, Zenon DEF SynchDiskInv
      <3> QED BY <1>8, <3>1, <3>2, <3>3, OutsideInv, Zenon
    <2> QED BY <1>8, <2>1, ResumePInv, ResumeAcquireInv, Zenon DEF Resume
  <1>9. CASE (WakeFromIdle \/ Halt) /\ UNCHANGED diskVars
    <2>1. ThreadsInv'
      BY <1>0, <1>9, WakeFromIdleInv, HaltInv, Zenon
    <2>2. UNCHANGED <<value, inside, frame>>
      BY <1>9, Zenon DEF WakeFromIdle, Halt, syncVars
    <2> QED BY <1>9, <2>1, <2>2, OutsideInv, Zenon
  <1>10. CASE TimeSlice
    <2>1. ThreadsInv'
      BY <1>0, <1>10, YieldInv, Zenon DEF TimeSlice
    <2>2. UNCHANGED <<value, inside, frame, diskVars>>
      BY <1>10, Zenon DEF TimeSlice, Yield, syncVars, schedVars
    <2> QED BY <2>1, <2>2, OutsideInv, Zenon
  <1>11. CASE UNCHANGED vars
    <2>1. ThreadsInv'
      BY <1>0, <1>11, StutterInv, Zenon DEF vars
    <2>2. UNCHANGED <<value, inside, frame, diskVars>>
      BY <1>11, Zenon DEF vars, threadVars, schedVars, syncVars
    <2> QED BY <2>1, <2>2, OutsideInv, Zenon
  <1> QED
    BY <1>1, <1>2, <1>3, <1>4, <1>5, <1>6, <1>7, <1>8, <1>9, <1>10, <1>11, Zenon
       DEF Next, Step, Kernel

\* synchdisk.cc: however the callers of ReadSector and WriteSector, the disk's interrupt and
\* the time slices interleave, the device gets one request at a time (the ASSERT(!active) of
\* Disk::ReadRequest and WriteRequest) and a call goes on only after its own request is done.
THEOREM SynchDiskCorrect == Spec => []SynchDiskInv
  <1>1. Init => DiskInv
    BY DiskInit, Zenon
  <1>2. DiskInv /\ [Next]_vars => DiskInv'
    BY DiskStep, Zenon
  <1>3. DiskInv => SynchDiskInv
    BY Zenon DEF DiskInv
  <1> QED BY <1>1, <1>2, <1>3, PTL DEF Spec

-----------------------------------------------------------------------------
(***************************************************************************)
(* Refinement of the atomic disk.                                          *)
(***************************************************************************)
\* synchdisk.h: ReadSector and WriteSector behave as calls that take effect at one moment,
\* the request to the device made under the lock.
THEOREM SynchDiskRefines == Spec => Abstract!Safety
  <1>1. Init => Abstract!Init
    <2> SUFFICES ASSUME Init PROVE Abstract!Init
      BY Zenon
    <2>1. SynchDiskTypeOK
      BY DiskInit, Zenon DEF DiskInv, SynchDiskInv
    <2> QED BY <2>1, Zenon DEF Init, Abstract!Init, Abstract!Operation, Operation
  <1>2. DiskInv /\ [Next]_vars => [Abstract!Next]_(Abstract!diskVars)
    <2> SUFFICES ASSUME DiskInv, [Next]_vars
                 PROVE  Abstract!Next \/ UNCHANGED Abstract!diskVars
      BY Zenon
    <2>0. PICK t \in Thread : t = me /\ SynchDiskTypeOK
      BY Zenon DEF DiskInv, SynchDiskInv, ThreadsInv, ThreadsTypeOK, me
    <2>1. ASSUME NEW o \in Operation, Enter(o) PROVE Abstract!Next
      <3>1. Abstract!Call(t)
        BY <2>0, <2>1, Zenon DEF Enter, At, Goto, Abstract!Call, Abstract!Operation, Operation
      <3> QED BY <3>1, Zenon DEF Abstract!Next
    <2>2. CASE ReadRequest
      <3>1. Abstract!Effect(t)
        BY <2>0, <2>2, Zenon DEF ReadRequest, AwaitDone, At, Goto, Abstract!Effect
      <3> QED BY <3>1, Zenon DEF Abstract!Next
    <2>3. CASE WriteRequest
      <3>1. Abstract!Effect(t)
        BY <2>0, <2>3, Zenon DEF WriteRequest, AwaitDone, At, Goto, Abstract!Effect
      <3> QED BY <3>1, Zenon DEF Abstract!Next
    <2>4. CASE Leave
      <3>1. Abstract!Return(t)
        BY <2>0, <2>4, Zenon DEF Leave, At, Goto, Abstract!Return
      <3> QED BY <3>1, Zenon DEF Abstract!Next
    <2>5. CASE UNCHANGED <<sectors, pc, op, buffer>>
      BY <2>5 DEF Abstract!diskVars
    <2>6. ForkCaller \/ CallerFinishes \/ HandleInterrupt \/ Kernel \/ TimeSlice
             \/ UNCHANGED vars
          => UNCHANGED <<sectors, pc, op, buffer>>
      BY Zenon DEF ForkCaller, CallerFinishes, HandleInterrupt, Kernel, TimeSlice, vars, diskVars
    <2> QED BY <2>1, <2>2, <2>3, <2>4, <2>5, <2>6, Zenon DEF Next, Step
  <1>3. Init => DiskInv
    BY DiskInit, Zenon
  <1>4. DiskInv /\ [Next]_vars => DiskInv'
    BY DiskStep, Zenon
  <1> QED BY <1>1, <1>2, <1>3, <1>4, PTL DEF Spec, Abstract!Safety

=============================================================================
