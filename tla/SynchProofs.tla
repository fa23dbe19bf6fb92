----------------------------- MODULE SynchProofs -----------------------------
(***************************************************************************)
(* The kernel's invariant under its most general caller.                   *)
(***************************************************************************)
EXTENDS SynchClient, ThreadsProofs, FiniteSetTheorems

\* Every step of the general caller keeps the kernel's invariant: each call, each
\* continuation inside the kernel and each device handler.
LEMMA SynchStep ==
    ASSUME ThreadsInv, [Next]_vars
    PROVE  ThreadsInv'
  <1>1. CASE SemaphoreCall
    <2>1. ASSUME NEW s \in Semaphore, P(s) PROVE ThreadsInv'
      BY <2>1, DoPInv, Zenon DEF P, InUser
    <2>2. ASSUME NEW s \in Semaphore, V(s) PROVE ThreadsInv'
      BY <2>2, DoVInv, Zenon DEF V
    <2> QED BY <1>1, <2>1, <2>2, Zenon DEF SemaphoreCall
  <1>2. CASE LockCall
    <2>1. ASSUME NEW l \in Lock, Acquire(l) PROVE ThreadsInv'
      BY <2>1, DoAcquireInv, Zenon DEF Acquire, InUser
    <2> QED BY <1>2, <2>1, ReleaseInv, Zenon DEF LockCall
  <1>3. CASE ConditionCall
    BY <1>3, WaitInv, SignalInv, BroadcastInv, Zenon DEF ConditionCall
  <1>4. CASE ThreadCall
    BY <1>4, YieldInv, FinishInv, ForkInv, Zenon DEF ThreadCall
  <1>5. CASE DeviceInterrupt
    BY <1>5, DoVInv, ClientAssumption, Zenon DEF DeviceInterrupt, Handler
  <1>6. CASE Resume
    BY <1>6, ResumeInv, Zenon
  <1>7. CASE WakeFromIdle
    BY <1>7, WakeFromIdleInv, Zenon
  <1>8. CASE Halt
    BY <1>8, HaltInv, Zenon
  <1>9. CASE UNCHANGED vars
    BY <1>9, StutterInv, Zenon DEF vars
  <1> QED BY <1>1, <1>2, <1>3, <1>4, <1>5, <1>6, <1>7, <1>8, <1>9 DEF Next

\* Whatever its callers do, the kernel keeps its inductive invariant.
THEOREM KernelInvariant == Spec => []ThreadsInv
  <1>1. Init => ThreadsInv
    BY ThreadsInitInv, ClientAssumption, Zenon DEF Init
  <1>2. ThreadsInv /\ [Next]_vars => ThreadsInv'
    BY SynchStep, Zenon
  <1> QED BY <1>1, <1>2, PTL DEF Spec

\* The state stays well typed.
THEOREM KernelTypes == Spec => []ThreadsTypeOK
  <1>1. ThreadsInv => ThreadsTypeOK
    BY Zenon DEF ThreadsInv
  <1> QED BY <1>1, KernelInvariant, PTL

\* Lock::Acquire and Release exclude every second thread, however the threads are
\* scheduled and whoever else calls Wait, Signal or Broadcast.
THEOREM LocksExclude == Spec => []MutualExclusion
  <1>1. ThreadsInv => MutualExclusion
    BY Zenon DEF ThreadsInv
  <1> QED BY <1>1, KernelInvariant, PTL

\* No thread is ever linked twice, and none drops out of all lists while it sleeps.
THEOREM ThreadsStayListed == Spec => [](OnOneList /\ NoThreadLost)
  <1>1. ThreadsInv => OnOneList /\ NoThreadLost
    BY Zenon DEF ThreadsInv
  <1> QED BY <1>1, KernelInvariant, PTL

\* Lock::Release never leaves a free lock with sleepers none of whom is on its way.
THEOREM NoLostLockWakeup == Spec => []LockWakeup
  <1>1. ThreadsInv => LockWakeup
    BY Zenon DEF ThreadsInv
  <1> QED BY <1>1, KernelInvariant, PTL

\* Scheduler::Run deletes only threads that have finished, so the ASSERT of ~Thread holds.
THEOREM OnlyCarcassesDeleted == Spec => []CarcassIsDead
  <1>1. ThreadsInv => CarcassIsDead
    BY Zenon DEF ThreadsInv
  <1> QED BY <1>1, KernelInvariant, PTL

-----------------------------------------------------------------------------
(***************************************************************************)
(* The wakeups of Semaphore::V.                                            *)
(***************************************************************************)
\* A thread whose frame is P of s is on its way to take a unit unless it is on s's list.
LEMMA AwakeIs ==
    ThreadsInv => \A s \in Semaphore :
                     Awake(s) = {t \in Thread : frame[t] = s /\ t \notin Range(queue[s])}
  <1> SUFFICES ASSUME ThreadsInv, NEW s \in Semaphore, NEW t \in Thread, frame[t] = s
               PROVE  status[t] \in {"READY", "RUNNING"} <=> t \notin Range(queue[s])
    BY Zenon DEF Awake
  <1>1. s \in WaitList /\ s \notin Lock /\ s \notin {"start", "finish"}
    BY ThreadsAssumption, Zenon DEF WaitList
  <1>2. status[t] \in {"READY", "RUNNING", "BLOCKED"}
    BY <1>1 DEF ThreadsInv, ThreadsTypeOK, Status, FrameAgrees, CarcassIsDead
  <1>3. status[t] = "BLOCKED" <=> \E q \in WaitList : t \in Range(queue[q])
    BY <1>1, Zenon DEF ThreadsInv, NoThreadLost
  <1>4. \A q \in WaitList : t \in Range(queue[q]) => q = s
    BY <1>1, ThreadsAssumption, Zenon DEF ThreadsInv, FrameAgrees
  <1> QED BY <1>1, <1>2, <1>3, <1>4, Zenon

\* The same of the next state.
LEMMA AwakeIsNext ==
    (ThreadsInv => \A s \in Semaphore :
                      Awake(s) = {t \in Thread : frame[t] = s /\ t \notin Range(queue[s])})'
  BY AwakeIs, PTL

\* The sets of threads on their way are finite.
LEMMA AwakeFinite == \A s \in Semaphore : IsFiniteSet(Awake(s))
  <1> SUFFICES ASSUME NEW s \in Semaphore PROVE IsFiniteSet(Awake(s))
    BY Zenon
  <1>1. Awake(s) \subseteq Thread
    BY Zenon DEF Awake
  <1> QED BY <1>1, FS_Subset, ClientAssumption, Zenon

\* A step that neither changes the value or the list of s nor moves a thread into or out of
\* s.P() keeps s's wakeups.
LEMMA WakeupKept ==
    ASSUME ThreadsInv, ThreadsInv', SemaphoreWakeup, NEW s \in Semaphore,
           value'[s] = value[s], queue'[s] = queue[s],
           \A t \in Thread : frame'[t] = s <=> frame[t] = s
    PROVE  (queue[s] # <<>> => value[s] <= Cardinality(Awake(s)))'
  <1>1. Awake(s)' = Awake(s)
    BY AwakeIs, AwakeIsNext, Zenon
  <1> QED BY <1>1, Zenon DEF SemaphoreWakeup

\* V adds a unit and, when threads sleep, puts one of them on its way.
LEMMA VWakes ==
    ASSUME ThreadsInv, ThreadsInv', SemaphoreWakeup, NEW s \in Semaphore, DoV(s)
    PROVE  SemaphoreWakeup'
  <1>1. /\ frame' = frame /\ s \in WaitList /\ Semaphore \subseteq WaitList
        /\ queue \in [WaitList -> Seq(Thread)] /\ value \in [Semaphore -> Nat]
        /\ queue' = [queue EXCEPT ![s] = Rest(queue[s])]
        /\ value' = [value EXCEPT ![s] = value[s] + 1]
    BY Zenon DEF DoV, ThreadsInv, ThreadsTypeOK, WaitList
  <1>2. ASSUME NEW r \in Semaphore, r # s
        PROVE  (queue[r] # <<>> => value[r] <= Cardinality(Awake(r)))'
    <2>1. value'[r] = value[r] /\ queue'[r] = queue[r]
      BY <1>1, <1>2, Zenon
    <2> QED BY <1>1, <2>1, WakeupKept, Zenon
  <1>3. CASE queue[s] = <<>>
    <2>1. queue'[s] = <<>>
      BY <1>1, <1>3, Zenon DEF Rest
    <2> QED BY <1>2, <2>1, Zenon DEF SemaphoreWakeup
  <1>4. CASE queue[s] # <<>>
    <2>1. PICK h \in Thread : h = Head(queue[s])
      BY <1>1, <1>4, RemoveList, Zenon
    <2>2. /\ Range(queue[s]) = Range(queue'[s]) \cup {h} /\ h \notin Range(queue'[s])
          /\ frame[h] = s
      <3>1. queue'[s] = Tail(queue[s])
        BY <1>1, <1>4, Zenon DEF Rest
      <3>2. IsInjective(queue[s]) /\ queue[s] \in Seq(Thread)
        BY <1>1, Zenon DEF ThreadsInv, OnOneList
      <3>3. h \in Range(queue[s])
        BY <1>4, <2>1, <3>2, RemoveList, Zenon
      <3>4. frame[h] = s
        BY <1>1, <3>3, ThreadsAssumption DEF ThreadsInv, FrameAgrees
      <3> QED BY <1>4, <2>1, <3>1, <3>2, <3>4, RemoveList, Zenon
    <2>3. h \notin Awake(s) /\ Awake(s)' = Awake(s) \cup {h}
      BY <1>1, <2>2, AwakeIs, AwakeIsNext
    <2>4. Cardinality(Awake(s) \cup {h}) = Cardinality(Awake(s)) + 1
      BY <2>3, AwakeFinite, FS_AddElement, Zenon
    <2>5. Cardinality(Awake(s)) \in Nat
      BY AwakeFinite, FS_CardinalityType, Zenon
    <2>6. value'[s] = value[s] + 1 /\ value[s] \in Nat
      BY <1>1, Zenon
    <2>7. value[s] <= Cardinality(Awake(s))
      BY <1>4, Zenon DEF SemaphoreWakeup
    <2>8. value'[s] <= Cardinality(Awake(s)')
      BY <2>3, <2>4, <2>5, <2>6, <2>7
    <2> QED BY <1>2, <2>8, Zenon DEF SemaphoreWakeup
  <1> QED BY <1>3, <1>4, Zenon

\* P sleeps when there is no unit; when it takes one, at most its caller was on its way.
LEMMA PWakes ==
    ASSUME ThreadsInv, ThreadsInv', SemaphoreWakeup, NEW s \in Semaphore,
           frame[currentThread] \in {"user", s}, DoP(s)
    PROVE  SemaphoreWakeup'
  <1>1. PICK m \in Thread : m = currentThread
    BY Zenon DEF ThreadsInv, ThreadsTypeOK
  <1>2. /\ s \in WaitList /\ Semaphore \subseteq WaitList /\ "user" \notin Semaphore
        /\ queue \in [WaitList -> Seq(Thread)] /\ value \in [Semaphore -> Nat]
        /\ frame \in [Thread -> {"start", "user", "finish"} \cup Semaphore \cup Lock]
        /\ frame[m] \in {"user", s}
    BY <1>1, ThreadsAssumption, Zenon DEF ThreadsInv, ThreadsTypeOK, WaitList
  <1>3. PICK f \in {"user", s} :
          /\ frame' = [frame EXCEPT ![m] = f]
          /\ f = s => value[s] = 0 /\ value' = value
          /\ f = "user" => /\ queue' = queue /\ value[s] # 0
                           /\ value' = [value EXCEPT ![s] = value[s] - 1]
          /\ \A r \in Semaphore : r # s => queue'[r] = queue[r]
    BY <1>1, <1>2, Zenon DEF DoP
  <1>4. frame'[m] = f /\ \A t \in Thread : t # m => frame'[t] = frame[t]
    BY <1>2, <1>3, Zenon
  <1>5. ASSUME NEW r \in Semaphore, r # s
        PROVE  (queue[r] # <<>> => value[r] <= Cardinality(Awake(r)))'
    <2>1. value'[r] = value[r] /\ queue'[r] = queue[r]
      BY <1>2, <1>3, <1>5, Zenon
    <2>2. \A t \in Thread : frame'[t] = r <=> frame[t] = r
      BY <1>2, <1>3, <1>4, <1>5
    <2> QED BY <2>1, <2>2, WakeupKept, Zenon
  <1>6. CASE f = s
    <2>1. value'[s] = 0
      BY <1>3, <1>6, Zenon
    <2>2. Cardinality(Awake(s)') \in Nat
      <3>1. IsFiniteSet(Awake(s)')
        <4>1. Awake(s)' \subseteq Thread
          BY Zenon DEF Awake
        <4> QED BY <4>1, FS_Subset, ClientAssumption, Zenon
      <3> QED BY <3>1, FS_CardinalityType, Zenon
    <2> QED BY <1>5, <2>1, <2>2 DEF SemaphoreWakeup
  <1>7. CASE f = "user"
    <2>1. Awake(s)' = Awake(s) \ {m}
      BY <1>2, <1>3, <1>4, <1>7, AwakeIs, AwakeIsNext
    <2>2. PICK a \in Nat : a = Cardinality(Awake(s))
      BY AwakeFinite, FS_CardinalityType, Zenon
    <2>3. Cardinality(Awake(s) \ {m}) \in {a, a - 1}
      BY <2>2, AwakeFinite, FS_RemoveElement, Zenon
    <2>4. PICK v \in Nat : v = value[s] /\ v # 0 /\ value'[s] = v - 1
      BY <1>2, <1>3, <1>7, Zenon
    <2>5. queue[s] # <<>> => v <= a
      BY <2>2, <2>4, Zenon DEF SemaphoreWakeup
    <2>6. (queue[s] # <<>> => value[s] <= Cardinality(Awake(s)))'
      BY <1>3, <1>7, <2>1, <2>3, <2>4, <2>5
    <2> QED BY <1>5, <2>6, Zenon DEF SemaphoreWakeup
  <1> QED BY <1>3, <1>6, <1>7, Zenon

\* No other routine changes the values or the lists of semaphores, or moves a thread into or
\* out of P.
LEMMA OthersWake ==
    ASSUME ThreadsInv, ThreadsInv', SemaphoreWakeup, value' = value,
           \A s \in Semaphore : queue'[s] = queue[s],
           \/ frame' = frame
           \/ \E f \in {"user", "finish"} \cup Lock :
                 /\ frame[currentThread] \notin Semaphore
                 /\ frame' = [frame EXCEPT ![currentThread] = f]
    PROVE  SemaphoreWakeup'
  <1>1. \A s \in Semaphore : \A t \in Thread : frame'[t] = s <=> frame[t] = s
    BY ThreadsAssumption DEF ThreadsInv, ThreadsTypeOK
  <1> QED BY <1>1, WakeupKept, Zenon DEF SemaphoreWakeup

\* Acquire leaves the semaphores alone.
LEMMA AcquireWakes ==
    ASSUME ThreadsInv, ThreadsInv', SemaphoreWakeup, NEW l \in Lock,
           InUser \/ frame[currentThread] = l, DoAcquire(l)
    PROVE  SemaphoreWakeup'
  <1>1. value' = value /\ \A s \in Semaphore : queue'[s] = queue[s]
    BY ThreadsAssumption DEF DoAcquire, WaitList, ThreadsInv, ThreadsTypeOK
  <1>2. frame[currentThread] \notin Semaphore
    BY ThreadsAssumption, Zenon DEF InUser
  <1>3. \E f \in {"user", "finish"} \cup Lock : frame' = [frame EXCEPT ![currentThread] = f]
    BY Zenon DEF DoAcquire
  <1> QED BY <1>1, <1>2, <1>3, OthersWake, Zenon

\* Every step of the general caller keeps the wakeups of semaphores.
LEMMA WakeupStep ==
    ASSUME ThreadsInv, SemaphoreWakeup, [Next]_vars
    PROVE  SemaphoreWakeup'
  <1>0. ThreadsInv'
    BY SynchStep, Zenon
  <1> DEFINE Rests == {"user", "finish"} \cup Lock
  <1>1. /\ \A s \in Semaphore : s \in WaitList /\ s \notin Lock /\ s \notin Condition
        /\ {"start", "user"} \cap Semaphore = {}
        /\ queue \in [WaitList -> Seq(Thread)]
    BY ThreadsAssumption, Zenon DEF WaitList, ThreadsInv, ThreadsTypeOK
  <1>2. CASE SemaphoreCall
    <2>1. ASSUME NEW s \in Semaphore, P(s) PROVE SemaphoreWakeup'
      BY <1>0, <2>1, PWakes, Zenon DEF P, InUser
    <2>2. ASSUME NEW s \in Semaphore, V(s) PROVE SemaphoreWakeup'
      BY <1>0, <2>2, VWakes, Zenon DEF V
    <2> QED BY <1>2, <2>1, <2>2, Zenon DEF SemaphoreCall
  <1>3. CASE LockCall
    <2>1. ASSUME NEW l \in Lock, Acquire(l) PROVE SemaphoreWakeup'
      BY <1>0, <2>1, AcquireWakes, Zenon DEF Acquire
    <2>2. ASSUME NEW l \in Lock, Release(l) PROVE SemaphoreWakeup'
      <3>1. value' = value /\ frame' = frame /\ \A s \in Semaphore : queue'[s] = queue[s]
        BY <1>1, <2>2, Zenon DEF Release
      <3> QED BY <1>0, <3>1, OthersWake, Zenon
    <2> QED BY <1>3, <2>1, <2>2, Zenon DEF LockCall
  <1>4. CASE ConditionCall
    <2>1. ASSUME NEW c \in Condition, NEW l \in Lock, Wait(c, l) PROVE SemaphoreWakeup'
      <3>1. value' = value /\ \A s \in Semaphore : queue'[s] = queue[s]
        BY <1>1, <2>1, Zenon DEF Wait
      <3>2. frame[currentThread] \notin Semaphore
        BY <1>1, <2>1, Zenon DEF Wait, InUser
      <3>3. frame' = frame \/ \E f \in Rests : frame' = [frame EXCEPT ![currentThread] = f]
        BY <2>1, Zenon DEF Wait, schedVars
      <3> QED BY <1>0, <3>1, <3>2, <3>3, OthersWake, Zenon
    <2>2. ASSUME NEW c \in Condition, NEW l \in Lock, Signal(c, l) \/ Broadcast(c, l)
          PROVE  SemaphoreWakeup'
      <3>1. value' = value /\ frame' = frame /\ \A s \in Semaphore : queue'[s] = queue[s]
        BY <1>1, <2>2, Zenon DEF Signal, Broadcast
      <3> QED BY <1>0, <3>1, OthersWake, Zenon
    <2> QED BY <1>4, <2>1, <2>2, Zenon DEF ConditionCall
  <1>5. CASE ThreadCall
    <2>1. CASE Yield
      <3>1. value' = value /\ frame' = frame /\ queue' = queue
        BY <2>1, Zenon DEF Yield, schedVars, syncVars
      <3> QED BY <1>0, <3>1, OthersWake, Zenon
    <2>2. CASE Finish
      <3>1. /\ value' = value /\ queue' = queue /\ frame[currentThread] \notin Semaphore
            /\ frame' = [frame EXCEPT ![currentThread] = "finish"]
        BY <1>1, <2>2, Zenon DEF Finish, InUser, syncVars
      <3> QED BY <1>0, <3>1, OthersWake, Zenon
    <2>3. ASSUME NEW t \in Thread, Fork(t) PROVE SemaphoreWakeup'
      <3>1. value' = value /\ frame' = frame /\ queue' = queue
        BY <2>3, Zenon DEF Fork, syncVars
      <3> QED BY <1>0, <3>1, OthersWake, Zenon
    <2> QED BY <1>5, <2>1, <2>2, <2>3, Zenon DEF ThreadCall
  <1>6. CASE DeviceInterrupt
    BY <1>0, <1>6, VWakes, ClientAssumption, Zenon DEF DeviceInterrupt, Handler
  <1>7. CASE Resume
    <2>1. CASE ThreadRoot
      <3>1. /\ value' = value /\ queue' = queue /\ frame[currentThread] \notin Semaphore
            /\ frame' = [frame EXCEPT ![currentThread] = "user"]
        BY <1>1, <2>1, Zenon DEF ThreadRoot, syncVars
      <3> QED BY <1>0, <3>1, OthersWake, Zenon
    <2>2. ASSUME NEW s \in Semaphore, ResumeP(s) PROVE SemaphoreWakeup'
      BY <1>0, <2>2, PWakes, Zenon DEF ResumeP
    <2>3. ASSUME NEW l \in Lock, ResumeAcquire(l) PROVE SemaphoreWakeup'
      BY <1>0, <2>3, AcquireWakes, Zenon DEF ResumeAcquire
    <2> QED BY <1>7, <2>1, <2>2, <2>3, Zenon DEF Resume
  <1>8. CASE WakeFromIdle \/ Halt \/ UNCHANGED vars
    <2>1. value' = value /\ frame' = frame /\ queue' = queue
      BY <1>8, Zenon DEF WakeFromIdle, Halt, vars, threadVars, schedVars, syncVars
    <2> QED BY <1>0, <2>1, OthersWake, Zenon
  <1> QED BY <1>2, <1>3, <1>4, <1>5, <1>6, <1>7, <1>8, Zenon DEF Next

\* Semaphore::V never leaves a thread asleep in P while there is a unit that nobody is on its
\* way to take, whatever the callers do and however many threads, units and wakeups there are.
THEOREM NoLostSemaphoreWakeup == Spec => []SemaphoreWakeup
  <1>1. Init => SemaphoreWakeup
    BY Zenon DEF Init, ThreadsInit, SemaphoreWakeup, WaitList
  <1>2. ThreadsInv /\ SemaphoreWakeup /\ [Next]_vars => SemaphoreWakeup'
    BY WakeupStep, Zenon
  <1> QED BY <1>1, <1>2, KernelInvariant, PTL DEF Spec

=============================================================================
