------------------------------- MODULE Threads -------------------------------
(***************************************************************************)
(* The thread kernel of Nachos: the scheduler (threads/scheduler.cc), the  *)
(* thread operations (threads/thread.cc) and the synchronization routines  *)
(* (threads/synch.cc) on the simulated uniprocessor (machine/interrupt.cc).*)
(*                                                                         *)
(* Every routine turns interrupts off, so it runs without interruption     *)
(* until it turns them on again or switches to another thread.  An action  *)
(* is one such stretch.  Between two stretches the current thread is in    *)
(* "user" code (the caller of the kernel, interrupts on), where the timer  *)
(* may make it Yield and device handlers may run.                          *)
(*                                                                         *)
(* The module defines the operations; a module that extends it is the      *)
(* caller and supplies the next-state relation.                            *)
(***************************************************************************)
EXTENDS Naturals, Sequences, FiniteSets, Functions

CONSTANTS
    Thread,       \* the Thread objects that are ever allocated
    MainThread,   \* the one system.cc:147 allocates for main()
    Semaphore,    \* the Semaphore objects
    Lock,         \* the Lock objects
    Condition,    \* the Condition objects
    NULL          \* the null Thread pointer

ASSUME ThreadsAssumption ==
    /\ MainThread \in Thread
    /\ NULL \notin Thread
    /\ Semaphore \cap Lock = {}
    /\ Semaphore \cap Condition = {}
    /\ Lock \cap Condition = {}
    /\ {"start", "user", "finish"} \cap (Semaphore \cup Lock) = {}

VARIABLES
    currentThread,        \* system.cc: the thread whose stack is in use
    threadToBeDestroyed,  \* system.cc: the carcass Run has to delete
    status,               \* Thread::status, and "NONE"/"DELETED" outside new..delete
    readyList,            \* Scheduler::readyList
    frame,                \* where a thread continues when it is switched to:
                          \* "start"  ThreadRoot, it has never run;
                          \* "user"   its caller's code (it yielded);
                          \* s or l   the loop of s.P() or of l.Acquire();
                          \* "finish" nowhere, it called Finish
    cpu,                  \* "running", "idle" (in Interrupt::Idle) or "halted"
    value,                \* Semaphore::value
    isHeld, lockHolder,   \* Lock::isHeld, Lock::lockHolder
    queue,                \* Semaphore::queue, Lock::queue, Condition::blocked
    inside                \* history: threads between the return of l.Acquire()
                          \* and their next l.Release() or Wait on l

schedVars == <<currentThread, threadToBeDestroyed, status, readyList, frame, cpu>>
syncVars == <<value, isHeld, lockHolder, queue, inside>>
threadVars == <<schedVars, syncVars>>

WaitList == Semaphore \cup Lock \cup Condition

Status == {"NONE", "READY", "RUNNING", "BLOCKED", "DELETED"}

(***************************************************************************)
(* system.cc Initialize: the thread of main() runs with interrupts on; the *)
(* constructors of synch.cc leave semaphores at their initial value and    *)
(* everything else free and empty.                                         *)
(***************************************************************************)
ThreadsInit(initialValue) ==
    /\ currentThread = MainThread
    /\ threadToBeDestroyed = NULL
    /\ status = [t \in Thread |-> IF t = MainThread THEN "RUNNING" ELSE "NONE"]
    /\ readyList = <<>>
    /\ frame = [t \in Thread |-> IF t = MainThread THEN "user" ELSE "start"]
    /\ cpu = "running"
    /\ value = initialValue
    /\ isHeld = [l \in Lock |-> FALSE]
    /\ lockHolder = [l \in Lock |-> NULL]
    /\ queue = [q \in WaitList |-> <<>>]
    /\ inside = [l \in Lock |-> {}]

InUser == cpu = "running" /\ frame[currentThread] = "user"

-----------------------------------------------------------------------------
(***************************************************************************)
(* List::Remove on a wait list: its first element, as a sequence of length *)
(* at most one, and what is left.                                          *)
(***************************************************************************)
First(s) == IF s = <<>> THEN <<>> ELSE <<Head(s)>>
Rest(s) == IF s = <<>> THEN <<>> ELSE Tail(s)

\* Scheduler::ReadyToRun of the threads ts, in order: the new status map.
ReadyStatus(ts) == [t \in Thread |-> IF t \in Range(ts) THEN "READY" ELSE status[t]]

ReadyToRun(ts) ==
    /\ readyList' = readyList \o ts
    /\ status' = ReadyStatus(ts)

\* Scheduler::Run switches to next.  A thread that was switched out inside Run
\* deletes the carcass when SWITCH returns; a thread that has never run starts in
\* ThreadRoot and does not pass through that code.
Run(next, ready, st, carcass) ==
    LET reaps == frame[next] # "start"
    IN  /\ currentThread' = next
        /\ readyList' = ready
        /\ cpu' = "running"
        /\ threadToBeDestroyed' = IF reaps THEN NULL ELSE carcass
        /\ status' = [t \in Thread |->
                        IF t = next THEN "RUNNING"
                        ELSE IF reaps /\ t = carcass THEN "DELETED" ELSE st[t]]

\* Thread::Sleep of the current thread, with the ready list and the status map
\* its caller leaves: switch to the first ready thread, or idle.
Sleep(ready, st, carcass) ==
    LET blocked == [st EXCEPT ![currentThread] = "BLOCKED"]
    IN  IF ready # <<>>
        THEN Run(Head(ready), Tail(ready), blocked, carcass)
        ELSE /\ cpu' = "idle"
             /\ status' = blocked
             /\ threadToBeDestroyed' = carcass
             /\ UNCHANGED <<currentThread, readyList>>

-----------------------------------------------------------------------------
(***************************************************************************)
(* Threads.                                                                *)
(***************************************************************************)
\* new Thread, then Thread::Fork: t will start in ThreadRoot.
Fork(t) ==
    /\ InUser
    /\ status[t] = "NONE"
    /\ ReadyToRun(<<t>>)
    /\ UNCHANGED <<currentThread, threadToBeDestroyed, frame, cpu, syncVars>>

\* ThreadRoot of a thread switched to for the first time: enable interrupts and
\* call the forked function.
ThreadRoot ==
    /\ cpu = "running"
    /\ frame[currentThread] = "start"
    /\ frame' = [frame EXCEPT ![currentThread] = "user"]
    /\ UNCHANGED <<currentThread, threadToBeDestroyed, status, readyList, cpu, syncVars>>

\* Mutant of Yield: the thread goes back to the front of the ready list.
YieldToFront ==
    /\ InUser
    /\ IF readyList = <<>>
       THEN UNCHANGED schedVars
       ELSE /\ Run(Head(readyList), <<currentThread>> \o Tail(readyList),
                   [status EXCEPT ![currentThread] = "READY"], threadToBeDestroyed)
            /\ UNCHANGED frame
    /\ UNCHANGED syncVars

\* Thread::Yield, called by the thread or, on a time slice, by OneTick.
Yield ==
    /\ InUser
    /\ IF readyList = <<>>
       THEN UNCHANGED schedVars
       ELSE /\ Run(Head(readyList), Append(Tail(readyList), currentThread),
                   [status EXCEPT ![currentThread] = "READY"], threadToBeDestroyed)
            /\ UNCHANGED frame
    /\ UNCHANGED syncVars

\* Thread::Finish: the thread names itself as the carcass and sleeps for good.
Finish ==
    /\ InUser
    /\ frame' = [frame EXCEPT ![currentThread] = "finish"]
    /\ Sleep(readyList, status, currentThread)
    /\ UNCHANGED syncVars

-----------------------------------------------------------------------------
(***************************************************************************)
(* Semaphores.  P's loop is entered from the caller and re-entered when    *)
(* the thread is switched to after a sleep inside it.                      *)
(***************************************************************************)
DoP(s) ==
    /\ IF value[s] = 0
       THEN /\ queue' = [queue EXCEPT ![s] = Append(@, currentThread)]
            /\ frame' = [frame EXCEPT ![currentThread] = s]
            /\ Sleep(readyList, status, threadToBeDestroyed)
            /\ UNCHANGED value
       ELSE /\ value' = [value EXCEPT ![s] = @ - 1]
            /\ frame' = [frame EXCEPT ![currentThread] = "user"]
            /\ UNCHANGED <<currentThread, threadToBeDestroyed, status, readyList, cpu, queue>>
    /\ UNCHANGED <<isHeld, lockHolder, inside>>

P(s) == InUser /\ DoP(s)

ResumeP(s) == cpu = "running" /\ frame[currentThread] = s /\ DoP(s)

\* Mutant of DoV: V wakes a thread only when the value was zero.
DoVOnlyFromZero(s) ==
    /\ IF value[s] = 0
       THEN /\ ReadyToRun(First(queue[s]))
            /\ queue' = [queue EXCEPT ![s] = Rest(@)]
       ELSE UNCHANGED <<readyList, status, queue>>
    /\ value' = [value EXCEPT ![s] = @ + 1]
    /\ UNCHANGED <<currentThread, threadToBeDestroyed, frame, cpu, isHeld, lockHolder, inside>>

DoV(s) ==
    /\ ReadyToRun(First(queue[s]))
    /\ queue' = [queue EXCEPT ![s] = Rest(@)]
    /\ value' = [value EXCEPT ![s] = @ + 1]
    /\ UNCHANGED <<currentThread, threadToBeDestroyed, frame, cpu, isHeld, lockHolder, inside>>

V(s) == InUser /\ DoV(s)

-----------------------------------------------------------------------------
(***************************************************************************)
(* Locks.                                                                  *)
(***************************************************************************)
DoAcquire(l) ==
    /\ IF isHeld[l]
       THEN /\ queue' = [queue EXCEPT ![l] = Append(@, currentThread)]
            /\ frame' = [frame EXCEPT ![currentThread] = l]
            /\ Sleep(readyList, status, threadToBeDestroyed)
            /\ UNCHANGED <<isHeld, lockHolder, inside>>
       ELSE /\ isHeld' = [isHeld EXCEPT ![l] = TRUE]
            /\ lockHolder' = [lockHolder EXCEPT ![l] = currentThread]
            /\ inside' = [inside EXCEPT ![l] = @ \cup {currentThread}]
            /\ frame' = [frame EXCEPT ![currentThread] = "user"]
            /\ UNCHANGED <<currentThread, threadToBeDestroyed, status, readyList, cpu, queue>>
    /\ UNCHANGED value

Acquire(l) == InUser /\ DoAcquire(l)

\* Mutant of ResumeAcquire: Acquire tests isHeld with "if" instead of "while".
ResumeAcquireWithoutRetest(l) ==
    /\ cpu = "running"
    /\ frame[currentThread] = l
    /\ isHeld' = [isHeld EXCEPT ![l] = TRUE]
    /\ lockHolder' = [lockHolder EXCEPT ![l] = currentThread]
    /\ inside' = [inside EXCEPT ![l] = @ \cup {currentThread}]
    /\ frame' = [frame EXCEPT ![currentThread] = "user"]
    /\ UNCHANGED <<currentThread, threadToBeDestroyed, status, readyList, cpu, queue, value>>

ResumeAcquire(l) == cpu = "running" /\ frame[currentThread] = l /\ DoAcquire(l)

isHeldByCurrentThread(l) == lockHolder[l] = currentThread

\* What Release does to the lock itself; its caller readies First(queue[l]).
FreeLock(l) ==
    /\ isHeld' = [isHeld EXCEPT ![l] = FALSE]
    /\ lockHolder' = [lockHolder EXCEPT ![l] = NULL]
    /\ inside' = [inside EXCEPT ![l] = @ \ {currentThread}]

Release(l) ==
    /\ InUser
    /\ IF isHeldByCurrentThread(l)
       THEN /\ ReadyToRun(First(queue[l]))
            /\ queue' = [queue EXCEPT ![l] = Rest(@)]
            /\ FreeLock(l)
       ELSE UNCHANGED <<readyList, status, queue, isHeld, lockHolder, inside>>
    /\ UNCHANGED <<currentThread, threadToBeDestroyed, frame, cpu, value>>

-----------------------------------------------------------------------------
(***************************************************************************)
(* Condition variables.  A thread that sleeps in Wait(c, l) continues in   *)
(* l.Acquire() when it is switched to.                                     *)
(***************************************************************************)
Wait(c, l) ==
    /\ InUser
    /\ IF isHeldByCurrentThread(l)
       THEN LET woken == First(queue[l])
            IN  /\ queue' = [queue EXCEPT ![l] = Rest(@), ![c] = Append(@, currentThread)]
                /\ frame' = [frame EXCEPT ![currentThread] = l]
                /\ FreeLock(l)
                /\ Sleep(readyList \o woken, ReadyStatus(woken), threadToBeDestroyed)
       ELSE UNCHANGED <<schedVars, isHeld, lockHolder, queue, inside>>
    /\ UNCHANGED value

Signal(c, l) ==
    /\ InUser
    /\ IF isHeldByCurrentThread(l)
       THEN /\ ReadyToRun(First(queue[c]))
            /\ queue' = [queue EXCEPT ![c] = Rest(@)]
       ELSE UNCHANGED <<readyList, status, queue>>
    /\ UNCHANGED <<currentThread, threadToBeDestroyed, frame, cpu,
                   value, isHeld, lockHolder, inside>>

Broadcast(c, l) ==
    /\ InUser
    /\ IF isHeldByCurrentThread(l)
       THEN /\ ReadyToRun(queue[c])
            /\ queue' = [queue EXCEPT ![c] = <<>>]
       ELSE UNCHANGED <<readyList, status, queue>>
    /\ UNCHANGED <<currentThread, threadToBeDestroyed, frame, cpu,
                   value, isHeld, lockHolder, inside>>

-----------------------------------------------------------------------------
(***************************************************************************)
(* The processor.  Handlers run where interrupts are on and while the CPU  *)
(* idles; the ones of this system signal a semaphore and nothing else.     *)
(***************************************************************************)
Handler(s) ==
    /\ InUser \/ cpu = "idle"
    /\ DoV(s)

\* The loop of Thread::Sleep, when a handler has readied some thread.
WakeFromIdle ==
    /\ cpu = "idle"
    /\ readyList # <<>>
    /\ Run(Head(readyList), Tail(readyList), status, threadToBeDestroyed)
    /\ UNCHANGED <<frame, syncVars>>

\* Interrupt::Idle with nothing ready and no interrupt pending.
Halt ==
    /\ cpu = "idle"
    /\ readyList = <<>>
    /\ cpu' = "halted"
    /\ UNCHANGED <<currentThread, threadToBeDestroyed, status, readyList, frame, syncVars>>

\* The current thread continues inside the kernel, interrupts still off.
Resume ==
    \/ ThreadRoot
    \/ \E s \in Semaphore : ResumeP(s)
    \/ \E l \in Lock : ResumeAcquire(l)

-----------------------------------------------------------------------------
(***************************************************************************)
(* What the kernel keeps true, whoever calls it.                           *)
(***************************************************************************)
\* Type invariant of the kernel's state.
ThreadsTypeOK ==
    /\ currentThread \in Thread
    /\ threadToBeDestroyed \in Thread \cup {NULL}
    /\ status \in [Thread -> Status]
    /\ readyList \in Seq(Thread)
    /\ frame \in [Thread -> {"start", "user", "finish"} \cup Semaphore \cup Lock]
    /\ cpu \in {"running", "idle", "halted"}
    /\ value \in [Semaphore -> Nat]
    /\ isHeld \in [Lock -> BOOLEAN]
    /\ lockHolder \in [Lock -> Thread \cup {NULL}]
    /\ queue \in [WaitList -> Seq(Thread)]
    /\ inside \in [Lock -> SUBSET Thread]

\* No thread is on two of the kernel's lists or twice on one of them: Append in
\* ReadyToRun, P, Acquire and Wait never links a thread that is still linked.
OnOneList ==
    /\ IsInjective(readyList)
    /\ \A q \in WaitList :
         /\ IsInjective(queue[q])
         /\ Range(queue[q]) \cap Range(readyList) = {}
         /\ \A r \in WaitList : q # r => Range(queue[q]) \cap Range(queue[r]) = {}

\* Thread::status agrees with the lists: exactly the threads on the ready list are
\* READY, only the current thread is RUNNING, and a BLOCKED thread that has not
\* finished is on some wait list, so that some V, Release, Signal or Broadcast can
\* still find it.  A thread that no list holds would never run again.
NoThreadLost ==
    \A t \in Thread :
        /\ status[t] = "READY" <=> t \in Range(readyList)
        /\ status[t] = "RUNNING" <=> (t = currentThread /\ cpu = "running")
        /\ (status[t] = "BLOCKED" /\ frame[t] # "finish")
              <=> \E q \in WaitList : t \in Range(queue[q])

\* At most one thread is between its return from Acquire (or from Wait, which
\* acquires again) and its Release, and the lock's fields name exactly that thread.
MutualExclusion ==
    \A l \in Lock :
        /\ inside[l] = IF isHeld[l] THEN {lockHolder[l]} ELSE {}
        /\ isHeld[l] <=> lockHolder[l] # NULL

\* The threads woken for q that have not yet run: they will test q again.
Awake(q) == {t \in Thread : frame[t] = q /\ status[t] \in {"READY", "RUNNING"}}

\* No wakeup of Lock::Release is lost: while threads sleep in Acquire of a free lock,
\* some thread is on its way to take it, although other threads may overtake it.
LockWakeup ==
    \A l \in Lock : ~isHeld[l] /\ queue[l] # <<>> => Awake(l) # {}

\* No wakeup of Semaphore::V is lost: while threads sleep in P, as many threads are on
\* their way as there are units to take.
SemaphoreWakeup ==
    \A s \in Semaphore : queue[s] # <<>> => value[s] <= Cardinality(Awake(s))

\* Scheduler::Run deletes finished threads only, and never the one it switched to
\* (the ASSERT of ~Thread): a carcass is never current, ready or waiting again.
CarcassIsDead ==
    /\ \A t \in Thread : status[t] = "DELETED" => frame[t] = "finish"
    /\ threadToBeDestroyed # NULL =>
          /\ frame[threadToBeDestroyed] = "finish"
          /\ status[threadToBeDestroyed] = "BLOCKED"

\* Where a thread continues agrees with where it is: a thread on the list of a semaphore
\* or a lock sleeps in that P or Acquire, one on the list of a condition will acquire a
\* lock, one that is not allocated has not started and one that has finished stays down.
FrameAgrees ==
    /\ \A q \in WaitList : \A t \in Range(queue[q]) :
          IF q \in Condition THEN frame[t] \in Lock ELSE frame[t] = q
    /\ \A t \in Thread :
          /\ status[t] = "NONE" => frame[t] = "start"
          /\ frame[t] = "finish" => status[t] \in {"BLOCKED", "DELETED"}

\* The inductive invariant of the kernel's operations in thread.cc, scheduler.cc and synch.cc:
\* every live thread is on exactly one list or running, a lock is held by one thread at a time,
\* a free lock with sleepers has one of them ready to take it, only a finished thread is
\* deleted, and each sleeper is where its frame says it waits.
ThreadsInv ==
    /\ ThreadsTypeOK
    /\ OnOneList
    /\ NoThreadLost
    /\ MutualExclusion
    /\ LockWakeup
    /\ CarcassIsDead
    /\ FrameAgrees

=============================================================================
