----------------------------- MODULE SynchClient -----------------------------
(***************************************************************************)
(* The thread kernel under its most general caller: whatever thread runs   *)
(* may call any routine of synch.cc and thread.cc, in any order and with   *)
(* any argument, and may be time-sliced between any two calls.             *)
(***************************************************************************)
EXTENDS Threads

CONSTANTS
    InitialValue,  \* the initial value of every semaphore
    MaxValue,      \* bound on a semaphore's value
    Device         \* the semaphores that interrupt handlers signal

ASSUME ClientAssumption ==
    /\ InitialValue \in Nat
    /\ MaxValue \in Nat
    /\ Device \subseteq Semaphore
    /\ IsFiniteSet(Thread)

vars == threadVars

Init == ThreadsInit([s \in Semaphore |-> InitialValue])

SemaphoreCall == \E s \in Semaphore : P(s) \/ (value[s] < MaxValue /\ V(s))
LockCall == \E l \in Lock : Acquire(l) \/ Release(l)
ConditionCall ==
    \E c \in Condition, l \in Lock : Wait(c, l) \/ Signal(c, l) \/ Broadcast(c, l)
ThreadCall == Yield \/ Finish \/ \E t \in Thread : Fork(t)
DeviceInterrupt == \E s \in Device : value[s] < MaxValue /\ Handler(s)

Next ==
    \/ SemaphoreCall
    \/ LockCall
    \/ ConditionCall
    \/ ThreadCall
    \/ DeviceInterrupt
    \/ Resume
    \/ WakeFromIdle
    \/ Halt

Spec == Init /\ [][Next]_vars

(***************************************************************************)
(* A time slice eventually comes (the timer of nachos -rs, timer.cc), the  *)
(* current thread does not stop inside the kernel, and an idle processor   *)
(* takes up a thread that has become ready.                                *)
(***************************************************************************)
FairSpec ==
    /\ Spec
    /\ WF_vars(Yield)
    /\ WF_vars(Resume)
    /\ WF_vars(WakeFromIdle)

-----------------------------------------------------------------------------
(***************************************************************************)
(* Properties.                                                             *)
(***************************************************************************)
\* The ready list is served first come, first served: under time slices every ready
\* thread runs, unless the machine halts.
ReadyThreadRuns ==
    \A t \in Thread :
        t \in Range(readyList) ~> (currentThread = t \/ cpu = "halted")

=============================================================================
