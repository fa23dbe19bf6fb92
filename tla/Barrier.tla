------------------------------ MODULE Barrier -------------------------------
(***************************************************************************)
(* SimpleThread of threads/threadtest.cc in the HW1_SEMAPHORES and         *)
(* HW1_LOCKS builds: ThreadTest forks n threads, every thread (main        *)
(* included) adds to a shared variable a number of times and meets the     *)
(* others at a barrier before it reads the final value.                    *)
(***************************************************************************)
EXTENDS Threads

CONSTANTS
    Builds,       \* of "SEMAPHORES" (-DHW1_SEMAPHORES) and "LOCKS" (-DHW1_LOCKS)
    Iterations,   \* the bound of SimpleThread's loop
    Preemptive,   \* nachos was started with -rs
    Forked,       \* the threads ThreadTest forks, in order
    sp, mx, br,   \* the semaphores of the program
    lk            \* its lock

ASSUME BarrierAssumption ==
    /\ Builds \subseteq {"SEMAPHORES", "LOCKS"}
    /\ Iterations \in Nat \ {0}
    /\ Preemptive \in BOOLEAN
    /\ Forked \in Seq(Thread) /\ IsInjective(Forked)
    /\ Range(Forked) = Thread \ {MainThread}
    /\ {sp, mx, br} \subseteq Semaphore /\ sp # mx /\ sp # br /\ mx # br
    /\ lk \in Lock

VARIABLES
    build,           \* how the program was built
    pc,              \* the next call of every thread
    num, val,        \* SimpleThread's local variables
    SharedVariable,
    count,           \* threads that have reached the barrier
    forked           \* how many threads ThreadTest has forked

Label == {"ThreadTest", "Enter", "Read", "Write", "Again",
          "Arrive", "Count", "Test", "Turn", "Passed", "Final"}

simpleVars == <<build, pc, num, val, SharedVariable, count, forked>>
vars == <<threadVars, simpleVars>>

testnum == Len(Forked) + 1

Init ==
    /\ ThreadsInit([s \in Semaphore |-> IF s = br THEN 0 ELSE 1])
    /\ pc = [t \in Thread |-> IF t = MainThread THEN "ThreadTest" ELSE "Enter"]
    /\ build \in Builds
    /\ num = [t \in Thread |-> 0]
    /\ val = [t \in Thread |-> 0]
    /\ SharedVariable = 0
    /\ count = 0
    /\ forked = 0

me == currentThread
At(label) == InUser /\ pc[me] = label
Goto(label) == pc' = [pc EXCEPT ![me] = label]

-----------------------------------------------------------------------------
ThreadTest ==
    /\ At("ThreadTest")
    /\ forked < Len(Forked)
    /\ Fork(Forked[forked + 1])
    /\ forked' = forked + 1
    /\ Goto(IF forked' = Len(Forked) THEN "Enter" ELSE "ThreadTest")
    /\ UNCHANGED <<build, num, val, SharedVariable, count>>

EnterCritical ==
    /\ At("Enter")
    /\ IF build = "LOCKS" THEN Acquire(lk) ELSE P(sp)
    /\ Goto("Read")
    /\ UNCHANGED <<build, num, val, SharedVariable, count, forked>>

ReadShared ==
    /\ At("Read")
    /\ val' = [val EXCEPT ![me] = SharedVariable]
    /\ Yield
    /\ Goto("Write")
    /\ UNCHANGED <<build, num, SharedVariable, count, forked>>

WriteShared ==
    /\ At("Write")
    /\ SharedVariable' = val[me] + 1
    /\ IF build = "LOCKS" THEN Release(lk) ELSE V(sp)
    /\ Goto("Again")
    /\ UNCHANGED <<build, num, val, count, forked>>

LoopAgain ==
    /\ At("Again")
    /\ num' = [num EXCEPT ![me] = @ + 1]
    /\ Yield
    /\ Goto(IF num[me] + 1 < Iterations THEN "Enter" ELSE "Arrive")
    /\ UNCHANGED <<build, val, SharedVariable, count, forked>>

\* mx.P(); count = count + 1; mx.V();
Arrive ==
    \/ /\ At("Arrive")
       /\ P(mx)
       /\ Goto("Count")
       /\ UNCHANGED <<build, num, val, SharedVariable, count, forked>>
    \/ /\ At("Count")
       /\ count' = count + 1
       /\ V(mx)
       /\ Goto("Test")
       /\ UNCHANGED <<build, num, val, SharedVariable, forked>>

\* Mutants of Turnstile: it opens one thread too early; it is not opened for the next thread.
TurnstileOpensEarly ==
    /\ \/ At("Test") /\ count >= testnum - 1 /\ V(br) /\ Goto("Turn")
       \/ At("Test") /\ count < testnum - 1 /\ P(br) /\ Goto("Passed")
       \/ At("Turn") /\ P(br) /\ Goto("Passed")
       \/ At("Passed") /\ V(br) /\ Goto("Final")
    /\ UNCHANGED <<build, num, val, SharedVariable, count, forked>>

TurnstileStaysClosed ==
    /\ \/ At("Test") /\ count = testnum /\ V(br) /\ Goto("Turn")
       \/ At("Test") /\ count # testnum /\ P(br) /\ Goto("Passed")
       \/ At("Turn") /\ P(br) /\ Goto("Passed")
       \/ At("Passed") /\ InUser /\ UNCHANGED threadVars /\ Goto("Final")
    /\ UNCHANGED <<build, num, val, SharedVariable, count, forked>>

\* if (count == testnum) br.V(); br.P(); br.V();
Turnstile ==
    /\ \/ At("Test") /\ count = testnum /\ V(br) /\ Goto("Turn")
       \/ At("Test") /\ count # testnum /\ P(br) /\ Goto("Passed")
       \/ At("Turn") /\ P(br) /\ Goto("Passed")
       \/ At("Passed") /\ V(br) /\ Goto("Final")
    /\ UNCHANGED <<build, num, val, SharedVariable, count, forked>>

\* The final value is read and the thread finishes.
ReadFinal ==
    /\ At("Final")
    /\ val' = [val EXCEPT ![me] = SharedVariable]
    /\ Finish
    /\ UNCHANGED <<build, pc, num, SharedVariable, count, forked>>

Kernel == (Resume \/ WakeFromIdle \/ Halt) /\ UNCHANGED simpleVars

\* TimerInterruptHandler: only with -rs.
TimeSlice == Preemptive /\ readyList # <<>> /\ Yield /\ UNCHANGED simpleVars

Step ==
    \/ ThreadTest
    \/ EnterCritical \/ ReadShared \/ WriteShared \/ LoopAgain
    \/ Arrive \/ Turnstile \/ ReadFinal

Next == Step \/ Kernel \/ TimeSlice

Spec == Init /\ [][Next]_vars

(***************************************************************************)
(* A thread that gets the processor again and again makes its next call:   *)
(* the timer of -rs draws the length of every slice at random (timer.cc),  *)
(* so that it does not end every slice of a thread before the next call.   *)
(***************************************************************************)
FairSpec ==
    /\ Spec
    /\ WF_vars(Kernel)
    /\ \A t \in Thread : SF_vars(currentThread = t /\ Step)

-----------------------------------------------------------------------------
(***************************************************************************)
(* Properties.                                                             *)
(***************************************************************************)
\* Type invariant.
BarrierTypeOK ==
    /\ build \in {"SEMAPHORES", "LOCKS"}
    /\ pc \in [Thread -> Label]
    /\ num \in [Thread -> 0..Iterations]
    /\ val \in [Thread -> 0..(testnum * Iterations)]
    /\ SharedVariable \in 0..(testnum * Iterations)
    /\ count \in 0..testnum
    /\ forked \in 0..Len(Forked)

\* The labels behind count = count + 1, and the threads that are there.
Arrival == {"Test", "Turn", "Passed", "Final"}
Arrived == {t \in Thread : pc[t] \in Arrival}

\* How often t has updated SharedVariable; all the updates made, t's i-th one as <<t, i>>.
Increments(t) == IF pc[t] = "Again" THEN num[t] + 1 ELSE num[t]
Updates == {u \in Thread \X (1..Iterations) : u[2] <= Increments(u[1])}

\* t may read and write SharedVariable.
InCritical(t) == frame[t] = "user" /\ pc[t] \in {"Read", "Write"}

\* project1.txt on the barrier: all threads see the same final value, and no update is
\* lost although a thread yields between its read and its write.
FinalValue ==
    \A t \in Thread : frame[t] = "finish" => val[t] = testnum * Iterations

\* No thread passes the barrier before the last one has reached it, although count is
\* tested outside its mutex and several threads may open the turnstile.
BarrierHolds ==
    \A t \in Thread :
        frame[t] = "user" /\ pc[t] \in {"Passed", "Final"} => count = testnum

\* A thread sleeps only in the call it has just made, and num says how far its loop is.
WhereThreadsAre ==
    \A t \in Thread :
        /\ frame[t] = "start" => pc[t] = "Enter"
        /\ frame[t] = "finish" => pc[t] = "Final"
        /\ frame[t] \in Lock => build = "LOCKS" /\ frame[t] = lk /\ pc[t] = "Read"
        /\ frame[t] \in Semaphore => \/ build = "SEMAPHORES" /\ frame[t] = sp /\ pc[t] = "Read"
                                     \/ frame[t] = mx /\ pc[t] = "Count"
                                     \/ frame[t] = br /\ pc[t] = "Passed"
        /\ pc[t] \in {"ThreadTest", "Enter", "Read", "Write", "Again"} => num[t] < Iterations
        /\ pc[t] \in {"Arrive", "Count"} \cup Arrival => num[t] = Iterations

\* Between sp.P() and sp.V() (lk.Acquire() and lk.Release()) there is one thread, and what it
\* has read is still the value of SharedVariable when it writes.
OneWriter ==
    /\ build = "LOCKS" => \A t \in Thread : InCritical(t) => t \in inside[lk]
    /\ build = "SEMAPHORES" => /\ value[sp] <= 1
                               /\ value[sp] = 1 => \A t \in Thread : ~InCritical(t)
                               /\ \A t, u \in Thread : InCritical(t) /\ InCritical(u) => t = u
    /\ \A t \in Thread : pc[t] = "Write" => val[t] = SharedVariable

\* SharedVariable is the number of updates made and count the number of threads that have
\* arrived: neither loses an addition.
NoUpdateLost ==
    /\ SharedVariable = Cardinality(Updates)
    /\ count = Cardinality(Arrived)

\* br has units, and threads are behind its first V, only when everybody has arrived.
TurnstileClosed ==
    count # testnum => value[br] = 0 /\ \A t \in Thread : pc[t] \notin {"Turn", "Final"}

\* The inductive invariant of SimpleThread: no increment of SharedVariable is lost, and nobody
\* passes the barrier before everybody has arrived.
BarrierInv ==
    /\ BarrierTypeOK
    /\ FinalValue
    /\ BarrierHolds
    /\ WhereThreadsAre
    /\ OneWriter
    /\ NoUpdateLost
    /\ TurnstileClosed

\* Everybody passes: the turnstile is never left closed and the machine halts with all
\* threads finished.
EverybodyFinishes == <>(cpu = "halted" /\ \A t \in Thread : frame[t] = "finish")

=============================================================================
