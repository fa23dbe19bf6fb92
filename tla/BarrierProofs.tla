---------------------------- MODULE BarrierProofs ----------------------------
(***************************************************************************)
(* SimpleThread's updates and barrier, for any number of threads and any   *)
(* number of iterations, in both builds and with or without time slices.   *)
(***************************************************************************)
EXTENDS Barrier, ThreadsProofs, FiniteSetTheorems

\* What the steps below are about: the kernel's invariant and SimpleThread's own.
SimpleInv == ThreadsInv /\ BarrierInv

\* WhereThreadsAre and BarrierHolds, of one thread.
WhereOK(t) ==
    /\ frame[t] = "start" => pc[t] = "Enter"
    /\ frame[t] = "finish" => pc[t] = "Final"
    /\ frame[t] \in Lock => build = "LOCKS" /\ frame[t] = lk /\ pc[t] = "Read"
    /\ frame[t] \in Semaphore => \/ build = "SEMAPHORES" /\ frame[t] = sp /\ pc[t] = "Read"
                                 \/ frame[t] = mx /\ pc[t] = "Count"
                                 \/ frame[t] = br /\ pc[t] = "Passed"
    /\ pc[t] \in {"ThreadTest", "Enter", "Read", "Write", "Again"} => num[t] < Iterations
    /\ pc[t] \in {"Arrive", "Count"} \cup Arrival => num[t] = Iterations

\* OneWriter, of each build, and what it says of the value read.
LockKept == build = "LOCKS" => \A t \in Thread : InCritical(t) => t \in inside[lk]
UnitKept ==
    build = "SEMAPHORES" => /\ value[sp] <= 1
                            /\ value[sp] = 1 => \A t \in Thread : ~InCritical(t)
                            /\ \A t, u \in Thread : InCritical(t) /\ InCritical(u) => t = u
ReadIsCurrent == \A t \in Thread : pc[t] = "Write" => val[t] = SharedVariable

-----------------------------------------------------------------------------
(***************************************************************************)
(* Counting.                                                               *)
(***************************************************************************)
\* There are testnum threads: main and the ones it forks.
LEMMA ThreadCount == IsFiniteSet(Thread) /\ Cardinality(Thread) = testnum /\ testnum \in Nat
  <1>1. Len(Forked) \in Nat /\ DOMAIN Forked = 1..Len(Forked)
        /\ Forked \in [1..Len(Forked) -> Thread]
    BY BarrierAssumption
  <1>2. IsFiniteSet(1..Len(Forked)) /\ Cardinality(1..Len(Forked)) = Len(Forked)
    BY <1>1, FS_Interval
  <1>3. Forked \in Bijection(1..Len(Forked), Thread \ {MainThread})
    <2>1. \A a, b \in 1..Len(Forked) : Forked[a] = Forked[b] => a = b
      BY <1>1, BarrierAssumption, Zenon DEF IsInjective
    <2>2. \A t \in Thread \ {MainThread} : \E a \in 1..Len(Forked) : Forked[a] = t
      BY <1>1, BarrierAssumption, Zenon DEF Range
    <2>3. \A a \in 1..Len(Forked) : Forked[a] \in Thread \ {MainThread}
      BY <1>1, BarrierAssumption, Zenon DEF Range
    <2>4. Forked \in [1..Len(Forked) -> Thread \ {MainThread}]
      BY <1>1, <2>3, Zenon
    <2>5. Forked \in Injection(1..Len(Forked), Thread \ {MainThread})
      BY <2>1, <2>4, Zenon DEF Injection, IsInjective
    <2>6. Forked \in Surjection(1..Len(Forked), Thread \ {MainThread})
      BY <2>2, <2>4, Zenon DEF Surjection
    <2> QED BY <2>5, <2>6, Zenon DEF Bijection
  <1>4. /\ IsFiniteSet(Thread \ {MainThread})
        /\ Cardinality(Thread \ {MainThread}) = Len(Forked)
    BY <1>2, <1>3, FS_Bijection, Zenon DEF ExistsBijection
  <1>5. PICK S : S = Thread \ {MainThread}
    BY Zenon
  <1>6. Thread = S \cup {MainThread} /\ MainThread \notin S
    BY <1>5, ThreadsAssumption, Zenon
  <1>7. IsFiniteSet(S) /\ Cardinality(S) = Len(Forked)
    BY <1>4, <1>5, Zenon
  <1>8. IsFiniteSet(S \cup {MainThread}) /\ Cardinality(S \cup {MainThread}) = Len(Forked) + 1
    BY <1>6, <1>7, FS_AddElement, Zenon
  <1> QED BY <1>1, <1>6, <1>8 DEF testnum

\* The updates that can be made are testnum times Iterations.
LEMMA UpdateCount ==
    /\ IsFiniteSet(Thread \X (1..Iterations))
    /\ Cardinality(Thread \X (1..Iterations)) = testnum * Iterations
  <1>1. IsFiniteSet(1..Iterations) /\ Cardinality(1..Iterations) = Iterations
    BY FS_Interval, BarrierAssumption
  <1> QED BY <1>1, ThreadCount, FS_Product, Zenon

\* No more than testnum threads arrive and when testnum have arrived they are all there;
\* no more than testnum * Iterations updates are made.
LEMMA Bounds ==
    /\ IsFiniteSet(Arrived) /\ Cardinality(Arrived) \in 0..testnum
    /\ Cardinality(Arrived) = testnum => Arrived = Thread
    /\ IsFiniteSet(Updates) /\ Cardinality(Updates) \in 0..(testnum * Iterations)
  <1>1. Arrived \subseteq Thread /\ Updates \subseteq Thread \X (1..Iterations)
    BY Zenon DEF Arrived, Updates
  <1>2. /\ IsFiniteSet(Arrived) /\ Cardinality(Arrived) <= testnum
        /\ Cardinality(Arrived) = testnum => Arrived = Thread
    BY <1>1, ThreadCount, FS_Subset, Zenon
  <1>3. IsFiniteSet(Updates) /\ Cardinality(Updates) <= testnum * Iterations
    BY <1>1, UpdateCount, FS_Subset
  <1>4. Cardinality(Arrived) \in Nat /\ Cardinality(Updates) \in Nat
    BY <1>2, <1>3, FS_CardinalityType, Zenon
  <1>5. testnum * Iterations \in Nat
    BY ThreadCount, UpdateCount, FS_CardinalityType, Zenon
  <1> QED BY <1>2, <1>3, <1>4, <1>5, ThreadCount

\* Once everybody has arrived, all the updates have been made.
LEMMA AllUpdated ==
    ASSUME BarrierInv, count = testnum
    PROVE  SharedVariable = testnum * Iterations
  <1>1. Arrived = Thread
    BY Bounds, Zenon DEF BarrierInv, NoUpdateLost
  <1>2. \A t \in Thread : Increments(t) = Iterations
    BY <1>1, Zenon DEF Arrived, BarrierInv, WhereThreadsAre, Increments, Arrival
  <1>3. Updates = Thread \X (1..Iterations)
    <2>1. \A u \in Thread \X (1..Iterations) : u[1] \in Thread /\ u[2] <= Iterations
      BY BarrierAssumption
    <2> QED BY <1>2, <2>1, Zenon DEF Updates
  <1> QED BY <1>3, UpdateCount, Zenon DEF BarrierInv, NoUpdateLost

\* What every step below needs: the types, and the names that differ.
LEMMA Parts ==
    ASSUME SimpleInv
    PROVE  /\ me \in Thread /\ ThreadsInv /\ BarrierTypeOK
           /\ frame \in [Thread -> {"start", "user", "finish"} \cup Semaphore \cup Lock]
           /\ value \in [Semaphore -> Nat] /\ inside \in [Lock -> SUBSET Thread]
           /\ {sp, mx, br} \subseteq Semaphore /\ lk \in Lock
           /\ sp # mx /\ sp # br /\ mx # br
           /\ {"start", "user", "finish"} \cap (Semaphore \cup Lock) = {}
           /\ Semaphore \cap Lock = {}
  BY BarrierAssumption, ThreadsAssumption, Zenon
     DEF SimpleInv, BarrierInv, ThreadsInv, ThreadsTypeOK, me

\* The parts into which the steps below split SimpleThread's invariant.
LEMMA InvSplit ==
    SimpleInv <=> /\ ThreadsInv /\ BarrierTypeOK /\ FinalValue /\ BarrierHolds
                  /\ \A t \in Thread : WhereOK(t)
                  /\ LockKept /\ UnitKept /\ ReadIsCurrent
                  /\ NoUpdateLost /\ TurnstileClosed
  BY Zenon DEF SimpleInv, BarrierInv, WhereThreadsAre, WhereOK, OneWriter, LockKept, UnitKept,
         ReadIsCurrent

\* The same of the next state.
LEMMA InvSplitNext ==
    (SimpleInv <=> /\ ThreadsInv /\ BarrierTypeOK /\ FinalValue /\ BarrierHolds
                   /\ \A t \in Thread : WhereOK(t)
                   /\ LockKept /\ UnitKept /\ ReadIsCurrent
                   /\ NoUpdateLost /\ TurnstileClosed)'
  BY InvSplit, PTL

\* The bounds of the next state's counts.
LEMMA BoundsNext ==
    (/\ IsFiniteSet(Arrived) /\ Cardinality(Arrived) \in 0..testnum
     /\ Cardinality(Arrived) = testnum => Arrived = Thread
     /\ IsFiniteSet(Updates) /\ Cardinality(Updates) \in 0..(testnum * Iterations))'
  BY Bounds, PTL

\* A step that neither updates SharedVariable nor arrives leaves both counts right.
LEMMA CountsKept ==
    ASSUME SimpleInv, UNCHANGED <<SharedVariable, count>>,
           \A t \in Thread : /\ Increments(t)' = Increments(t)
                             /\ pc'[t] \in Arrival <=> pc[t] \in Arrival
    PROVE  NoUpdateLost'
  <1>1. Arrived' = Arrived
    BY Zenon DEF Arrived
  <1>2. Updates' = Updates
    <2>1. \A u \in Thread \X (1..Iterations) : Increments(u[1])' = Increments(u[1])
      BY Zenon
    <2> QED BY <2>1, Zenon DEF Updates
  <1> QED BY <1>1, <1>2, InvSplit, Zenon DEF NoUpdateLost

\* A switch to another thread, a time slice or a return to the idle loop changes nothing that
\* SimpleThread's invariant speaks of.
LEMMA UnmovedInv ==
    ASSUME SimpleInv, ThreadsInv', UNCHANGED <<simpleVars, frame, value, inside>>
    PROVE  SimpleInv'
  <1>0. UNCHANGED <<build, pc, num, val, SharedVariable, count, forked>>
    BY Zenon DEF simpleVars
  <1>1. BarrierTypeOK' /\ FinalValue' /\ BarrierHolds' /\ TurnstileClosed'
    BY <1>0, InvSplit, Zenon DEF BarrierTypeOK, FinalValue, BarrierHolds, TurnstileClosed
  <1>2. \A t \in Thread : WhereOK(t)'
    BY <1>0, InvSplit, Zenon DEF WhereOK
  <1>3. LockKept' /\ UnitKept' /\ ReadIsCurrent'
    BY <1>0, InvSplit, Zenon DEF LockKept, UnitKept, ReadIsCurrent, InCritical
  <1>4. NoUpdateLost'
    BY <1>0, CountsKept, Zenon DEF Increments
  <1> QED BY <1>1, <1>2, <1>3, <1>4, InvSplitNext, Zenon

-----------------------------------------------------------------------------
(***************************************************************************)
(* The loop of SimpleThread.                                               *)
(***************************************************************************)
\* The current thread goes on to label l, or to sleep on its way there, in frame f.
Moves(l, f) == pc' = [pc EXCEPT ![me] = l] /\ frame' = [frame EXCEPT ![me] = f]

\* Only the current thread moves.
LEMMA OnlyMeMoves ==
    ASSUME SimpleInv, NEW l \in Label,
           NEW f \in {"start", "user", "finish"} \cup Semaphore \cup Lock, Moves(l, f)
    PROVE  /\ pc'[me] = l /\ frame'[me] = f
           /\ \A t \in Thread : t # me => pc'[t] = pc[t] /\ frame'[t] = frame[t]
           /\ pc' \in [Thread -> Label]
  BY Parts, Zenon DEF Moves, BarrierTypeOK

\* ThreadTest forks the next thread, which will enter SimpleThread.
LEMMA ThreadTestInv ==
    ASSUME SimpleInv, ThreadTest
    PROVE  SimpleInv'
  <1>1. /\ me \in Thread /\ pc[me] = "ThreadTest" /\ frame[me] = "user"
        /\ forked \in Nat /\ forked < Len(Forked) /\ Len(Forked) \in Nat
    BY Parts, BarrierAssumption DEF ThreadTest, At, InUser, me, BarrierTypeOK
  <1>2. Forked[forked + 1] \in Thread
    BY <1>1, BarrierAssumption
  <1>3. ThreadsInv'
    BY <1>2, Parts, ForkInv, Zenon DEF ThreadTest
  <1>4. PICK l \in {"ThreadTest", "Enter"} : pc' = [pc EXCEPT ![me] = l]
    BY Zenon DEF ThreadTest, Goto
  <1>5. /\ frame' = frame /\ value' = value /\ inside' = inside
        /\ UNCHANGED <<build, num, val, SharedVariable, count>>
        /\ forked' \in 0..Len(Forked)
    BY <1>1 DEF ThreadTest, Fork, syncVars
  <1>6. pc' \in [Thread -> Label] /\ pc'[me] = l /\ \A t \in Thread : t # me => pc'[t] = pc[t]
    BY <1>1, <1>4, Parts, Zenon DEF BarrierTypeOK, Label
  <1>7. BarrierTypeOK' /\ FinalValue' /\ BarrierHolds' /\ TurnstileClosed'
    BY <1>1, <1>5, <1>6, InvSplit, Zenon
       DEF BarrierTypeOK, FinalValue, BarrierHolds, TurnstileClosed
  <1>8. \A t \in Thread : WhereOK(t)'
    BY <1>1, <1>5, <1>6, InvSplit, Parts DEF WhereOK, Arrival
  <1>9. LockKept' /\ UnitKept' /\ ReadIsCurrent'
    BY <1>1, <1>5, <1>6, InvSplit, Zenon DEF LockKept, UnitKept, ReadIsCurrent, InCritical
  <1>10. NoUpdateLost'
    BY <1>1, <1>5, <1>6, CountsKept, Zenon DEF Increments, Arrival
  <1> QED BY <1>3, <1>7, <1>8, <1>9, <1>10, InvSplitNext

\* s.P() either sleeps in frame s or takes a unit and returns to the caller.
LEMMA PMoves ==
    ASSUME SimpleInv, NEW s \in Semaphore, DoP(s)
    PROVE  /\ inside' = inside
           /\ \/ frame' = [frame EXCEPT ![me] = s] /\ value' = value
              \/ /\ frame' = [frame EXCEPT ![me] = "user"]
                 /\ value[s] # 0 /\ value' = [value EXCEPT ![s] = value[s] - 1]
  BY Zenon DEF DoP, me

\* l.Acquire() either sleeps in frame l or finds the lock free, takes it and returns.
LEMMA AcquireMoves ==
    ASSUME SimpleInv, NEW l \in Lock, DoAcquire(l)
    PROVE  /\ value' = value
           /\ \/ frame' = [frame EXCEPT ![me] = l] /\ inside' = inside
              \/ /\ frame' = [frame EXCEPT ![me] = "user"]
                 /\ inside[l] = {} /\ inside' = [inside EXCEPT ![l] = inside[l] \cup {me}]
  BY Parts, Zenon DEF DoAcquire, me, ThreadsInv, MutualExclusion

\* sp.P() or lk.Acquire(): a thread that goes on into the loop's body is alone there.
LEMMA EnterCriticalInv ==
    ASSUME SimpleInv, EnterCritical
    PROVE  SimpleInv'
  <1>1. /\ me \in Thread /\ pc[me] = "Enter" /\ frame[me] = "user" /\ InUser
        /\ UNCHANGED <<build, num, val, SharedVariable, count, forked>>
    BY Parts, Zenon DEF EnterCritical, At, InUser, me
  <1>2. \/ build = "LOCKS" /\ DoAcquire(lk)
        \/ build = "SEMAPHORES" /\ DoP(sp)
    BY Parts, Zenon DEF EnterCritical, Acquire, P, BarrierTypeOK
  <1>3. ThreadsInv'
    BY <1>1, <1>2, Parts, DoAcquireInv, DoPInv, Zenon DEF InUser
  <1>4. PICK f \in {"user", sp, lk} :
          /\ Moves("Read", f)
          /\ value'[br] = value[br]
          /\ f = sp => build = "SEMAPHORES" /\ value' = value
          /\ f = lk => build = "LOCKS" /\ inside' = inside
          /\ f = "user" /\ build = "LOCKS" => inside[lk] = {} /\ me \in inside'[lk]
          /\ f = "user" /\ build = "SEMAPHORES" => value[sp] # 0 /\ value'[sp] = value[sp] - 1
    <2>1. pc' = [pc EXCEPT ![me] = "Read"]
      BY Zenon DEF EnterCritical, Goto
    <2>2. CASE build = "LOCKS" /\ DoAcquire(lk)
      BY <2>1, <2>2, AcquireMoves, Parts DEF Moves
    <2>3. CASE build = "SEMAPHORES" /\ DoP(sp)
      BY <2>1, <2>3, PMoves, Parts DEF Moves
    <2> QED BY <1>2, <2>2, <2>3, Zenon
  <1>5. /\ pc'[me] = "Read" /\ frame'[me] = f
        /\ \A t \in Thread : t # me => pc'[t] = pc[t] /\ frame'[t] = frame[t]
        /\ pc' \in [Thread -> Label]
    BY <1>4, Parts, OnlyMeMoves, Zenon DEF Label
  <1>6. BarrierTypeOK' /\ FinalValue' /\ BarrierHolds' /\ TurnstileClosed'
    BY <1>1, <1>4, <1>5, InvSplit, Parts
       DEF BarrierTypeOK, FinalValue, BarrierHolds, TurnstileClosed
  <1>7. \A t \in Thread : WhereOK(t)'
    BY <1>1, <1>4, <1>5, InvSplit, Parts DEF WhereOK, Arrival
  <1>8. LockKept'
    BY <1>1, <1>4, <1>5, InvSplit, Parts, Zenon DEF LockKept, InCritical
  <1>9. UnitKept'
    BY <1>1, <1>4, <1>5, InvSplit, Parts DEF UnitKept, InCritical
  <1>10. ReadIsCurrent'
    BY <1>1, <1>5, InvSplit, Zenon DEF ReadIsCurrent
  <1>11. NoUpdateLost'
    BY <1>1, <1>5, CountsKept, Zenon DEF Increments, Arrival
  <1> QED BY <1>3, <1>6, <1>7, <1>8, <1>9, <1>10, <1>11, InvSplitNext

\* val = SharedVariable and Yield, inside the loop's body.
LEMMA ReadSharedInv ==
    ASSUME SimpleInv, ReadShared
    PROVE  SimpleInv'
  <1>1. /\ me \in Thread /\ pc[me] = "Read" /\ frame[me] = "user"
        /\ val' = [val EXCEPT ![me] = SharedVariable]
        /\ pc' = [pc EXCEPT ![me] = "Write"]
        /\ UNCHANGED <<build, num, SharedVariable, count, forked, frame, value, inside>>
    BY Parts, Zenon DEF ReadShared, At, InUser, me, Goto, Yield, schedVars, syncVars
  <1>2. ThreadsInv'
    BY Parts, YieldInv, Zenon DEF ReadShared
  <1>3. /\ pc'[me] = "Write" /\ val'[me] = SharedVariable
        /\ \A t \in Thread : t # me => pc'[t] = pc[t] /\ val'[t] = val[t]
    BY <1>1, Parts, Zenon DEF BarrierTypeOK
  <1>4. BarrierTypeOK'
    BY <1>1, Parts, Zenon DEF BarrierTypeOK, Label
  <1>5. FinalValue' /\ BarrierHolds' /\ TurnstileClosed'
    BY <1>1, <1>3, InvSplit, Zenon DEF FinalValue, BarrierHolds, TurnstileClosed
  <1>6. \A t \in Thread : WhereOK(t)'
    BY <1>1, <1>3, InvSplit, Parts, Zenon DEF WhereOK, Arrival
  <1>7. LockKept' /\ UnitKept' /\ ReadIsCurrent'
    BY <1>1, <1>3, InvSplit DEF LockKept, UnitKept, ReadIsCurrent, InCritical
  <1>8. NoUpdateLost'
    BY <1>1, <1>3, CountsKept, Zenon DEF Increments, Arrival
  <1> QED BY <1>2, <1>4, <1>5, <1>6, <1>7, <1>8, InvSplitNext

\* The thread in the loop's body is alone there.
LEMMA AloneInside ==
    ASSUME SimpleInv, NEW t \in Thread, NEW u \in Thread, InCritical(t), InCritical(u)
    PROVE  t = u /\ (build = "SEMAPHORES" => value[sp] = 0)
  <1>1. CASE build = "LOCKS"
    <2>1. t \in inside[lk] /\ u \in inside[lk]
      BY <1>1, InvSplit, Zenon DEF LockKept
    <2> QED BY <1>1, <2>1, Parts DEF ThreadsInv, MutualExclusion
  <1>2. CASE build = "SEMAPHORES"
    BY <1>2, InvSplit, Parts DEF UnitKept
  <1> QED BY <1>1, <1>2, Parts, Zenon DEF BarrierTypeOK

\* The next update of thread t is one more.
LEMMA UpdateMade ==
    ASSUME SimpleInv, NEW t \in Thread, Increments(t) < Iterations,
           Increments(t)' = Increments(t) + 1,
           \A u \in Thread : u # t => Increments(u)' = Increments(u)
    PROVE  Cardinality(Updates)' = Cardinality(Updates) + 1
  <1>1. PICK n \in Nat : n = Increments(t)
    BY Parts DEF Increments, BarrierTypeOK
  <1>2. n + 1 \in 1..Iterations
    BY <1>1, BarrierAssumption
  <1>3. <<t, n + 1>> \notin Updates
    BY <1>1 DEF Updates
  <1>4. Updates' = Updates \cup {<<t, n + 1>>}
    <2>1. ASSUME NEW u \in Thread, NEW i \in 1..Iterations
          PROVE  i <= Increments(u)' <=> i <= Increments(u) \/ <<u, i>> = <<t, n + 1>>
      <3>1. CASE u = t
        <4>1. i \in Nat /\ (i <= n + 1 <=> i <= n \/ i = n + 1)
          BY BarrierAssumption
        <4> QED BY <1>1, <3>1, <4>1, Zenon
      <3>2. CASE u # t
        BY <3>2, Zenon
      <3> QED BY <3>1, <3>2, Zenon
    <2>2. ASSUME NEW w \in Thread \X (1..Iterations)
          PROVE  w \in Updates' <=> w \in Updates \/ w = <<t, n + 1>>
      <3>1. PICK u \in Thread, i \in 1..Iterations : w = <<u, i>>
        OBVIOUS
      <3>2. (w \in Updates <=> i <= Increments(u)) /\ (w \in Updates' <=> i <= Increments(u)')
        BY <3>1, Zenon DEF Updates
      <3> QED BY <2>1, <3>1, <3>2, Zenon
    <2>3. /\ Updates \subseteq Thread \X (1..Iterations)
          /\ Updates' \subseteq Thread \X (1..Iterations)
          /\ <<t, n + 1>> \in Thread \X (1..Iterations)
      BY <1>2, Zenon DEF Updates
    <2> QED BY <2>2, <2>3, Zenon
  <1>5. IsFiniteSet(Updates)
    BY Bounds, Zenon
  <1>6. Cardinality(Updates \cup {<<t, n + 1>>}) = Cardinality(Updates) + 1
    BY <1>3, <1>5, FS_AddElement, Zenon
  <1> QED BY <1>4, <1>6, Zenon

\* SharedVariable = val + 1 and sp.V() or lk.Release(): nobody has written since the read.
LEMMA WriteSharedInv ==
    ASSUME SimpleInv, WriteShared
    PROVE  SimpleInv'
  <1>1. /\ me \in Thread /\ pc[me] = "Write" /\ frame[me] = "user"
        /\ SharedVariable' = val[me] + 1
        /\ pc' = [pc EXCEPT ![me] = "Again"]
        /\ UNCHANGED <<build, num, val, count, forked>>
    BY Parts, Zenon DEF WriteShared, At, InUser, me, Goto
  <1>2. \/ build = "LOCKS" /\ Release(lk)
        \/ build = "SEMAPHORES" /\ DoV(sp)
    BY Parts, Zenon DEF WriteShared, V, BarrierTypeOK
  <1>3. ThreadsInv'
    BY <1>2, Parts, ReleaseInv, DoVInv, Zenon
  <1>4. /\ frame' = frame /\ value'[br] = value[br]
        /\ build = "SEMAPHORES" => value'[sp] = value[sp] + 1
    BY <1>2, Parts, Zenon DEF Release, DoV
  <1>5. InCritical(me) /\ \A t \in Thread : t # me => ~InCritical(t)
    BY <1>1, AloneInside, Zenon DEF InCritical
  <1>6. build = "SEMAPHORES" => value[sp] = 0
    BY <1>1, <1>5, AloneInside, Zenon
  <1>7. pc'[me] = "Again" /\ \A t \in Thread : t # me => pc'[t] = pc[t]
    BY <1>1, Parts, Zenon DEF BarrierTypeOK
  <1>8. SharedVariable' = SharedVariable + 1
    BY <1>1, InvSplit, Zenon DEF ReadIsCurrent
  <1>9. NoUpdateLost'
    <2>1. Arrived' = Arrived
      BY <1>1, <1>7, Zenon DEF Arrived, Arrival
    <2>2. \A u \in Thread : u # me => Increments(u)' = Increments(u)
      BY <1>1, <1>7, Zenon DEF Increments
    <2>3. Cardinality(Updates)' = Cardinality(Updates) + 1
      <3>1. PICK t \in Thread : t = me
        BY <1>1, Zenon
      <3>2. Increments(t)' = Increments(t) + 1 /\ Increments(t) < Iterations
        BY <1>1, <1>7, <3>1, InvSplit, Zenon DEF Increments, WhereOK
      <3>3. \A u \in Thread : u # t => Increments(u)' = Increments(u)
        BY <2>2, <3>1, Zenon
      <3> QED BY <3>2, <3>3, UpdateMade, Zenon
    <2> QED BY <1>1, <1>8, <2>1, <2>3, InvSplit, Zenon DEF NoUpdateLost
  <1>10. BarrierTypeOK'
    BY <1>1, <1>9, BoundsNext, Parts, Zenon DEF BarrierTypeOK, Label, NoUpdateLost, testnum
  <1>11. FinalValue' /\ BarrierHolds' /\ TurnstileClosed'
    BY <1>1, <1>4, <1>7, InvSplit, Zenon DEF FinalValue, BarrierHolds, TurnstileClosed, testnum
  <1>12. \A t \in Thread : WhereOK(t)'
    BY <1>1, <1>4, <1>7, InvSplit, Parts, Zenon DEF WhereOK, Arrival
  <1>13. LockKept' /\ UnitKept'
    BY <1>1, <1>4, <1>5, <1>6, <1>7 DEF LockKept, UnitKept, InCritical
  <1>14. ReadIsCurrent'
    BY <1>1, <1>4, <1>5, <1>7, InvSplit, Parts DEF ReadIsCurrent, InCritical, WhereOK
  <1> QED BY <1>3, <1>9, <1>10, <1>11, <1>12, <1>13, <1>14, InvSplitNext

\* The second Yield and num++: the update just made is now counted by num.
LEMMA LoopAgainInv ==
    ASSUME SimpleInv, LoopAgain
    PROVE  SimpleInv'
  <1>1. /\ me \in Thread /\ pc[me] = "Again" /\ frame[me] = "user"
        /\ num' = [num EXCEPT ![me] = num[me] + 1]
        /\ pc' = [pc EXCEPT ![me] = IF num[me] + 1 < Iterations THEN "Enter" ELSE "Arrive"]
        /\ UNCHANGED <<build, val, SharedVariable, count, forked, frame, value, inside>>
    BY Parts, Zenon DEF LoopAgain, At, InUser, me, Goto, Yield, schedVars, syncVars
  <1>2. ThreadsInv'
    BY Parts, YieldInv, Zenon DEF LoopAgain
  <1>3. PICK n \in Nat : n = num[me] /\ n < Iterations
    BY <1>1, InvSplit, Parts DEF WhereOK, BarrierTypeOK
  <1>4. /\ num'[me] = n + 1
        /\ pc'[me] \in {"Enter", "Arrive"}
        /\ pc'[me] = "Enter" => n + 1 < Iterations
        /\ pc'[me] = "Arrive" => n + 1 = Iterations
        /\ \A t \in Thread : t # me => pc'[t] = pc[t] /\ num'[t] = num[t]
    BY <1>1, <1>3, Parts, BarrierAssumption DEF BarrierTypeOK
  <1>5. BarrierTypeOK'
    <2>1. n + 1 \in 0..Iterations
      BY <1>3, BarrierAssumption
    <2> QED BY <1>1, <1>3, <2>1, Parts, Zenon DEF BarrierTypeOK, Label
  <1>6. FinalValue' /\ BarrierHolds' /\ TurnstileClosed'
    BY <1>1, <1>4, InvSplit, Zenon DEF FinalValue, BarrierHolds, TurnstileClosed
  <1>7. \A t \in Thread : WhereOK(t)'
    BY <1>1, <1>4, InvSplit, Parts DEF WhereOK, Arrival
  <1>8. LockKept' /\ UnitKept' /\ ReadIsCurrent'
    BY <1>1, <1>4, InvSplit, Zenon DEF LockKept, UnitKept, ReadIsCurrent, InCritical
  <1>9. NoUpdateLost'
    <2>1. ASSUME NEW t \in Thread
          PROVE  /\ Increments(t)' = Increments(t)
                 /\ pc'[t] \in Arrival <=> pc[t] \in Arrival
      BY <1>1, <1>3, <1>4 DEF Increments, Arrival
    <2> QED BY <1>1, <2>1, CountsKept, Zenon
  <1> QED BY <1>2, <1>5, <1>6, <1>7, <1>8, <1>9, InvSplitNext

-----------------------------------------------------------------------------
(***************************************************************************)
(* The barrier.                                                            *)
(***************************************************************************)
\* A step of a thread behind its loop, in the build of semaphores or of locks, leaves the
\* thread inside the loop's body alone.
LEMMA LoopKept ==
    ASSUME SimpleInv, pc[me] \notin {"Read", "Write"}, pc'[me] \notin {"Read", "Write"},
           value'[sp] = value[sp],
           UNCHANGED <<build, inside, SharedVariable>>,
           \A t \in Thread : t # me => pc'[t] = pc[t] /\ frame'[t] = frame[t] /\ val'[t] = val[t]
    PROVE  LockKept' /\ UnitKept' /\ ReadIsCurrent'
  <1>1. \A t \in Thread : (InCritical(t))' <=> InCritical(t)
    BY Parts, Zenon DEF InCritical
  <1>2. LockKept' /\ UnitKept'
    BY <1>1, InvSplit, Zenon DEF LockKept, UnitKept
  <1>3. ReadIsCurrent'
    BY InvSplit, Parts, Zenon DEF ReadIsCurrent
  <1> QED BY <1>2, <1>3, Zenon

\* mx.P().
LEMMA ArriveInv ==
    ASSUME SimpleInv, At("Arrive"), P(mx), Goto("Count"),
           UNCHANGED <<build, num, val, SharedVariable, count, forked>>
    PROVE  SimpleInv'
  <1>1. me \in Thread /\ pc[me] = "Arrive" /\ frame[me] = "user" /\ InUser
    BY Parts, Zenon DEF At, InUser, me
  <1>2. ThreadsInv'
    BY <1>1, Parts, DoPInv, Zenon DEF InUser, P
  <1>3. PICK f \in {"user", mx} :
          Moves("Count", f) /\ inside' = inside /\ value'[sp] = value[sp] /\ value'[br] = value[br]
    BY PMoves, Parts DEF Moves, P, Goto
  <1>4. /\ pc'[me] = "Count" /\ frame'[me] = f
        /\ \A t \in Thread : t # me => pc'[t] = pc[t] /\ frame'[t] = frame[t]
        /\ pc' \in [Thread -> Label]
    BY <1>3, Parts, OnlyMeMoves, Zenon DEF Label
  <1>5. BarrierTypeOK' /\ FinalValue' /\ BarrierHolds' /\ TurnstileClosed'
    BY <1>1, <1>3, <1>4, InvSplit, Parts, Zenon
       DEF BarrierTypeOK, FinalValue, BarrierHolds, TurnstileClosed
  <1>6. \A t \in Thread : WhereOK(t)'
    BY <1>1, <1>3, <1>4, InvSplit, Parts DEF WhereOK, Arrival
  <1>7. LockKept' /\ UnitKept' /\ ReadIsCurrent'
    BY <1>1, <1>3, <1>4, LoopKept, Zenon
  <1>8. NoUpdateLost'
    BY <1>1, <1>4, CountsKept, Zenon DEF Increments, Arrival
  <1> QED BY <1>2, <1>5, <1>6, <1>7, <1>8, InvSplitNext, Zenon

\* count = count + 1 and mx.V(): one more thread has arrived, so not everybody had.
LEMMA CountInv ==
    ASSUME SimpleInv, At("Count"), count' = count + 1, V(mx), Goto("Test"),
           UNCHANGED <<build, num, val, SharedVariable, forked>>
    PROVE  SimpleInv'
  <1>1. me \in Thread /\ pc[me] = "Count" /\ frame[me] = "user"
    BY Parts, Zenon DEF At, InUser, me
  <1>2. ThreadsInv'
    BY Parts, DoVInv, Zenon DEF V
  <1>3. /\ frame' = frame /\ inside' = inside
        /\ value'[sp] = value[sp] /\ value'[br] = value[br]
    BY Parts, Zenon DEF V, DoV
  <1>4. /\ pc'[me] = "Test" /\ pc' \in [Thread -> Label]
        /\ \A t \in Thread : t # me => pc'[t] = pc[t]
    BY <1>1, Parts, Zenon DEF Goto, BarrierTypeOK, Label
  <1>5. NoUpdateLost'
    <2>1. me \notin Arrived /\ Arrived' = Arrived \cup {me}
      BY <1>1, <1>4, Zenon DEF Arrived, Arrival
    <2>2. Cardinality(Arrived \cup {me}) = Cardinality(Arrived) + 1
      BY <2>1, Bounds, FS_AddElement, Zenon
    <2>3. \A u \in Thread \X (1..Iterations) : Increments(u[1])' = Increments(u[1])
      BY <1>1, <1>4, Zenon DEF Increments
    <2>4. Updates' = Updates
      BY <2>3, Zenon DEF Updates
    <2> QED BY <2>1, <2>2, <2>4, InvSplit, Zenon DEF NoUpdateLost
  <1>6. count # testnum
    <2>1. me \notin Arrived
      BY <1>1, Zenon DEF Arrived, Arrival
    <2> QED BY <1>1, <2>1, Bounds, InvSplit, Zenon DEF NoUpdateLost
  <1>7. /\ value[br] = 0
        /\ \A t \in Thread : /\ pc[t] \notin {"Turn", "Final"}
                             /\ frame[t] = "user" => pc[t] # "Passed"
    BY <1>6, InvSplit, Zenon DEF TurnstileClosed, BarrierHolds
  <1>8. BarrierTypeOK'
    BY <1>4, <1>5, BoundsNext, Parts, Zenon DEF BarrierTypeOK, NoUpdateLost, testnum
  <1>9. BarrierHolds' /\ TurnstileClosed' /\ FinalValue'
    <2>0. ASSUME NEW t \in Thread
          PROVE  /\ pc'[t] \notin {"Turn", "Final"}
                 /\ frame'[t] = "user" => pc'[t] # "Passed"
      <3>1. CASE t = me
        BY <3>1, <1>4, Zenon
      <3>2. CASE t # me
        BY <3>2, <1>3, <1>4, <1>7, Zenon
      <3> QED BY <3>1, <3>2, Zenon
    <2>1. BarrierHolds'
      BY <2>0, Zenon DEF BarrierHolds
    <2>2. TurnstileClosed'
      BY <1>3, <1>7, <2>0, Zenon DEF TurnstileClosed
    <2>3. FinalValue'
      BY <1>3, InvSplit, Zenon DEF FinalValue, testnum
    <2> QED BY <2>1, <2>2, <2>3, Zenon
  <1>10. \A t \in Thread : WhereOK(t)'
    BY <1>1, <1>3, <1>4, InvSplit, Parts DEF WhereOK, Arrival
  <1>11. LockKept' /\ UnitKept' /\ ReadIsCurrent'
    BY <1>1, <1>3, <1>4, LoopKept, Zenon
  <1> QED BY <1>2, <1>5, <1>8, <1>9, <1>10, <1>11, InvSplitNext, Zenon

\* br.V() by a thread that has seen everybody arrive.
LEMMA OpenTurnstileInv ==
    ASSUME SimpleInv, InUser, NEW l \in {"Turn", "Final"},
           pc[me] \in {"Test", "Passed"}, count = testnum, V(br), Goto(l),
           UNCHANGED <<build, num, val, SharedVariable, count, forked>>
    PROVE  SimpleInv'
  <1>1. me \in Thread /\ pc[me] \in Arrival /\ frame[me] = "user" /\ l \in Arrival
    BY Parts, Zenon DEF InUser, me, Arrival
  <1>2. ThreadsInv'
    BY Parts, DoVInv, Zenon DEF V
  <1>3. frame' = frame /\ inside' = inside /\ value'[sp] = value[sp]
    BY Parts, Zenon DEF V, DoV
  <1>4. /\ pc'[me] = l /\ pc' \in [Thread -> Label]
        /\ \A t \in Thread : t # me => pc'[t] = pc[t]
    BY <1>1, Parts, Zenon DEF Goto, BarrierTypeOK, Label
  <1>5. BarrierTypeOK' /\ FinalValue' /\ BarrierHolds' /\ TurnstileClosed'
    BY <1>3, <1>4, InvSplit, Parts, Zenon
       DEF BarrierTypeOK, FinalValue, BarrierHolds, TurnstileClosed, testnum
  <1>6. \A t \in Thread : WhereOK(t)'
    BY <1>1, <1>3, <1>4, InvSplit, Parts DEF WhereOK, Arrival
  <1>7. LockKept' /\ UnitKept' /\ ReadIsCurrent'
    BY <1>1, <1>3, <1>4, LoopKept, Zenon
  <1>8. NoUpdateLost'
    BY <1>1, <1>4, CountsKept, Zenon DEF Increments, Arrival
  <1> QED BY <1>2, <1>5, <1>6, <1>7, <1>8, InvSplitNext, Zenon

\* br.P(): there is a unit to take only when everybody has arrived.
LEMMA EnterTurnstileInv ==
    ASSUME SimpleInv, InUser, pc[me] \in {"Test", "Turn"}, P(br), Goto("Passed"),
           UNCHANGED <<build, num, val, SharedVariable, count, forked>>
    PROVE  SimpleInv'
  <1>1. me \in Thread /\ frame[me] = "user"
    BY Parts, Zenon DEF InUser, me
  <1>2. ThreadsInv'
    BY <1>1, Parts, DoPInv, Zenon DEF InUser, P
  <1>3. PICK f \in {"user", br} :
          /\ Moves("Passed", f) /\ inside' = inside /\ value'[sp] = value[sp]
          /\ value[br] = 0 => f = br /\ value'[br] = 0
    BY PMoves, Parts DEF Moves, P, Goto
  <1>4. /\ pc'[me] = "Passed" /\ frame'[me] = f
        /\ \A t \in Thread : t # me => pc'[t] = pc[t] /\ frame'[t] = frame[t]
        /\ pc' \in [Thread -> Label]
    BY <1>3, Parts, OnlyMeMoves, Zenon DEF Label
  <1>5. BarrierTypeOK' /\ FinalValue' /\ BarrierHolds' /\ TurnstileClosed'
    BY <1>1, <1>3, <1>4, InvSplit, Parts, Zenon
       DEF BarrierTypeOK, FinalValue, BarrierHolds, TurnstileClosed, testnum
  <1>6. \A t \in Thread : WhereOK(t)'
    BY <1>1, <1>3, <1>4, InvSplit, Parts DEF WhereOK, Arrival
  <1>7. LockKept' /\ UnitKept' /\ ReadIsCurrent'
    BY <1>1, <1>3, <1>4, LoopKept, Zenon
  <1>8. NoUpdateLost'
    BY <1>1, <1>4, CountsKept, Zenon DEF Increments, Arrival
  <1> QED BY <1>2, <1>5, <1>6, <1>7, <1>8, InvSplitNext, Zenon

\* if (count == testnum) br.V(); br.P(); br.V();
LEMMA TurnstileInv ==
    ASSUME SimpleInv, Turnstile
    PROVE  SimpleInv'
  <1>1. UNCHANGED <<build, num, val, SharedVariable, count, forked>>
    BY Zenon DEF Turnstile
  <1>2. CASE At("Test") /\ count = testnum /\ V(br) /\ Goto("Turn")
    <2>1. InUser /\ pc[me] = "Test"
      BY <1>2, Zenon DEF At
    <2>2. count = testnum /\ V(br) /\ Goto("Turn")
      BY <1>2, Zenon
    <2> QED BY <1>1, <2>1, <2>2, OpenTurnstileInv, Zenon
  <1>3. CASE At("Test") /\ count # testnum /\ P(br) /\ Goto("Passed")
    BY <1>1, <1>3, EnterTurnstileInv, Zenon DEF At
  <1>4. CASE At("Turn") /\ P(br) /\ Goto("Passed")
    BY <1>1, <1>4, EnterTurnstileInv, Zenon DEF At
  <1>5. CASE At("Passed") /\ V(br) /\ Goto("Final")
    <2>1. count = testnum
      BY <1>5, InvSplit, Parts DEF At, InUser, me, BarrierHolds
    <2> QED BY <1>1, <1>5, <2>1, OpenTurnstileInv, Zenon DEF At
  <1> QED BY <1>2, <1>3, <1>4, <1>5, Zenon DEF Turnstile

\* The final value is read behind the barrier, when all the updates have been made.
LEMMA ReadFinalInv ==
    ASSUME SimpleInv, ReadFinal
    PROVE  SimpleInv'
  <1>1. /\ me \in Thread /\ pc[me] = "Final" /\ frame[me] = "user"
        /\ val' = [val EXCEPT ![me] = SharedVariable]
        /\ frame' = [frame EXCEPT ![me] = "finish"]
        /\ UNCHANGED <<build, pc, num, SharedVariable, count, forked, value, inside>>
    BY Parts, Zenon DEF ReadFinal, At, InUser, me, Finish, syncVars
  <1>2. ThreadsInv'
    BY Parts, FinishInv, Zenon DEF ReadFinal
  <1>3. /\ val'[me] = SharedVariable /\ frame'[me] = "finish"
        /\ \A t \in Thread : t # me => val'[t] = val[t] /\ frame'[t] = frame[t]
    BY <1>1, Parts, Zenon DEF BarrierTypeOK
  <1>4. count = testnum
    BY <1>1, InvSplit, Zenon DEF TurnstileClosed
  <1>5. SharedVariable = testnum * Iterations
    BY <1>4, AllUpdated, Zenon DEF SimpleInv
  <1>6. BarrierTypeOK'
    BY <1>1, Parts, Zenon DEF BarrierTypeOK
  <1>7. FinalValue' /\ BarrierHolds' /\ TurnstileClosed'
    BY <1>1, <1>3, <1>4, <1>5, InvSplit, Zenon
       DEF FinalValue, BarrierHolds, TurnstileClosed, testnum
  <1>8. \A t \in Thread : WhereOK(t)'
    BY <1>1, <1>3, InvSplit, Parts DEF WhereOK, Arrival
  <1>9. LockKept' /\ UnitKept' /\ ReadIsCurrent'
    BY <1>1, <1>3, LoopKept, Zenon
  <1>10. NoUpdateLost'
    BY <1>1, CountsKept, Zenon DEF Increments
  <1> QED BY <1>2, <1>6, <1>7, <1>8, <1>9, <1>10, InvSplitNext, Zenon

-----------------------------------------------------------------------------
(***************************************************************************)
(* A thread that continues inside the kernel.                              *)
(***************************************************************************)
\* A thread that continues, or sleeps again, in the call it had made.
LEMMA ContinueInv ==
    ASSUME SimpleInv, ThreadsInv', UNCHANGED simpleVars,
           NEW f \in {"start", "user", "finish"} \cup Semaphore \cup Lock,
           frame' = [frame EXCEPT ![me] = f], f \in {"user", frame[me]},
           frame[me] # "finish",
           f = "user" /\ pc[me] = "Passed" => count = testnum,
           count # testnum => value'[br] = 0,
           LockKept', UnitKept'
    PROVE  SimpleInv'
  <1>0. UNCHANGED <<build, pc, num, val, SharedVariable, count, forked>>
    BY Zenon DEF simpleVars
  <1>1. me \in Thread /\ frame'[me] = f /\ \A t \in Thread : t # me => frame'[t] = frame[t]
    BY Parts, Zenon
  <1>2. BarrierTypeOK' /\ ReadIsCurrent'
    BY <1>0, InvSplit, Zenon DEF BarrierTypeOK, ReadIsCurrent
  <1>3. FinalValue'
    BY <1>0, <1>1, InvSplit, Zenon DEF FinalValue
  <1>4. BarrierHolds' /\ TurnstileClosed'
    BY <1>0, <1>1, InvSplit, Zenon DEF BarrierHolds, TurnstileClosed, testnum
  <1>5. \A t \in Thread : WhereOK(t)'
    BY <1>0, <1>1, InvSplit, Parts DEF WhereOK
  <1>6. NoUpdateLost'
    BY <1>0, CountsKept, Zenon DEF Increments
  <1> QED BY <1>2, <1>3, <1>4, <1>5, <1>6, InvSplitNext, Zenon

\* P continues after a sleep: a unit of sp is taken only when nobody is in the loop's body,
\* one of br only when everybody has arrived.
LEMMA ResumePInv ==
    ASSUME SimpleInv, UNCHANGED simpleVars, NEW s \in Semaphore, ResumeP(s)
    PROVE  SimpleInv'
  <1>1. me \in Thread /\ frame[me] = s /\ cpu = "running" /\ DoP(s)
    BY Parts, Zenon DEF ResumeP, me
  <1>2. ThreadsInv'
    BY <1>1, Parts, DoPInv, Zenon DEF me
  <1>3. \/ build = "SEMAPHORES" /\ s = sp /\ pc[me] = "Read"
        \/ s = mx /\ pc[me] = "Count"
        \/ s = br /\ pc[me] = "Passed"
    BY <1>1, InvSplit, Zenon DEF WhereOK
  <1>4. UNCHANGED <<build, pc, count>>
    BY Zenon DEF simpleVars
  <1>5. PICK f \in {"user", s} :
          /\ frame' = [frame EXCEPT ![me] = f] /\ inside' = inside
          /\ f = "user" => value[s] # 0 /\ value'[s] = value[s] - 1
          /\ f = s => value'[s] = value[s]
          /\ \A r \in Semaphore : r # s => value'[r] = value[r]
    BY <1>1, PMoves, Parts
  <1>6. frame'[me] = f /\ \A t \in Thread : t # me => frame'[t] = frame[t]
    BY <1>1, <1>5, Parts, Zenon
  <1>7. LockKept'
    BY <1>3, <1>4, <1>5, <1>6, InvSplit, Zenon DEF LockKept, InCritical
  <1>8. UnitKept'
    <2>1. CASE s = sp
      BY <1>3, <1>4, <1>5, <1>6, <2>1, InvSplit, Parts DEF UnitKept, InCritical
    <2>2. CASE s # sp
      <3>1. \A t \in Thread : (InCritical(t))' <=> InCritical(t)
        BY <1>3, <1>4, <1>6, <2>2, Zenon DEF InCritical
      <3>2. value'[sp] = value[sp]
        BY <1>5, <2>2, Parts, Zenon
      <3> QED BY <1>4, <3>1, <3>2, InvSplit, Zenon DEF UnitKept
    <2> QED BY <2>1, <2>2, Zenon
  <1>9. /\ count # testnum => value'[br] = 0
        /\ f = "user" /\ pc[me] = "Passed" => count = testnum
    <2>1. count # testnum => value[br] = 0
      BY InvSplit, Zenon DEF TurnstileClosed
    <2> QED BY <1>3, <1>5, <2>1, Parts, Zenon
  <1>10. /\ f \in {"user", frame[me]} /\ frame[me] # "finish"
         /\ f \in {"start", "user", "finish"} \cup Semaphore \cup Lock
    BY <1>1, Parts, Zenon
  <1> QED BY <1>2, <1>5, <1>7, <1>8, <1>9, <1>10, ContinueInv, Zenon

\* Acquire continues after a sleep: lk is taken only when it is free.
LEMMA ResumeAcquireInv ==
    ASSUME SimpleInv, UNCHANGED simpleVars, NEW l \in Lock, ResumeAcquire(l)
    PROVE  SimpleInv'
  <1>1. me \in Thread /\ frame[me] = l /\ cpu = "running" /\ DoAcquire(l)
    BY Parts, Zenon DEF ResumeAcquire, me
  <1>2. ThreadsInv'
    BY <1>1, Parts, DoAcquireInv, Zenon DEF me
  <1>3. build = "LOCKS" /\ l = lk /\ pc[me] = "Read"
    BY <1>1, InvSplit, Zenon DEF WhereOK
  <1>4. UNCHANGED <<build, pc, count>>
    BY Zenon DEF simpleVars
  <1>5. PICK f \in {"user", lk} :
          /\ frame' = [frame EXCEPT ![me] = f] /\ value' = value
          /\ f = "user" => inside[lk] = {} /\ me \in inside'[lk]
          /\ f = lk => inside' = inside
    BY <1>1, <1>3, AcquireMoves, Parts
  <1>6. frame'[me] = f /\ \A t \in Thread : t # me => frame'[t] = frame[t]
    BY <1>1, <1>5, Parts, Zenon
  <1>7. LockKept'
    BY <1>3, <1>4, <1>5, <1>6, InvSplit, Parts, Zenon DEF LockKept, InCritical
  <1>8. UnitKept'
    BY <1>3, <1>4, Zenon DEF UnitKept
  <1>9. count # testnum => value'[br] = 0
    BY <1>5, InvSplit, Zenon DEF TurnstileClosed
  <1>10. /\ f \in {"user", frame[me]} /\ frame[me] # "finish" /\ pc[me] # "Passed"
         /\ f \in {"start", "user", "finish"} \cup Semaphore \cup Lock
    BY <1>1, <1>3, Parts, Zenon
  <1> QED BY <1>2, <1>5, <1>7, <1>8, <1>9, <1>10, ContinueInv, Zenon

\* ThreadRoot: a forked thread enters SimpleThread.
LEMMA RootInv ==
    ASSUME SimpleInv, UNCHANGED simpleVars, ThreadRoot
    PROVE  SimpleInv'
  <1>1. /\ me \in Thread /\ frame[me] = "start"
        /\ frame' = [frame EXCEPT ![me] = "user"] /\ value' = value /\ inside' = inside
    BY Parts, Zenon DEF ThreadRoot, me, syncVars
  <1>2. ThreadsInv'
    BY Parts, ThreadRootInv, Zenon
  <1>3. pc[me] = "Enter"
    BY <1>1, InvSplit, Zenon DEF WhereOK
  <1>4. UNCHANGED <<build, pc>>
    BY Zenon DEF simpleVars
  <1>5. \A t \in Thread : (InCritical(t))' <=> InCritical(t)
    BY <1>1, <1>3, <1>4, Parts, Zenon DEF InCritical
  <1>6. LockKept' /\ UnitKept'
    BY <1>1, <1>4, <1>5, InvSplit, Zenon DEF LockKept, UnitKept
  <1>7. count # testnum => value'[br] = 0
    BY <1>1, InvSplit, Zenon DEF TurnstileClosed
  <1>8. "user" \in {"start", "user", "finish"} \cup Semaphore \cup Lock
    BY Zenon
  <1> QED BY <1>1, <1>2, <1>3, <1>6, <1>7, <1>8, ContinueInv, Zenon

-----------------------------------------------------------------------------
(***************************************************************************)
(* The invariant of every execution.                                       *)
(***************************************************************************)
\* Initially nothing has been updated and nobody has arrived.
LEMMA SimpleInit == Init => SimpleInv
  <1> SUFFICES ASSUME Init PROVE SimpleInv
    BY Zenon
  <1>1. ThreadsInv
    <2>1. [s \in Semaphore |-> IF s = br THEN 0 ELSE 1] \in [Semaphore -> Nat]
      BY Zenon
    <2> QED BY <2>1, ThreadsInitInv, Zenon DEF Init
  <1>2. /\ value[br] = 0 /\ value[sp] = 1
        /\ \A t \in Thread : pc[t] \in {"ThreadTest", "Enter"} /\ num[t] = 0 /\ val[t] = 0
        /\ \A t \in Thread : frame[t] \in {"start", "user"}
        /\ frame[MainThread] = "user"
        /\ \A t \in Thread : t # MainThread => pc[t] = "Enter"
    BY BarrierAssumption, ThreadsAssumption, Zenon DEF Init, ThreadsInit
  <1>3. /\ 0 \in 0..Iterations /\ 0 \in 0..testnum /\ 0 \in 0..(testnum * Iterations)
        /\ 0 \in 0..Len(Forked)
    BY Bounds, ThreadCount, BarrierAssumption
  <1>4. BarrierTypeOK
    BY <1>3, BarrierAssumption, Zenon DEF Init, BarrierTypeOK, Label
  <1>5. FinalValue /\ BarrierHolds /\ TurnstileClosed
    BY <1>2, Zenon DEF FinalValue, BarrierHolds, TurnstileClosed
  <1>6. \A t \in Thread : WhereOK(t)
    BY <1>2, BarrierAssumption, ThreadsAssumption DEF WhereOK, Arrival, Init, ThreadsInit
  <1>7. LockKept /\ UnitKept /\ ReadIsCurrent
    BY <1>2 DEF LockKept, UnitKept, ReadIsCurrent, InCritical
  <1>8. NoUpdateLost
    <2>1. Arrived = {}
      BY <1>2, Zenon DEF Arrived, Arrival
    <2>2. Updates = {}
      <3>1. \A u \in Thread \X (1..Iterations) : ~(u[2] <= Increments(u[1]))
        BY <1>2 DEF Increments
      <3> QED BY <3>1, Zenon DEF Updates
    <2> QED BY <2>1, <2>2, FS_EmptySet, Zenon DEF NoUpdateLost, Init
  <1> QED BY <1>1, <1>4, <1>5, <1>6, <1>7, <1>8, InvSplit

\* Every step of SimpleThread, of the kernel or of the timer keeps the invariant.
LEMMA SimpleStep == SimpleInv /\ [Next]_vars => SimpleInv'
  <1> SUFFICES ASSUME SimpleInv, [Next]_vars PROVE SimpleInv'
    BY Zenon
  <1>1. CASE Step
    <2>1. CASE Arrive
      BY <2>1, ArriveInv, CountInv, Zenon DEF Arrive
    <2> QED BY <1>1, <2>1, ThreadTestInv, EnterCriticalInv, ReadSharedInv, WriteSharedInv,
               LoopAgainInv, TurnstileInv, ReadFinalInv, Zenon DEF Step
  <1>2. CASE Kernel
    <2>1. CASE Resume
      BY <1>2, <2>1, RootInv, ResumePInv, ResumeAcquireInv, Zenon DEF Kernel, Resume
    <2>2. CASE WakeFromIdle
      BY <1>2, <2>2, UnmovedInv, WakeFromIdleInv, Parts, Zenon DEF Kernel, WakeFromIdle, syncVars
    <2>3. CASE Halt
      BY <1>2, <2>3, UnmovedInv, HaltInv, Parts DEF Kernel, Halt, syncVars
    <2> QED BY <1>2, <2>1, <2>2, <2>3, Zenon DEF Kernel
  <1>3. CASE TimeSlice
    BY <1>3, UnmovedInv, YieldInv, Parts, Zenon DEF TimeSlice, Yield, schedVars, syncVars
  <1>4. CASE UNCHANGED vars
    BY <1>4, UnmovedInv, StutterInv, Parts, Zenon DEF vars, threadVars, schedVars, syncVars
  <1> QED BY <1>1, <1>2, <1>3, <1>4, Zenon DEF Next

\* The invariant of SimpleThread (threadtest.cc) holds in every execution, for every number of
\* threads and iterations: SharedVariable is the number of updates made, at most one thread is
\* inside the loop's body, nobody passes the barrier before everybody has arrived, and every
\* thread that has finished read the full count.
THEOREM BarrierCorrect == Spec => []BarrierInv
  <1>1. SimpleInv => BarrierInv
    BY Zenon DEF SimpleInv
  <1> QED BY <1>1, SimpleInit, SimpleStep, PTL DEF Spec

=============================================================================
