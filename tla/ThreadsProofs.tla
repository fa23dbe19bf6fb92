---------------------------- MODULE ThreadsProofs ----------------------------
(***************************************************************************)
(* Every operation of the thread kernel preserves ThreadsInv, for every    *)
(* number of threads, semaphores, locks and conditions.  A caller's        *)
(* specification inherits the invariant by citing these lemmas.            *)
(***************************************************************************)
EXTENDS Threads, TLAPS

(***************************************************************************)
(* What the List operations of threads/list.cc do to the elements of a     *)
(* list without duplicates.                                                *)
(***************************************************************************)
\* What is on a list of threads is a thread.
LEMMA ListElements ==
    ASSUME NEW S, NEW s \in Seq(S)
    PROVE  Range(s) \subseteq S
  BY DEF Range

\* Lists that agree element by element are the same list.
LEMMA SameList ==
    ASSUME NEW S, NEW s \in Seq(S), NEW t \in Seq(S), Len(s) = Len(t),
           \A i \in 1..Len(s) : s[i] = t[i]
    PROVE  s = t
  OBVIOUS

\* List::Append adds its argument to the elements, and keeps a list without
\* duplicates so when the argument was not on it.
LEMMA AppendList ==
    ASSUME NEW S, NEW s \in Seq(S), NEW e \in S
    PROVE  /\ Append(s, e) \in Seq(S)
           /\ Append(s, e) # <<>>
           /\ Range(Append(s, e)) = Range(s) \cup {e}
           /\ IsInjective(s) /\ e \notin Range(s) => IsInjective(Append(s, e))
  <1>1. /\ Append(s, e) \in Seq(S)
        /\ Append(s, e) # <<>>
        /\ Len(Append(s, e)) = Len(s) + 1
        /\ DOMAIN Append(s, e) = 1..(Len(s) + 1)
        /\ \A i \in 1..Len(s) : Append(s, e)[i] = s[i]
        /\ Append(s, e)[Len(s) + 1] = e
    OBVIOUS
  <1>2. Len(s) \in Nat /\ DOMAIN s = 1..Len(s)
    OBVIOUS
  <1>3. Range(Append(s, e)) = Range(s) \cup {e}
    BY <1>1, <1>2 DEF Range
  <1>4. ASSUME IsInjective(s), e \notin Range(s)
        PROVE  IsInjective(Append(s, e))
    BY <1>1, <1>2, <1>4 DEF IsInjective, Range
  <1> QED BY <1>1, <1>3, <1>4, Zenon

\* List::Remove takes the first element off a list without duplicates and leaves the
\* others.
LEMMA RemoveList ==
    ASSUME NEW S, NEW s \in Seq(S), s # <<>>
    PROVE  /\ Head(s) \in S
           /\ Tail(s) \in Seq(S)
           /\ Head(s) \in Range(s)
           /\ Range(s) = Range(Tail(s)) \cup {Head(s)}
           /\ IsInjective(s) => /\ IsInjective(Tail(s))
                                /\ Head(s) \notin Range(Tail(s))
  <1>1. /\ Head(s) \in S /\ Tail(s) \in Seq(S)
        /\ Len(Tail(s)) = Len(s) - 1
        /\ \A i \in 1..Len(Tail(s)) : Tail(s)[i] = s[i + 1]
    OBVIOUS
  <1>2. Len(s) \in Nat \ {0} /\ DOMAIN s = 1..Len(s) /\ DOMAIN Tail(s) = 1..(Len(s) - 1)
    BY <1>1
  <1>3. Head(s) = s[1]
    OBVIOUS
  <1>4. Range(s) = Range(Tail(s)) \cup {Head(s)}
    <2>1. ASSUME NEW i \in 1..Len(s)
          PROVE  s[i] \in Range(Tail(s)) \cup {Head(s)}
      <3>1. CASE i = 1
        BY <3>1, <1>3, Zenon
      <3>2. CASE i # 1
        <4>1. i - 1 \in 1..(Len(s) - 1) /\ (i - 1) + 1 = i
          BY <3>2, <1>2
        <4> QED BY <4>1, <1>1, <1>2, Zenon DEF Range
      <3> QED BY <3>1, <3>2, Zenon
    <2>2. ASSUME NEW i \in 1..(Len(s) - 1)
          PROVE  Tail(s)[i] \in Range(s)
      BY <1>1, <1>2 DEF Range
    <2>3. Head(s) \in Range(s)
      BY <1>2, <1>3 DEF Range
    <2> QED BY <2>1, <2>2, <2>3, <1>2, Zenon DEF Range
  <1>5. ASSUME IsInjective(s)
        PROVE  IsInjective(Tail(s)) /\ Head(s) \notin Range(Tail(s))
    BY <1>1, <1>2, <1>3, <1>5 DEF IsInjective, Range
  <1> QED BY <1>1, <1>4, <1>5, Zenon

\* Appending the elements of one list to another, one by one.
LEMMA ConcatList ==
    ASSUME NEW S, NEW s \in Seq(S), NEW t \in Seq(S)
    PROVE  /\ s \o t \in Seq(S)
           /\ Range(s \o t) = Range(s) \cup Range(t)
           /\ IsInjective(s) /\ IsInjective(t) /\ Range(s) \cap Range(t) = {}
                 => IsInjective(s \o t)
  <1>1. /\ s \o t \in Seq(S)
        /\ Len(s \o t) = Len(s) + Len(t)
        /\ \A i \in 1..(Len(s) + Len(t)) :
              (s \o t)[i] = IF i <= Len(s) THEN s[i] ELSE t[i - Len(s)]
    OBVIOUS
  <1>2. /\ Len(s) \in Nat /\ DOMAIN s = 1..Len(s)
        /\ Len(t) \in Nat /\ DOMAIN t = 1..Len(t)
        /\ DOMAIN (s \o t) = 1..(Len(s) + Len(t))
    BY <1>1
  <1>3. Range(s \o t) = Range(s) \cup Range(t)
    <2>1. \A i \in 1..Len(t) : (s \o t)[Len(s) + i] = t[i] /\ Len(s) + i \in DOMAIN (s \o t)
      BY <1>1, <1>2
    <2>2. \A i \in 1..Len(s) : (s \o t)[i] = s[i] /\ i \in DOMAIN (s \o t)
      BY <1>1, <1>2
    <2>3. \A i \in DOMAIN (s \o t) : (s \o t)[i] \in Range(s) \cup Range(t)
      BY <1>1, <1>2 DEF Range
    <2>4. Range(t) \subseteq Range(s \o t)
      BY <1>2, <2>1, Zenon DEF Range
    <2>5. Range(s) \subseteq Range(s \o t)
      BY <1>2, <2>2, Zenon DEF Range
    <2>6. Range(s \o t) \subseteq Range(s) \cup Range(t)
      BY <2>3, Zenon DEF Range
    <2> QED BY <2>4, <2>5, <2>6, Zenon
  <1>4. ASSUME IsInjective(s), IsInjective(t), Range(s) \cap Range(t) = {},
               NEW i \in 1..(Len(s) + Len(t)), NEW j \in 1..(Len(s) + Len(t)),
               (s \o t)[i] = (s \o t)[j]
        PROVE  i = j
    <2>1. CASE i <= Len(s) /\ j <= Len(s)
      BY <2>1, <1>1, <1>2, <1>4 DEF IsInjective
    <2>2. CASE i > Len(s) /\ j > Len(s)
      <3>1. /\ i - Len(s) \in DOMAIN t /\ j - Len(s) \in DOMAIN t
            /\ t[i - Len(s)] = t[j - Len(s)]
        BY <2>2, <1>1, <1>2, <1>4
      <3>2. i - Len(s) = j - Len(s)
        BY <3>1, <1>4, Zenon DEF IsInjective
      <3> QED BY <3>2, <1>2
    <2>3. CASE i <= Len(s) /\ j > Len(s)
      <3>1. i \in DOMAIN s /\ (j - Len(s)) \in DOMAIN t
        BY <2>3, <1>2
      <3>2. s[i] \in Range(s) /\ t[j - Len(s)] \in Range(t)
        BY <3>1, Zenon DEF Range
      <3>3. s[i] = t[j - Len(s)]
        BY <2>3, <1>1, <1>2, <1>4
      <3> QED BY <3>2, <3>3, <1>4, Zenon
    <2>4. CASE i > Len(s) /\ j <= Len(s)
      <3>1. j \in DOMAIN s /\ (i - Len(s)) \in DOMAIN t
        BY <2>4, <1>2
      <3>2. s[j] \in Range(s) /\ t[i - Len(s)] \in Range(t)
        BY <3>1, Zenon DEF Range
      <3>3. s[j] = t[i - Len(s)]
        BY <2>4, <1>1, <1>2, <1>4
      <3> QED BY <3>2, <3>3, <1>4, Zenon
    <2> QED BY <2>1, <2>2, <2>3, <2>4, <1>2
  <1> QED BY <1>1, <1>2, <1>3, <1>4, Zenon DEF IsInjective

\* Appending to a list that is not empty leaves its first element first.
LEMMA AppendHeadTail ==
    ASSUME NEW S, NEW s \in Seq(S), NEW e \in S, s # <<>>
    PROVE  /\ Head(Append(s, e)) = Head(s)
           /\ Tail(Append(s, e)) = Append(Tail(s), e)
  <1>1. /\ Append(s, e) \in Seq(S) /\ Append(s, e) # <<>>
        /\ Len(Append(s, e)) = Len(s) + 1
        /\ \A i \in 1..Len(s) : Append(s, e)[i] = s[i]
        /\ Append(s, e)[Len(s) + 1] = e
    OBVIOUS
  <1>2. /\ Tail(s) \in Seq(S) /\ Len(s) \in Nat \ {0}
        /\ Len(Tail(s)) = Len(s) - 1
        /\ \A i \in 1..Len(Tail(s)) : Tail(s)[i] = s[i + 1]
        /\ Head(s) = s[1]
    OBVIOUS
  <1>3. /\ Tail(Append(s, e)) \in Seq(S)
        /\ Len(Tail(Append(s, e))) = Len(s)
        /\ \A i \in 1..Len(s) : Tail(Append(s, e))[i] = Append(s, e)[i + 1]
        /\ Head(Append(s, e)) = Append(s, e)[1]
    BY <1>1, <1>2
  <1>4. /\ Append(Tail(s), e) \in Seq(S)
        /\ Len(Append(Tail(s), e)) = Len(s)
        /\ \A i \in 1..(Len(s) - 1) : Append(Tail(s), e)[i] = Tail(s)[i]
        /\ Append(Tail(s), e)[Len(s)] = e
    BY <1>2
  <1>5. \A i \in 1..Len(s) : Tail(Append(s, e))[i] = Append(Tail(s), e)[i]
    <2> SUFFICES ASSUME NEW i \in 1..Len(s)
                 PROVE  Tail(Append(s, e))[i] = Append(Tail(s), e)[i]
      BY Zenon
    <2>1. Tail(Append(s, e))[i] = Append(s, e)[i + 1]
      BY <1>3, Zenon
    <2>2. CASE i = Len(s)
      BY <2>1, <2>2, <1>1, <1>4, Zenon
    <2>3. CASE i # Len(s)
      <3>1. i \in 1..(Len(s) - 1) /\ i + 1 \in 1..Len(s)
        <4>1. Len(s) \in Nat
          BY <1>2, Zenon
        <4> QED BY <2>3, <4>1
      <3>2. Append(s, e)[i + 1] = s[i + 1] /\ Append(Tail(s), e)[i] = Tail(s)[i]
        BY <3>1, <1>1, <1>4, Zenon
      <3>3. Tail(s)[i] = s[i + 1]
        <4>1. Len(Tail(s)) = Len(s) - 1
          BY <1>2, Zenon
        <4>2. \A j \in 1..(Len(s) - 1) : Tail(s)[j] = s[j + 1]
          BY <1>2, <4>1, Zenon
        <4> QED BY <3>1, <4>2, Zenon
      <3> QED BY <2>1, <3>2, <3>3, Zenon
    <2> QED BY <2>2, <2>3, Zenon
  <1>6. Tail(Append(s, e)) = Append(Tail(s), e)
    BY <1>3, <1>4, <1>5, SameList, Zenon
  <1> QED BY <1>1, <1>2, <1>3, <1>6

-----------------------------------------------------------------------------
(***************************************************************************)
(* The kernel's lists.                                                     *)
(***************************************************************************)

\* List::Remove on a wait list, whether it is empty or not.
LEMMA FirstRest ==
    ASSUME NEW s \in Seq(Thread), IsInjective(s)
    PROVE  /\ First(s) \in Seq(Thread)
           /\ Rest(s) \in Seq(Thread)
           /\ IsInjective(First(s))
           /\ IsInjective(Rest(s))
           /\ Range(s) = Range(First(s)) \cup Range(Rest(s))
           /\ Range(First(s)) \cap Range(Rest(s)) = {}
           /\ s # <<>> => Head(s) \in Range(First(s)) /\ Head(s) \in Thread
  <1>1. CASE s = <<>>
    <2>1. First(s) = s /\ Rest(s) = s
      BY <1>1, Zenon DEF First, Rest
    <2>2. Range(s) = {}
      BY <1>1 DEF Range
    <2> QED BY <1>1, <2>1, <2>2, Zenon
  <1>2. CASE s # <<>>
    <2>1. First(s) = <<Head(s)>> /\ Rest(s) = Tail(s)
      BY <1>2, Zenon DEF First, Rest
    <2>2. Head(s) \in Thread
      BY <1>2, RemoveList, Zenon
    <2>3. /\ <<Head(s)>> \in Seq(Thread)
          /\ DOMAIN <<Head(s)>> = {1}
          /\ <<Head(s)>>[1] = Head(s)
      BY <2>2
    <2>4. Range(<<Head(s)>>) = {Head(s)} /\ IsInjective(<<Head(s)>>)
      BY <2>3, Zenon DEF Range, IsInjective
    <2> QED BY <1>2, <2>1, <2>2, <2>3, <2>4, RemoveList
  <1> QED BY <1>1, <1>2, Zenon

\* What a switch leaves behind, given the ready list r, the status map st and the carcass
\* c that its caller hands over.
Switched(r, st, c) ==
    /\ currentThread' \in Thread
    /\ readyList' \in Seq(Thread)
    /\ IsInjective(readyList')
    /\ Range(readyList') \subseteq Range(r)
    /\ cpu' \in {"running", "idle"}
    /\ status' \in [Thread -> Status]
    /\ threadToBeDestroyed' \in {c, NULL}
    /\ threadToBeDestroyed' # NULL => status'[c] = "BLOCKED"
    /\ \A t \in Thread :
         /\ status'[t] = "READY" <=> t \in Range(readyList')
         /\ status'[t] = "RUNNING" <=> t = currentThread' /\ cpu' = "running"
         /\ status'[t] = "BLOCKED" => st[t] = "BLOCKED"
         /\ st[t] = "BLOCKED" /\ t # c => status'[t] = "BLOCKED"
         /\ st[t] = "BLOCKED" => status'[t] \in {"BLOCKED", "DELETED"}
         /\ status'[t] = "DELETED" <=> st[t] = "DELETED" \/ (t = c /\ status'[t] = "DELETED")
         /\ status'[t] = "NONE" <=> st[t] = "NONE"
         /\ st[t] = "READY" <=> status'[t] \in {"READY", "RUNNING"}

\* Scheduler::Run of the first ready thread.
LEMMA RunSwitches ==
    ASSUME ThreadsTypeOK,
           NEW r \in Seq(Thread), IsInjective(r), r # <<>>,
           NEW st \in [Thread -> Status],
           NEW c \in Thread \cup {NULL},
           \A t \in Thread : st[t] = "READY" <=> t \in Range(r),
           \A t \in Thread : st[t] # "RUNNING",
           c # NULL => st[c] = "BLOCKED",
           Run(Head(r), Tail(r), st, c)
    PROVE  Switched(r, st, c)
  <1>1. /\ Head(r) \in Thread /\ Tail(r) \in Seq(Thread)
        /\ Head(r) \in Range(r)
        /\ Range(r) = Range(Tail(r)) \cup {Head(r)}
        /\ IsInjective(Tail(r)) /\ Head(r) \notin Range(Tail(r))
    BY RemoveList, Zenon
  <1>2. NULL \notin Thread
    BY ThreadsAssumption, Zenon
  <1>3. st[Head(r)] = "READY"
    BY <1>1, Zenon
  <1>4. /\ currentThread' = Head(r) /\ readyList' = Tail(r) /\ cpu' = "running"
        /\ threadToBeDestroyed' \in {c, NULL}
    BY Zenon DEF Run
  <1>5. CASE frame[Head(r)] # "start"
    <2>1. status' = [t \in Thread |-> IF t = Head(r) THEN "RUNNING"
                                      ELSE IF t = c THEN "DELETED" ELSE st[t]]
      BY <1>5, Zenon DEF Run
    <2>2. threadToBeDestroyed' = NULL
      BY <1>5, Zenon DEF Run
    <2> QED BY <1>1, <1>2, <1>3, <1>4, <2>1, <2>2, Zenon DEF Switched, Status
  <1>6. CASE frame[Head(r)] = "start"
    <2>1. status' = [t \in Thread |-> IF t = Head(r) THEN "RUNNING" ELSE st[t]]
      BY <1>6, Zenon DEF Run
    <2>2. threadToBeDestroyed' = c
      BY <1>6, Zenon DEF Run
    <2> QED BY <1>1, <1>2, <1>3, <1>4, <2>1, <2>2, Zenon DEF Switched, Status
  <1> QED BY <1>5, <1>6, Zenon

\* Thread::Sleep of the current thread.
LEMMA SleepSwitches ==
    ASSUME ThreadsTypeOK,
           NEW r \in Seq(Thread), IsInjective(r), currentThread \notin Range(r),
           NEW st \in [Thread -> Status],
           NEW c \in Thread \cup {NULL},
           \A t \in Thread : st[t] = "READY" <=> t \in Range(r),
           \A t \in Thread : st[t] = "RUNNING" => t = currentThread,
           c # NULL => c = currentThread \/ st[c] = "BLOCKED",
           Sleep(r, st, c),
           r = <<>> => readyList = <<>>
    PROVE  Switched(r, [st EXCEPT ![currentThread] = "BLOCKED"], c)
  <1> DEFINE b == [st EXCEPT ![currentThread] = "BLOCKED"]
  <1>1. currentThread \in Thread /\ NULL \notin Thread
    BY ThreadsAssumption, Zenon DEF ThreadsTypeOK
  <1>2. b \in [Thread -> Status]
    BY <1>1, Zenon DEF Status
  <1>3. CASE r # <<>>
    <2>1. Run(Head(r), Tail(r), b, c)
      BY <1>3, Zenon DEF Sleep
    <2>2. /\ \A t \in Thread : b[t] = "READY" <=> t \in Range(r)
          /\ \A t \in Thread : b[t] # "RUNNING"
          /\ c # NULL => b[c] = "BLOCKED"
      BY <1>1, Zenon
    <2>3. Switched(r, b, c)
      <3> HIDE DEF b
      <3> QED BY <1>2, <1>3, <2>1, <2>2, RunSwitches, Zenon
    <2> QED BY <2>3, Zenon
  <1>4. CASE r = <<>>
    <2>1. /\ cpu' = "idle" /\ status' = b /\ threadToBeDestroyed' = c
          /\ UNCHANGED <<currentThread, readyList>>
      BY <1>4, Zenon DEF Sleep
    <2>2. readyList' = r
      BY <1>4, <2>1, Zenon
    <2>3. Range(r) = {}
      BY <1>4 DEF Range
    <2> QED BY <1>1, <1>2, <2>1, <2>2, <2>3, Zenon DEF Switched
  <1> QED BY <1>3, <1>4, Zenon

-----------------------------------------------------------------------------
(***************************************************************************)
(* The part of ThreadsInv that is about lists, as a predicate of explicit  *)
(* values, so that it can be stated of the values half-way through an      *)
(* operation: the current thread, the processor, the ready list, the       *)
(* status map, the frames, the wait lists and the carcass.                 *)
(***************************************************************************)
ListsOK(cur, p, r, st, fr, q, c) ==
    /\ cur \in Thread
    /\ r \in Seq(Thread)
    /\ st \in [Thread -> Status]
    /\ fr \in [Thread -> {"start", "user", "finish"} \cup Semaphore \cup Lock]
    /\ q \in [WaitList -> Seq(Thread)]
    /\ c \in Thread \cup {NULL}
    /\ IsInjective(r)
    /\ \A x \in WaitList :
         /\ IsInjective(q[x])
         /\ Range(q[x]) \cap Range(r) = {}
         /\ \A y \in WaitList : x # y => Range(q[x]) \cap Range(q[y]) = {}
         /\ \A t \in Range(q[x]) : IF x \in Condition THEN fr[t] \in Lock ELSE fr[t] = x
    /\ \A t \in Thread :
         /\ st[t] = "READY" <=> t \in Range(r)
         /\ st[t] = "RUNNING" <=> (t = cur /\ p = "running")
         /\ (st[t] = "BLOCKED" /\ fr[t] # "finish") <=> \E x \in WaitList : t \in Range(q[x])
         /\ st[t] = "NONE" => fr[t] = "start"
         /\ fr[t] = "finish" => st[t] \in {"BLOCKED", "DELETED"}
         /\ st[t] = "DELETED" => fr[t] = "finish"
    /\ c # NULL => fr[c] = "finish" /\ st[c] = "BLOCKED"

\* The part of ThreadsInv that is about locks and the processor.
LocksOK ==
    /\ cpu \in {"running", "idle", "halted"}
    /\ value \in [Semaphore -> Nat]
    /\ isHeld \in [Lock -> BOOLEAN]
    /\ lockHolder \in [Lock -> Thread \cup {NULL}]
    /\ inside \in [Lock -> SUBSET Thread]
    /\ MutualExclusion
    /\ LockWakeup

Lists == ListsOK(currentThread, cpu, readyList, status, frame, queue,
                 threadToBeDestroyed)

\* The two parts make up the invariant.
LEMMA InvParts == ThreadsInv <=> Lists /\ LocksOK
  BY Zenon DEF ThreadsInv, ThreadsTypeOK, OnOneList, NoThreadLost, CarcassIsDead, FrameAgrees,
         Lists, ListsOK, LocksOK

\* The same in the next state.
LEMMA InvPartsNext == ThreadsInv' <=> Lists' /\ LocksOK'
  BY Zenon DEF ThreadsInv, ThreadsTypeOK, OnOneList, NoThreadLost, CarcassIsDead, FrameAgrees,
         Lists, ListsOK, LocksOK

\* Scheduler::ReadyToRun of threads ts taken off the wait list o, of which rest is left.
LEMMA WakeLists ==
    ASSUME NEW cur, NEW p, NEW r, NEW st, NEW fr, NEW q, NEW c,
           ListsOK(cur, p, r, st, fr, q, c),
           NEW o \in WaitList,
           NEW ts \in Seq(Thread), NEW rest \in Seq(Thread),
           IsInjective(ts), IsInjective(rest),
           Range(q[o]) = Range(ts) \cup Range(rest),
           Range(ts) \cap Range(rest) = {},
           NEW r2, r2 = r \o ts,
           NEW st2 \in [Thread -> Status],
           \A t \in Thread : st2[t] = IF t \in Range(ts) THEN "READY" ELSE st[t],
           NEW q2, q2 = [q EXCEPT ![o] = rest]
    PROVE  ListsOK(cur, p, r2, st2, fr, q2, c)
  <1> USE DEF ListsOK
  <1>1. Range(q[o]) \cap Range(r) = {}
    BY Zenon
  <1>2. /\ r2 \in Seq(Thread)
        /\ Range(r2) = Range(r) \cup Range(ts)
        /\ IsInjective(r2)
    <2>1. Range(r) \cap Range(ts) = {}
      BY <1>1, Zenon
    <2> QED BY <2>1, ConcatList
  <1>4. /\ q2 \in [WaitList -> Seq(Thread)]
        /\ q2[o] = rest
        /\ \A x \in WaitList : x # o => q2[x] = q[x]
        /\ \A x \in WaitList : Range(q2[x]) \subseteq Range(q[x])
        /\ \A x \in WaitList : IsInjective(q2[x])
    OBVIOUS
  <1>5. \A t \in Range(ts) : /\ t \in Thread /\ st[t] = "BLOCKED" /\ fr[t] # "finish"
                             /\ \A x \in WaitList : t \notin Range(q2[x])
    <2> SUFFICES ASSUME NEW t \in Range(ts)
                 PROVE  /\ t \in Thread /\ st[t] = "BLOCKED" /\ fr[t] # "finish"
                        /\ \A x \in WaitList : t \notin Range(q2[x])
      BY Zenon
    <2>1. t \in Thread
      BY ListElements, Zenon
    <2>2. t \in Range(q[o])
      BY Zenon
    <2>3. \A x \in WaitList : t \notin Range(q2[x])
      BY <2>2, <1>4, Zenon
    <2> QED BY <2>1, <2>2, <2>3, Zenon
  <1>6. \A x \in WaitList :
          /\ Range(q2[x]) \cap Range(r2) = {}
          /\ \A y \in WaitList : x # y => Range(q2[x]) \cap Range(q2[y]) = {}
          /\ \A t \in Range(q2[x]) : IF x \in Condition THEN fr[t] \in Lock ELSE fr[t] = x
    BY <1>2, <1>4, <1>5
  <1>7. \A t \in Thread :
          (\E x \in WaitList : t \in Range(q2[x]))
             <=> (\E x \in WaitList : t \in Range(q[x])) /\ t \notin Range(ts)
    BY <1>4, <1>5, Zenon
  <1>8. \A t \in Thread :
         /\ st2[t] = "READY" <=> t \in Range(r2)
         /\ st2[t] = "RUNNING" <=> (t = cur /\ p = "running")
         /\ (st2[t] = "BLOCKED" /\ fr[t] # "finish") <=> \E x \in WaitList : t \in Range(q2[x])
         /\ st2[t] = "NONE" => fr[t] = "start"
         /\ fr[t] = "finish" => st2[t] \in {"BLOCKED", "DELETED"}
         /\ st2[t] = "DELETED" => fr[t] = "finish"
    BY <1>2, <1>5, <1>7
  <1>9. c # NULL => fr[c] = "finish" /\ st2[c] = "BLOCKED"
    BY <1>5, Zenon
  <1> QED BY <1>2, <1>4, <1>6, <1>8, <1>9

\* Nothing changes.
LEMMA StutterInv ==
    ASSUME ThreadsInv, UNCHANGED threadVars
    PROVE  ThreadsInv'
  <1>1. UNCHANGED <<currentThread, threadToBeDestroyed, status, readyList, frame, cpu, value,
                    isHeld, lockHolder, queue, inside>>
    BY Zenon DEF threadVars, schedVars, syncVars
  <1>2. ThreadsTypeOK'
    BY <1>1, Zenon DEF ThreadsInv, ThreadsTypeOK
  <1>3. OnOneList' /\ CarcassIsDead' /\ FrameAgrees'
    BY <1>1, Zenon DEF ThreadsInv, OnOneList, CarcassIsDead, FrameAgrees
  <1>4. NoThreadLost'
    BY <1>1, Zenon DEF ThreadsInv, NoThreadLost
  <1>5. MutualExclusion' /\ LockWakeup'
    BY <1>1, Zenon DEF ThreadsInv, MutualExclusion, LockWakeup, Awake
  <1> QED BY <1>2, <1>3, <1>4, <1>5, Zenon DEF ThreadsInv

\* A running thread that yields is linked at the end of the ready list.
LEMMA YieldLists ==
    ASSUME NEW cur, NEW r, NEW st, NEW fr, NEW q, NEW c,
           ListsOK(cur, "running", r, st, fr, q, c),
           st[cur] = "RUNNING", cur \notin Range(r), c # cur, fr[cur] # "finish",
           NEW r2 \in Seq(Thread), IsInjective(r2), Range(r2) = Range(r) \cup {cur},
           NEW st2 \in [Thread -> Status], st2[cur] = "READY",
           \A t \in Thread : t # cur => st2[t] = st[t]
    PROVE  ListsOK(cur, "idle", r2, st2, fr, q, c)
  <1> USE DEF ListsOK
  <1>1. \A x \in WaitList : cur \notin Range(q[x])
    BY Zenon
  <1>2. \A x \in WaitList : Range(q[x]) \cap Range(r2) = {}
    BY <1>1
  <1>3. ASSUME NEW t \in Thread, t # cur
        PROVE  /\ st2[t] = "READY" <=> t \in Range(r2)
               /\ st2[t] # "RUNNING"
    BY <1>3
  <1>4. \A t \in Thread :
         /\ st2[t] = "READY" <=> t \in Range(r2)
         /\ st2[t] # "RUNNING"
    BY <1>3, Zenon
  <1>5. \A t \in Thread :
         /\ (st2[t] = "BLOCKED" /\ fr[t] # "finish") <=> \E x \in WaitList : t \in Range(q[x])
         /\ st2[t] = "NONE" => fr[t] = "start"
         /\ fr[t] = "finish" => st2[t] \in {"BLOCKED", "DELETED"}
         /\ st2[t] = "DELETED" => fr[t] = "finish"
    BY <1>1
  <1>6. c # NULL => fr[c] = "finish" /\ st2[c] = "BLOCKED"
    BY Zenon
  <1> QED BY <1>2, <1>4, <1>5, <1>6, Zenon

\* A running thread that finishes is linked to no list and is the thread to be destroyed.
LEMMA FinishLists ==
    ASSUME NEW cur, NEW r, NEW st, NEW fr, NEW q, NEW c,
           ListsOK(cur, "running", r, st, fr, q, c),
           cur \notin Range(r),
           NEW st2 \in [Thread -> Status], st2[cur] = "BLOCKED",
           \A t \in Thread : t # cur => st2[t] = st[t],
           NEW fr2 \in [Thread -> {"start", "user", "finish"} \cup Semaphore \cup Lock],
           fr2[cur] = "finish",
           \A t \in Thread : t # cur => fr2[t] = fr[t],
           \A x \in WaitList : \A t \in Range(q[x]) : t \in Thread /\ t # cur
    PROVE  ListsOK(cur, "idle", r, st2, fr2, q, cur)
  <1> USE DEF ListsOK
  <1>1. \A x \in WaitList : \A t \in Range(q[x]) :
           IF x \in Condition THEN fr2[t] \in Lock ELSE fr2[t] = x
    OBVIOUS
  <1>2. \A t \in Thread :
         /\ st2[t] = "READY" <=> t \in Range(r)
         /\ st2[t] # "RUNNING"
         /\ st2[t] = "NONE" => fr2[t] = "start"
         /\ fr2[t] = "finish" => st2[t] \in {"BLOCKED", "DELETED"}
         /\ st2[t] = "DELETED" => fr2[t] = "finish"
    OBVIOUS
  <1>3. \A t \in Thread :
         (st2[t] = "BLOCKED" /\ fr2[t] # "finish") <=> \E x \in WaitList : t \in Range(q[x])
    OBVIOUS
  <1> QED BY <1>1, <1>2, <1>3

\* The current thread links itself to the wait list o and sleeps, to continue in f.
LEMMA BlockLists ==
    ASSUME NEW r, NEW st, NEW q,
           ListsOK(currentThread, "running", r, st, frame, q, threadToBeDestroyed),
           ThreadsTypeOK,
           NEW o \in WaitList,
           NEW f \in Semaphore \cup Lock,
           IF o \in Condition THEN f \in Lock ELSE f = o,
           queue' = [q EXCEPT ![o] = Append(@, currentThread)],
           frame' = [frame EXCEPT ![currentThread] = f],
           r = <<>> => readyList = <<>>,
           Sleep(r, st, threadToBeDestroyed)
    PROVE  /\ Lists'
           /\ cpu' \in {"running", "idle"}
           /\ \A t \in Thread : t # currentThread =>
                 (status'[t] \in {"READY", "RUNNING"} <=> st[t] = "READY")
  <1> DEFINE b == [st EXCEPT ![currentThread] = "BLOCKED"]
  <1> USE DEF ListsOK
  <1>1. /\ currentThread \in Thread
        /\ st[currentThread] = "RUNNING"
        /\ currentThread \notin Range(r)
        /\ \A x \in WaitList : currentThread \notin Range(q[x])
        /\ frame[currentThread] # "finish"
        /\ threadToBeDestroyed # currentThread
    BY ThreadsAssumption
  <1>2. Switched(r, b, threadToBeDestroyed)
    BY <1>1, SleepSwitches, Zenon
  <1>3. /\ b \in [Thread -> Status]
        /\ b[currentThread] = "BLOCKED"
        /\ \A t \in Thread : t # currentThread => b[t] = st[t]
    BY <1>1 DEF Status
  <1>4. /\ frame' \in [Thread -> {"start", "user", "finish"} \cup Semaphore \cup Lock]
        /\ frame'[currentThread] = f
        /\ \A t \in Thread : t # currentThread => frame'[t] = frame[t]
        /\ f \notin {"start", "user", "finish"}
    BY <1>1, ThreadsAssumption
  <1>5. /\ queue' \in [WaitList -> Seq(Thread)]
        /\ \A x \in WaitList : x # o => queue'[x] = q[x]
        /\ Range(queue'[o]) = Range(q[o]) \cup {currentThread}
        /\ \A x \in WaitList : IsInjective(queue'[x])
    BY <1>1, AppendList
  <1> HIDE DEF b
  <1>6. \A t \in Thread : (\E x \in WaitList : t \in Range(queue'[x]))
                            <=> t = currentThread \/ \E x \in WaitList : t \in Range(q[x])
    <2>1. ASSUME NEW t \in Thread, NEW x \in WaitList, t \in Range(queue'[x])
          PROVE  t = currentThread \/ t \in Range(q[x])
      BY <1>5, <2>1
    <2>2. ASSUME NEW t \in Thread, NEW x \in WaitList, t \in Range(q[x])
          PROVE  t \in Range(queue'[x])
      BY <1>5, <2>2, Zenon
    <2>3. currentThread \in Range(queue'[o])
      BY <1>5, Zenon
    <2> QED BY <2>1, <2>2, <2>3
  <1>7. \A x \in WaitList :
          /\ Range(queue'[x]) \cap Range(readyList') = {}
          /\ \A y \in WaitList : x # y => Range(queue'[x]) \cap Range(queue'[y]) = {}
    BY <1>1, <1>2, <1>5 DEF Switched
  <1>8. \A x \in WaitList : \A t \in Range(queue'[x]) :
           IF x \in Condition THEN frame'[t] \in Lock ELSE frame'[t] = x
    <2> SUFFICES ASSUME NEW x \in WaitList, NEW t \in Range(queue'[x])
                 PROVE  IF x \in Condition THEN frame'[t] \in Lock ELSE frame'[t] = x
      BY Zenon
    <2>1. t \in Thread
      BY <1>5, ListElements
    <2>2. CASE t = currentThread
      <3>1. x = o
        BY <2>2, <1>1, <1>5, Zenon
      <3> QED BY <2>2, <3>1, <1>4
    <2>3. CASE t # currentThread
      <3>1. t \in Range(q[x])
        BY <2>3, <1>5
      <3> QED BY <2>1, <2>3, <3>1, <1>4
    <2> QED BY <2>2, <2>3, Zenon
  <1>9. threadToBeDestroyed' # NULL => /\ threadToBeDestroyed' = threadToBeDestroyed
                                       /\ frame'[threadToBeDestroyed'] = "finish"
                                       /\ status'[threadToBeDestroyed'] = "BLOCKED"
    BY <1>1, <1>2, <1>4, ThreadsAssumption DEF Switched
  <1>10. \A t \in Thread :
         /\ status'[t] = "READY" <=> t \in Range(readyList')
         /\ status'[t] = "RUNNING" <=> (t = currentThread' /\ cpu' = "running")
    BY <1>2, Zenon DEF Switched
  <1>11. \A t \in Thread :
         /\ (status'[t] = "BLOCKED" /\ frame'[t] # "finish")
               <=> \E x \in WaitList : t \in Range(queue'[x])
         /\ status'[t] = "NONE" => frame'[t] = "start"
         /\ frame'[t] = "finish" => status'[t] \in {"BLOCKED", "DELETED"}
         /\ status'[t] = "DELETED" => frame'[t] = "finish"
    <2> SUFFICES ASSUME NEW t \in Thread
                 PROVE  /\ (status'[t] = "BLOCKED" /\ frame'[t] # "finish")
                             <=> \E x \in WaitList : t \in Range(queue'[x])
                        /\ status'[t] = "NONE" => frame'[t] = "start"
                        /\ frame'[t] = "finish" => status'[t] \in {"BLOCKED", "DELETED"}
                        /\ status'[t] = "DELETED" => frame'[t] = "finish"
      BY Zenon
    <2>1. CASE t = currentThread
      BY <2>1, <1>1, <1>2, <1>3, <1>4, <1>6 DEF Switched
    <2>2. CASE t # currentThread
      <3>1. b[t] = st[t] /\ frame'[t] = frame[t]
        BY <2>2, <1>3, <1>4, Zenon
      <3>2. /\ status'[t] = "BLOCKED" => st[t] = "BLOCKED"
            /\ st[t] = "BLOCKED" /\ t # threadToBeDestroyed => status'[t] = "BLOCKED"
            /\ st[t] = "BLOCKED" => status'[t] \in {"BLOCKED", "DELETED"}
            /\ status'[t] = "DELETED" => st[t] = "DELETED" \/ t = threadToBeDestroyed
            /\ st[t] = "DELETED" => status'[t] = "DELETED"
            /\ status'[t] = "NONE" => st[t] = "NONE"
        BY <1>2, <3>1 DEF Switched
      <3>3. t = threadToBeDestroyed => frame[t] = "finish"
        BY ThreadsAssumption
      <3>4. /\ (st[t] = "BLOCKED" /\ frame[t] # "finish")
                  <=> \E x \in WaitList : t \in Range(q[x])
            /\ st[t] = "NONE" => frame[t] = "start"
            /\ frame[t] = "finish" => st[t] \in {"BLOCKED", "DELETED"}
            /\ st[t] = "DELETED" => frame[t] = "finish"
        BY Zenon
      <3>5. (\E x \in WaitList : t \in Range(queue'[x]))
              <=> \E x \in WaitList : t \in Range(q[x])
        BY <2>2, <1>6, Zenon
      <3> HIDE DEF ListsOK
      <3> QED BY <3>1, <3>2, <3>3, <3>4, <3>5, Zenon
    <2> QED BY <2>1, <2>2, Zenon
  <1>12. \A t \in Thread : t # currentThread =>
                 (status'[t] \in {"READY", "RUNNING"} <=> st[t] = "READY")
    BY <1>2, <1>3 DEF Switched
  <1>13. Lists'
    BY <1>2, <1>4, <1>5, <1>7, <1>8, <1>9, <1>10, <1>11 DEF Lists, Switched
  <1> QED BY <1>2, <1>12, <1>13, Zenon DEF Switched

-----------------------------------------------------------------------------
\* The locks' part survives a step that touches no lock, puts no thread to sleep on a
\* free lock and keeps every thread that is on its way to a free lock on its way.
LEMMA LocksKept ==
    ASSUME ThreadsInv,
           UNCHANGED <<isHeld, lockHolder, inside>>,
           value' \in [Semaphore -> Nat],
           cpu' \in {"running", "idle", "halted"},
           \A l \in Lock : ~isHeld[l] /\ queue'[l] # <<>> => queue[l] # <<>>,
           \A t \in Thread :
              frame[t] \in Lock /\ ~isHeld[frame[t]] /\ status[t] \in {"READY", "RUNNING"}
                 => frame'[t] = frame[t] /\ status'[t] \in {"READY", "RUNNING"}
    PROVE  LocksOK'
  <1>1. LocksOK
    BY InvParts, Zenon
  <1>2. MutualExclusion'
    BY <1>1, Zenon DEF LocksOK, MutualExclusion
  <1>3. LockWakeup'
    BY <1>1 DEF LocksOK, LockWakeup, Awake
  <1> QED BY <1>1, <1>2, <1>3, Zenon DEF LocksOK

\* The running thread is on no list.
LEMMA CurrentRuns ==
    ASSUME ThreadsInv, cpu = "running"
    PROVE  /\ ListsOK(currentThread, "running", readyList, status, frame, queue,
                      threadToBeDestroyed)
           /\ ThreadsTypeOK
           /\ currentThread \in Thread
           /\ status[currentThread] = "RUNNING"
           /\ currentThread \notin Range(readyList)
           /\ frame[currentThread] # "finish"
           /\ threadToBeDestroyed # currentThread
           /\ \A t \in Thread : status[t] = "RUNNING" => t = currentThread
  <1>1. Lists
    BY InvParts, Zenon
  <1>2. ListsOK(currentThread, "running", readyList, status, frame, queue, threadToBeDestroyed)
    BY <1>1, Zenon DEF Lists, ListsOK
  <1>3. ThreadsTypeOK
    BY Zenon DEF ThreadsInv
  <1> QED BY <1>2, <1>3, ThreadsAssumption DEF ListsOK

\* Thread::Fork puts a new thread on the ready list.
LEMMA ForkInv ==
    ASSUME ThreadsInv, NEW t \in Thread, Fork(t)
    PROVE  ThreadsInv'
  <1>1. Lists /\ LocksOK
    BY InvParts, Zenon
  <1>2. /\ status[t] = "NONE" /\ cpu = "running"
        /\ readyList' = readyList \o <<t>>
        /\ status' = [u \in Thread |-> IF u \in Range(<<t>>) THEN "READY" ELSE status[u]]
        /\ UNCHANGED <<currentThread, threadToBeDestroyed, frame, cpu>>
        /\ UNCHANGED <<value, isHeld, lockHolder, queue, inside>>
    BY Zenon DEF Fork, InUser, ReadyToRun, ReadyStatus, syncVars
  <1> DEFINE one == <<t>>
  <1>3. one \in Seq(Thread) /\ Range(one) = {t} /\ IsInjective(one)
    <2>1. <<t>> \in Seq(Thread) /\ DOMAIN <<t>> = {1} /\ <<t>>[1] = t
      OBVIOUS
    <2> QED BY <2>1, Zenon DEF Range, IsInjective
  <1>4. /\ readyList' \in Seq(Thread)
        /\ Range(readyList') = Range(readyList) \cup {t}
        /\ IsInjective(readyList')
    <2>1. readyList \in Seq(Thread) /\ IsInjective(readyList) /\ t \notin Range(readyList)
      BY <1>1, <1>2, Zenon DEF Lists, ListsOK
    <2>2. readyList' = readyList \o one
      BY <1>2, Zenon
    <2> HIDE DEF one
    <2> QED BY <1>3, <2>1, <2>2, ConcatList
  <1>5. status' = [status EXCEPT ![t] = "READY"]
    BY <1>1, <1>2, <1>3, Zenon DEF Lists, ListsOK
  <1>6. \A x \in WaitList : t \notin Range(queue[x])
    BY <1>1, <1>2, Zenon DEF Lists, ListsOK
  <1>7. Lists'
    <2>1. /\ status' \in [Thread -> Status]
          /\ status'[t] = "READY"
          /\ \A u \in Thread : u # t => status'[u] = status[u]
      BY <1>1, <1>5 DEF Lists, ListsOK, Status
    <2>2. threadToBeDestroyed # t /\ frame[t] = "start" /\ t # currentThread
      BY <1>1, <1>2, CurrentRuns, ThreadsAssumption DEF Lists, ListsOK
    <2>3. \A u \in Thread :
         /\ status'[u] = "READY" <=> u \in Range(readyList')
         /\ status'[u] = "RUNNING" <=> (u = currentThread' /\ cpu' = "running")
         /\ (status'[u] = "BLOCKED" /\ frame'[u] # "finish")
               <=> \E x \in WaitList : u \in Range(queue'[x])
         /\ status'[u] = "NONE" => frame'[u] = "start"
         /\ frame'[u] = "finish" => status'[u] \in {"BLOCKED", "DELETED"}
         /\ status'[u] = "DELETED" => frame'[u] = "finish"
      <3> SUFFICES ASSUME NEW u \in Thread
                   PROVE  /\ status'[u] = "READY" <=> u \in Range(readyList')
                          /\ status'[u] = "RUNNING" <=> (u = currentThread' /\ cpu' = "running")
                          /\ (status'[u] = "BLOCKED" /\ frame'[u] # "finish")
                                <=> \E x \in WaitList : u \in Range(queue'[x])
                          /\ status'[u] = "NONE" => frame'[u] = "start"
                          /\ frame'[u] = "finish" => status'[u] \in {"BLOCKED", "DELETED"}
                          /\ status'[u] = "DELETED" => frame'[u] = "finish"
        BY Zenon
      <3>1. CASE u = t
        BY <3>1, <1>2, <1>4, <1>6, <2>1, <2>2, Zenon
      <3>2. CASE u # t
        BY <3>2, <1>1, <1>2, <1>4, <2>1, Zenon DEF Lists, ListsOK
      <3> QED BY <3>1, <3>2, Zenon
    <2> QED BY <1>1, <1>2, <1>4, <1>6, <2>1, <2>2, <2>3 DEF Lists, ListsOK
  <1>8. LocksOK'
    <2>1. value' \in [Semaphore -> Nat] /\ status \in [Thread -> Status]
      BY <1>1, <1>2, Zenon DEF LocksOK, Lists, ListsOK
    <2> QED BY <1>2, <1>5, <2>1, LocksKept, Zenon
  <1> QED BY <1>7, <1>8, InvPartsNext, Zenon

\* ThreadRoot lets a new thread enter its function.
LEMMA ThreadRootInv ==
    ASSUME ThreadsInv, ThreadRoot
    PROVE  ThreadsInv'
  <1>1. Lists /\ LocksOK
    BY InvParts, Zenon
  <1>2. /\ cpu = "running" /\ frame[currentThread] = "start"
        /\ frame' = [frame EXCEPT ![currentThread] = "user"]
        /\ UNCHANGED <<currentThread, threadToBeDestroyed, status, readyList, cpu>>
        /\ UNCHANGED <<value, isHeld, lockHolder, queue, inside>>
    BY Zenon DEF ThreadRoot, syncVars
  <1>3. /\ currentThread \in Thread /\ status[currentThread] = "RUNNING"
        /\ threadToBeDestroyed # currentThread
    BY <1>2, CurrentRuns, Zenon
  <1>4. /\ frame' \in [Thread -> {"start", "user", "finish"} \cup Semaphore \cup Lock]
        /\ frame'[currentThread] = "user"
        /\ \A t \in Thread : t # currentThread => frame'[t] = frame[t]
    BY <1>1, <1>2, <1>3 DEF Lists, ListsOK
  <1>5. \A x \in WaitList : currentThread \notin Range(queue[x])
    BY <1>1, <1>3, Zenon DEF Lists, ListsOK
  <1>6. Lists'
    <2>1. \A x \in WaitList : \A t \in Range(queue[x]) : t \in Thread /\ frame'[t] = frame[t]
      <3>1. \A x \in WaitList : \A t \in Range(queue[x]) : t \in Thread
        BY <1>1, ListElements, Zenon DEF Lists, ListsOK
      <3> QED BY <1>4, <1>5, <3>1, Zenon
    <2> QED BY <1>1, <1>2, <1>3, <1>4, <2>1 DEF Lists, ListsOK
  <1>7. LocksOK'
    <2>1. "start" \notin Lock
      BY ThreadsAssumption, Zenon
    <2>2. value' \in [Semaphore -> Nat]
      BY <1>1, <1>2, Zenon DEF LocksOK
    <2> QED BY <1>2, <1>3, <1>4, <2>1, <2>2, LocksKept, Zenon
  <1> QED BY <1>6, <1>7, InvPartsNext, Zenon

\* A step that only wakes threads ts waiting on list o: V, Signal, Broadcast.
LEMMA WakeInv ==
    ASSUME ThreadsInv, NEW o \in WaitList,
           NEW ts \in Seq(Thread), NEW rest \in Seq(Thread),
           IsInjective(ts), IsInjective(rest),
           Range(queue[o]) = Range(ts) \cup Range(rest),
           Range(ts) \cap Range(rest) = {},
           rest # <<>> => queue[o] # <<>>,
           ReadyToRun(ts),
           queue' = [queue EXCEPT ![o] = rest],
           value' \in [Semaphore -> Nat],
           UNCHANGED <<currentThread, threadToBeDestroyed, frame, cpu>>,
           UNCHANGED <<isHeld, lockHolder, inside>>
    PROVE  ThreadsInv'
  <1>1. Lists /\ LocksOK
    BY InvParts, Zenon
  <1>2. /\ readyList' = readyList \o ts
        /\ status' = [t \in Thread |-> IF t \in Range(ts) THEN "READY" ELSE status[t]]
    BY Zenon DEF ReadyToRun, ReadyStatus
  <1>3. ListsOK(currentThread, cpu, readyList', status', frame, queue', threadToBeDestroyed)
    <2>1. ListsOK(currentThread, cpu, readyList, status, frame, queue, threadToBeDestroyed)
      BY <1>1, Zenon DEF Lists
    <2>2. /\ status' \in [Thread -> Status]
          /\ \A t \in Thread : status'[t] = IF t \in Range(ts) THEN "READY" ELSE status[t]
      BY <1>2, <2>1, Zenon DEF ListsOK, Status
    <2> QED BY <1>2, <2>1, <2>2, WakeLists, Zenon
  <1>4. Lists'
    BY <1>3, Zenon DEF Lists
  <1>5. LocksOK'
    <2>1. cpu' \in {"running", "idle", "halted"}
      BY <1>1, Zenon DEF LocksOK
    <2>2. \A l \in Lock : queue'[l] # <<>> => queue[l] # <<>>
      <3>1. queue \in [WaitList -> Seq(Thread)] /\ Lock \subseteq WaitList
        BY <1>1, Zenon DEF Lists, ListsOK, WaitList
      <3> QED BY <3>1, Zenon
    <2>3. \A t \in Thread : status[t] \in {"READY", "RUNNING"}
                               => status'[t] \in {"READY", "RUNNING"}
      BY <1>2, Zenon
    <2> QED BY <2>1, <2>2, <2>3, LocksKept, Zenon
  <1> QED BY <1>4, <1>5, InvPartsNext, Zenon

\* A switch from a state in which no thread runs any more to the next one.
LEMMA SwitchLists ==
    ASSUME NEW r, NEW st, NEW fr, NEW q, NEW c,
           ListsOK(currentThread, "idle", r, st, fr, q, c),
           fr = frame', q = queue',
           Switched(r, st, c)
    PROVE  /\ Lists'
           /\ cpu' \in {"running", "idle"}
           /\ \A t \in Thread : status'[t] \in {"READY", "RUNNING"} <=> st[t] = "READY"
  <1>1. /\ readyList' \in Seq(Thread) /\ status' \in [Thread -> Status]
        /\ IsInjective(readyList') /\ Range(readyList') \subseteq Range(r)
        /\ currentThread' \in Thread
        /\ threadToBeDestroyed' \in Thread \cup {NULL}
        /\ cpu' \in {"running", "idle"}
    BY Zenon DEF Switched, ListsOK
  <1>2. threadToBeDestroyed' # NULL => /\ frame'[threadToBeDestroyed'] = "finish"
                                       /\ status'[threadToBeDestroyed'] = "BLOCKED"
    BY ThreadsAssumption, Zenon DEF Switched, ListsOK
  <1>3. \A x \in WaitList : Range(queue'[x]) \cap Range(readyList') = {}
    BY <1>1 DEF ListsOK
  <1>4. \A t \in Thread :
         /\ (status'[t] = "BLOCKED" /\ frame'[t] # "finish")
               <=> \E x \in WaitList : t \in Range(queue'[x])
         /\ status'[t] = "NONE" => frame'[t] = "start"
         /\ frame'[t] = "finish" => status'[t] \in {"BLOCKED", "DELETED"}
         /\ status'[t] = "DELETED" => frame'[t] = "finish"
    <2> SUFFICES ASSUME NEW t \in Thread
                 PROVE  /\ (status'[t] = "BLOCKED" /\ frame'[t] # "finish")
                             <=> \E x \in WaitList : t \in Range(queue'[x])
                        /\ status'[t] = "NONE" => frame'[t] = "start"
                        /\ frame'[t] = "finish" => status'[t] \in {"BLOCKED", "DELETED"}
                        /\ status'[t] = "DELETED" => frame'[t] = "finish"
      BY Zenon
    <2>1. /\ status'[t] = "BLOCKED" => st[t] = "BLOCKED"
          /\ st[t] = "BLOCKED" /\ t # c => status'[t] = "BLOCKED"
          /\ st[t] = "BLOCKED" => status'[t] \in {"BLOCKED", "DELETED"}
          /\ status'[t] = "DELETED" => st[t] = "DELETED" \/ t = c
          /\ st[t] = "DELETED" => status'[t] = "DELETED"
          /\ status'[t] = "NONE" => st[t] = "NONE"
      BY Zenon DEF Switched
    <2>2. t = c => frame'[t] = "finish"
      BY ThreadsAssumption DEF ListsOK
    <2>3. /\ (st[t] = "BLOCKED" /\ frame'[t] # "finish")
                <=> \E x \in WaitList : t \in Range(queue'[x])
          /\ st[t] = "NONE" => frame'[t] = "start"
          /\ frame'[t] = "finish" => st[t] \in {"BLOCKED", "DELETED"}
          /\ st[t] = "DELETED" => frame'[t] = "finish"
      BY Zenon DEF ListsOK
    <2> QED BY <2>1, <2>2, <2>3, Zenon
  <1>5. \A t \in Thread :
         /\ status'[t] = "READY" <=> t \in Range(readyList')
         /\ status'[t] = "RUNNING" <=> (t = currentThread' /\ cpu' = "running")
         /\ status'[t] \in {"READY", "RUNNING"} <=> st[t] = "READY"
    BY Zenon DEF Switched
  <1>6. Lists'
    BY <1>1, <1>2, <1>3, <1>4, <1>5 DEF Lists, ListsOK
  <1> QED BY <1>1, <1>5, <1>6, Zenon

\* Semaphore::V, called by a thread or by an interrupt handler.
LEMMA DoVInv ==
    ASSUME ThreadsInv, NEW s \in Semaphore, DoV(s)
    PROVE  ThreadsInv'
  <1>1. /\ s \in WaitList /\ queue[s] \in Seq(Thread) /\ IsInjective(queue[s])
        /\ value \in [Semaphore -> Nat]
    BY Zenon DEF WaitList, ThreadsInv, ThreadsTypeOK, OnOneList
  <1>2. /\ ReadyToRun(First(queue[s]))
        /\ queue' = [queue EXCEPT ![s] = Rest(queue[s])]
        /\ value' = [value EXCEPT ![s] = value[s] + 1]
        /\ UNCHANGED <<currentThread, threadToBeDestroyed, frame, cpu>>
        /\ UNCHANGED <<isHeld, lockHolder, inside>>
    BY Zenon DEF DoV
  <1>3. value' \in [Semaphore -> Nat]
    BY <1>1, <1>2
  <1>4. Rest(queue[s]) # <<>> => queue[s] # <<>>
    BY Zenon DEF Rest
  <1> QED BY <1>1, <1>2, <1>3, <1>4, FirstRest, WakeInv, Zenon

\* Condition::Signal.
LEMMA SignalInv ==
    ASSUME ThreadsInv, NEW c \in Condition, NEW l \in Lock, Signal(c, l)
    PROVE  ThreadsInv'
  <1>1. /\ c \in WaitList /\ queue[c] \in Seq(Thread) /\ IsInjective(queue[c])
        /\ value \in [Semaphore -> Nat]
    BY Zenon DEF WaitList, ThreadsInv, ThreadsTypeOK, OnOneList
  <1>2. /\ UNCHANGED <<currentThread, threadToBeDestroyed, frame, cpu>>
        /\ UNCHANGED <<value, isHeld, lockHolder, inside>>
    BY Zenon DEF Signal
  <1>3. CASE isHeldByCurrentThread(l)
    <2>1. /\ ReadyToRun(First(queue[c]))
          /\ queue' = [queue EXCEPT ![c] = Rest(queue[c])]
      BY <1>3, Zenon DEF Signal
    <2>2. Rest(queue[c]) # <<>> => queue[c] # <<>>
      BY Zenon DEF Rest
    <2> QED BY <1>1, <1>2, <2>1, <2>2, FirstRest, WakeInv, Zenon
  <1>4. CASE ~isHeldByCurrentThread(l)
    <2>1. UNCHANGED <<readyList, status, queue>>
      BY <1>4, Zenon DEF Signal
    <2> QED BY <1>2, <2>1, StutterInv, Zenon DEF threadVars, schedVars, syncVars
  <1> QED BY <1>3, <1>4, Zenon

\* Condition::Broadcast.
LEMMA BroadcastInv ==
    ASSUME ThreadsInv, NEW c \in Condition, NEW l \in Lock, Broadcast(c, l)
    PROVE  ThreadsInv'
  <1>1. /\ c \in WaitList /\ queue[c] \in Seq(Thread) /\ IsInjective(queue[c])
        /\ value \in [Semaphore -> Nat]
    BY Zenon DEF WaitList, ThreadsInv, ThreadsTypeOK, OnOneList
  <1>2. /\ UNCHANGED <<currentThread, threadToBeDestroyed, frame, cpu>>
        /\ UNCHANGED <<value, isHeld, lockHolder, inside>>
    BY Zenon DEF Broadcast
  <1>3. CASE isHeldByCurrentThread(l)
    <2> DEFINE none == <<>>
    <2>1. /\ ReadyToRun(queue[c])
          /\ queue' = [queue EXCEPT ![c] = none]
      BY <1>3, Zenon DEF Broadcast
    <2>2. none \in Seq(Thread) /\ Range(none) = {} /\ IsInjective(none)
      BY DEF Range, IsInjective
    <2>3. none # <<>> => queue[c] # <<>>
      BY Zenon
    <2> HIDE DEF none
    <2> QED BY <1>1, <1>2, <2>1, <2>2, <2>3, WakeInv, Zenon
  <1>4. CASE ~isHeldByCurrentThread(l)
    <2>1. UNCHANGED <<readyList, status, queue>>
      BY <1>4, Zenon DEF Broadcast
    <2> QED BY <1>2, <2>1, StutterInv, Zenon DEF threadVars, schedVars, syncVars
  <1> QED BY <1>3, <1>4, Zenon

\* The running thread returns to its caller from the loop of P or Acquire.
LEMMA ReturnLists ==
    ASSUME ThreadsInv, cpu = "running",
           frame' = [frame EXCEPT ![currentThread] = "user"],
           UNCHANGED <<currentThread, threadToBeDestroyed, status, readyList, cpu, queue>>
    PROVE  Lists'
  <1>1. ListsOK(currentThread, "running", readyList, status, frame, queue,
                threadToBeDestroyed)
    BY CurrentRuns, Zenon
  <1>2. /\ currentThread \in Thread /\ status[currentThread] = "RUNNING"
        /\ threadToBeDestroyed # currentThread /\ frame[currentThread] # "finish"
    BY CurrentRuns, Zenon
  <1>3. /\ frame' \in [Thread -> {"start", "user", "finish"} \cup Semaphore \cup Lock]
        /\ frame'[currentThread] = "user"
        /\ \A t \in Thread : t # currentThread => frame'[t] = frame[t]
    BY <1>1, <1>2 DEF ListsOK
  <1>4. \A x \in WaitList : \A t \in Range(queue[x]) : t \in Thread /\ frame'[t] = frame[t]
    <2>1. \A x \in WaitList : currentThread \notin Range(queue[x])
      BY <1>1, <1>2, Zenon DEF ListsOK
    <2>2. \A x \in WaitList : \A t \in Range(queue[x]) : t \in Thread
      BY <1>1, ListElements, Zenon DEF ListsOK
    <2> QED BY <1>3, <2>1, <2>2, Zenon
  <1> QED BY <1>1, <1>2, <1>3, <1>4 DEF Lists, ListsOK

\* Semaphore::P, entered or re-entered after a sleep in it.
LEMMA DoPInv ==
    ASSUME ThreadsInv, NEW s \in Semaphore, cpu = "running",
           frame[currentThread] \in {"user", s}, DoP(s)
    PROVE  ThreadsInv'
  <1>1. /\ s \in WaitList /\ value \in [Semaphore -> Nat] /\ s \notin Condition
        /\ queue \in [WaitList -> Seq(Thread)] /\ Lock \subseteq WaitList
        /\ frame \in [Thread -> {"start", "user", "finish"} \cup Semaphore \cup Lock]
    BY ThreadsAssumption, Zenon DEF WaitList, ThreadsInv, ThreadsTypeOK
  <1>2. /\ currentThread \in Thread /\ frame[currentThread] \notin Lock
        /\ ListsOK(currentThread, "running", readyList, status, frame, queue,
                   threadToBeDestroyed)
        /\ ThreadsTypeOK
    BY CurrentRuns, ThreadsAssumption, Zenon
  <1>3. UNCHANGED <<isHeld, lockHolder, inside>>
    BY Zenon DEF DoP
  <1>4. CASE value[s] = 0
    <2>1. /\ queue' = [queue EXCEPT ![s] = Append(queue[s], currentThread)]
          /\ frame' = [frame EXCEPT ![currentThread] = s]
          /\ Sleep(readyList, status, threadToBeDestroyed)
          /\ value' = value
      BY <1>4, Zenon DEF DoP
    <2>2. /\ Lists'
          /\ cpu' \in {"running", "idle"}
          /\ \A t \in Thread : t # currentThread =>
                (status'[t] \in {"READY", "RUNNING"} <=> status[t] = "READY")
      BY <1>1, <1>2, <2>1, BlockLists, Zenon
    <2>3. \A l \in Lock : queue'[l] = queue[l]
      BY <1>1, <2>1, ThreadsAssumption, Zenon
    <2>4. \A t \in Thread :
              frame[t] \in Lock /\ status[t] \in {"READY", "RUNNING"}
                 => frame'[t] = frame[t] /\ status'[t] \in {"READY", "RUNNING"}
      BY <1>1, <1>2, <2>1, <2>2, CurrentRuns, Zenon
    <2>5. LocksOK'
      BY <1>1, <1>3, <2>1, <2>2, <2>3, <2>4, LocksKept, Zenon
    <2> QED BY <2>2, <2>5, InvPartsNext, Zenon
  <1>5. CASE value[s] # 0
    <2>1. /\ value' = [value EXCEPT ![s] = value[s] - 1]
          /\ frame' = [frame EXCEPT ![currentThread] = "user"]
          /\ UNCHANGED <<currentThread, threadToBeDestroyed, status, readyList, cpu, queue>>
      BY <1>5, Zenon DEF DoP
    <2>2. value' \in [Semaphore -> Nat]
      BY <1>1, <1>5, <2>1
    <2>3. Lists'
      BY <2>1, ReturnLists, Zenon
    <2>4. \A t \in Thread : frame[t] \in Lock => frame'[t] = frame[t]
      BY <1>1, <1>2, <2>1, Zenon
    <2>5. LocksOK'
      BY <1>3, <2>1, <2>2, <2>4, LocksKept, Zenon
    <2> QED BY <2>3, <2>5, InvPartsNext, Zenon
  <1> QED BY <1>4, <1>5, Zenon

\* Lock::Acquire, entered or re-entered after a sleep in it or in Wait.
LEMMA DoAcquireInv ==
    ASSUME ThreadsInv, NEW l \in Lock, cpu = "running",
           frame[currentThread] \in {"user", l}, DoAcquire(l)
    PROVE  ThreadsInv'
  <1>1. /\ l \in WaitList /\ value \in [Semaphore -> Nat] /\ l \notin Condition
        /\ queue \in [WaitList -> Seq(Thread)] /\ Lock \subseteq WaitList
        /\ frame \in [Thread -> {"start", "user", "finish"} \cup Semaphore \cup Lock]
        /\ "user" \notin Lock
    BY ThreadsAssumption, Zenon DEF WaitList, ThreadsInv, ThreadsTypeOK
  <1>2. /\ currentThread \in Thread
        /\ ListsOK(currentThread, "running", readyList, status, frame, queue,
                   threadToBeDestroyed)
        /\ ThreadsTypeOK
    BY CurrentRuns, Zenon
  <1>3. value' = value
    BY Zenon DEF DoAcquire
  <1>4. CASE isHeld[l]
    <2>1. /\ queue' = [queue EXCEPT ![l] = Append(queue[l], currentThread)]
          /\ frame' = [frame EXCEPT ![currentThread] = l]
          /\ Sleep(readyList, status, threadToBeDestroyed)
          /\ UNCHANGED <<isHeld, lockHolder, inside>>
      BY <1>4, Zenon DEF DoAcquire
    <2>2. /\ Lists'
          /\ cpu' \in {"running", "idle"}
          /\ \A t \in Thread : t # currentThread =>
                (status'[t] \in {"READY", "RUNNING"} <=> status[t] = "READY")
      BY <1>1, <1>2, <2>1, BlockLists, Zenon
    <2>3. \A k \in Lock : ~isHeld[k] => queue'[k] = queue[k]
      BY <1>1, <1>4, <2>1, Zenon
    <2>4. \A t \in Thread :
              frame[t] \in Lock /\ ~isHeld[frame[t]] /\ status[t] \in {"READY", "RUNNING"}
                 => frame'[t] = frame[t] /\ status'[t] \in {"READY", "RUNNING"}
      BY <1>1, <1>2, <1>4, <2>1, <2>2, CurrentRuns, Zenon
    <2>5. LocksOK'
      BY <1>1, <1>3, <2>1, <2>2, <2>3, <2>4, LocksKept, Zenon
    <2> QED BY <2>2, <2>5, InvPartsNext, Zenon
  <1>5. CASE ~isHeld[l]
    <2>1. /\ isHeld' = [isHeld EXCEPT ![l] = TRUE]
          /\ lockHolder' = [lockHolder EXCEPT ![l] = currentThread]
          /\ inside' = [inside EXCEPT ![l] = inside[l] \cup {currentThread}]
          /\ frame' = [frame EXCEPT ![currentThread] = "user"]
          /\ UNCHANGED <<currentThread, threadToBeDestroyed, status, readyList, cpu, queue>>
      BY <1>5, Zenon DEF DoAcquire
    <2>2. Lists'
      BY <2>1, ReturnLists, Zenon
    <2>3. LocksOK
      BY InvParts, Zenon
    <2>4. /\ isHeld' \in [Lock -> BOOLEAN]
          /\ lockHolder' \in [Lock -> Thread \cup {NULL}]
          /\ inside' \in [Lock -> SUBSET Thread]
      BY <1>2, <2>1, <2>3, Zenon DEF LocksOK
    <2>5. MutualExclusion'
      BY <1>2, <1>5, <2>1, <2>3, ThreadsAssumption, Zenon DEF LocksOK, MutualExclusion
    <2>6. LockWakeup'
      <3> SUFFICES ASSUME NEW k \in Lock, ~isHeld'[k], queue'[k] # <<>>
                   PROVE  Awake(k)' # {}
        BY Zenon DEF LockWakeup
      <3>1. k # l /\ ~isHeld[k] /\ queue[k] # <<>>
        BY <2>1, <2>3, Zenon DEF LocksOK
      <3>2. PICK t \in Thread : frame[t] = k /\ status[t] \in {"READY", "RUNNING"}
        BY <2>3, <3>1, Zenon DEF LocksOK, LockWakeup, Awake
      <3>3. t # currentThread
        BY <1>1, <3>1, <3>2, Zenon
      <3> QED BY <1>1, <1>2, <2>1, <3>2, <3>3, Zenon DEF Awake
    <2>7. LocksOK'
      BY <1>3, <2>1, <2>3, <2>4, <2>5, <2>6, Zenon DEF LocksOK
    <2> QED BY <2>2, <2>7, InvPartsNext, Zenon
  <1> QED BY <1>4, <1>5, Zenon

\* The holder frees lock l, and a thread that slept in its Acquire, if there is one, is
\* on its way.
LEMMA FreeLockOK ==
    ASSUME ThreadsInv, NEW l \in Lock, isHeldByCurrentThread(l), FreeLock(l), value' = value,
           cpu' \in {"running", "idle", "halted"},
           queue'[l] # <<>> =>
              \E t \in Thread : frame'[t] = l /\ status'[t] \in {"READY", "RUNNING"},
           \A k \in Lock : k # l => queue'[k] = queue[k],
           \A t \in Thread :
              frame[t] \in Lock /\ status[t] \in {"READY", "RUNNING"}
                 => frame'[t] = frame[t] /\ status'[t] \in {"READY", "RUNNING"}
    PROVE  LocksOK'
  <1>1. LocksOK /\ currentThread \in Thread
    BY InvParts, Zenon DEF ThreadsInv, ThreadsTypeOK
  <1>2. /\ isHeld' = [isHeld EXCEPT ![l] = FALSE]
        /\ lockHolder' = [lockHolder EXCEPT ![l] = NULL]
        /\ inside' = [inside EXCEPT ![l] = inside[l] \ {currentThread}]
    BY Zenon DEF FreeLock
  <1>3. inside[l] = {currentThread}
    BY <1>1, ThreadsAssumption, Zenon DEF LocksOK, MutualExclusion, isHeldByCurrentThread
  <1>4. MutualExclusion'
    BY <1>1, <1>2, <1>3, ThreadsAssumption DEF LocksOK, MutualExclusion
  <1>5. LockWakeup'
    <2> SUFFICES ASSUME NEW k \in Lock, ~isHeld'[k], queue'[k] # <<>>
                 PROVE  Awake(k)' # {}
      BY Zenon DEF LockWakeup
    <2>1. CASE k = l
      BY <2>1, Zenon DEF Awake
    <2>2. CASE k # l
      <3>1. ~isHeld[k] /\ queue[k] # <<>>
        BY <1>1, <1>2, <2>2, Zenon DEF LocksOK
      <3> QED BY <1>1, <3>1 DEF LocksOK, LockWakeup, Awake
    <2> QED BY <2>1, <2>2, Zenon
  <1>6. /\ isHeld' \in [Lock -> BOOLEAN]
        /\ lockHolder' \in [Lock -> Thread \cup {NULL}]
        /\ inside' \in [Lock -> SUBSET Thread]
    BY <1>1, <1>2, Zenon DEF LocksOK
  <1> QED BY <1>1, <1>4, <1>5, <1>6, Zenon DEF LocksOK

\* What the list of a lock says of the thread that Release wakes.
LEMMA Released ==
    ASSUME ThreadsInv, NEW l \in Lock
    PROVE  /\ l \in WaitList /\ l \notin Condition
           /\ queue \in [WaitList -> Seq(Thread)]
           /\ Lock \subseteq WaitList
           /\ First(queue[l]) \in Seq(Thread) /\ Rest(queue[l]) \in Seq(Thread)
           /\ IsInjective(First(queue[l])) /\ IsInjective(Rest(queue[l]))
           /\ Range(queue[l]) = Range(First(queue[l])) \cup Range(Rest(queue[l]))
           /\ Range(First(queue[l])) \cap Range(Rest(queue[l])) = {}
           /\ Rest(queue[l]) # <<>> =>
                 \E t \in Thread : frame[t] = l /\ t \in Range(First(queue[l]))
  <1>1. /\ l \in WaitList /\ l \notin Condition /\ Lock \subseteq WaitList
        /\ queue \in [WaitList -> Seq(Thread)] /\ IsInjective(queue[l])
    BY ThreadsAssumption, Zenon DEF WaitList, ThreadsInv, ThreadsTypeOK, OnOneList
  <1>2. /\ First(queue[l]) \in Seq(Thread) /\ Rest(queue[l]) \in Seq(Thread)
        /\ IsInjective(First(queue[l])) /\ IsInjective(Rest(queue[l]))
        /\ Range(queue[l]) = Range(First(queue[l])) \cup Range(Rest(queue[l]))
        /\ Range(First(queue[l])) \cap Range(Rest(queue[l])) = {}
        /\ queue[l] # <<>> => Head(queue[l]) \in Range(First(queue[l])) /\ Head(queue[l]) \in Thread
    BY <1>1, FirstRest, Zenon
  <1>3. ASSUME Rest(queue[l]) # <<>>
        PROVE  \E t \in Thread : frame[t] = l /\ t \in Range(First(queue[l]))
    <2>1. queue[l] # <<>>
      BY <1>3, Zenon DEF Rest
    <2>2. Head(queue[l]) \in Range(queue[l]) /\ Head(queue[l]) \in Thread
      BY <1>2, <2>1, Zenon
    <2>3. frame[Head(queue[l])] = l
      BY <1>1, <2>2, Zenon DEF ThreadsInv, FrameAgrees
    <2> QED BY <1>2, <2>1, <2>2, <2>3, Zenon
  <1> QED BY <1>1, <1>2, <1>3, Zenon

\* Lock::Release.
LEMMA ReleaseInv ==
    ASSUME ThreadsInv, NEW l \in Lock, Release(l)
    PROVE  ThreadsInv'
  <1>1. UNCHANGED <<currentThread, threadToBeDestroyed, frame, cpu, value>>
    BY Zenon DEF Release
  <1>2. CASE isHeldByCurrentThread(l)
    <2> DEFINE ts == First(queue[l])
               rest == Rest(queue[l])
    <2>1. /\ ReadyToRun(ts)
          /\ queue' = [queue EXCEPT ![l] = rest]
          /\ FreeLock(l)
      BY <1>2, Zenon DEF Release
    <2>2. /\ readyList' = readyList \o ts
          /\ status' = [t \in Thread |-> IF t \in Range(ts) THEN "READY" ELSE status[t]]
      BY <2>1, Zenon DEF ReadyToRun, ReadyStatus
    <2>3. /\ l \in WaitList
          /\ queue \in [WaitList -> Seq(Thread)] /\ Lock \subseteq WaitList
          /\ ts \in Seq(Thread) /\ rest \in Seq(Thread)
          /\ IsInjective(ts) /\ IsInjective(rest)
          /\ Range(queue[l]) = Range(ts) \cup Range(rest)
          /\ Range(ts) \cap Range(rest) = {}
          /\ rest # <<>> => \E t \in Thread : frame[t] = l /\ t \in Range(ts)
      BY Released, Zenon
    <2> HIDE DEF ts, rest
    <2>4. Lists'
      <3>1. ListsOK(currentThread, cpu, readyList, status, frame, queue, threadToBeDestroyed)
        BY InvParts, Zenon DEF Lists
      <3>2. /\ status' \in [Thread -> Status]
            /\ \A t \in Thread : status'[t] = IF t \in Range(ts) THEN "READY" ELSE status[t]
        BY <2>2, <3>1, Zenon DEF ListsOK, Status
      <3>3. ListsOK(currentThread, cpu, readyList', status', frame, queue',
                    threadToBeDestroyed)
        BY <2>1, <2>2, <2>3, <3>1, <3>2, WakeLists, Zenon
      <3> QED BY <1>1, <3>3, Zenon DEF Lists
    <2>5. LocksOK'
      <3>1. cpu' \in {"running", "idle", "halted"}
        BY <1>1, Zenon DEF ThreadsInv, ThreadsTypeOK
      <3>2. queue'[l] = rest /\ \A k \in Lock : k # l => queue'[k] = queue[k]
        BY <2>1, <2>3, Zenon
      <3>3. \A t \in Thread : status[t] \in {"READY", "RUNNING"} \/ t \in Range(ts)
                                 => status'[t] \in {"READY", "RUNNING"}
        BY <2>2, Zenon
      <3> QED BY <1>1, <1>2, <2>1, <2>3, <3>1, <3>2, <3>3, FreeLockOK, Zenon
    <2> QED BY <2>4, <2>5, InvPartsNext, Zenon
  <1>3. CASE ~isHeldByCurrentThread(l)
    <2>1. UNCHANGED <<readyList, status, queue, isHeld, lockHolder, inside>>
      BY <1>3, Zenon DEF Release
    <2> QED BY <1>1, <2>1, StutterInv, Zenon DEF threadVars, schedVars, syncVars
  <1> QED BY <1>2, <1>3, Zenon

\* Condition::Wait: release the lock and sleep on the condition.
LEMMA WaitInv ==
    ASSUME ThreadsInv, NEW c \in Condition, NEW l \in Lock, Wait(c, l)
    PROVE  ThreadsInv'
  <1>1. cpu = "running" /\ frame[currentThread] = "user" /\ value' = value
    BY Zenon DEF Wait, InUser
  <1>2. CASE isHeldByCurrentThread(l)
    <2>0. SUFFICES ASSUME NEW ts, ts = First(queue[l]),
                          NEW rest, rest = Rest(queue[l]),
                          NEW r, r = readyList \o ts,
                          NEW st, st = ReadyStatus(ts),
                          NEW q, q = [queue EXCEPT ![l] = rest]
                   PROVE  ThreadsInv'
      BY Zenon
    <2>1. /\ queue' = [queue EXCEPT ![l] = rest, ![c] = Append(@, currentThread)]
          /\ frame' = [frame EXCEPT ![currentThread] = l]
          /\ FreeLock(l)
          /\ Sleep(r, st, threadToBeDestroyed)
      BY <1>2, <2>0, Zenon DEF Wait
    <2>2. /\ l \in WaitList /\ c \in WaitList /\ c # l /\ c \notin Lock
          /\ queue \in [WaitList -> Seq(Thread)] /\ Lock \subseteq WaitList
          /\ ts \in Seq(Thread) /\ rest \in Seq(Thread)
          /\ IsInjective(ts) /\ IsInjective(rest)
          /\ Range(queue[l]) = Range(ts) \cup Range(rest)
          /\ Range(ts) \cap Range(rest) = {}
          /\ rest # <<>> => \E t \in Thread : frame[t] = l /\ t \in Range(ts)
      BY <2>0, Released, ThreadsAssumption DEF WaitList
    <2>3. /\ currentThread \in Thread /\ ThreadsTypeOK
          /\ ListsOK(currentThread, "running", readyList, status, frame, queue,
                     threadToBeDestroyed)
      BY <1>1, CurrentRuns, Zenon
    <2>4. /\ st \in [Thread -> Status]
          /\ \A t \in Thread : st[t] = IF t \in Range(ts) THEN "READY" ELSE status[t]
      BY <2>0, <2>3, Zenon DEF ReadyStatus, ThreadsTypeOK, Status
    <2>5. r = <<>> => readyList = <<>>
      <3>1. readyList \in Seq(Thread) /\ ts \in Seq(Thread)
        BY <2>2, <2>3, Zenon DEF ThreadsTypeOK
      <3>2. Len(readyList) \in Nat /\ Len(ts) \in Nat
        BY <3>1
      <3>3. Len(readyList \o ts) = Len(readyList) + Len(ts)
        BY <3>1
      <3>4. Len(r) = Len(readyList) + Len(ts)
        BY <2>0, <3>3, Zenon
      <3> QED BY <3>1, <3>2, <3>4
    <2>6. /\ q \in [WaitList -> Seq(Thread)] /\ q[l] = rest
          /\ \A k \in WaitList : k # l => q[k] = queue[k]
      BY <2>0, <2>2, Zenon
    <2>7. ListsOK(currentThread, "running", r, st, frame, q, threadToBeDestroyed)
      <3>1. r = readyList \o ts /\ q = [queue EXCEPT ![l] = rest]
        BY <2>0, Zenon
      <3>2. /\ l \in WaitList /\ ts \in Seq(Thread) /\ rest \in Seq(Thread)
            /\ IsInjective(ts) /\ IsInjective(rest)
            /\ Range(queue[l]) = Range(ts) \cup Range(rest)
            /\ Range(ts) \cap Range(rest) = {}
        BY <2>2, Zenon
      <3>3. ListsOK(currentThread, "running", readyList, status, frame, queue,
                    threadToBeDestroyed)
        BY <2>3, Zenon
      <3> QED BY <2>4, <3>1, <3>2, <3>3, WakeLists, Zenon
    <2>8. queue' = [q EXCEPT ![c] = Append(q[c], currentThread)]
      BY <2>0, <2>1, <2>2, Zenon
    <2>9. IF c \in Condition THEN l \in Lock ELSE l = c
      BY Zenon
    <2>10. /\ Lists'
           /\ cpu' \in {"running", "idle"}
           /\ \A t \in Thread : t # currentThread =>
                 (status'[t] \in {"READY", "RUNNING"} <=> st[t] = "READY")
      <3>1. /\ frame' = [frame EXCEPT ![currentThread] = l]
            /\ Sleep(r, st, threadToBeDestroyed)
        BY <2>1, Zenon
      <3>2. c \in WaitList /\ l \in Semaphore \cup Lock /\ ThreadsTypeOK
        BY <2>2, <2>3, Zenon
      <3> QED BY <2>5, <2>7, <2>8, <2>9, <3>1, <3>2, BlockLists, Zenon
    <2>11. LocksOK'
      <3>1. queue'[l] = rest /\ \A k \in Lock : k # l => queue'[k] = queue[k]
        BY <2>2, <2>6, <2>8, Zenon
      <3>2. \A t \in Thread : t # currentThread => frame'[t] = frame[t]
        BY <2>1, <2>3, Zenon DEF ThreadsTypeOK
      <3>3. \A t \in Thread : status[t] = "READY" \/ t \in Range(ts) => st[t] = "READY"
        BY <2>4, Zenon
      <3>4. "user" \notin Lock
        BY ThreadsAssumption, Zenon
      <3>5. \A t \in Thread : frame[t] \in Lock => t # currentThread
        BY <1>1, <3>4, Zenon
      <3>6. \A t \in Thread : status[t] = "RUNNING" => t = currentThread
        BY <1>1, CurrentRuns, Zenon
      <3>7. \A t \in Thread :
              frame[t] \in Lock /\ status[t] \in {"READY", "RUNNING"}
                 => frame'[t] = frame[t] /\ status'[t] \in {"READY", "RUNNING"}
        BY <2>10, <3>2, <3>3, <3>5, <3>6, Zenon
      <3>8. queue'[l] # <<>> =>
               \E t \in Thread : frame'[t] = l /\ status'[t] \in {"READY", "RUNNING"}
        BY <2>2, <2>10, <3>1, <3>2, <3>3, <3>5
      <3> QED BY <1>1, <1>2, <2>1, <2>10, <3>1, <3>7, <3>8, FreeLockOK, Zenon
    <2> QED BY <2>10, <2>11, InvPartsNext, Zenon
  <1>3. CASE ~isHeldByCurrentThread(l)
    <2>1. UNCHANGED <<currentThread, threadToBeDestroyed, status, readyList, frame, cpu,
                      isHeld, lockHolder, queue, inside>>
      BY <1>3, Zenon DEF Wait, schedVars
    <2> QED BY <1>1, <2>1, StutterInv, Zenon DEF threadVars, schedVars, syncVars
  <1> QED BY <1>2, <1>3, Zenon

\* Thread::Yield, by the thread or at the end of a time slice.
LEMMA YieldInv ==
    ASSUME ThreadsInv, Yield
    PROVE  ThreadsInv'
  <1>1. /\ cpu = "running" /\ frame[currentThread] = "user"
        /\ UNCHANGED <<value, isHeld, lockHolder, queue, inside>>
    BY Zenon DEF Yield, InUser, syncVars
  <1>2. CASE readyList = <<>>
    <2>1. UNCHANGED <<currentThread, threadToBeDestroyed, status, readyList, frame, cpu>>
      BY <1>2, Zenon DEF Yield, schedVars
    <2> QED BY <1>1, <2>1, StutterInv, Zenon DEF threadVars, schedVars, syncVars
  <1>3. CASE readyList # <<>>
    <2>0. SUFFICES ASSUME NEW r, r = Append(readyList, currentThread),
                          NEW st, st = [status EXCEPT ![currentThread] = "READY"]
                   PROVE  ThreadsInv'
      BY Zenon
    <2>1. /\ Run(Head(readyList), Append(Tail(readyList), currentThread), st,
                 threadToBeDestroyed)
          /\ frame' = frame
      BY <1>3, <2>0, Zenon DEF Yield
    <2>2. /\ currentThread \in Thread /\ status[currentThread] = "RUNNING"
          /\ currentThread \notin Range(readyList) /\ threadToBeDestroyed # currentThread
          /\ frame[currentThread] # "finish"
          /\ ThreadsTypeOK
          /\ ListsOK(currentThread, "running", readyList, status, frame, queue,
                     threadToBeDestroyed)
      BY <1>1, CurrentRuns, Zenon
    <2>3. readyList \in Seq(Thread) /\ IsInjective(readyList)
      BY <2>2, Zenon DEF ListsOK
    <2>4. /\ r \in Seq(Thread) /\ r # <<>> /\ IsInjective(r)
          /\ Range(r) = Range(readyList) \cup {currentThread}
      <3>1. currentThread \in Thread /\ currentThread \notin Range(readyList)
        BY <2>2, Zenon
      <3>2. /\ Append(readyList, currentThread) \in Seq(Thread)
            /\ Append(readyList, currentThread) # <<>>
            /\ IsInjective(Append(readyList, currentThread))
            /\ Range(Append(readyList, currentThread)) = Range(readyList) \cup {currentThread}
        BY <2>3, <3>1, AppendList
      <3> QED BY <2>0, <3>2, Zenon
    <2>5. Head(r) = Head(readyList) /\ Tail(r) = Append(Tail(readyList), currentThread)
      BY <1>3, <2>0, <2>2, <2>3, AppendHeadTail, Zenon
    <2>6. /\ st \in [Thread -> Status] /\ st[currentThread] = "READY"
          /\ \A t \in Thread : t # currentThread => st[t] = status[t]
      BY <2>0, <2>2, Zenon DEF ThreadsTypeOK, Status
    <2>7. ListsOK(currentThread, "idle", r, st, frame, queue, threadToBeDestroyed)
      BY <2>2, <2>4, <2>6, YieldLists, Zenon
    <2>8. Switched(r, st, threadToBeDestroyed)
      <3>1. Run(Head(r), Tail(r), st, threadToBeDestroyed)
        BY <2>1, <2>5, Zenon
      <3>2. /\ \A t \in Thread : st[t] = "READY" <=> t \in Range(r)
            /\ \A t \in Thread : st[t] # "RUNNING"
            /\ threadToBeDestroyed # NULL => st[threadToBeDestroyed] = "BLOCKED"
            /\ threadToBeDestroyed \in Thread \cup {NULL}
        BY <2>7, Zenon DEF ListsOK
      <3> QED BY <2>2, <2>4, <2>6, <3>1, <3>2, RunSwitches, Zenon
    <2>9. /\ Lists' /\ cpu' \in {"running", "idle"}
          /\ \A t \in Thread : status'[t] \in {"READY", "RUNNING"} <=> st[t] = "READY"
      <3>1. frame = frame' /\ queue = queue'
        BY <1>1, <2>1, Zenon
      <3> QED BY <2>7, <2>8, <3>1, SwitchLists, Zenon
    <2>10. LocksOK'
      <3>1. value' \in [Semaphore -> Nat]
        BY <1>1, <2>2, Zenon DEF ThreadsTypeOK
      <3>2. \A t \in Thread : status[t] \in {"READY", "RUNNING"} =>
                                 status'[t] \in {"READY", "RUNNING"}
        BY <1>1, <2>6, <2>9, CurrentRuns, Zenon
      <3> QED BY <1>1, <2>1, <2>9, <3>1, <3>2, LocksKept, Zenon
    <2> QED BY <2>9, <2>10, InvPartsNext, Zenon
  <1> QED BY <1>2, <1>3, Zenon

\* Thread::Finish.
LEMMA FinishInv ==
    ASSUME ThreadsInv, Finish
    PROVE  ThreadsInv'
  <1>1. /\ cpu = "running" /\ frame[currentThread] = "user"
        /\ UNCHANGED <<value, isHeld, lockHolder, queue, inside>>
        /\ frame' = [frame EXCEPT ![currentThread] = "finish"]
        /\ Sleep(readyList, status, currentThread)
    BY Zenon DEF Finish, InUser, syncVars
  <1>2. /\ currentThread \in Thread /\ status[currentThread] = "RUNNING"
        /\ currentThread \notin Range(readyList)
        /\ ThreadsTypeOK
        /\ \A t \in Thread : status[t] = "RUNNING" => t = currentThread
        /\ ListsOK(currentThread, "running", readyList, status, frame, queue,
                   threadToBeDestroyed)
    BY <1>1, CurrentRuns, Zenon
  <1>0. SUFFICES ASSUME NEW st, st = [status EXCEPT ![currentThread] = "BLOCKED"]
                 PROVE  ThreadsInv'
    BY Zenon
  <1>3. /\ st \in [Thread -> Status] /\ st[currentThread] = "BLOCKED"
        /\ \A t \in Thread : t # currentThread => st[t] = status[t]
    BY <1>0, <1>2, Zenon DEF ThreadsTypeOK, Status
  <1>4. /\ frame' \in [Thread -> {"start", "user", "finish"} \cup Semaphore \cup Lock]
        /\ frame'[currentThread] = "finish"
        /\ \A t \in Thread : t # currentThread => frame'[t] = frame[t]
    BY <1>1, <1>2, Zenon DEF ThreadsTypeOK
  <1>5. \A x \in WaitList : \A t \in Range(queue[x]) : t \in Thread /\ t # currentThread
    <2>1. \A x \in WaitList : currentThread \notin Range(queue[x])
      BY <1>2, Zenon DEF ListsOK
    <2>2. \A x \in WaitList : \A t \in Range(queue[x]) : t \in Thread
      BY <1>2, ListElements, Zenon DEF ListsOK
    <2> QED BY <2>1, <2>2, Zenon
  <1>6. ListsOK(currentThread, "idle", readyList, st, frame', queue, currentThread)
    BY <1>2, <1>3, <1>4, <1>5, FinishLists
  <1>7. Switched(readyList, st, currentThread)
    <2>1. /\ readyList \in Seq(Thread) /\ IsInjective(readyList) /\ status \in [Thread -> Status]
          /\ \A t \in Thread : status[t] = "READY" <=> t \in Range(readyList)
      BY <1>2, Zenon DEF ListsOK
    <2>2. Switched(readyList, [status EXCEPT ![currentThread] = "BLOCKED"], currentThread)
      BY <1>1, <1>2, <2>1, SleepSwitches, Zenon
    <2> QED BY <1>0, <2>2, Zenon
  <1>8. /\ Lists' /\ cpu' \in {"running", "idle"}
        /\ \A t \in Thread : status'[t] \in {"READY", "RUNNING"} <=> st[t] = "READY"
    <2>1. queue = queue'
      BY <1>1, Zenon
    <2> QED BY <1>6, <1>7, <2>1, SwitchLists, Zenon
  <1>9. LocksOK'
    <2>1. value' \in [Semaphore -> Nat]
      BY <1>1, <1>2, Zenon DEF ThreadsTypeOK
    <2>2. "user" \notin Lock
      BY ThreadsAssumption, Zenon
    <2>3. \A t \in Thread : frame[t] \in Lock /\ status[t] \in {"READY", "RUNNING"}
                => frame'[t] = frame[t] /\ status'[t] \in {"READY", "RUNNING"}
      BY <1>1, <1>2, <1>3, <1>4, <1>8, <2>2, Zenon
    <2> QED BY <1>1, <1>8, <2>1, <2>3, LocksKept, Zenon
  <1> QED BY <1>8, <1>9, InvPartsNext, Zenon

\* The idle loop of Thread::Sleep finds a thread that a handler made ready.
LEMMA WakeFromIdleInv ==
    ASSUME ThreadsInv, WakeFromIdle
    PROVE  ThreadsInv'
  <1>1. /\ cpu = "idle" /\ readyList # <<>>
        /\ Run(Head(readyList), Tail(readyList), status, threadToBeDestroyed)
        /\ UNCHANGED <<frame, value, isHeld, lockHolder, queue, inside>>
    BY Zenon DEF WakeFromIdle, syncVars
  <1>2. /\ ListsOK(currentThread, "idle", readyList, status, frame, queue,
                   threadToBeDestroyed)
        /\ ThreadsTypeOK
    BY <1>1, InvParts, Zenon DEF Lists, ThreadsInv
  <1>3. Switched(readyList, status, threadToBeDestroyed)
    BY <1>1, <1>2, RunSwitches, Zenon DEF ListsOK
  <1>4. /\ Lists' /\ cpu' \in {"running", "idle"}
        /\ \A t \in Thread : status'[t] \in {"READY", "RUNNING"} <=> status[t] = "READY"
    <2>1. frame = frame' /\ queue = queue'
      BY <1>1, Zenon
    <2> QED BY <1>2, <1>3, <2>1, SwitchLists, Zenon
  <1>5. LocksOK'
    <2>1. value' \in [Semaphore -> Nat] /\ \A t \in Thread : status[t] # "RUNNING"
      BY <1>1, <1>2, Zenon DEF ThreadsTypeOK, ListsOK
    <2> QED BY <1>1, <1>4, <2>1, LocksKept, Zenon
  <1> QED BY <1>4, <1>5, InvPartsNext, Zenon

\* Interrupt::Idle halts the machine.
LEMMA HaltInv ==
    ASSUME ThreadsInv, Halt
    PROVE  ThreadsInv'
  <1>1. /\ cpu = "idle" /\ cpu' = "halted"
        /\ UNCHANGED <<currentThread, threadToBeDestroyed, status, readyList, frame, value,
                       isHeld, lockHolder, queue, inside>>
    BY Zenon DEF Halt, syncVars
  <1>2. ThreadsTypeOK'
    BY <1>1, Zenon DEF ThreadsInv, ThreadsTypeOK
  <1>3. OnOneList' /\ CarcassIsDead' /\ FrameAgrees'
    BY <1>1, Zenon DEF ThreadsInv, OnOneList, CarcassIsDead, FrameAgrees
  <1>4. NoThreadLost'
    BY <1>1, Zenon DEF ThreadsInv, NoThreadLost
  <1>5. MutualExclusion' /\ LockWakeup'
    BY <1>1, Zenon DEF ThreadsInv, MutualExclusion, LockWakeup, Awake
  <1> QED BY <1>2, <1>3, <1>4, <1>5, Zenon DEF ThreadsInv

\* A thread continues inside the kernel.
LEMMA ResumeInv ==
    ASSUME ThreadsInv, Resume
    PROVE  ThreadsInv'
  <1>1. ASSUME NEW s \in Semaphore, ResumeP(s) PROVE ThreadsInv'
    BY <1>1, DoPInv, Zenon DEF ResumeP
  <1>2. ASSUME NEW l \in Lock, ResumeAcquire(l) PROVE ThreadsInv'
    BY <1>2, DoAcquireInv, Zenon DEF ResumeAcquire
  <1> QED BY <1>1, <1>2, ThreadRootInv, Zenon DEF Resume

\* system.cc Initialize establishes the invariant.
LEMMA ThreadsInitInv ==
    ASSUME NEW iv \in [Semaphore -> Nat], ThreadsInit(iv)
    PROVE  ThreadsInv
  <1>1. Range(<<>>) = {} /\ IsInjective(<<>>)
    BY DEF Range, IsInjective
  <1>2. \A q \in WaitList : queue[q] = <<>>
    BY Zenon DEF ThreadsInit
  <1>3. ThreadsTypeOK
    BY ThreadsAssumption DEF ThreadsInit, ThreadsTypeOK, Status
  <1>4. OnOneList
    BY <1>1, <1>2, Zenon DEF ThreadsInit, OnOneList
  <1>5. NoThreadLost
    BY <1>1, <1>2, Zenon DEF ThreadsInit, NoThreadLost
  <1>6. MutualExclusion /\ LockWakeup /\ CarcassIsDead
    BY ThreadsAssumption, <1>2, Zenon DEF ThreadsInit, MutualExclusion, LockWakeup, CarcassIsDead,
                                          WaitList
  <1>7. FrameAgrees
    BY <1>1, <1>2, Zenon DEF ThreadsInit, FrameAgrees
  <1> QED BY <1>3, <1>4, <1>5, <1>6, <1>7, Zenon DEF ThreadsInv

=============================================================================
