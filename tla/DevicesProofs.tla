---------------------------- MODULE DevicesProofs ----------------------------
(***************************************************************************)
(* Simulated time for any times, disk geometry, keyboard input and         *)
(* settings: interrupts are called when they are due, the machine halts    *)
(* only when its program is done, ConsoleTest echoes what is typed, the    *)
(* disk takes the time its head needs, and time slices are bounded.        *)
(***************************************************************************)
EXTENDS Devices, FiniteSetTheorems, TLAPS

Inv == DevicesInv /\ HaltsWhenDone /\ EchoesInput /\ LatencyIsRotation

-----------------------------------------------------------------------------
(***************************************************************************)
(* The list of pending interrupts.                                         *)
(***************************************************************************)
Sorted(list) ==
    \A i, j \in DOMAIN list :
        i < j => list[i].when <= list[j].when /\ list[i].type # list[j].type

Types(list) == {list[i].type : i \in DOMAIN list}

\* A set of natural numbers that is not empty has a least element, and Min finds it.
LEMMA MinOfSet ==
    ASSUME NEW S \in SUBSET Nat, S # {}
    PROVE  Min(S) \in S /\ \A x \in S : Min(S) <= x
  <1> DEFINE R == {ss \in Nat \X Nat : ss[1] < ss[2]}
  <1>1. IsWellFoundedOn(OpToRel(<, Nat), Nat)
    BY NatLessThanWellFounded, Zenon
  <1>2. R \cap (Nat \X Nat) \subseteq OpToRel(<, Nat)
    BY Zenon DEF OpToRel
  <1>3. IsWellFoundedOn(R, Nat)
    BY <1>1, <1>2, IsWellFoundedOnSubrelation, Zenon
  <1>4. PICK x \in S : \A y \in S : ~(<<y, x>> \in R)
    <2> HIDE DEF R
    <2> QED BY <1>3, WFMin, Zenon
  <1>5. ASSUME NEW y \in S PROVE x <= y
    <2>1. x \in Nat /\ y \in Nat /\ (y < x => <<y, x>> \in R)
      BY Zenon
    <2> QED BY <1>4, <2>1
  <1> QED BY <1>5, Zenon DEF Min

\* List::SortedInsert puts the element behind those that are not bigger and in front of the
\* others, which keep their order.
LEMMA InsertedWhere ==
    ASSUME NEW list \in Seq(PendingInterrupt), Sorted(list), NEW int \in PendingInterrupt
    PROVE  \E n \in 0..Len(list) :
             /\ \A i \in 1..n : list[i].when <= int.when
             /\ \A i \in (n + 1)..Len(list) : list[i].when > int.when
             /\ SortedInsert(list, int) =
                  [i \in 1..(Len(list) + 1) |->
                      IF i <= n THEN list[i] ELSE IF i = n + 1 THEN int ELSE list[i - 1]]
  <1> DEFINE after == {i \in DOMAIN list : list[i].when > int.when}
             S == after \cup {Len(list) + 1}
  <1>1. /\ Len(list) \in Nat /\ DOMAIN list = 1..Len(list)
        /\ \A i \in DOMAIN list : list[i] \in PendingInterrupt
    OBVIOUS
  <1>2. S \in SUBSET Nat /\ S # {}
    BY <1>1
  <1>3. PICK next : next = Min(S)
    OBVIOUS
  <1>4. next \in S /\ \A x \in S : next <= x
    BY <1>2, <1>3, MinOfSet, Zenon
  <1>5. next \in 1..(Len(list) + 1)
    BY <1>1, <1>4
  <1>6. ASSUME NEW i \in 1..(next - 1) PROVE list[i].when <= int.when
    <2>1. i \in DOMAIN list /\ i \notin after
      BY <1>1, <1>4, <1>5
    <2>2. list[i].when \in Nat /\ int.when \in Nat
      BY <1>1, <2>1 DEF PendingInterrupt
    <2> QED BY <2>1, <2>2
  <1>7. ASSUME NEW i \in next..Len(list) PROVE list[i].when > int.when
    <2>1. next \in DOMAIN list /\ i \in DOMAIN list
      BY <1>1, <1>5
    <2>2. list[next].when > int.when
      BY <1>1, <1>4, <2>1
    <2>3. list[i].when \in Nat /\ int.when \in Nat /\ list[next].when \in Nat
      BY <1>1, <2>1, Zenon DEF PendingInterrupt
    <2>4. next = i \/ next < i
      BY <1>1, <1>5
    <2>5. next < i => list[next].when <= list[i].when
      BY <2>1, Zenon DEF Sorted
    <2> QED BY <2>2, <2>3, <2>4, <2>5
  <1>8. SortedInsert(list, int) =
          SubSeq(list, 1, next - 1) \o <<int>> \o SubSeq(list, next, Len(list))
    BY <1>3, Zenon DEF SortedInsert
  <1>9. SubSeq(list, 1, next - 1) \o <<int>> \o SubSeq(list, next, Len(list)) =
          [i \in 1..(Len(list) + 1) |->
              IF i <= next - 1 THEN list[i]
              ELSE IF i = next - 1 + 1 THEN int ELSE list[i - 1]]
    <2> DEFINE a == SubSeq(list, 1, next - 1)
               b == SubSeq(list, next, Len(list))
               c == a \o <<int>>
               r == c \o b
    <2>1. /\ a \in Seq(PendingInterrupt) /\ Len(a) = next - 1
          /\ \A i \in 1..(next - 1) : a[i] = list[i]
      BY <1>1, <1>5
    <2>2. /\ b \in Seq(PendingInterrupt) /\ Len(b) = Len(list) - next + 1
          /\ \A i \in 1..(Len(list) - next + 1) : b[i] = list[next + i - 1]
      BY <1>1, <1>5
    <2>3. <<int>> \in Seq(PendingInterrupt) /\ Len(<<int>>) = 1 /\ <<int>>[1] = int
      OBVIOUS
    <2> HIDE DEF a, b
    <2>4. /\ c \in Seq(PendingInterrupt) /\ Len(c) = next
          /\ \A i \in 1..(next - 1) : c[i] = list[i]
          /\ c[next] = int
      BY <1>5, <2>1, <2>3
    <2> HIDE DEF c
    <2>5. /\ r \in Seq(PendingInterrupt) /\ Len(r) = Len(list) + 1
          /\ \A i \in 1..next : r[i] = c[i]
          /\ \A i \in (next + 1)..(Len(list) + 1) : r[i] = b[i - next]
      BY <1>1, <1>5, <2>2, <2>4
    <2> HIDE DEF r
    <2>6. \A i \in (next + 1)..(Len(list) + 1) : r[i] = list[i - 1]
      BY <1>1, <1>5, <2>2, <2>5
    <2>7. r = [i \in 1..(Len(list) + 1) |-> r[i]]
      BY <2>5
    <2>8. \A i \in 1..(Len(list) + 1) :
            r[i] = IF i <= next - 1 THEN list[i]
                   ELSE IF i = next - 1 + 1 THEN int ELSE list[i - 1]
      BY <1>1, <1>5, <2>4, <2>5, <2>6
    <2>9. r = [i \in 1..(Len(list) + 1) |->
                 IF i <= next - 1 THEN list[i]
                 ELSE IF i = next - 1 + 1 THEN int ELSE list[i - 1]]
      BY <2>7, <2>8
    <2> QED BY <2>9, Zenon DEF r, c, a, b
  <1>10. /\ next - 1 \in 0..Len(list)
         /\ \A i \in 1..(next - 1) : list[i].when <= int.when
         /\ \A i \in (next - 1 + 1)..Len(list) : list[i].when > int.when
    BY <1>1, <1>5, <1>6, <1>7
  <1> HIDE DEF after, S
  <1> QED BY <1>8, <1>9, <1>10

\* The list stays sorted, with one entry more.
LEMMA Inserted ==
    ASSUME NEW list \in Seq(PendingInterrupt), Sorted(list),
           NEW int \in PendingInterrupt, int.type \notin Types(list),
           NEW s, s = SortedInsert(list, int)
    PROVE  /\ s \in Seq(PendingInterrupt) /\ Sorted(s)
           /\ Len(s) = Len(list) + 1
           /\ \A i \in DOMAIN s : s[i] = int \/ \E k \in DOMAIN list : s[i] = list[k]
           /\ Types(s) = Types(list) \cup {int.type}
  <1>1. PICK n \in 0..Len(list) :
          /\ \A i \in 1..n : list[i].when <= int.when
          /\ \A i \in (n + 1)..Len(list) : list[i].when > int.when
          /\ s = [i \in 1..(Len(list) + 1) |->
                    IF i <= n THEN list[i] ELSE IF i = n + 1 THEN int ELSE list[i - 1]]
    BY InsertedWhere, Zenon
  <1>2. /\ Len(list) \in Nat /\ DOMAIN list = 1..Len(list)
        /\ \A i \in DOMAIN list : list[i] \in PendingInterrupt
    OBVIOUS
  <1>3. s \in Seq(PendingInterrupt) /\ Len(s) = Len(list) + 1
        /\ DOMAIN s = 1..(Len(list) + 1)
    BY <1>1, <1>2
  <1>4. /\ \A i \in 1..n : s[i] = list[i] /\ i \in DOMAIN list
        /\ s[n + 1] = int /\ n + 1 \in DOMAIN s
        /\ \A i \in (n + 2)..(Len(list) + 1) : s[i] = list[i - 1] /\ i - 1 \in DOMAIN list
    BY <1>1, <1>2, <1>3
  <1>5. ASSUME NEW i \in DOMAIN s
        PROVE  i \in 1..n \/ i = n + 1 \/ i \in (n + 2)..(Len(list) + 1)
    BY <1>2, <1>3
  <1>6. \A i \in DOMAIN s : s[i] = int \/ \E k \in DOMAIN list : s[i] = list[k]
    BY <1>4, <1>5, Zenon
  <1>7. ASSUME NEW i \in DOMAIN s, NEW j \in DOMAIN s, i < j
        PROVE  s[i].when <= s[j].when /\ s[i].type # s[j].type
    <2>1. \A k \in DOMAIN list : list[k].type # int.type
      BY Zenon DEF Types
    <2>2. CASE i \in 1..n /\ j \in 1..n
      BY <1>2, <1>4, <1>7, <2>2 DEF Sorted
    <2>3. CASE i \in 1..n /\ j = n + 1
      BY <1>1, <1>4, <2>1, <2>3
    <2>4. CASE i \in 1..n /\ j \in (n + 2)..(Len(list) + 1)
      <3>1. i < j - 1 /\ i \in DOMAIN list /\ j - 1 \in DOMAIN list
        BY <1>2, <1>4, <2>4
      <3> QED BY <1>4, <2>4, <3>1 DEF Sorted
    <2>5. CASE i = n + 1 /\ j \in (n + 2)..(Len(list) + 1)
      <3>1. j - 1 \in (n + 1)..Len(list) /\ j - 1 \in DOMAIN list
        BY <1>2, <1>4, <2>5
      <3>2. list[j - 1].when > int.when /\ list[j - 1].when \in Nat /\ int.when \in Nat
        BY <1>1, <1>2, <3>1 DEF PendingInterrupt
      <3> QED BY <1>4, <2>1, <2>5, <3>1, <3>2
    <2>6. CASE i \in (n + 2)..(Len(list) + 1) /\ j \in (n + 2)..(Len(list) + 1)
      <3>1. i - 1 < j - 1 /\ i - 1 \in DOMAIN list /\ j - 1 \in DOMAIN list
        BY <1>2, <1>4, <1>7, <2>6
      <3> QED BY <1>4, <2>6, <3>1 DEF Sorted
    <2> QED BY <1>2, <1>5, <1>7, <2>2, <2>3, <2>4, <2>5, <2>6
  <1>8. ASSUME NEW k \in DOMAIN list PROVE \E i \in DOMAIN s : s[i] = list[k]
    <2>1. CASE k <= n
      BY <1>2, <1>3, <1>4, <2>1
    <2>2. CASE k > n
      <3>1. k + 1 \in (n + 2)..(Len(list) + 1) /\ k + 1 \in DOMAIN s /\ k + 1 - 1 = k
        BY <1>2, <1>3, <2>2
      <3> QED BY <1>4, <3>1
    <2> QED BY <1>2, <2>1, <2>2
  <1>9. Types(s) = Types(list) \cup {int.type}
    <2>1. int.type \in Types(s)
      BY <1>4, Zenon DEF Types
    <2>2. ASSUME NEW k \in DOMAIN list PROVE list[k].type \in Types(s)
      BY <1>8, Zenon DEF Types
    <2>3. ASSUME NEW i \in DOMAIN s PROVE s[i].type \in Types(list) \cup {int.type}
      BY <1>6, Zenon DEF Types
    <2>4. Types(list) \cup {int.type} \subseteq Types(s)
      BY <2>1, <2>2 DEF Types
    <2>5. Types(s) \subseteq Types(list) \cup {int.type}
      BY <2>3 DEF Types
    <2> QED BY <2>4, <2>5, Zenon
  <1> QED BY <1>3, <1>6, <1>7, <1>9, Zenon DEF Sorted

\* Taking the first interrupt off the list (List::SortedRemove).
LEMMA FirstRemoved ==
    ASSUME NEW list \in Seq(PendingInterrupt), Sorted(list), list # <<>>,
           NEW s, s = Tail(list)
    PROVE  /\ s \in Seq(PendingInterrupt) /\ Sorted(s)
           /\ Head(list) \in PendingInterrupt
           /\ Head(list).type \in Types(list)
           /\ \A i \in DOMAIN s : i + 1 \in DOMAIN list /\ s[i] = list[i + 1]
           /\ Types(s) = Types(list) \ {Head(list).type}
           /\ \A i \in DOMAIN list : Head(list).when <= list[i].when
  <1>1. /\ Len(list) \in Nat \ {0} /\ DOMAIN list = 1..Len(list)
        /\ Head(list) = list[1] /\ list[1] \in PendingInterrupt
        /\ s \in Seq(PendingInterrupt) /\ DOMAIN s = 1..(Len(list) - 1)
        /\ \A i \in DOMAIN s : s[i] = list[i + 1]
        /\ \A i \in DOMAIN list : list[i] \in PendingInterrupt
    OBVIOUS
  <1>2. \A i \in DOMAIN s : i + 1 \in DOMAIN list /\ 1 < i + 1
    BY <1>1
  <1>3. 1 \in DOMAIN list
    BY <1>1
  <1>4. Sorted(s)
    BY <1>1, <1>2 DEF Sorted
  <1>5. \A i \in DOMAIN list : i = 1 \/ (i - 1 \in DOMAIN s /\ s[i - 1] = list[i] /\ 1 < i)
    BY <1>1
  <1>6. \A i \in DOMAIN s : s[i].type # list[1].type
    BY <1>1, <1>2, <1>3 DEF Sorted
  <1>7. Types(s) = Types(list) \ {Head(list).type}
    <2>1. ASSUME NEW i \in DOMAIN s
          PROVE  s[i].type \in Types(list) /\ s[i].type # Head(list).type
      BY <1>1, <1>2, <1>6, Zenon DEF Types
    <2>2. ASSUME NEW i \in DOMAIN list, list[i].type # Head(list).type
          PROVE  list[i].type \in Types(s)
      <3>1. i # 1
        BY <1>1, <2>2, Zenon
      <3>2. i - 1 \in DOMAIN s /\ s[i - 1] = list[i]
        BY <1>5, <3>1, Zenon
      <3> QED BY <3>2, Zenon DEF Types
    <2> QED BY <2>1, <2>2, ZenonT(40) DEF Types
  <1>8. \A i \in DOMAIN list : list[1].when <= list[i].when
    <2> SUFFICES ASSUME NEW i \in DOMAIN list PROVE list[1].when <= list[i].when
      OBVIOUS
    <2>1. CASE i = 1
      BY <1>1, <2>1 DEF PendingInterrupt
    <2>2. CASE i # 1
      BY <1>3, <1>5, <2>2 DEF Sorted
    <2> QED BY <2>1, <2>2, Zenon
  <1>9. Head(list).type \in Types(list)
    BY <1>1, <1>3, Zenon DEF Types
  <1> QED BY <1>1, <1>2, <1>4, <1>7, <1>8, <1>9, Zenon

-----------------------------------------------------------------------------
(***************************************************************************)
(* Interrupt handlers.                                                     *)
(***************************************************************************)
\* The times and the geometry of the disk are positive.
LEMMA Times ==
    /\ UserTick \in Nat \ {0} /\ SystemTick \in Nat \ {0} /\ ConsoleTime \in Nat \ {0}
    /\ TimerTicks \in Nat \ {0} /\ RotationTime \in Nat \ {0} /\ SeekTime \in Nat \ {0}
    /\ SectorsPerTrack \in Nat \ {0} /\ NumTracks \in Nat \ {0}
  BY DevicesAssumption, Zenon

Semaphores == {"readAvail", "writeDone", "disk"}

\* What Semaphore::V does to the semaphore and the ready list.
LEMMA VWakes ==
    ASSUME TypeOK, NEW sem \in Semaphores, NEW t \in {Echo, Client}, V(sem, t)
    PROVE  /\ value' \in [Semaphores -> Nat]
           /\ value'[sem] = value[sem] + 1
           /\ \A x \in Semaphores : x # sem => value'[x] = value[x]
           /\ ready' \in Seq(setting.threads)
           /\ Range(ready) \subseteq Range(ready')
           /\ t \in asleep /\ at[t] = sem => t \in Range(ready')
           /\ \/ ready' = ready /\ since' = since
              \/ ready = <<>> /\ since' = totalTicks
              \/ ready # <<>> /\ since' = since
  <1>1. value \in [Semaphores -> Nat] /\ ready \in Seq(setting.threads)
    BY Zenon DEF TypeOK, Semaphores
  <1>2. /\ value' \in [Semaphores -> Nat]
        /\ value'[sem] = value[sem] + 1
        /\ \A x \in Semaphores : x # sem => value'[x] = value[x]
    BY <1>1 DEF V
  <1>3. CASE t \in asleep /\ at[t] = sem
    <2>1. /\ ready' = Append(ready, t)
          /\ since' = IF ready = <<>> THEN totalTicks ELSE since
      BY <1>3, Zenon DEF V
    <2>2. t \in setting.threads
      BY <1>3, Zenon DEF TypeOK
    <2>3. /\ ready' \in Seq(setting.threads) /\ Len(ready') = Len(ready) + 1
          /\ Len(ready) \in Nat /\ DOMAIN ready = 1..Len(ready)
          /\ DOMAIN ready' = 1..(Len(ready) + 1)
          /\ ready'[Len(ready) + 1] = t
          /\ \A i \in 1..Len(ready) : ready'[i] = ready[i]
      BY <1>1, <2>1, <2>2
    <2>4. /\ \A i \in DOMAIN ready : i \in DOMAIN ready' /\ ready'[i] = ready[i]
          /\ Len(ready) + 1 \in DOMAIN ready'
      BY <2>3
    <2>5. Range(ready) \subseteq Range(ready') /\ t \in Range(ready')
      BY <2>3, <2>4, Zenon DEF Range
    <2> QED BY <1>2, <2>1, <2>3, <2>5, Zenon
  <1>4. CASE ~(t \in asleep /\ at[t] = sem)
    <2>1. ready' = ready /\ since' = since
      BY <1>4, Zenon DEF V
    <2> QED BY <1>1, <1>2, <1>4, <2>1, Zenon
  <1> QED BY <1>3, <1>4, Zenon

\* What a handler leaves behind, called at time now.
Handled(now) ==
    /\ pending' \in Seq(PendingInterrupt) /\ Sorted(pending')
    /\ \A i \in DOMAIN pending' : pending'[i].type = "Timer" =>
         \/ \E k \in DOMAIN pending : pending'[i] = pending[k]
         \/ yieldOnReturn' /\ pending'[i].when <= now + 2 * TimerTicks
    /\ yieldOnReturn => yieldOnReturn'
    /\ {yieldOnReturn', putBusy', active'} \subseteq BOOLEAN
    /\ ready' \in Seq(setting.threads)
    /\ \/ ready' = ready /\ since' = since
       \/ ready = <<>> /\ since' = totalTicks
       \/ ready # <<>> /\ since' = since
    /\ value' \in [Semaphores -> Nat]
    /\ incoming' \in Char \cup {EOF} /\ display' \in Seq(Char)
    /\ typed' \in 0..Len(Keyboard)
    /\ lastSector' = lastSector /\ bufferInit' = bufferInit
    /\ UNCHANGED <<setting, current, at, asleep>>
    /\ InterruptsPending' /\ ClientAwaited' /\ EchoesInput' /\ LatencyIsRotation'

\* The list without its first interrupt.
LEMMA Rest ==
    ASSUME DevicesInv, pending # <<>>, NEW rest, rest = Tail(pending)
    PROVE  /\ rest \in Seq(PendingInterrupt) /\ Sorted(rest)
           /\ \A i \in DOMAIN rest : \E k \in DOMAIN pending : rest[i] = pending[k]
           /\ Types(rest) = Types(pending) \ {Head(pending).type}
           /\ Head(pending).type \in Types(pending)
           /\ Head(pending).type \notin Types(rest)
           /\ Head(pending) \in PendingInterrupt
  <1>1. pending \in Seq(PendingInterrupt) /\ Sorted(pending)
    BY Zenon DEF DevicesInv, TypeOK, Sorted
  <1> QED BY <1>1, FirstRemoved, Zenon

\* s is a list of interrupts that has one of this time and type besides those of list.
Added(s, list, when, type) ==
    /\ s \in Seq(PendingInterrupt) /\ Sorted(s)
    /\ Len(s) = Len(list) + 1
    /\ \A i \in DOMAIN s : \/ s[i].when = when /\ s[i].type = type
                           \/ \E k \in DOMAIN list : s[i] = list[k]
    /\ Types(s) = Types(list) \cup {type}

\* Interrupt::Schedule of an interrupt that is not pending.
LEMMA Scheduled ==
    ASSUME NEW list \in Seq(PendingInterrupt), Sorted(list), NEW now \in Nat,
           NEW fromNow \in Nat,
           NEW type \in {"Timer", "ConsoleRead", "ConsoleWrite", "Disk"}, type \notin Types(list),
           NEW s, s = Schedule(list, now, fromNow, type)
    PROVE  Added(s, list, now + fromNow, type)
  <1> DEFINE int == [when |-> now + fromNow, type |-> type]
  <1>1. int \in PendingInterrupt /\ int.when = now + fromNow /\ int.type = type
    BY DEF PendingInterrupt
  <1>2. s = SortedInsert(list, int)
    BY Zenon DEF Schedule
  <1> HIDE DEF int
  <1>3. /\ s \in Seq(PendingInterrupt) /\ Sorted(s)
        /\ Len(s) = Len(list) + 1
        /\ \A i \in DOMAIN s : s[i] = int \/ \E k \in DOMAIN list : s[i] = list[k]
        /\ Types(s) = Types(list) \cup {int.type}
    BY <1>1, <1>2, Inserted, Zenon
  <1> QED BY <1>1, <1>3, Zenon DEF Added

\* The types of what InterruptsPending is about.
LEMMA PendingTypes ==
    ASSUME TypeOK
    PROVE  InterruptsPending <=> /\ "Timer" \in Types(pending) <=> setting.rs
                                 /\ "ConsoleRead" \in Types(pending) <=> Echo \in setting.threads
                                 /\ "ConsoleWrite" \in Types(pending) <=> putBusy
                                 /\ "Disk" \in Types(pending) <=> active
  BY Zenon DEF InterruptsPending, Types

\* TimerExpired starts the timer again.
LEMMA TimerHandled ==
    ASSUME Inv, pending # <<>>, NEW now \in Nat, Head(pending).type = "Timer",
           TimerExpired(Tail(pending), now), UNCHANGED <<setting, current, at, ch, asleep>>
    PROVE  Handled(now)
  <1> DEFINE rest == Tail(pending)
  <1>1. /\ rest \in Seq(PendingInterrupt) /\ Sorted(rest)
        /\ \A i \in DOMAIN rest : \E k \in DOMAIN pending : rest[i] = pending[k]
        /\ Types(rest) = Types(pending) \ {"Timer"}
        /\ "Timer" \in Types(pending)
    BY Rest, Zenon DEF Inv
  <1> HIDE DEF rest
  <1>2. PICK fromNow \in TimeOfNextInterrupt : pending' = Schedule(rest, now, fromNow, "Timer")
    BY Zenon DEF TimerExpired, rest
  <1>3. fromNow \in Nat /\ fromNow <= 2 * TimerTicks /\ TimerTicks \in Nat
    BY <1>2, Times DEF TimeOfNextInterrupt
  <1>4. "Timer" \notin Types(rest)
    BY <1>1, Zenon
  <1>5. /\ pending' \in Seq(PendingInterrupt) /\ Sorted(pending')
        /\ \A i \in DOMAIN pending' :
             \/ pending'[i].when = now + fromNow /\ pending'[i].type = "Timer"
             \/ \E k \in DOMAIN rest : pending'[i] = rest[k]
        /\ Types(pending') = Types(rest) \cup {"Timer"}
    <2>1. /\ rest \in Seq(PendingInterrupt) /\ Sorted(rest) /\ fromNow \in Nat
          /\ "Timer" \in {"Timer", "ConsoleRead", "ConsoleWrite", "Disk"}
      BY <1>1, <1>3, Zenon
    <2>2. Added(pending', rest, now + fromNow, "Timer")
      BY <1>2, <1>4, <2>1, Scheduled, Zenon
    <2> QED BY <2>2, Zenon DEF Added
  <1>6. Types(pending') = Types(pending)
    BY <1>1, <1>5, Zenon
  <1>7. /\ yieldOnReturn' = TRUE
        /\ UNCHANGED <<value, ready, since, console, disk, setting, current, at, ch, asleep>>
    BY Zenon DEF TimerExpired, TimerInterruptHandler
  <1>8. now + fromNow <= now + 2 * TimerTicks
    BY <1>3
  <1>9. \A i \in DOMAIN pending' : pending'[i].type = "Timer" =>
          \/ \E k \in DOMAIN pending : pending'[i] = pending[k]
          \/ yieldOnReturn' /\ pending'[i].when <= now + 2 * TimerTicks
    BY <1>1, <1>5, <1>7, <1>8, Zenon
  <1>10. InterruptsPending'
    BY <1>6, <1>7, Zenon DEF Inv, DevicesInv, InterruptsPending, Types, console, disk
  <1>11. ClientAwaited' /\ EchoesInput'
    BY <1>7, Zenon DEF Inv, DevicesInv, ClientAwaited, EchoesInput, console, disk
  <1>12. LatencyIsRotation'
    BY <1>7, Zenon DEF Inv, LatencyIsRotation, Passes, console, disk
  <1> QED BY <1>5, <1>7, <1>9, <1>10, <1>11, <1>12, Zenon
          DEF Handled, Inv, DevicesInv, TypeOK, console, disk, Semaphores

\* CheckCharAvail polls again, and puts a character into an empty buffer.
LEMMA ReadHandled ==
    ASSUME Inv, pending # <<>>, NEW now \in Nat, Head(pending).type = "ConsoleRead",
           CheckCharAvail(Tail(pending), now), UNCHANGED <<setting, current, at, ch, asleep>>
    PROVE  Handled(now)
  <1> DEFINE rest == Tail(pending)
  <1>0. TypeOK /\ InterruptsPending /\ ClientAwaited /\ EchoesInput
    BY Zenon DEF Inv, DevicesInv
  <1>1. /\ rest \in Seq(PendingInterrupt) /\ Sorted(rest)
        /\ \A i \in DOMAIN rest : \E k \in DOMAIN pending : rest[i] = pending[k]
        /\ Types(rest) = Types(pending) \ {"ConsoleRead"}
        /\ "ConsoleRead" \in Types(pending)
    BY Rest, Zenon DEF Inv
  <1> HIDE DEF rest
  <1>2. pending' = Schedule(rest, now, ConsoleTime, "ConsoleRead")
    BY Zenon DEF CheckCharAvail, rest
  <1>3. ConsoleTime \in Nat
    BY Times
  <1>4. "ConsoleRead" \notin Types(rest)
    BY <1>1, Zenon
  <1>5. /\ pending' \in Seq(PendingInterrupt) /\ Sorted(pending')
        /\ \A i \in DOMAIN pending' :
             \/ pending'[i].when = now + ConsoleTime /\ pending'[i].type = "ConsoleRead"
             \/ \E k \in DOMAIN rest : pending'[i] = rest[k]
        /\ Types(pending') = Types(rest) \cup {"ConsoleRead"}
    <2>1. /\ rest \in Seq(PendingInterrupt) /\ Sorted(rest) /\ ConsoleTime \in Nat
          /\ "ConsoleRead" \in {"Timer", "ConsoleRead", "ConsoleWrite", "Disk"}
      BY <1>1, <1>3, Zenon
    <2>2. Added(pending', rest, now + ConsoleTime, "ConsoleRead")
      BY <1>2, <1>4, <2>1, Scheduled, Zenon
    <2> QED BY <2>2, Zenon DEF Added
  <1>6. Types(pending') = Types(pending)
    BY <1>1, <1>5, Zenon
  <1>7. UNCHANGED <<yieldOnReturn, putBusy, display, disk, setting, current, at, ch, asleep>>
    BY Zenon DEF CheckCharAvail
  <1>8. \A i \in DOMAIN pending' : pending'[i].type = "Timer" =>
          \E k \in DOMAIN pending : pending'[i] = pending[k]
    BY <1>1, <1>5, Zenon
  <1>9. InterruptsPending'
    BY <1>0, <1>6, <1>7, Zenon DEF InterruptsPending, Types, disk
  <1>10. LatencyIsRotation'
    BY <1>7, Zenon DEF Inv, LatencyIsRotation, Passes, disk
  <1>11. CASE UNCHANGED <<value, ready, since, incoming, typed>>
    <2>1. ClientAwaited' /\ EchoesInput'
      BY <1>0, <1>7, <1>11, Zenon DEF ClientAwaited, EchoesInput, disk
    <2> QED BY <1>0, <1>5, <1>7, <1>8, <1>9, <1>10, <1>11, <2>1, Zenon
            DEF Handled, TypeOK, disk, Semaphores
  <1>12. CASE /\ incoming = EOF /\ typed < Len(Keyboard)
              /\ typed' = typed + 1 /\ incoming' = Keyboard[typed + 1]
              /\ V("readAvail", Echo)
    <2>1. /\ value' \in [Semaphores -> Nat]
          /\ value'["readAvail"] = value["readAvail"] + 1
          /\ value'["writeDone"] = value["writeDone"] /\ value'["disk"] = value["disk"]
          /\ ready' \in Seq(setting.threads)
          /\ Range(ready) \subseteq Range(ready')
          /\ \/ ready' = ready /\ since' = since
             \/ ready = <<>> /\ since' = totalTicks
             \/ ready # <<>> /\ since' = since
      <3>1. "readAvail" \in Semaphores /\ "writeDone" \in Semaphores /\ "disk" \in Semaphores
            /\ "writeDone" # "readAvail" /\ "disk" # "readAvail"
        BY Zenon DEF Semaphores
      <3> QED BY <1>0, <1>12, <3>1, VWakes, Zenon
    <2>2. /\ typed \in 0..Len(Keyboard) /\ Keyboard \in Seq(Char) /\ EOF \notin Char
          /\ display \in Seq(Char)
      BY <1>0, DevicesAssumption, Zenon DEF TypeOK
    <2>3. typed' \in 0..Len(Keyboard) /\ incoming' \in Char
      BY <1>12, <2>2
    <2>4. ClientAwaited'
      BY <1>0, <1>7, <2>1, Zenon DEF ClientAwaited, disk
    <2>5. display = SubSeq(Keyboard, 1, typed)
      <3>1. display \o <<>> = SubSeq(Keyboard, 1, typed)
        BY <1>0, <1>12, Zenon DEF EchoesInput
      <3> QED BY <2>2, <3>1
    <2>6. display' \o <<incoming'>> = SubSeq(Keyboard, 1, typed')
      <3>1. SubSeq(Keyboard, 1, typed + 1) = Append(SubSeq(Keyboard, 1, typed), Keyboard[typed + 1])
        BY <1>12, <2>2
      <3>2. display \o <<incoming'>> = Append(display, incoming')
        BY <2>2, <2>3
      <3> QED BY <1>7, <1>12, <2>5, <3>1, <3>2, Zenon
    <2>7. EchoesInput'
      <3>1. at[Echo] # "GetPut" /\ value["readAvail"] = 0 /\ 0 + 1 = 1
        BY <1>0, <1>12 DEF EchoesInput
      <3>2. incoming' # EOF
        BY <2>2, <2>3, Zenon
      <3> QED BY <1>0, <1>7, <2>1, <2>6, <3>1, <3>2, Zenon DEF EchoesInput
    <2>8. /\ {yieldOnReturn', putBusy', active'} \subseteq BOOLEAN
          /\ (yieldOnReturn => yieldOnReturn')
          /\ lastSector' = lastSector /\ bufferInit' = bufferInit /\ display' \in Seq(Char)
      BY <1>0, <1>7, Zenon DEF TypeOK, disk
    <2> QED BY <1>5, <1>7, <1>8, <1>9, <1>10, <2>1, <2>3, <2>4, <2>7, <2>8, Zenon DEF Handled
  <1> QED BY <1>11, <1>12, Zenon DEF CheckCharAvail

\* WriteDone: the console is no longer busy.
LEMMA WriteHandled ==
    ASSUME Inv, pending # <<>>, NEW now \in Nat, Head(pending).type = "ConsoleWrite",
           WriteDone(Tail(pending)), UNCHANGED <<setting, current, at, ch, asleep>>
    PROVE  Handled(now)
  <1>0. TypeOK /\ InterruptsPending /\ ClientAwaited /\ EchoesInput
    BY Zenon DEF Inv, DevicesInv
  <1>1. /\ pending' \in Seq(PendingInterrupt) /\ Sorted(pending')
        /\ \A i \in DOMAIN pending' : \E k \in DOMAIN pending : pending'[i] = pending[k]
        /\ Types(pending') = Types(pending) \ {"ConsoleWrite"}
        /\ "ConsoleWrite" \in Types(pending)
    BY Rest, Zenon DEF Inv, WriteDone
  <1>2. putBusy' = FALSE
        /\ UNCHANGED <<yieldOnReturn, incoming, typed, display, disk, setting, current, at, asleep>>
    BY Zenon DEF WriteDone
  <1>3. putBusy
    BY <1>0, <1>1, PendingTypes, Zenon
  <1>4. /\ value' \in [Semaphores -> Nat]
        /\ value'["writeDone"] = value["writeDone"] + 1
        /\ value'["readAvail"] = value["readAvail"] /\ value'["disk"] = value["disk"]
        /\ ready' \in Seq(setting.threads)
        /\ Range(ready) \subseteq Range(ready')
        /\ \/ ready' = ready /\ since' = since
           \/ ready = <<>> /\ since' = totalTicks
           \/ ready # <<>> /\ since' = since
    <2>1. "readAvail" \in Semaphores /\ "writeDone" \in Semaphores /\ "disk" \in Semaphores
          /\ "readAvail" # "writeDone" /\ "disk" # "writeDone"
      BY Zenon DEF Semaphores
    <2>2. V("writeDone", Echo)
      BY Zenon DEF WriteDone
    <2> QED BY <1>0, <2>1, <2>2, VWakes, Zenon
  <1>5. InterruptsPending'
    <2>1. /\ "Timer" \in Types(pending') <=> setting'.rs
          /\ "ConsoleRead" \in Types(pending') <=> Echo \in setting'.threads
          /\ "ConsoleWrite" \in Types(pending') <=> putBusy'
          /\ "Disk" \in Types(pending') <=> active'
      BY <1>0, <1>1, <1>2, PendingTypes, Zenon DEF disk
    <2> QED BY <2>1, Zenon DEF InterruptsPending, Types
  <1>6. ClientAwaited'
    BY <1>0, <1>2, <1>4, Zenon DEF ClientAwaited, disk
  <1>7. EchoesInput'
    <2>1. at[Echo] = "writeDone" /\ value["writeDone"] = 0 /\ 0 + 1 = 1
      BY <1>0, <1>3 DEF EchoesInput
    <2> QED BY <1>0, <1>2, <1>4, <2>1, Zenon DEF EchoesInput
  <1>8. LatencyIsRotation'
    BY <1>2, Zenon DEF Inv, LatencyIsRotation, Passes, disk
  <1>9. /\ {yieldOnReturn', putBusy', active'} \subseteq BOOLEAN /\ lastSector' = lastSector
        /\ bufferInit' = bufferInit /\ (yieldOnReturn => yieldOnReturn')
        /\ incoming' \in Char \cup {EOF} /\ display' \in Seq(Char) /\ typed' \in 0..Len(Keyboard)
    BY <1>0, <1>2, Zenon DEF TypeOK, disk
  <1> QED BY <1>1, <1>2, <1>4, <1>5, <1>6, <1>7, <1>8, <1>9, Zenon DEF Handled

\* The disk's HandleInterrupt: the transfer has ended, and its client is woken.
LEMMA DiskHandled ==
    ASSUME Inv, pending # <<>>, NEW now \in Nat, Head(pending).type = "Disk",
           HandleInterrupt(Tail(pending)), UNCHANGED <<setting, current, at, ch, asleep>>
    PROVE  Handled(now)
  <1>0. TypeOK /\ InterruptsPending /\ ClientAwaited /\ EchoesInput
    BY Zenon DEF Inv, DevicesInv
  <1>1. /\ pending' \in Seq(PendingInterrupt) /\ Sorted(pending')
        /\ \A i \in DOMAIN pending' : \E k \in DOMAIN pending : pending'[i] = pending[k]
        /\ Types(pending') = Types(pending) \ {"Disk"}
        /\ "Disk" \in Types(pending)
    BY Rest, Zenon DEF Inv, HandleInterrupt
  <1>2. /\ active' = FALSE
        /\ UNCHANGED <<yieldOnReturn, console, lastSector, bufferInit, setting, current, at,
                       asleep>>
    BY Zenon DEF HandleInterrupt
  <1>3. active
    BY <1>0, <1>1, PendingTypes, Zenon
  <1>4. /\ value' \in [Semaphores -> Nat]
        /\ value'["disk"] = value["disk"] + 1
        /\ value'["readAvail"] = value["readAvail"] /\ value'["writeDone"] = value["writeDone"]
        /\ ready' \in Seq(setting.threads)
        /\ Client \in asleep /\ at[Client] = "disk" => Client \in Range(ready')
        /\ \/ ready' = ready /\ since' = since
           \/ ready = <<>> /\ since' = totalTicks
           \/ ready # <<>> /\ since' = since
    <2>1. "readAvail" \in Semaphores /\ "writeDone" \in Semaphores /\ "disk" \in Semaphores
          /\ "readAvail" # "disk" /\ "writeDone" # "disk"
      BY Zenon DEF Semaphores
    <2>2. V("disk", Client)
      BY Zenon DEF HandleInterrupt
    <2> QED BY <1>0, <2>1, <2>2, VWakes, Zenon
  <1>5. InterruptsPending'
    <2>1. /\ "Timer" \in Types(pending') <=> setting'.rs
          /\ "ConsoleRead" \in Types(pending') <=> Echo \in setting'.threads
          /\ "ConsoleWrite" \in Types(pending') <=> putBusy'
          /\ "Disk" \in Types(pending') <=> active'
      BY <1>0, <1>1, <1>2, PendingTypes, Zenon DEF console
    <2> QED BY <2>1, Zenon DEF InterruptsPending, Types
  <1>6. ClientAwaited'
    <2>1. at[Client] = "disk" /\ value["disk"] = 0 /\ 0 + 1 = 1
      BY <1>0, <1>3 DEF ClientAwaited
    <2> QED BY <1>2, <1>4, <2>1, Zenon DEF ClientAwaited
  <1>7. EchoesInput'
    BY <1>0, <1>2, <1>4, Zenon DEF EchoesInput, console
  <1>8. LatencyIsRotation'
    BY <1>2, Zenon DEF Inv, LatencyIsRotation
  <1>9. /\ {yieldOnReturn', putBusy', active'} \subseteq BOOLEAN
        /\ (yieldOnReturn => yieldOnReturn')
        /\ incoming' \in Char \cup {EOF} /\ display' \in Seq(Char) /\ typed' \in 0..Len(Keyboard)
    BY <1>0, <1>2, Zenon DEF TypeOK, console
  <1> QED BY <1>1, <1>2, <1>4, <1>5, <1>6, <1>7, <1>8, <1>9, Zenon DEF Handled

\* The handler of the first pending interrupt (CheckIfDue).
LEMMA Fired ==
    ASSUME Inv, pending # <<>>, NEW now \in Nat, Fire(Head(pending), Tail(pending), now)
    PROVE  Handled(now)
  BY TimerHandled, ReadHandled, WriteHandled, DiskHandled, Zenon DEF Fire

-----------------------------------------------------------------------------
(***************************************************************************)
(* Interrupts are called: OneTick and Idle.                                *)
(***************************************************************************)
\* The times of pending interrupts.
LEMMA PendingTimes ==
    ASSUME NEW list \in Seq(PendingInterrupt)
    PROVE  /\ \A i \in DOMAIN list : list[i] \in PendingInterrupt /\ list[i].when \in Nat
           /\ list # <<>> => Head(list) \in PendingInterrupt /\ Head(list).when \in Nat
  <1>1. \A x \in PendingInterrupt : x.when \in Nat
    BY DEF PendingInterrupt
  <1>2. \A i \in DOMAIN list : list[i] \in PendingInterrupt
    OBVIOUS
  <1>3. list # <<>> => Head(list) \in PendingInterrupt
    OBVIOUS
  <1> QED BY <1>1, <1>2, <1>3, Zenon

\* The first interrupt is the next: when it is not due, none is.
LEMMA NoneDue ==
    ASSUME Inv, ~IsDue
    PROVE  \A i \in DOMAIN pending : pending[i].when > totalTicks
  <1>1. pending \in Seq(PendingInterrupt) /\ Sorted(pending) /\ totalTicks \in Nat
    BY Zenon DEF Inv, DevicesInv, TypeOK, Sorted
  <1>2. CASE pending = <<>>
    BY <1>2
  <1>3. CASE pending # <<>>
    <2>1. /\ Head(pending) \in PendingInterrupt
          /\ \A i \in DOMAIN pending : Head(pending).when <= pending[i].when
      BY <1>1, <1>3, FirstRemoved, Zenon
    <2>2. Head(pending).when \in Nat /\ \A i \in DOMAIN pending : pending[i].when \in Nat
      BY <1>1, <1>3, PendingTimes, Zenon
    <2>3. ~(Head(pending).when <= totalTicks)
      BY <1>3, Zenon DEF IsDue
    <2> QED BY <1>1, <2>1, <2>2, <2>3
  <1> QED BY <1>2, <1>3, Zenon

\* A handler keeps the invariant, in OneTick and in Idle.
LEMMA HandledInv ==
    ASSUME Inv, NEW now \in Nat, Handled(now),
           totalTicks' = now, now >= totalTicks,
           \/ phase' = "tick" /\ phase = "tick" /\ now = totalTicks
           \/ phase' = "idle" /\ current = NULL
    PROVE  Inv'
  <1>0. TypeOK /\ TimerInTime /\ totalTicks \in Nat /\ since \in 0..totalTicks
    BY Zenon DEF Inv, DevicesInv, TypeOK
  <1>1. since' \in 0..totalTicks' /\ totalTicks' \in Nat
    BY <1>0 DEF Handled
  <1>2. TypeOK'
    <2>1. setting' = setting /\ current' = current /\ at' = at /\ asleep' = asleep
          /\ lastSector' = lastSector /\ bufferInit' = bufferInit
      BY Zenon DEF Handled
    <2>2. /\ {yieldOnReturn', putBusy', active'} \subseteq BOOLEAN
          /\ setting' \in Settings
          /\ current' \in setting'.threads \cup {NULL}
          /\ phase' \in {"run", "tick", "switch", "idle", "halted"}
          /\ phase' \in {"run", "tick"} => current' # NULL
          /\ phase' \in {"switch", "idle"} => current' = NULL
      BY <1>0, <2>1, Zenon DEF Handled, TypeOK
    <2>3. /\ pending' \in Seq(PendingInterrupt)
          /\ \A i, j \in DOMAIN pending' :
               i < j => pending'[i].when <= pending'[j].when /\ pending'[i].type # pending'[j].type
      BY Zenon DEF Handled, Sorted
    <2>4. /\ ready' \in Seq(setting'.threads)
          /\ at' \in [{Echo, Client} ->
                     {"readAvail", "GetPut", "writeDone", "Quit?", "request", "disk"}]
          /\ value' \in [{"readAvail", "writeDone", "disk"} -> Nat]
          /\ incoming' \in Char \cup {EOF} /\ display' \in Seq(Char)
          /\ typed' \in 0..Len(Keyboard)
          /\ lastSector' \in Sector /\ bufferInit' \in Nat
          /\ asleep' \subseteq setting'.threads \cap {Echo, Client} /\ current' \notin asleep'
      BY <1>0, <2>1, Zenon DEF Handled, TypeOK, Semaphores
    <2> QED BY <1>1, <2>2, <2>3, <2>4, Zenon DEF TypeOK
  <1>3. NothingOverdue' /\ HaltsWhenDone'
    BY Zenon DEF NothingOverdue, HaltsWhenDone
  <1>4. TimerInTime'
    <2> SUFFICES ASSUME NEW i \in DOMAIN pending', pending'[i].type = "Timer"
                 PROVE  /\ pending'[i].when <= totalTicks' + 2 * TimerTicks
                        /\ ready' # <<>> /\ phase' = "tick" /\ ~yieldOnReturn' =>
                               pending'[i].when <= since' + 2 * TimerTicks
      BY Zenon DEF TimerInTime
    <2>0. TimerTicks \in Nat
      BY Times
    <2>1. CASE yieldOnReturn' /\ pending'[i].when <= now + 2 * TimerTicks
      BY <2>1
    <2>2. CASE \E k \in DOMAIN pending : pending'[i] = pending[k]
      <3>1. PICK k \in DOMAIN pending : pending'[i] = pending[k]
        BY <2>2
      <3>2. /\ pending[k].when \in Nat /\ pending[k].type = "Timer"
            /\ pending[k].when <= totalTicks + 2 * TimerTicks
            /\ ready # <<>> /\ phase = "tick" /\ ~yieldOnReturn =>
                  pending[k].when <= since + 2 * TimerTicks
        BY <1>0, <3>1, PendingTimes, Zenon DEF TimerInTime, TypeOK
      <3>3. pending'[i].when <= totalTicks' + 2 * TimerTicks
        BY <1>0, <2>0, <3>1, <3>2
      <3>4. ASSUME ready' # <<>>, phase' = "tick", ~yieldOnReturn'
            PROVE  pending'[i].when <= since' + 2 * TimerTicks
        <4>1. ~yieldOnReturn /\ phase = "tick"
          BY <3>4, Zenon DEF Handled
        <4>2. CASE ready # <<>> /\ since' = since
          BY <3>1, <3>2, <4>1, <4>2, Zenon
        <4>3. CASE since' = totalTicks
          BY <3>1, <3>2, <4>3, Zenon
        <4> QED BY <3>4, <4>2, <4>3, Zenon DEF Handled
      <3> QED BY <3>3, <3>4, Zenon
    <2> QED BY <2>1, <2>2, Zenon DEF Handled
  <1> QED BY <1>2, <1>3, <1>4, Zenon DEF Inv, DevicesInv, Handled

\* CheckIfDue, called by OneTick.
LEMMA CheckIfDueInv ==
    ASSUME Inv, CheckIfDue
    PROVE  Inv'
  <1>1. totalTicks \in Nat /\ totalTicks' = totalTicks /\ phase' = "tick" /\ phase = "tick"
    BY Zenon DEF CheckIfDue, Inv, DevicesInv, TypeOK
  <1>2. pending # <<>> /\ Fire(Head(pending), Tail(pending), totalTicks)
    BY Zenon DEF CheckIfDue, IsDue
  <1>3. Handled(totalTicks)
    BY <1>1, <1>2, Fired, Zenon
  <1>4. totalTicks >= totalTicks
    BY <1>1
  <1> QED BY <1>1, <1>3, <1>4, HandledInv, Zenon

\* The time to which Idle takes the clock.
LEMMA DueIsLater ==
    ASSUME totalTicks \in Nat, pending \in Seq(PendingInterrupt), pending # <<>>
    PROVE  Due \in Nat /\ Due >= totalTicks
  <1> DEFINE S == {totalTicks, Head(pending).when}
  <1>1. Head(pending).when \in Nat
    BY PendingTimes, Zenon
  <1>2. \E x \in S : \A y \in S : x >= y
    BY <1>1
  <1>3. Due \in S /\ \A y \in S : Due >= y
    BY <1>2, Zenon DEF Due, Max
  <1> QED BY <1>1, <1>3, Zenon

\* Idle takes the clock to the next interrupt, and never back.
LEMMA IdleInv ==
    ASSUME Inv, Idle
    PROVE  Inv'
  <1>1. totalTicks \in Nat /\ pending # <<>> /\ pending \in Seq(PendingInterrupt)
    BY Zenon DEF Idle, Inv, DevicesInv, TypeOK
  <1>2. Due \in Nat /\ Due >= totalTicks
    BY <1>1, DueIsLater, Zenon
  <1>3. Handled(Due)
    BY <1>1, <1>2, Fired, Zenon DEF Idle
  <1>4. current = NULL /\ phase' = "idle" /\ totalTicks' = Due
    BY Zenon DEF Idle, Idling, Inv, DevicesInv, TypeOK
  <1> QED BY <1>2, <1>3, <1>4, HandledInv, Zenon

\* Idle goes on with interrupts of that time, and leaves no other than a lone timer's.
LEMMA IdleMoreInv ==
    ASSUME Inv, IdleMore
    PROVE  Inv'
  <1>0. TypeOK /\ totalTicks' = totalTicks /\ totalTicks \in Nat /\ phase = "idle" /\ current = NULL
    BY Zenon DEF Inv, DevicesInv, TypeOK, IdleMore
  <1>1. CASE IsDue /\ ~OnlyTimer
    <2>1. Fire(Head(pending), Tail(pending), totalTicks) /\ phase' = "idle" /\ pending # <<>>
      BY <1>0, <1>1, Zenon DEF IdleMore, IsDue
    <2>2. Handled(totalTicks)
      BY <1>0, <2>1, Fired, Zenon
    <2>3. totalTicks >= totalTicks
      BY <1>0
    <2> QED BY <1>0, <2>1, <2>2, <2>3, HandledInv, Zenon
  <1>2. CASE ~(IsDue /\ ~OnlyTimer)
    <2>1. /\ phase' = "switch" /\ yieldOnReturn' = FALSE
          /\ UNCHANGED <<setting, pending, current, ready, at, ch, value, console, disk, asleep,
                         since, totalTicks>>
      BY <1>2, Zenon DEF IdleMore
    <2>2. TypeOK'
      BY <1>0, <2>1, Zenon DEF TypeOK, console, disk
    <2>3. NothingOverdue'
      <3>1. CASE ~IsDue
        BY <2>1, <3>1, NoneDue, Zenon DEF NothingOverdue
      <3>2. CASE OnlyTimer
        <4>1. Len(pending) = 1 /\ \A i \in DOMAIN pending : pending[i].type = "Timer"
          BY <1>0, <3>2 DEF OnlyTimer, TypeOK
        <4>2. phase' # "run"
          BY <2>1
        <4> QED BY <2>1, <4>1, <4>2, Zenon DEF NothingOverdue
      <3> QED BY <1>2, <3>1, <3>2, Zenon
    <2>4. InterruptsPending' /\ ClientAwaited' /\ EchoesInput'
      BY <2>1, Zenon DEF Inv, DevicesInv, InterruptsPending, ClientAwaited, EchoesInput,
                         console, disk
    <2>5. TimerInTime'
      BY <2>1, Zenon DEF Inv, DevicesInv, TimerInTime
    <2>6. HaltsWhenDone' /\ LatencyIsRotation'
      BY <2>1, Zenon DEF Inv, HaltsWhenDone, LatencyIsRotation, Passes, disk
    <2> QED BY <2>2, <2>3, <2>4, <2>5, <2>6, Zenon DEF Inv, DevicesInv
  <1> QED BY <1>1, <1>2, Zenon

-----------------------------------------------------------------------------
(***************************************************************************)
(* The scheduler.                                                          *)
(***************************************************************************)
\* Threads are threads of the setting, and NULL is none.
LEMMA ThreadsAreThreads ==
    ASSUME Inv
    PROVE  /\ NULL \notin setting.threads /\ Echo # Client
           /\ setting.threads \subseteq User \cup {Echo, Client}
           /\ Echo \notin User /\ Client \notin User
  BY DevicesAssumption, Zenon DEF Inv, DevicesInv, TypeOK

\* Scheduler::Run: the first ready thread gets the processor.  The only thread that can find an
\* overdue interrupt is the disk's client, as the console is polled all the time.
LEMMA DispatchInv ==
    ASSUME Inv, ready # <<>>, Dispatch(ready), phase \in {"switch", "tick"},
           \A i \in DOMAIN pending : \/ pending[i].when > totalTicks
                                     \/ pending[i].type = "Timer" /\ Len(pending) = 1,
           \/ ready' = Tail(ready)
           \/ phase = "tick" /\ ready' = Append(Tail(ready), current),
           yieldOnReturn' \in BOOLEAN,
           UNCHANGED <<setting, pending, at, ch, value, console, disk>>
    PROVE  Inv'
  <1>0. TypeOK /\ InterruptsPending /\ ClientAwaited /\ TimerInTime /\ EchoesInput
    BY Zenon DEF Inv, DevicesInv
  <1>1. /\ ready \in Seq(setting.threads) /\ totalTicks \in Nat
        /\ current \in setting.threads \cup {NULL} /\ (phase = "tick" => current # NULL)
        /\ asleep \subseteq setting.threads \cap {Echo, Client}
    BY <1>0, Zenon DEF TypeOK
  <1>2. /\ current' = Head(ready) /\ since' = totalTicks /\ asleep' = asleep \ {Head(ready)}
        /\ \/ Head(ready) \in asleep /\ phase' = "run" /\ totalTicks' = totalTicks
           \/ phase' = "tick" /\ totalTicks' = totalTicks + SystemTick
    BY Zenon DEF Dispatch, OneTick
  <1>3. Head(ready) \in setting.threads /\ Head(ready) # NULL
    <2>1. Head(ready) \in setting.threads
      BY <1>1
    <2> QED BY <2>1, ThreadsAreThreads, Zenon
  <1>4. ready' \in Seq(setting.threads)
    <2>1. Tail(ready) \in Seq(setting.threads)
      BY <1>1
    <2>2. phase = "tick" => current \in setting.threads
      BY <1>1, Zenon
    <2>3. phase = "tick" => Append(Tail(ready), current) \in Seq(setting.threads)
      BY <2>1, <2>2
    <2> QED BY <2>1, <2>3, Zenon
  <1>5. /\ totalTicks' \in Nat /\ totalTicks <= totalTicks' /\ since' \in 0..totalTicks'
    BY <1>1, <1>2, Times
  <1>6. TypeOK'
    BY <1>0, <1>2, <1>3, <1>4, <1>5, Zenon DEF TypeOK, console, disk
  <1>7. InterruptsPending' /\ EchoesInput'
    BY <1>0, Zenon DEF InterruptsPending, EchoesInput, console, disk
  <1>8. HaltsWhenDone' /\ LatencyIsRotation'
    BY <1>2, Zenon DEF Inv, HaltsWhenDone, LatencyIsRotation, Passes, disk
  <1>9. ClientAwaited'
    <2>1. ASSUME Client \in Range(ready), Client # Head(ready) PROVE Client \in Range(ready')
      <3>1. PICK i \in DOMAIN ready : ready[i] = Client
        BY <2>1, Zenon DEF Range
      <3>2. /\ i - 1 \in DOMAIN Tail(ready) /\ Tail(ready)[i - 1] = Client
        BY <1>1, <2>1, <3>1
      <3>3. CASE ready' = Tail(ready)
        BY <3>2, <3>3, Zenon DEF Range
      <3>4. CASE ready' = Append(Tail(ready), current)
        <4>1. Tail(ready) \in Seq(setting.threads)
          BY <1>1
        <4>2. PICK s : s = Tail(ready)
          OBVIOUS
        <4>3. i - 1 \in DOMAIN Append(s, current) /\ Append(s, current)[i - 1] = s[i - 1]
          BY <3>2, <4>1, <4>2
        <4> QED BY <3>2, <3>4, <4>2, <4>3, Zenon DEF Range
      <3> QED BY <3>3, <3>4, Zenon
    <2> QED BY <1>0, <1>2, <2>1, Zenon DEF ClientAwaited, disk
  <1>10. NothingOverdue'
    <2> SUFFICES ASSUME phase' = "run", NEW i \in DOMAIN pending, pending[i].type = "Timer",
                        Len(pending) = 1
                 PROVE  Head(ready) = Client /\ at[Client] = "disk"
      BY <1>2, Zenon DEF NothingOverdue
    <2>1. Head(ready) \in asleep
      BY <1>2, Zenon
    <2>2. "ConsoleRead" \notin Types(pending)
      <3>1. \A k \in DOMAIN pending : k = i
        BY <1>0 DEF TypeOK
      <3> QED BY <3>1, Zenon DEF Types
    <2>3. Echo \notin setting.threads
      BY <1>0, <2>2, PendingTypes, Zenon
    <2> QED BY <1>0, <1>1, <2>1, <2>3, Zenon DEF ClientAwaited
  <1>11. TimerInTime'
    <2>1. ASSUME NEW i \in DOMAIN pending, pending[i].type = "Timer"
          PROVE  pending[i].when <= totalTicks' + 2 * TimerTicks
      <3>1. pending[i].when \in Nat /\ pending[i].when <= totalTicks + 2 * TimerTicks
        BY <1>0, <2>1, PendingTimes, Zenon DEF TimerInTime, TypeOK
      <3> QED BY <1>1, <1>5, <3>1, Times
    <2> QED BY <1>0, <1>2, <2>1, Zenon DEF TimerInTime
  <1> QED BY <1>6, <1>7, <1>8, <1>9, <1>10, <1>11, Zenon DEF Inv, DevicesInv

\* Thread::Sleep, when a thread is ready.
LEMMA SwitchInv ==
    ASSUME Inv, Switch
    PROVE  Inv'
  <1>1. \A i \in DOMAIN pending : \/ pending[i].when > totalTicks
                                  \/ pending[i].type = "Timer" /\ Len(pending) = 1
    BY Zenon DEF Switch, Inv, DevicesInv, NothingOverdue
  <1>2. yieldOnReturn' \in BOOLEAN
    BY Zenon DEF Switch, Inv, DevicesInv, TypeOK
  <1> QED BY <1>1, <1>2, DispatchInv, Zenon DEF Switch

\* The end of OneTick.
LEMMA TickDoneInv ==
    ASSUME Inv, TickDone
    PROVE  Inv'
  <1>0. /\ TypeOK /\ TimerInTime /\ phase = "tick" /\ ~IsDue /\ yieldOnReturn' = FALSE
        /\ UNCHANGED <<setting, pending, at, ch, value, console, disk>>
        /\ current # NULL
    BY Zenon DEF TickDone, Inv, DevicesInv, TypeOK
  <1>1. \A i \in DOMAIN pending : pending[i].when > totalTicks
    BY <1>0, NoneDue, Zenon
  <1>2. CASE yieldOnReturn /\ ready # <<>>
    <2>1. Dispatch(ready) /\ ready' = Append(Tail(ready), current)
      BY <1>2, Zenon DEF TickDone
    <2> QED BY <1>0, <1>1, <1>2, <2>1, DispatchInv, Zenon
  <1>3. CASE ~(yieldOnReturn /\ ready # <<>>)
    <2>1. /\ UNCHANGED <<current, ready, asleep, since>>
          /\ \/ ~yieldOnReturn /\ phase' = "run" /\ totalTicks' = totalTicks
             \/ ready = <<>> /\ phase' = "tick" /\ totalTicks' = totalTicks + SystemTick
      BY <1>3, Zenon DEF TickDone, OneTick
    <2>2. /\ totalTicks \in Nat /\ totalTicks' \in Nat /\ totalTicks <= totalTicks'
          /\ since' \in 0..totalTicks'
      <3>1. totalTicks \in Nat /\ since \in 0..totalTicks
        BY <1>0, Zenon DEF TypeOK
      <3> QED BY <2>1, <3>1, Times
    <2>3. TypeOK'
      BY <1>0, <2>1, <2>2, Zenon DEF TypeOK, console, disk
    <2>4. InterruptsPending' /\ EchoesInput' /\ ClientAwaited'
      BY <1>0, <2>1, Zenon DEF Inv, DevicesInv, InterruptsPending, EchoesInput, ClientAwaited,
                               console, disk
    <2>5. HaltsWhenDone' /\ LatencyIsRotation'
      BY <1>0, <2>1, Zenon DEF Inv, HaltsWhenDone, LatencyIsRotation, Passes, disk
    <2>6. NothingOverdue'
      BY <1>0, <1>1, <2>1, Zenon DEF NothingOverdue
    <2>7. TimerInTime'
      <3>1. ASSUME NEW i \in DOMAIN pending, pending[i].type = "Timer"
            PROVE  pending[i].when <= totalTicks' + 2 * TimerTicks
        <4>1. pending[i].when \in Nat /\ pending[i].when <= totalTicks + 2 * TimerTicks
          BY <1>0, <3>1, PendingTimes, Zenon DEF TimerInTime, TypeOK
        <4> QED BY <2>2, <4>1, Times
      <3> QED BY <1>0, <2>1, <3>1, Zenon DEF TimerInTime
    <2> QED BY <2>3, <2>4, <2>5, <2>6, <2>7, Zenon DEF Inv, DevicesInv
  <1> QED BY <1>2, <1>3, Zenon

\* Idle halts the machine only when nothing is under way and nobody waits.
LEMMA IdleHaltInv ==
    ASSUME Inv, IdleHalt
    PROVE  Inv'
  <1>0. /\ TypeOK /\ InterruptsPending /\ ClientAwaited /\ TimerInTime
        /\ phase = "switch" /\ ready = <<>> /\ phase' = "halted"
        /\ pending = <<>> \/ OnlyTimer
        /\ totalTicks' = IF pending = <<>> THEN totalTicks ELSE Due
        /\ UNCHANGED <<setting, pending, yieldOnReturn, current, ready, at, ch, value, console,
                       disk, asleep, since>>
    BY Zenon DEF IdleHalt, Idling, Inv, DevicesInv
  <1>1. totalTicks \in Nat /\ totalTicks' \in Nat /\ totalTicks <= totalTicks'
        /\ since' \in 0..totalTicks'
    <2>1. totalTicks \in Nat /\ since \in 0..totalTicks /\ pending \in Seq(PendingInterrupt)
      BY <1>0, Zenon DEF TypeOK
    <2>2. CASE pending = <<>>
      BY <1>0, <2>1, <2>2
    <2>3. CASE pending # <<>>
      <3>1. Due \in Nat /\ Due >= totalTicks
        BY <2>1, <2>3, DueIsLater, Zenon
      <3> QED BY <1>0, <2>1, <2>3, <3>1
    <2> QED BY <2>2, <2>3, Zenon
  <1>2. TypeOK'
    BY <1>0, <1>1, Zenon DEF TypeOK, console, disk
  <1>3. InterruptsPending' /\ EchoesInput' /\ ClientAwaited'
    BY <1>0, Zenon DEF Inv, DevicesInv, InterruptsPending, EchoesInput, ClientAwaited,
                       console, disk
  <1>4. LatencyIsRotation'
    BY <1>0, Zenon DEF Inv, LatencyIsRotation, Passes, disk
  <1>5. NothingOverdue'
    BY <1>0, Zenon DEF NothingOverdue
  <1>6. TimerInTime'
    <2>1. ASSUME NEW i \in DOMAIN pending, pending[i].type = "Timer"
          PROVE  pending[i].when <= totalTicks' + 2 * TimerTicks
      <3>1. pending[i].when \in Nat /\ pending[i].when <= totalTicks + 2 * TimerTicks
        BY <1>0, <2>1, PendingTimes, Zenon DEF TimerInTime, TypeOK
      <3> QED BY <1>1, <3>1, Times
    <2> QED BY <1>0, <2>1, Zenon DEF TimerInTime
  <1>7. HaltsWhenDone'
    <2>1. \A i \in DOMAIN pending : pending[i].type = "Timer"
      <3>1. CASE pending = <<>>
        BY <3>1
      <3>2. CASE OnlyTimer
        BY <1>0, <3>2 DEF OnlyTimer, TypeOK
      <3> QED BY <1>0, <3>1, <3>2, Zenon
    <2>2. "ConsoleRead" \notin Types(pending) /\ "ConsoleWrite" \notin Types(pending)
          /\ "Disk" \notin Types(pending)
      BY <2>1, Zenon DEF Types
    <2>3. Echo \notin setting.threads /\ ~putBusy /\ ~active
      BY <1>0, <2>2, PendingTypes, Zenon
    <2>4. Client \notin Range(ready)
      <3>1. ready = <<>>
        BY <1>0, Zenon
      <3>2. DOMAIN ready = {}
        BY <3>1
      <3> QED BY <3>2, Zenon DEF Range
    <2>5. asleep = {}
      <3>1. Client \notin asleep
        BY <1>0, <2>3, <2>4, Zenon DEF ClientAwaited
      <3>2. asleep \subseteq setting.threads \cap {Echo, Client}
        BY <1>0, Zenon DEF TypeOK
      <3> QED BY <2>3, <3>1, <3>2, Zenon
    <2> QED BY <1>0, <2>3, <2>5, Zenon DEF HaltsWhenDone, console, disk
  <1> QED BY <1>2, <1>3, <1>4, <1>5, <1>6, <1>7, Zenon DEF Inv, DevicesInv

-----------------------------------------------------------------------------
(***************************************************************************)
(* Threads.                                                                *)
(***************************************************************************)
\* What a step of the running thread finds.
LEMMA RunningFacts ==
    ASSUME Inv, NEW t, Running(t)
    PROVE  /\ TypeOK /\ InterruptsPending /\ NothingOverdue /\ ClientAwaited /\ TimerInTime
           /\ EchoesInput /\ LatencyIsRotation
           /\ phase = "run" /\ current = t /\ t \in setting.threads
           /\ totalTicks \in Nat /\ since \in 0..totalTicks
  <1>1. TypeOK /\ phase = "run" /\ current = t
    BY Zenon DEF Inv, DevicesInv, Running
  <1>2. t \in setting.threads /\ totalTicks \in Nat /\ since \in 0..totalTicks
    BY <1>1, Zenon DEF TypeOK
  <1> QED BY <1>1, <1>2, Zenon DEF Inv, DevicesInv

\* OneTick, called by the running thread.
LEMMA TickInv ==
    ASSUME Inv, NEW t, Running(t), NEW n \in Nat, OneTick(n),
           UNCHANGED <<setting, pending, yieldOnReturn, current, ready, asleep, since>>
    PROVE  /\ totalTicks' \in Nat /\ since' \in 0..totalTicks'
           /\ phase' = "tick" /\ NothingOverdue' /\ TimerInTime' /\ HaltsWhenDone'
  <1>1. /\ TypeOK /\ TimerInTime /\ phase = "run" /\ totalTicks \in Nat /\ since \in 0..totalTicks
    BY RunningFacts, Zenon
  <1>2. totalTicks' = totalTicks + n /\ phase' = "tick"
    BY Zenon DEF OneTick
  <1>3. totalTicks' \in Nat /\ totalTicks <= totalTicks' /\ since' \in 0..totalTicks'
    BY <1>1, <1>2
  <1>4. NothingOverdue' /\ HaltsWhenDone'
    BY <1>2, Zenon DEF NothingOverdue, HaltsWhenDone
  <1>5. TimerInTime'
    <2>1. ASSUME NEW i \in DOMAIN pending, pending[i].type = "Timer"
          PROVE  pending[i].when <= totalTicks' + 2 * TimerTicks
      <3>1. pending[i].when \in Nat /\ pending[i].when <= totalTicks + 2 * TimerTicks
        BY <1>1, <2>1, PendingTimes, Zenon DEF TimerInTime, TypeOK
      <3> QED BY <1>1, <1>3, <3>1, Times
    <2> QED BY <1>1, <2>1, Zenon DEF TimerInTime
  <1> QED BY <1>2, <1>3, <1>4, <1>5, Zenon

\* A user instruction.
LEMMA InstructionInv ==
    ASSUME Inv, NEW t, Instruction(t)
    PROVE  Inv'
  <1>1. /\ Running(t) /\ OneTick(UserTick)
        /\ UNCHANGED <<setting, pending, yieldOnReturn, current, ready, at, ch, value, console,
                       disk, asleep, since>>
    BY Zenon DEF Instruction
  <1>2. UserTick \in Nat
    BY Times
  <1>3. /\ totalTicks' \in Nat /\ since' \in 0..totalTicks'
        /\ phase' = "tick" /\ NothingOverdue' /\ TimerInTime' /\ HaltsWhenDone'
    BY <1>1, <1>2, TickInv, Zenon
  <1>4. TypeOK'
    BY <1>1, <1>3, RunningFacts, Zenon DEF TypeOK, console, disk, Running
  <1>5. InterruptsPending' /\ EchoesInput' /\ ClientAwaited' /\ LatencyIsRotation'
    BY <1>1, Zenon DEF Inv, DevicesInv, InterruptsPending, EchoesInput, ClientAwaited,
                       LatencyIsRotation, Passes, console, disk
  <1> QED BY <1>3, <1>4, <1>5, Zenon DEF Inv, DevicesInv

\* Thread::Sleep: the thread gives up the processor and the devices go on.
LEMMA SleepInv ==
    ASSUME Inv, NEW t, Running(t), Sleep, asleep' \subseteq setting.threads \cap {Echo, Client},
           Client \in asleep' => at[Client] = "disk" /\ (active \/ Client \in Range(ready)),
           UNCHANGED <<setting, totalTicks, pending, yieldOnReturn, ready, at, ch, value, console,
                       disk, since>>
    PROVE  Inv'
  <1>0. /\ TypeOK /\ InterruptsPending /\ NothingOverdue /\ ClientAwaited /\ TimerInTime
        /\ EchoesInput /\ LatencyIsRotation /\ phase = "run"
    BY RunningFacts, Zenon
  <1>1. phase' = "switch" /\ current' = NULL /\ NULL \notin asleep'
    BY ThreadsAreThreads, Zenon DEF Sleep
  <1>2. TypeOK'
    BY <1>0, <1>1, Zenon DEF TypeOK, console, disk
  <1>3. InterruptsPending' /\ EchoesInput' /\ ClientAwaited' /\ LatencyIsRotation'
    BY <1>0, Zenon DEF InterruptsPending, EchoesInput, ClientAwaited,
                       LatencyIsRotation, Passes, console, disk
  <1>4. NothingOverdue' /\ TimerInTime' /\ HaltsWhenDone'
    BY <1>0, <1>1, Zenon DEF NothingOverdue, TimerInTime, HaltsWhenDone
  <1> QED BY <1>2, <1>3, <1>4, Zenon DEF Inv, DevicesInv

\* Thread::Finish.
LEMMA FinishInv ==
    ASSUME Inv, NEW t, Finish(t)
    PROVE  Inv'
  <1>1. /\ Running(t) /\ Sleep /\ asleep' = asleep
        /\ UNCHANGED <<setting, totalTicks, pending, yieldOnReturn, ready, at, ch, value, console,
                       disk, since>>
    BY Zenon DEF Finish
  <1>2. /\ asleep' \subseteq setting.threads \cap {Echo, Client}
        /\ Client \in asleep' => at[Client] = "disk" /\ (active \/ Client \in Range(ready))
    BY <1>1, Zenon DEF Inv, DevicesInv, TypeOK, ClientAwaited
  <1> QED BY <1>1, <1>2, SleepInv, Zenon

\* Semaphore::P.  A thread that sleeps there waits for an interrupt to come.
LEMMA PInv ==
    ASSUME Inv, NEW t \in {Echo, Client}, NEW sem \in Semaphores, NEW next, P(t, sem, next),
           \/ t = Echo /\ sem = "readAvail" /\ next = "GetPut"
           \/ t = Echo /\ sem = "writeDone" /\ next = "Quit?"
           \/ t = Client /\ sem = "disk" /\ next = "request"
    PROVE  Inv'
  <1>0. /\ Running(t) /\ at[t] = sem
        /\ UNCHANGED <<setting, pending, yieldOnReturn, ready, ch, console, disk, since>>
    BY Zenon DEF P
  <1>1. /\ TypeOK /\ InterruptsPending /\ NothingOverdue /\ ClientAwaited /\ TimerInTime
        /\ EchoesInput /\ LatencyIsRotation /\ t \in setting.threads /\ Echo # Client
    BY <1>0, RunningFacts, ThreadsAreThreads, Zenon
  <1>2. /\ value \in [Semaphores -> Nat]
        /\ at \in [{Echo, Client} ->
                  {"readAvail", "GetPut", "writeDone", "Quit?", "request", "disk"}]
    BY <1>1, Zenon DEF TypeOK, Semaphores
  <1>3. CASE value[sem] = 0
    <2>1. /\ Sleep /\ asleep' = asleep \cup {t} /\ UNCHANGED <<totalTicks, value, at>>
      BY <1>3, Zenon DEF P
    <2>2. asleep' \subseteq setting.threads \cap {Echo, Client}
      BY <1>1, <2>1, Zenon DEF TypeOK
    <2>3. t = Client => active
      BY <1>0, <1>1, <1>3 DEF ClientAwaited
    <2>4. Client \in asleep' => at[Client] = "disk" /\ (active \/ Client \in Range(ready))
      BY <1>0, <1>1, <2>1, <2>3, Zenon DEF ClientAwaited
    <2> QED BY <1>0, <2>1, <2>2, <2>4, SleepInv, Zenon
  <1>4. CASE value[sem] # 0
    <2>1. /\ value' = [value EXCEPT ![sem] = @ - 1] /\ at' = [at EXCEPT ![t] = next]
          /\ OneTick(SystemTick) /\ UNCHANGED <<current, asleep>>
      BY <1>4, Zenon DEF P
    <2>2. /\ totalTicks' \in Nat /\ since' \in 0..totalTicks'
          /\ phase' = "tick" /\ NothingOverdue' /\ TimerInTime' /\ HaltsWhenDone'
      <3>1. SystemTick \in Nat
        BY Times
      <3> QED BY <1>0, <2>1, <3>1, TickInv, Zenon
    <2>3. /\ value' \in [Semaphores -> Nat] /\ value'[sem] = value[sem] - 1
          /\ \A x \in Semaphores : x # sem => value'[x] = value[x]
      BY <1>2, <1>4, <2>1
    <2>4. /\ at' \in [{Echo, Client} ->
                     {"readAvail", "GetPut", "writeDone", "Quit?", "request", "disk"}]
          /\ at'[t] = next /\ \A x \in {Echo, Client} : x # t => at'[x] = at[x]
      BY <1>2, <2>1, Zenon
    <2>5. TypeOK'
      <3>1. phase' \in {"run", "tick", "switch", "idle", "halted"}
            /\ current' = current /\ current # NULL /\ asleep' = asleep
        BY <1>0, <1>1, <2>1, <2>2, ThreadsAreThreads, Zenon DEF Running
      <3> QED BY <1>0, <1>1, <2>2, <2>3, <2>4, <3>1, Zenon DEF TypeOK, console, disk, Semaphores
    <2>6. InterruptsPending' /\ LatencyIsRotation'
      BY <1>0, <1>1, Zenon DEF InterruptsPending, LatencyIsRotation, Passes, console, disk
    <2>7. EchoesInput' /\ ClientAwaited'
      <3>0. UNCHANGED <<incoming, putBusy, typed, display, active, ready, asleep>>
        BY <1>0, <2>1, Zenon DEF console, disk
      <3>1. CASE t = Echo /\ sem = "readAvail" /\ next = "GetPut"
        <4>1. /\ value'["writeDone"] = value["writeDone"] /\ value'["disk"] = value["disk"]
              /\ at'[Client] = at[Client] /\ at'[Echo] = "GetPut"
              /\ value'["readAvail"] = value["readAvail"] - 1
          BY <1>1, <2>3, <2>4, <3>1, Zenon DEF Semaphores
        <4>2. value["readAvail"] = 1 /\ incoming # EOF /\ 1 - 1 = 0
          BY <1>0, <1>1, <1>4, <3>1 DEF EchoesInput
        <4>3. EchoesInput'
          BY <1>0, <1>1, <3>0, <3>1, <4>1, <4>2, Zenon DEF EchoesInput
        <4>4. ClientAwaited'
          BY <1>1, <3>0, <4>1, Zenon DEF ClientAwaited
        <4> QED BY <4>3, <4>4
      <3>2. CASE t = Echo /\ sem = "writeDone" /\ next = "Quit?"
        <4>1. /\ value'["readAvail"] = value["readAvail"] /\ value'["disk"] = value["disk"]
              /\ at'[Client] = at[Client] /\ at'[Echo] = "Quit?"
              /\ value'["writeDone"] = value["writeDone"] - 1
          BY <1>1, <2>3, <2>4, <3>2, Zenon DEF Semaphores
        <4>2. value["writeDone"] = 1 /\ ~putBusy /\ 1 - 1 = 0
          BY <1>0, <1>1, <1>4, <3>2 DEF EchoesInput
        <4>3. EchoesInput'
          BY <1>0, <1>1, <3>0, <3>2, <4>1, <4>2, Zenon DEF EchoesInput
        <4>4. ClientAwaited'
          BY <1>1, <3>0, <4>1, Zenon DEF ClientAwaited
        <4> QED BY <4>3, <4>4
      <3>3. CASE t = Client /\ sem = "disk" /\ next = "request"
        <4>1. /\ value'["readAvail"] = value["readAvail"]
              /\ value'["writeDone"] = value["writeDone"]
              /\ at'[Echo] = at[Echo] /\ at'[Client] = "request"
              /\ value'["disk"] = value["disk"] - 1
          BY <1>1, <2>3, <2>4, <3>3, Zenon DEF Semaphores
        <4>2. value["disk"] = 1 /\ ~active /\ 1 - 1 = 0
          BY <1>0, <1>1, <1>4, <3>3 DEF ClientAwaited
        <4>3. Client \notin asleep
          BY <1>0, <1>1, <3>3, Zenon DEF TypeOK, Running
        <4>4. EchoesInput'
          BY <1>1, <3>0, <4>1, Zenon DEF EchoesInput
        <4>5. ClientAwaited'
          BY <3>0, <4>1, <4>2, <4>3, Zenon DEF ClientAwaited
        <4> QED BY <4>4, <4>5
      <3> QED BY <3>1, <3>2, <3>3, Zenon
    <2> QED BY <2>2, <2>5, <2>6, <2>7, Zenon DEF Inv, DevicesInv
  <1> QED BY <1>3, <1>4, Zenon

-----------------------------------------------------------------------------
(***************************************************************************)
(* The disk: when the head gets where.                                     *)
(***************************************************************************)
\* Quotient and remainder.
LEMMA Division ==
    ASSUME NEW n \in Nat \ {0}, NEW a \in Int
    PROVE  /\ a \div n \in Int /\ a % n \in 0..(n - 1)
           /\ a = (a \div n) * n + (a % n)
           /\ a \in Nat => a \div n \in Nat
  <1>1. a \div n \in Int /\ a % n \in Int
    OBVIOUS
  <1>2. a % n >= 0
    OBVIOUS
  <1>3. a % n < n
    OBVIOUS
  <1>4. a = n * (a \div n) + (a % n)
    OBVIOUS
  <1>5. a \in Nat => a \div n >= 0
    OBVIOUS
  <1>6. n * (a \div n) = (a \div n) * n
    BY <1>1
  <1> QED BY <1>1, <1>2, <1>3, <1>4, <1>5, <1>6

\* They are determined by their product and sum.
LEMMA DivisionUnique ==
    ASSUME NEW n \in Nat \ {0}, NEW q \in Int, NEW r \in 0..(n - 1)
    PROVE  (q * n + r) % n = r /\ (q * n + r) \div n = q
  OBVIOUS

\* Multiples of n, in order.
LEMMA Multiples ==
    ASSUME NEW n \in Nat \ {0}, NEW a \in Int, NEW b \in Int
    PROVE  /\ a * n \in Int /\ (a \in Nat => a * n \in Nat)
           /\ (a * n) % n = 0 /\ (a * n) \div n = a
           /\ a < b <=> a * n < b * n
           /\ (a + b) * n = a * n + b * n
           /\ (a - b) * n = a * n - b * n
  <1>1. a * n \in Int /\ (a \in Nat => a * n \in Nat)
    OBVIOUS
  <1>2. (a * n + 0) % n = 0 /\ (a * n + 0) \div n = a
    BY DivisionUnique
  <1>3. a < b <=> a * n < b * n
    OBVIOUS
  <1>4. (a + b) * n = a * n + b * n
    OBVIOUS
  <1>5. (a - b) * n = a * n - b * n
    OBVIOUS
  <1> QED BY <1>1, <1>2, <1>3, <1>4, <1>5

\* Disk::ModuloDiff: how many sectors pass until this one does, and not one less.
LEMMA ModuloDiffPasses ==
    ASSUME NEW s \in Nat, NEW k \in Nat
    PROVE  /\ ModuloDiff(s, k) \in 0..(SectorsPerTrack - 1)
           /\ (k + ModuloDiff(s, k)) % SectorsPerTrack = s % SectorsPerTrack
           /\ \A j \in 0..(ModuloDiff(s, k) - 1) :
                (k + j) % SectorsPerTrack # s % SectorsPerTrack
  <1> DEFINE S == SectorsPerTrack
             rs == s % SectorsPerTrack
             rk == k % SectorsPerTrack
             qk == k \div SectorsPerTrack
             x == rs - rk + SectorsPerTrack
             d == IF x < SectorsPerTrack THEN x ELSE x - SectorsPerTrack
  <1>1. /\ S \in Nat \ {0} /\ rs \in 0..(S - 1) /\ rk \in 0..(S - 1) /\ qk \in Int
        /\ k = qk * S + rk
    BY Times, Division
  <1> HIDE DEF rs, rk, qk, S
  <1>2. ModuloDiff(s, k) = d
    <2>1. ModuloDiff(s, k) = (rs - rk + S) % S
      BY Zenon DEF ModuloDiff, rs, rk, S
    <2>2. CASE x < SectorsPerTrack
      <3>1. rs - rk + S \in 0..(S - 1) /\ 0 * S = 0
        BY <1>1, <2>2 DEF S
      <3>2. (0 * S + (rs - rk + S)) % S = rs - rk + S
        BY <1>1, <3>1, DivisionUnique
      <3> QED BY <1>1, <2>1, <2>2, <3>1, <3>2 DEF S
    <2>3. CASE ~(x < SectorsPerTrack)
      <3>1. rs - rk \in 0..(S - 1) /\ 1 * S = S
        BY <1>1, <2>3 DEF S
      <3>2. (1 * S + (rs - rk)) % S = rs - rk
        BY <1>1, <3>1, DivisionUnique
      <3>3. 1 * S + (rs - rk) = rs - rk + S
        BY <1>1, <3>1
      <3>4. (rs - rk + S) % S = rs - rk
        BY <3>2, <3>3, Zenon
      <3>5. x - SectorsPerTrack = rs - rk
        BY <1>1 DEF S
      <3> QED BY <2>1, <2>3, <3>4, <3>5, Zenon
    <2> QED BY <2>2, <2>3
  <1>3. d \in 0..(S - 1) /\ (rk + d = rs \/ rk + d = rs + S)
    BY <1>1 DEF S
  <1> HIDE DEF d
  <1>4. (k + d) % S = rs
    <2>1. CASE rk + d = rs
      <3>1. k + d = qk * S + rs
        BY <1>1, <1>3, <2>1
      <3> QED BY <1>1, <3>1, DivisionUnique
    <2>2. CASE rk + d = rs + S
      <3>1. (qk + 1) * S = qk * S + S /\ qk * S \in Int
        BY <1>1
      <3>2. k + d = (qk + 1) * S + rs /\ qk + 1 \in Int
        BY <1>1, <1>3, <2>2, <3>1
      <3> QED BY <1>1, <3>2, DivisionUnique
    <2> QED BY <1>3, <2>1, <2>2
  <1>5. ASSUME NEW j \in 0..(d - 1), (k + j) % S = rs PROVE FALSE
    <2> DEFINE q1 == (k + j) \div S
               q2 == (k + d) \div S
    <2>1. k + j \in Int /\ k + d \in Int /\ j < d /\ d < S /\ j \in Nat /\ d \in Nat
      BY <1>1, <1>3
    <2>2. q1 \in Int /\ q2 \in Int /\ k + j = q1 * S + rs /\ k + d = q2 * S + rs
      <3>1. q1 \in Int /\ k + j = q1 * S + ((k + j) % S)
        BY <1>1, <2>1, Division, Zenon
      <3>2. q2 \in Int /\ k + d = q2 * S + ((k + d) % S)
        BY <1>1, <2>1, Division, Zenon
      <3> QED BY <1>4, <1>5, <3>1, <3>2, Zenon
    <2> HIDE DEF q1, q2
    <2>3. q1 * S < q2 * S /\ q2 * S < (q1 + 1) * S
      <3>1. PICK u, v : u = q1 * S /\ v = q2 * S
        OBVIOUS
      <3>2. u \in Int /\ v \in Int /\ (q1 + 1) * S = u + S
        BY <1>1, <2>2, <3>1
      <3>3. k + j = u + rs /\ k + d = v + rs
        BY <2>2, <3>1, Zenon
      <3>4. u < v /\ v < u + S
        BY <1>1, <2>1, <3>2, <3>3
      <3> QED BY <3>1, <3>2, <3>4, Zenon
    <2>4. q1 < q2 /\ q2 < q1 + 1
      BY <1>1, <2>2, <2>3, Multiples
    <2> QED BY <2>2, <2>4
  <1> QED BY <1>2, <1>3, <1>4, <1>5 DEF rs, S

\* A time that is a multiple of the rotation time is its quotient's.
LEMMA PassesAt ==
    ASSUME NEW s, NEW t \in Nat, Passes(s, t)
    PROVE  \E j \in Nat : t = j * RotationTime /\ j % SectorsPerTrack = s % SectorsPerTrack
  <1> DEFINE j == t \div RotationTime
  <1>1. RotationTime \in Nat \ {0} /\ t \in Int
    BY Times
  <1>2. j \in Nat /\ t = j * RotationTime + (t % RotationTime)
    BY <1>1, Division, Zenon
  <1>3. t % RotationTime = 0 /\ j % SectorsPerTrack = s % SectorsPerTrack
    BY Zenon DEF Passes
  <1> HIDE DEF j
  <1>4. t = j * RotationTime
    BY <1>1, <1>2, <1>3
  <1> QED BY <1>2, <1>3, <1>4, Zenon

\* And the other way round.
LEMMA PassesThen ==
    ASSUME NEW s, NEW j \in Nat, j % SectorsPerTrack = s % SectorsPerTrack
    PROVE  j * RotationTime \in Nat /\ Passes(s, j * RotationTime)
  <1>1. RotationTime \in Nat \ {0} /\ j \in Int
    BY Times
  <1>2. /\ j * RotationTime \in Nat
        /\ (j * RotationTime) % RotationTime = 0
        /\ (j * RotationTime) \div RotationTime = j
    BY <1>1, Multiples, Zenon
  <1> QED BY <1>2, Zenon DEF Passes

\* The first time a sector passes the head when the head is ready at time t, and the next
\* sector begins at k * RotationTime.
LEMMA FirstPass ==
    ASSUME NEW s \in Nat, NEW t0 \in Nat, NEW k \in Nat,
           t0 <= k * RotationTime, k * RotationTime < t0 + RotationTime
    PROVE  Min({t \in t0..(t0 + (SectorsPerTrack + 1) * RotationTime) : Passes(s, t)})
             = k * RotationTime + ModuloDiff(s, k) * RotationTime
  <1> DEFINE R == RotationTime
             S == SectorsPerTrack
             d == ModuloDiff(s, k)
             m == (k + d) * R
             last == t0 + (S + 1) * R
             passing == {t \in t0..last : Passes(s, t)}
  <1>1. R \in Nat \ {0} /\ S \in Nat \ {0}
    BY Times
  <1>2. /\ d \in 0..(S - 1)
        /\ (k + d) % S = s % S
        /\ \A j \in 0..(d - 1) : (k + j) % S # s % S
    BY ModuloDiffPasses, Zenon
  <1>3. t0 <= k * R /\ k * R < t0 + R
    OBVIOUS
  <1> HIDE DEF d
  <1>4. d \in Nat /\ k + d \in Nat
    BY <1>1, <1>2
  <1>5. Passes(s, m) /\ m \in Nat
    BY <1>2, <1>4, PassesThen, Zenon
  <1> HIDE DEF R, S
  <1>6. m = k * R + d * R /\ k * R \in Nat /\ d * R \in Nat
    BY <1>1, <1>4, Multiples
  <1>7. d * R + R <= S * R /\ (S + 1) * R = S * R + R /\ S * R \in Nat
    <2>1. d + 1 <= S
      BY <1>1, <1>2
    <2>2. (d + 1) * R <= S * R
      BY <1>1, <1>4, <2>1
    <2>3. (d + 1) * R = d * R + R /\ (S + 1) * R = S * R + R /\ S * R \in Nat
      BY <1>1, <1>4
    <2> QED BY <2>2, <2>3
  <1>8. m \in t0..last
    <2>1. PICK u, v, w : u = k * R /\ v = d * R /\ w = S * R
      OBVIOUS
    <2>2. /\ u \in Nat /\ v \in Nat /\ w \in Nat /\ v + R <= w /\ (S + 1) * R = w + R
          /\ t0 <= u /\ u < t0 + R /\ m = u + v
      BY <1>3, <1>6, <1>7, <2>1
    <2> HIDE DEF m
    <2> QED BY <1>1, <2>2
  <1>9. ASSUME NEW t \in passing PROVE m <= t
    <2>1. t \in Nat /\ t0 <= t /\ Passes(s, t)
      BY <1>1
    <2>2. PICK j \in Nat : t = j * R /\ j % S = s % S
      BY <2>1, PassesAt, Zenon DEF R, S
    <2>3. k - 1 < j
      <3>1. (k - 1) * R = k * R - R
        BY <1>1
      <3>2. (k - 1) * R < j * R
        <4>1. PICK u, v : u = k * R /\ v = (k - 1) * R
          OBVIOUS
        <4>2. u \in Nat /\ v = u - R /\ u < t0 + R
          BY <1>3, <1>6, <3>1, <4>1
        <4>3. v < t
          BY <1>1, <2>1, <4>2
        <4> QED BY <2>2, <4>1, <4>3, Zenon
      <3>3. k - 1 \in Int /\ j \in Int
        OBVIOUS
      <3> QED BY <1>1, <3>2, <3>3, Multiples, Zenon
    <2>4. ASSUME ~(k + d <= j) PROVE FALSE
      <3>1. j - k \in 0..(d - 1) /\ k + (j - k) = j
        BY <1>4, <2>3, <2>4
      <3> QED BY <1>2, <2>2, <3>1
    <2>5. k + d <= j
      BY <2>4, Zenon
    <2> QED BY <1>1, <1>4, <2>2, <2>5
  <1>10. m \in passing
    BY <1>5, <1>8, Zenon
  <1>11. \A t \in passing : t \in Nat
    BY <1>1
  <1> HIDE DEF passing, m
  <1>12. Min(passing) = m
    <2>1. Min(passing) \in passing /\ \A t \in passing : Min(passing) <= t
      BY <1>9, <1>10 DEF Min
    <2>2. PICK x : x = Min(passing)
      OBVIOUS
    <2>3. x \in Nat /\ m \in Nat /\ x <= m /\ m <= x
      BY <1>5, <1>9, <1>10, <1>11, <2>1, <2>2, Zenon
    <2>4. x = m
      BY <2>3
    <2> QED BY <2>2, <2>4, Zenon
  <1> QED BY <1>6, <1>12, Zenon DEF passing, R, S, d, last

\* The sector has passed since the track buffer was started, at b * RotationTime.
LEMMA PassedSince ==
    ASSUME NEW s \in Nat, NEW t0 \in Nat, NEW k \in Nat, NEW b \in Nat,
           t0 <= k * RotationTime, k * RotationTime < t0 + RotationTime
    PROVE  (k * RotationTime - b * RotationTime) \div RotationTime
              > ModuloDiff(s, (b * RotationTime) \div RotationTime)
             <=> \E t \in (b * RotationTime)..t0 : Passes(s, t) /\ t < t0
  <1> DEFINE R == RotationTime
             S == SectorsPerTrack
             d == ModuloDiff(s, b)
  <1>1. R \in Nat \ {0} /\ S \in Nat \ {0}
    BY Times
  <1>2. /\ d \in 0..(S - 1)
        /\ (b + d) % S = s % S
        /\ \A j \in 0..(d - 1) : (b + j) % S # s % S
    BY ModuloDiffPasses, Zenon
  <1>3. t0 <= k * R /\ k * R < t0 + R
    OBVIOUS
  <1> HIDE DEF d
  <1>4. d \in Nat /\ b + d \in Nat /\ b \in Int /\ k \in Int
    BY <1>1, <1>2
  <1>5. (b * R) \div R = b /\ b * R \in Nat /\ k * R \in Nat
    BY <1>1, <1>4, Multiples, Zenon
  <1>6. (k * R - b * R) \div R = k - b
    <2>1. (k - b) * R = k * R - b * R /\ k - b \in Int
      BY <1>1, <1>4, Multiples
    <2>2. ((k - b) * R) \div R = k - b
      BY <1>1, <2>1, Multiples, Zenon
    <2> QED BY <2>1, <2>2, Zenon
  <1> DEFINE Some == \E t \in (b * R)..t0 : Passes(s, t) /\ t < t0
  <1>7. ASSUME k - b > d PROVE Some
    <2>1. (b + d) * R \in Nat /\ Passes(s, (b + d) * R)
      BY <1>2, <1>4, PassesThen, Zenon
    <2> HIDE DEF R, S
    <2>2. b + d <= k - 1 /\ b <= b + d
      BY <1>4, <1>7
    <2>3. (b + d) * R <= (k - 1) * R /\ b * R <= (b + d) * R
      BY <1>1, <1>4, <2>2
    <2>4. (k - 1) * R = k * R - R
      BY <1>1
    <2>5. (b + d) * R < t0
      <3>1. PICK u, v, w : u = k * R /\ v = (b + d) * R /\ w = (k - 1) * R
        OBVIOUS
      <3>2. u \in Nat /\ v \in Nat /\ v <= w /\ w = u - R /\ u < t0 + R
        BY <1>3, <1>5, <2>1, <2>3, <2>4, <3>1
      <3>3. v < t0
        BY <1>1, <3>2
      <3> QED BY <3>1, <3>3, Zenon
    <2>6. PICK u, v : u = b * R /\ v = (b + d) * R
      OBVIOUS
    <2>7. u \in Nat /\ v \in Nat /\ u <= v /\ v < t0 /\ Passes(s, v)
      BY <1>5, <2>1, <2>3, <2>5, <2>6, Zenon
    <2>8. v \in u..t0
      BY <2>7
    <2> QED BY <2>6, <2>7, <2>8, Zenon
  <1>8. ASSUME Some PROVE k - b > d
    <2>1. PICK t \in (b * R)..t0 : Passes(s, t) /\ t < t0
      BY <1>8
    <2>2. t \in Nat /\ b * R <= t
      BY <1>5
    <2>3. PICK j \in Nat : t = j * R /\ j % S = s % S
      BY <2>1, <2>2, PassesAt, Zenon
    <2> HIDE DEF R, S
    <2>4. b <= j
      <3>1. ASSUME j < b PROVE FALSE
        <4>1. j * R < b * R /\ j \in Int
          BY <1>1, <1>4, <3>1, Multiples
        <4>2. t < b * R
          BY <2>3, <4>1, Zenon
        <4>3. PICK u : u = b * R
          OBVIOUS
        <4>4. u \in Nat /\ t < u /\ u <= t
          BY <1>5, <2>2, <4>2, <4>3, Zenon
        <4> QED BY <2>2, <4>4
      <3> QED BY <1>4, <3>1
    <2>5. j < k
      <3>1. PICK u : u = k * R
        OBVIOUS
      <3>2. t < u
        <4>1. u \in Nat /\ t0 <= u
          BY <1>3, <1>5, <3>1, Zenon
        <4> QED BY <2>1, <2>2, <4>1
      <3>3. j * R < k * R /\ j \in Int
        BY <2>3, <3>1, <3>2
      <3> QED BY <1>1, <1>4, <3>3, Multiples, Zenon
    <2>6. ASSUME ~(k - b > d) PROVE FALSE
      <3>1. j - b \in 0..(d - 1) /\ b + (j - b) = j
        BY <1>4, <2>4, <2>5, <2>6
      <3> QED BY <1>2, <2>3, <3>1
    <2> QED BY <2>6, Zenon
  <1>9. (k - b > d) <=> Some
    BY <1>7, <1>8, Zenon
  <1> QED BY <1>5, <1>6, <1>9, Zenon DEF d

\* Disk::TimeToSeek: the arm gets there and the next sector begins, not more than a sector's
\* time later.
LEMMA HeadReady ==
    ASSUME TypeOK, NEW sector \in Sector
    PROVE  /\ sector \in Nat /\ Seek(sector) \in Nat /\ Rotation(sector) \in Nat
           /\ Seek(sector) = SeekTime * Distance(sector \div SectorsPerTrack,
                                                 lastSector \div SectorsPerTrack)
           /\ \E k \in Nat : /\ TimeAfter(sector) = k * RotationTime
                             /\ totalTicks + Seek(sector) <= k * RotationTime
                             /\ k * RotationTime < totalTicks + Seek(sector) + RotationTime
  <1> DEFINE R == RotationTime
             S == SectorsPerTrack
             a == sector \div SectorsPerTrack
             b == lastSector \div SectorsPerTrack
             t == totalTicks + Seek(sector)
             over == t % R
             q == t \div R
  <1>1. R \in Nat \ {0} /\ S \in Nat \ {0} /\ SeekTime \in Nat
    BY Times
  <1>2. sector \in Int /\ sector \in Nat /\ lastSector \in Int /\ lastSector \in Nat
    <2>1. lastSector \in Sector
      BY Zenon DEF TypeOK
    <2> QED BY <2>1 DEF Sector
  <1>3. a \in Nat /\ b \in Nat
    BY <1>1, <1>2, Division, Zenon
  <1> HIDE DEF a, b
  <1>4. Distance(a, b) \in Nat
    BY <1>3 DEF Distance
  <1>5. Seek(sector) = Distance(a, b) * SeekTime
    BY Zenon DEF Seek, a, b
  <1>6. Seek(sector) \in Nat /\ Seek(sector) = SeekTime * Distance(a, b)
    <2> DEFINE x == Distance(a, b)
    <2> HIDE DEF x
    <2>1. x \in Nat /\ Seek(sector) = x * SeekTime
      BY <1>4, <1>5, Zenon DEF x
    <2>2. x * SeekTime \in Nat /\ x * SeekTime = SeekTime * x
      BY <1>1, <2>1
    <2> QED BY <2>1, <2>2, Zenon DEF x
  <1>7. totalTicks \in Nat
    BY Zenon DEF TypeOK
  <1>8. t \in Nat /\ t \in Int
    BY <1>6, <1>7
  <1>9. Rotation(sector) = IF over > 0 THEN R - over ELSE 0
    BY Zenon DEF Rotation
  <1>10. TimeAfter(sector) = t + Rotation(sector)
    BY Zenon DEF TimeAfter
  <1> HIDE DEF t
  <1>11. q \in Nat /\ over \in 0..(R - 1) /\ t = q * R + over
    BY <1>1, <1>8, Division, Zenon
  <1> HIDE DEF over, q, R
  <1>12. Rotation(sector) \in Nat
    BY <1>1, <1>9, <1>11
  <1>13. \E k \in Nat : TimeAfter(sector) = k * R /\ t <= k * R /\ k * R < t + R
    <2>1. CASE over > 0
      <3>1. (q + 1) * R = q * R + R /\ q * R \in Nat /\ q + 1 \in Nat
        BY <1>1, <1>11
      <3>2. PICK u : u = q * R
        OBVIOUS
      <3>3. PICK k \in Nat : k * R = u + R
        BY <3>1, <3>2
      <3>4. u \in Nat /\ t = u + over /\ TimeAfter(sector) = t + (R - over)
        BY <1>9, <1>10, <1>11, <2>1, <3>1, <3>2, Zenon
      <3>5. TimeAfter(sector) = u + R /\ t <= u + R /\ u + R < t + R
        BY <1>1, <1>11, <2>1, <3>4
      <3> QED BY <3>3, <3>5, Zenon
    <2>2. CASE ~(over > 0)
      <3>1. over = 0
        BY <1>1, <1>11, <2>2
      <3>2. PICK u : u = q * R
        OBVIOUS
      <3>3. u \in Nat
        BY <1>1, <1>11, <3>2
      <3>4. t = u + 0 /\ TimeAfter(sector) = t + 0
        BY <1>9, <1>10, <1>11, <2>2, <3>1, <3>2, Zenon
      <3>5. TimeAfter(sector) = u /\ t <= u /\ u < t + R
        BY <1>1, <3>3, <3>4
      <3> QED BY <1>11, <3>2, <3>5, Zenon
    <2> QED BY <2>1, <2>2, Zenon
  <1> QED BY <1>2, <1>6, <1>12, <1>13, Zenon DEF t, R, a, b

\* When a transfer should end, as LatencyIsRotation puts it.
TransferEnds(sector, writing, from, buffer, issued) ==
    LET seek == SeekTime * Distance(sector \div SectorsPerTrack, from \div SectorsPerTrack)
        ready0 == issued + seek
        passing == {t \in ready0..(ready0 + (SectorsPerTrack + 1) * RotationTime) :
                        Passes(sector, t)}
        buffered == \E t \in buffer..issued : Passes(sector, t) /\ t < issued
    IN  IF ~writing /\ seek = 0 /\ buffered THEN issued + RotationTime
        ELSE Min(passing) + RotationTime

\* Disk::ComputeLatency: the transfer ends when the sector has passed the head.
LEMMA LatencyRight ==
    ASSUME TypeOK, bufferInit % RotationTime = 0, NEW sector \in Sector, NEW writing \in BOOLEAN
    PROVE  /\ ComputeLatency(sector, writing) \in Nat \ {0}
           /\ TimeAfter(sector) \in Nat /\ TimeAfter(sector) % RotationTime = 0
           /\ totalTicks + ComputeLatency(sector, writing)
                = TransferEnds(sector, writing, lastSector, bufferInit, totalTicks)
  <1> DEFINE R == RotationTime
             S == SectorsPerTrack
             seek == SeekTime * Distance(sector \div S, lastSector \div S)
             rot == Rotation(sector)
             ready0 == totalTicks + seek
             first == Min({t \in ready0..(ready0 + (S + 1) * R) : Passes(sector, t)})
             buffered == \E t \in bufferInit..totalTicks : Passes(sector, t) /\ t < totalTicks
             latency == ComputeLatency(sector, writing)
  <1>1. R \in Nat \ {0} /\ totalTicks \in Nat /\ bufferInit \in Nat /\ bufferInit \in Int
    BY Times DEF TypeOK
  <1>2. sector \in Nat /\ seek \in Nat /\ rot \in Nat /\ Seek(sector) = seek
    BY HeadReady, Zenon
  <1>3. PICK k \in Nat : TimeAfter(sector) = k * R /\ ready0 <= k * R /\ k * R < ready0 + R
    BY <1>2, HeadReady, Zenon
  <1>4. PICK b \in Nat : bufferInit = b * R
    <2>1. bufferInit \div R \in Nat /\ bufferInit = (bufferInit \div R) * R + 0
      BY <1>1, Division, Zenon
    <2>2. ((bufferInit \div R) * R) + 0 = (bufferInit \div R) * R
      BY <1>1, <2>1
    <2> QED BY <2>1, <2>2, Zenon
  <1>5. /\ k * R \in Nat /\ (k * R) % R = 0 /\ (k * R) \div R = k
    <2>1. k \in Int
      OBVIOUS
    <2> QED BY <1>1, <2>1, Multiples, Zenon
  <1>6. ready0 \in Nat /\ TimeAfter(sector) = ready0 + rot
    <2>1. TimeAfter(sector) = ready0 + rot
      BY <1>2, Zenon DEF TimeAfter
    <2> HIDE DEF seek
    <2>2. ready0 \in Nat
      BY <1>1, <1>2
    <2> QED BY <2>1, <2>2, Zenon
  <1> HIDE DEF seek, rot, ready0
  <1> DEFINE d == ModuloDiff(sector, k)
  <1>7. first = k * R + d * R /\ d \in Nat
    <2>1. first = k * R + d * R
      BY <1>2, <1>3, <1>6, FirstPass, Zenon
    <2>2. d \in 0..(S - 1) /\ S \in Nat
      BY <1>2, ModuloDiffPasses, Times, Zenon
    <2> HIDE DEF d
    <2>3. d \in Nat
      BY <2>2
    <2> QED BY <2>1, <2>3
  <1>8. ASSUME seek = 0 PROVE InTrackBuffer(sector) <=> buffered
    <2>1. totalTicks <= k * R /\ k * R < totalTicks + R
      <3>1. ready0 = totalTicks
        BY <1>1, <1>8 DEF ready0
      <3> QED BY <1>3, <3>1, Zenon
    <2>2. (k * R - b * R) \div R > ModuloDiff(sector, (b * R) \div R) <=> buffered
      BY <1>1, <1>2, <1>4, <2>1, PassedSince, Zenon
    <2>3. InTrackBuffer(sector)
            <=> (k * R - b * R) \div R > ModuloDiff(sector, (b * R) \div R)
      BY <1>2, <1>3, <1>4, <1>8, Zenon DEF InTrackBuffer
    <2> QED BY <2>2, <2>3, Zenon
  <1>9. CASE ~writing /\ InTrackBuffer(sector)
    <2>1. latency = R /\ seek = 0
      BY <1>2, <1>9, Zenon DEF ComputeLatency, InTrackBuffer
    <2>2. buffered
      BY <1>8, <1>9, <2>1, Zenon
    <2>3. TransferEnds(sector, writing, lastSector, bufferInit, totalTicks) = totalTicks + R
      BY <1>9, <2>1, <2>2, Zenon DEF TransferEnds, seek
    <2> QED BY <1>1, <1>3, <1>5, <2>1, <2>3, Zenon
  <1>10. CASE ~(~writing /\ InTrackBuffer(sector))
    <2>1. latency = seek + rot + R + d * R
      BY <1>2, <1>3, <1>5, <1>10, Zenon DEF ComputeLatency, rot
    <2>2. TransferEnds(sector, writing, lastSector, bufferInit, totalTicks) = first + R
      BY <1>8, <1>10, Zenon DEF TransferEnds, seek, ready0
    <2> HIDE DEF d, R, first, latency
    <2>3. PICK u, v : u = k * R /\ v = d * R
      OBVIOUS
    <2>4. v \in Nat
      BY <1>1, <1>7, <2>3
    <2>5. u = ready0 + rot /\ first = u + v /\ latency = seek + rot + R + v
      BY <1>3, <1>6, <1>7, <2>1, <2>3, Zenon
    <2>6. latency \in Nat \ {0} /\ totalTicks + latency = first + R
      BY <1>1, <1>2, <2>4, <2>5 DEF ready0
    <2> QED BY <1>3, <1>5, <2>2, <2>6, Zenon DEF R, latency
  <1> QED BY <1>9, <1>10, Zenon

-----------------------------------------------------------------------------
(***************************************************************************)
(* Calls of the devices.                                                   *)
(***************************************************************************)
\* Interrupt::Schedule, called by the running thread: nothing is overdue then.
LEMMA NowScheduled ==
    ASSUME Inv, NEW t, Running(t), t # Client \/ at[Client] # "disk",
           NEW n \in Nat \ {0}, NEW type \in {"ConsoleWrite", "Disk"}, type \notin Types(pending),
           pending' = Schedule(pending, totalTicks, n, type),
           UNCHANGED <<setting, totalTicks, phase, current, ready, since>>
    PROVE  /\ pending' \in Seq(PendingInterrupt) /\ Sorted(pending')
           /\ Types(pending') = Types(pending) \cup {type}
           /\ NothingOverdue' /\ TimerInTime'
  <1>1. /\ TypeOK /\ NothingOverdue /\ TimerInTime /\ phase = "run" /\ current = t
        /\ totalTicks \in Nat
    BY RunningFacts, Zenon
  <1>2. pending \in Seq(PendingInterrupt) /\ Sorted(pending)
    BY <1>1, Zenon DEF TypeOK, Sorted
  <1>3. Added(pending', pending, totalTicks + n, type)
    BY <1>1, <1>2, Scheduled, Zenon
  <1>4. /\ pending' \in Seq(PendingInterrupt) /\ Sorted(pending')
        /\ Types(pending') = Types(pending) \cup {type}
        /\ \A i \in DOMAIN pending' :
             \/ pending'[i].when = totalTicks + n /\ pending'[i].type = type
             \/ \E k \in DOMAIN pending : pending'[i] = pending[k]
    BY <1>3, Zenon DEF Added
  <1>5. \A k \in DOMAIN pending : pending[k].when > totalTicks
    BY <1>1, Zenon DEF NothingOverdue
  <1>6. totalTicks + n > totalTicks
    BY <1>1
  <1>7. \A i \in DOMAIN pending' : pending'[i].when > totalTicks
    BY <1>4, <1>5, <1>6, Zenon
  <1>8. NothingOverdue'
    BY <1>7, Zenon DEF NothingOverdue
  <1>9. TimerInTime'
    <2>1. ASSUME NEW i \in DOMAIN pending', pending'[i].type = "Timer"
          PROVE  \E k \in DOMAIN pending : pending'[i] = pending[k]
      BY <1>4, <2>1, Zenon
    <2> SUFFICES ASSUME NEW i \in DOMAIN pending', pending'[i].type = "Timer"
                 PROVE  /\ pending'[i].when <= totalTicks + 2 * TimerTicks
                        /\ ready # <<>> => pending'[i].when <= since + 2 * TimerTicks
      BY Zenon DEF TimerInTime
    <2>2. PICK k \in DOMAIN pending : pending'[i] = pending[k]
      BY <2>1, Zenon
    <2> QED BY <1>1, <2>2, Zenon DEF TimerInTime
  <1> QED BY <1>4, <1>8, <1>9, Zenon

\* ConsoleTest fetches a character and writes it (Console::GetChar, PutChar).
LEMMA EchoCharInv ==
    ASSUME Inv, EchoChar
    PROVE  Inv'
  <1>1. /\ Running(Echo) /\ at[Echo] = "GetPut"
        /\ incoming' = EOF /\ display' = Append(display, incoming) /\ putBusy' = TRUE
        /\ pending' = Schedule(pending, totalTicks, ConsoleTime, "ConsoleWrite")
        /\ at' = [at EXCEPT ![Echo] = "writeDone"]
        /\ UNCHANGED <<setting, totalTicks, yieldOnReturn, phase, current, ready, value, typed,
                       disk, asleep, since>>
    BY Zenon DEF EchoChar, GetChar, PutChar
  <1>2. /\ TypeOK /\ InterruptsPending /\ ClientAwaited /\ EchoesInput /\ LatencyIsRotation
        /\ phase = "run" /\ Echo # Client /\ current = Echo
    BY <1>1, RunningFacts, ThreadsAreThreads, Zenon
  <1>3. ~putBusy /\ incoming # EOF /\ value["readAvail"] = 0 /\ value["writeDone"] = 0
    BY <1>1, <1>2, Zenon DEF EchoesInput
  <1>4. "ConsoleWrite" \notin Types(pending) /\ ConsoleTime \in Nat \ {0}
    BY <1>2, <1>3, PendingTypes, Times, Zenon
  <1>5. /\ pending' \in Seq(PendingInterrupt) /\ Sorted(pending')
        /\ Types(pending') = Types(pending) \cup {"ConsoleWrite"}
        /\ NothingOverdue' /\ TimerInTime'
    BY <1>1, <1>2, <1>4, NowScheduled, Zenon
  <1>6. /\ at' \in [{Echo, Client} ->
                    {"readAvail", "GetPut", "writeDone", "Quit?", "request", "disk"}]
        /\ at'[Echo] = "writeDone" /\ at'[Client] = at[Client]
    BY <1>1, <1>2 DEF TypeOK
  <1>7. incoming \in Char /\ display \in Seq(Char)
    BY <1>2, <1>3, Zenon DEF TypeOK
  <1>8. /\ display' \in Seq(Char) /\ display' = display \o <<incoming>>
        /\ display' \o <<>> = display'
    BY <1>1, <1>7
  <1>9. TypeOK'
    BY <1>1, <1>2, <1>5, <1>6, <1>8, Zenon DEF TypeOK, Sorted, disk
  <1>10. InterruptsPending'
    BY <1>1, <1>2, <1>5, <1>9, PendingTypes, Zenon DEF InterruptsPending, Types, disk
  <1>11. ClientAwaited' /\ LatencyIsRotation'
    BY <1>1, <1>2, <1>6, Zenon DEF ClientAwaited, LatencyIsRotation, Passes, disk
  <1>12. EchoesInput'
    <2>1. display \o <<incoming>> = SubSeq(Keyboard, 1, typed)
      BY <1>2, <1>3, Zenon DEF EchoesInput
    <2> QED BY <1>1, <1>3, <1>6, <1>8, <2>1, Zenon DEF EchoesInput
  <1>13. HaltsWhenDone'
    BY <1>1, <1>2, Zenon DEF HaltsWhenDone
  <1> QED BY <1>5, <1>9, <1>10, <1>11, <1>12, <1>13, Zenon DEF Inv, DevicesInv

\* ConsoleTest goes on, or main halts the machine.
LEMMA QuitInv ==
    ASSUME Inv, Quit
    PROVE  Inv'
  <1>1. /\ Running(Echo) /\ at[Echo] = "Quit?"
        /\ \/ phase' = "halted" /\ at' = at
           \/ phase' = phase /\ at' = [at EXCEPT ![Echo] = "readAvail"]
        /\ UNCHANGED <<setting, totalTicks, pending, yieldOnReturn, current, ready, ch, value,
                       console, disk, asleep, since>>
    BY Zenon DEF Quit
  <1>2. /\ TypeOK /\ InterruptsPending /\ NothingOverdue /\ ClientAwaited /\ TimerInTime
        /\ EchoesInput /\ LatencyIsRotation
        /\ phase = "run" /\ Echo # Client /\ current = Echo /\ Echo # NULL
    BY <1>1, RunningFacts, ThreadsAreThreads, Zenon
  <1>3. /\ at' \in [{Echo, Client} ->
                    {"readAvail", "GetPut", "writeDone", "Quit?", "request", "disk"}]
        /\ at'[Echo] \in {"Quit?", "readAvail"} /\ at'[Client] = at[Client]
    BY <1>1, <1>2 DEF TypeOK
  <1>4. TypeOK'
    BY <1>1, <1>2, <1>3, ZenonT(40) DEF TypeOK, console, disk
  <1>5. InterruptsPending' /\ ClientAwaited' /\ LatencyIsRotation'
    BY <1>1, <1>2, <1>3, ZenonT(40) DEF InterruptsPending, ClientAwaited, LatencyIsRotation, Passes,
                                   console, disk
  <1>6. NothingOverdue' /\ TimerInTime'
    BY <1>1, <1>2, <1>3, Zenon DEF NothingOverdue, TimerInTime
  <1>7. EchoesInput'
    BY <1>1, <1>2, <1>3, Zenon DEF EchoesInput, console
  <1>8. HaltsWhenDone'
    BY <1>1, <1>2, Zenon DEF HaltsWhenDone
  <1> QED BY <1>4, <1>5, <1>6, <1>7, <1>8, Zenon DEF Inv, DevicesInv

\* Disk::ReadRequest and WriteRequest.
LEMMA RequestInv ==
    ASSUME Inv, NEW sector \in Sector, NEW writing \in BOOLEAN, Request(sector, writing)
    PROVE  Inv'
  <1> DEFINE ticks == ComputeLatency(sector, writing)
  <1>1. /\ Running(Client) /\ at[Client] = "request"
        /\ pending' = Schedule(pending, totalTicks, ticks, "Disk")
        /\ target' = [sector |-> sector, writing |-> writing, from |-> lastSector,
                      buffer |-> bufferInit, issued |-> totalTicks, done |-> totalTicks + ticks]
        /\ bufferInit' = bufferInit \/ bufferInit' = TimeAfter(sector)
        /\ lastSector' = sector
        /\ active' = TRUE
        /\ at' = [at EXCEPT ![Client] = "disk"]
        /\ UNCHANGED <<setting, totalTicks, yieldOnReturn, phase, current, ready, value, console,
                       asleep, since>>
    BY Zenon DEF Request, UpdateLast
  <1>2. /\ TypeOK /\ InterruptsPending /\ ClientAwaited /\ EchoesInput /\ LatencyIsRotation
        /\ phase = "run" /\ Echo # Client /\ current = Client
    BY <1>1, RunningFacts, ThreadsAreThreads, Zenon
  <1>3. ~active /\ value["disk"] = 0 /\ bufferInit % RotationTime = 0 /\ bufferInit \in Nat
    BY <1>1, <1>2, Zenon DEF ClientAwaited, LatencyIsRotation, TypeOK
  <1>4. /\ ticks \in Nat \ {0} /\ TimeAfter(sector) \in Nat /\ TimeAfter(sector) % RotationTime = 0
        /\ totalTicks + ticks
             = TransferEnds(sector, writing, lastSector, bufferInit, totalTicks)
    BY <1>2, <1>3, LatencyRight, Zenon
  <1> HIDE DEF ticks
  <1>5. "Disk" \notin Types(pending)
    BY <1>2, <1>3, PendingTypes, Zenon
  <1>6. /\ pending' \in Seq(PendingInterrupt) /\ Sorted(pending')
        /\ Types(pending') = Types(pending) \cup {"Disk"}
        /\ NothingOverdue' /\ TimerInTime'
    BY <1>1, <1>4, <1>5, NowScheduled, Zenon
  <1>7. /\ at' \in [{Echo, Client} ->
                    {"readAvail", "GetPut", "writeDone", "Quit?", "request", "disk"}]
        /\ at'[Client] = "disk" /\ at'[Echo] = at[Echo]
    BY <1>1, <1>2 DEF TypeOK
  <1>8. bufferInit' \in Nat /\ bufferInit' % RotationTime = 0
    BY <1>1, <1>3, <1>4, Zenon
  <1>9. TypeOK'
    BY <1>1, <1>2, <1>6, <1>7, <1>8, Zenon DEF TypeOK, Sorted, console
  <1>10. InterruptsPending'
    BY <1>1, <1>2, <1>6, <1>9, PendingTypes, Zenon DEF InterruptsPending, Types, console
  <1>11. ClientAwaited'
    <2>1. Client \notin asleep
      BY <1>2, Zenon DEF TypeOK
    <2> QED BY <1>1, <1>3, <1>7, <2>1, Zenon DEF ClientAwaited
  <1>12. EchoesInput'
    BY <1>1, <1>2, <1>7, Zenon DEF EchoesInput, console
  <1>13. LatencyIsRotation'
    <2>1. /\ target'.sector = sector /\ target'.writing = writing /\ target'.from = lastSector
          /\ target'.buffer = bufferInit /\ target'.issued = totalTicks
          /\ target'.done = totalTicks + ticks
      BY <1>1, Zenon
    <2> QED BY <1>4, <1>8, <2>1, Zenon DEF LatencyIsRotation, TransferEnds, Passes
  <1>14. HaltsWhenDone'
    BY <1>1, <1>2, Zenon DEF HaltsWhenDone
  <1> QED BY <1>6, <1>9, <1>10, <1>11, <1>12, <1>13, <1>14, Zenon DEF Inv, DevicesInv

-----------------------------------------------------------------------------
(***************************************************************************)
(* The invariant and what follows from it.                                 *)
(***************************************************************************)
\* The list when the devices have been started (Timer::Timer, Console::Console): an interrupt
\* of each, and it is to come.
LEMMA DevicesStarted ==
    ASSUME Init
    PROVE  /\ pending \in Seq(PendingInterrupt) /\ Sorted(pending)
           /\ "Timer" \in Types(pending) <=> setting.rs
           /\ "ConsoleRead" \in Types(pending) <=> Echo \in setting.threads
           /\ "ConsoleWrite" \notin Types(pending) /\ "Disk" \notin Types(pending)
           /\ \A i \in DOMAIN pending :
                 /\ pending[i].when > 0
                 /\ pending[i].type = "Timer" => pending[i].when <= 2 * TimerTicks
  <1> DEFINE Started(list, types) ==
               /\ list \in Seq(PendingInterrupt) /\ Sorted(list) /\ Types(list) = types
               /\ \A i \in DOMAIN list :
                     /\ list[i].when > 0
                     /\ list[i].type = "Timer" => list[i].when <= 2 * TimerTicks
             polling(list) == IF Echo \notin setting.threads THEN list
                              ELSE Schedule(list, 0, ConsoleTime, "ConsoleRead")
             timer == IF setting.rs THEN {"Timer"} ELSE {}
             console0 == IF Echo \in setting.threads THEN {"ConsoleRead"} ELSE {}
  <1>1. Started(<<>>, {})
    <2>1. <<>> \in Seq(PendingInterrupt) /\ DOMAIN <<>> = {}
      OBVIOUS
    <2> QED BY <2>1, Zenon DEF Sorted, Types
  <1>2. ASSUME NEW first \in TimeOfNextInterrupt, NEW list,
               list = Schedule(<<>>, 0, first, "Timer")
        PROVE  Started(list, {"Timer"})
    <2>1. first \in Nat /\ 0 + first = first /\ first > 0 /\ first <= 2 * TimerTicks /\ 0 \in Nat
      BY Times DEF TimeOfNextInterrupt
    <2>2. Added(list, <<>>, 0 + first, "Timer")
      BY <1>1, <1>2, <2>1, Scheduled, Zenon
    <2>3. DOMAIN <<>> = {} /\ Types(<<>>) = {}
      BY DEF Types
    <2> QED BY <2>1, <2>2, <2>3, Zenon DEF Added
  <1>3. ASSUME NEW list, NEW types, Started(list, types), "ConsoleRead" \notin types, NEW new,
               new = Schedule(list, 0, ConsoleTime, "ConsoleRead")
        PROVE  Started(new, types \cup {"ConsoleRead"})
    <2>1. ConsoleTime \in Nat /\ 0 \in Nat /\ 0 + ConsoleTime > 0
      BY Times
    <2>2. Added(new, list, 0 + ConsoleTime, "ConsoleRead")
      BY <1>3, <2>1, Scheduled, Zenon
    <2> QED BY <1>3, <2>1, <2>2, Zenon DEF Added
  <1> HIDE DEF Started
  <1>4. PICK list : Started(list, timer) /\ pending = polling(list)
    <2>1. CASE ~setting.rs /\ pending = polling(<<>>)
      BY <1>1, <2>1, Zenon
    <2>2. CASE setting.rs /\ \E first \in TimeOfNextInterrupt :
                                pending = polling(Schedule(<<>>, 0, first, "Timer"))
      <3>1. PICK first \in TimeOfNextInterrupt :
                   pending = polling(Schedule(<<>>, 0, first, "Timer"))
        BY <2>2, Zenon
      <3>2. Started(Schedule(<<>>, 0, first, "Timer"), {"Timer"})
        BY <1>2, Zenon
      <3> QED BY <2>2, <3>1, <3>2, Zenon
    <2> QED BY <2>1, <2>2, Zenon DEF Init
  <1>5. Started(pending, timer \cup console0)
    <2>1. CASE Echo \in setting.threads
      <3>1. pending = Schedule(list, 0, ConsoleTime, "ConsoleRead")
        BY <1>4, <2>1, Zenon
      <3>2. "ConsoleRead" \notin timer
        OBVIOUS
      <3> HIDE DEF timer
      <3>3. Started(pending, timer \cup {"ConsoleRead"})
        BY <1>3, <1>4, <3>1, <3>2, Zenon
      <3> QED BY <2>1, <3>3, Zenon
    <2>2. CASE Echo \notin setting.threads
      <3>1. pending = list
        BY <1>4, <2>2, Zenon
      <3> HIDE DEF timer
      <3>2. console0 = {} /\ timer \cup {} = timer
        BY <2>2, Zenon
      <3> QED BY <1>4, <3>1, <3>2, Zenon
    <2> QED BY <2>1, <2>2, Zenon
  <1>6. /\ "Timer" \in timer \cup console0 <=> setting.rs
        /\ "ConsoleRead" \in timer \cup console0 <=> Echo \in setting.threads
        /\ "ConsoleWrite" \notin timer \cup console0 /\ "Disk" \notin timer \cup console0
    OBVIOUS
  <1> HIDE DEF timer, console0
  <1> QED BY <1>5, <1>6, Zenon DEF Started

\* The machine starts in the invariant.
LEMMA InitInv == Init => Inv
  <1> SUFFICES ASSUME Init PROVE Inv
    OBVIOUS
  <1>1. /\ pending \in Seq(PendingInterrupt) /\ Sorted(pending)
        /\ "Timer" \in Types(pending) <=> setting.rs
        /\ "ConsoleRead" \in Types(pending) <=> Echo \in setting.threads
        /\ "ConsoleWrite" \notin Types(pending) /\ "Disk" \notin Types(pending)
        /\ \A i \in DOMAIN pending :
              /\ pending[i].when > 0
              /\ pending[i].type = "Timer" => pending[i].when <= 2 * TimerTicks
    BY DevicesStarted, Zenon
  <1>2. /\ setting \in Settings /\ totalTicks = 0 /\ since = 0 /\ yieldOnReturn = FALSE
        /\ phase = "switch" /\ current = NULL /\ asleep = {}
        /\ value = [x \in {"readAvail", "writeDone", "disk"} |-> 0]
        /\ incoming = EOF /\ putBusy = FALSE /\ typed = 0 /\ display = <<>>
        /\ active = FALSE /\ lastSector = 0 /\ bufferInit = 0
        /\ at = [t \in {Echo, Client} |-> IF t = Echo THEN "readAvail" ELSE "request"]
    BY Zenon DEF Init
  <1>3. ready \in Seq(setting.threads)
    <2>1. Cardinality(setting.threads) \in Nat
      BY <1>2, DevicesAssumption, FS_CardinalityType, Zenon
    <2>2. ready \in [1..Cardinality(setting.threads) -> setting.threads]
      BY Zenon DEF Init
    <2> QED BY <2>1, <2>2
  <1>4. /\ value \in [{"readAvail", "writeDone", "disk"} -> Nat]
        /\ value["readAvail"] = 0 /\ value["writeDone"] = 0 /\ value["disk"] = 0
    BY <1>2
  <1>5. /\ at \in [{Echo, Client} ->
                   {"readAvail", "GetPut", "writeDone", "Quit?", "request", "disk"}]
        /\ at[Echo] = "readAvail" /\ at[Client] = "request"
    <2>1. Echo # Client
      BY DevicesAssumption, Zenon
    <2> QED BY <1>2, <2>1
  <1>6. lastSector \in Sector /\ bufferInit \in Nat /\ bufferInit % RotationTime = 0
    <2>1. SectorsPerTrack * NumTracks > 0 /\ SectorsPerTrack * NumTracks \in Nat
      BY Times
    <2>2. 0 \in Sector
      BY <2>1 DEF Sector
    <2>3. 0 % RotationTime = 0
      BY Times
    <2> QED BY <1>2, <2>2, <2>3
  <1>7. /\ typed \in 0..Len(Keyboard) /\ display \in Seq(Char)
        /\ <<>> \o <<>> = <<>> /\ SubSeq(Keyboard, 1, 0) = <<>>
        /\ totalTicks \in Nat /\ since \in 0..totalTicks
    <2>1. Keyboard \in Seq(Char)
      BY DevicesAssumption, Zenon
    <2>2. Len(Keyboard) \in Nat /\ SubSeq(Keyboard, 1, 0) = <<>>
      BY <2>1
    <2> QED BY <1>2, <2>2
  <1>8. TypeOK
    BY <1>1, <1>2, <1>3, <1>4, <1>5, <1>6, <1>7, Zenon DEF TypeOK, Sorted
  <1>9. InterruptsPending
    BY <1>1, <1>2, <1>8, PendingTypes, Zenon
  <1>10. NothingOverdue
    BY <1>1, <1>2, Zenon DEF NothingOverdue
  <1>11. TimerInTime
    <2>1. 0 + 2 * TimerTicks = 2 * TimerTicks
      BY Times
    <2> QED BY <1>1, <1>2, <2>1, Zenon DEF TimerInTime
  <1>12. ClientAwaited /\ HaltsWhenDone
    BY <1>2, <1>4, <1>5, Zenon DEF ClientAwaited, HaltsWhenDone
  <1>13. EchoesInput
    BY <1>2, <1>4, <1>5, <1>7, Zenon DEF EchoesInput
  <1>14. LatencyIsRotation
    BY <1>2, <1>6, Zenon DEF LatencyIsRotation
  <1> QED BY <1>8, <1>9, <1>10, <1>11, <1>12, <1>13, <1>14, Zenon DEF Inv, DevicesInv

\* Every step of the machine keeps it.
LEMMA NextInv == Inv /\ [Next]_vars => Inv'
  <1> SUFFICES ASSUME Inv, [Next]_vars PROVE Inv'
    OBVIOUS
  <1>1. CASE UNCHANGED vars
    <2>1. UNCHANGED <<setting, totalTicks, pending, yieldOnReturn, phase, current, ready, at, ch,
                      value, console, disk, asleep, since>>
      BY <1>1, Zenon DEF vars
    <2>2. TypeOK' /\ InterruptsPending'
      BY <2>1, ZenonT(40) DEF Inv, DevicesInv, TypeOK, InterruptsPending, console, disk
    <2>3. NothingOverdue' /\ TimerInTime'
      BY <2>1, Zenon DEF Inv, DevicesInv, NothingOverdue, TimerInTime
    <2>4. ClientAwaited' /\ HaltsWhenDone' /\ EchoesInput'
      BY <2>1, Zenon DEF Inv, DevicesInv, ClientAwaited, HaltsWhenDone, EchoesInput, console, disk
    <2>5. LatencyIsRotation'
      BY <2>1, Zenon DEF Inv, LatencyIsRotation, Passes, disk
    <2> QED BY <2>2, <2>3, <2>4, <2>5, Zenon DEF Inv, DevicesInv
  <1>2. CASE Switch \/ TickDone \/ CheckIfDue
    BY <1>2, SwitchInv, TickDoneInv, CheckIfDueInv, Zenon
  <1>3. CASE Idle \/ IdleHalt \/ IdleMore
    BY <1>3, IdleInv, IdleHaltInv, IdleMoreInv, Zenon
  <1>4. ASSUME NEW t \in User \cup {Client}, Instruction(t) \/ Finish(t) PROVE Inv'
    BY <1>4, InstructionInv, FinishInv, Zenon
  <1>5. CASE P(Echo, "readAvail", "GetPut") \/ P(Echo, "writeDone", "Quit?")
    BY <1>5, PInv, Zenon DEF Semaphores
  <1>6. CASE P(Client, "disk", "request")
    BY <1>6, PInv, Zenon DEF Semaphores
  <1>7. CASE EchoChar \/ Quit
    BY <1>7, EchoCharInv, QuitInv, Zenon
  <1>8. ASSUME NEW sector \in Sector, NEW writing \in BOOLEAN, Request(sector, writing)
        PROVE  Inv'
    BY <1>8, RequestInv, Zenon
  <1> QED BY <1>1, <1>2, <1>3, <1>4, <1>5, <1>6, <1>7, <1>8, Zenon DEF Next

\* The inductive invariant.
THEOREM InvHolds == Spec => []Inv
  <1>1. Init => Inv
    BY InitInv, Zenon
  <1>2. Inv /\ [Next]_vars => Inv'
    BY NextInv, Zenon
  <1> QED BY <1>1, <1>2, PTL DEF Spec

\* The simulated clock (interrupt.cc): the list of pending interrupts is sorted and has what the
\* devices wait for, and when the machine runs on no interrupt is overdue on it.
THEOREM ClockCorrect == Spec => []DevicesInv
  <1>1. Inv => DevicesInv
    BY Zenon DEF Inv
  <1> QED BY <1>1, InvHolds, PTL

\* Interrupt::Idle halts the machine only when no thread waits for the console or the disk.
THEOREM MachineHaltsWhenDone == Spec => []HaltsWhenDone
  <1>1. Inv => HaltsWhenDone
    BY Zenon DEF Inv
  <1> QED BY <1>1, InvHolds, PTL

\* ConsoleTest (progtest.cc) with the console's device (console.cc): every character typed is
\* shown, once and in order.
THEOREM ConsoleEchoes == Spec => []EchoesInput
  <1>1. Inv => EchoesInput
    BY Zenon DEF Inv
  <1> QED BY <1>1, InvHolds, PTL

\* Disk::ComputeLatency (disk.cc): for any geometry and any times a transfer ends when its sector
\* has passed the head, or after the time of one sector when it is in the track buffer.
THEOREM DiskLatency == Spec => []LatencyIsRotation
  <1>1. Inv => LatencyIsRotation
    BY Zenon DEF Inv
  <1> QED BY <1>1, InvHolds, PTL

\* With a timer (-rs) no thread keeps the processor for two periods while another is ready.
THEOREM SlicesBounded == Spec => []SliceBounded
  <1>1. Inv => SliceBounded
    <2> SUFFICES ASSUME Inv, setting.rs, phase = "run", ready # <<>>
                 PROVE  totalTicks - since < 2 * TimerTicks
      BY Zenon DEF SliceBounded
    <2>1. /\ TypeOK /\ InterruptsPending /\ NothingOverdue /\ TimerInTime
          /\ totalTicks \in Nat /\ since \in 0..totalTicks
      BY Zenon DEF Inv, DevicesInv, TypeOK
    <2>2. PICK i \in DOMAIN pending : pending[i].type = "Timer"
      BY <2>1, PendingTypes, Zenon DEF Types
    <2>3. pending[i].when \in Nat
      BY <2>1, <2>2, PendingTimes, Zenon DEF TypeOK
    <2>4. pending[i].when <= since + 2 * TimerTicks
      BY <2>1, <2>2, Zenon DEF TimerInTime
    <2>5. pending[i].when > totalTicks \/ since = totalTicks
      BY <2>1, <2>2, Zenon DEF NothingOverdue
    <2>6. CASE pending[i].when > totalTicks
      BY <2>1, <2>3, <2>4, <2>6, Times
    <2>7. CASE since = totalTicks
      BY <2>1, <2>7, Times
    <2> QED BY <2>5, <2>6, <2>7, Zenon
  <1> QED BY <1>1, InvHolds, PTL

=============================================================================
