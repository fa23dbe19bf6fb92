------------------------------ MODULE Elevator ------------------------------
(***************************************************************************)
(* The elevator of threads/threadtest.cc, the program the threads build    *)
(* runs (threads/main.cc): main() starts the elevator and the passengers,  *)
(* which synchronize with one lock and four condition variables.           *)
(*                                                                         *)
(* A thread's pc names the kernel call it makes next; an action is the     *)
(* code since the previous call returned, then that call.  Time slices     *)
(* (nachos -rs) come between calls; without -rs threads switch only where  *)
(* they wait, yield or finish.                                             *)
(***************************************************************************)
EXTENDS Threads, FiniteSetsExt

CONSTANTS
    ElevatorThr,  \* the thread of ElevatorThread
    Passengers,   \* the passenger threads, in the order main() creates them
    MaxFloors,    \* max_floors
    Capacity,     \* capacity
    Tests,        \* what is tried: with -rs or without, and the trip of every passenger
    UintMod,      \* unsigned arithmetic is modulo this
    elevator_lk, token_lk,
    passenger_out_cd, passenger_in_cd, elevator_active_cd, finish_broadcast_cd

ASSUME ElevatorAssumption ==
    /\ MaxFloors \in Nat \ {0, 1}
    /\ Capacity \in Nat \ {0}
    /\ UintMod \in Nat \ {0}
    /\ ElevatorThr \in Thread
    /\ Passengers \in Seq(Thread)

VARIABLES
    rs,              \* nachos was started with -rs
    pc,              \* the next call of every thread
    trip,            \* the at_floor and to_floor of every passenger
    arrived,         \* how many ArrivingGoingFromTo calls main() has made
    token,           \* token
    direction,       \* direction
    current_floor,   \* current_floor
    room,            \* room
    waiting_list,    \* waiting_list, by index, or Deleted
    going_list,      \* going_list, by index, or Deleted
    broadcast_count, \* broadcast_count
    strays           \* history: who wrote to the deleted waiting_list, and coming from where

carVars == <<direction, current_floor, room, waiting_list, going_list, broadcast_count, strays>>
elevatorVars == <<rs, pc, trip, arrived, token, carVars>>
vars == <<threadVars, elevatorVars>>

Passenger == Range(Passengers)
Floor == 1..MaxFloors
Stops == 2 * MaxFloors - 1
Index == 0..(Stops - 1)

\* The lists once the elevator has deleted them.
Deleted == <<>>

\* The arguments of ArrivingGoingFromTo, the illegal floor 0 included.
Trip == [at : 0..MaxFloors, to : 0..MaxFloors]

ASSUME TestsAssumption == Tests \subseteq [rs : BOOLEAN, trip : [Passenger -> Trip]]

Init ==
    /\ ThreadsInit([s \in Semaphore |-> 0])
    /\ pc = [t \in Thread |-> CASE t = MainThread -> "Elevator"
                                [] t = ElevatorThr -> "ElevatorThread"
                                [] OTHER -> "PassengerThread"]
    /\ \E test \in Tests : rs = test.rs /\ trip = test.trip
    /\ arrived = 0
    /\ token = 0
    /\ direction = "IDLE"
    /\ current_floor = 1
    /\ room = Capacity
    /\ waiting_list = [i \in Index |-> 0]
    /\ going_list = [i \in Index |-> 0]
    /\ broadcast_count = 0
    /\ strays = {}

At(label) == pc[currentThread] = label
Goto(label) == pc' = [pc EXCEPT ![currentThread] = label]

-----------------------------------------------------------------------------
(***************************************************************************)
(* Floors and stops.  An index stands for a floor and a direction.         *)
(***************************************************************************)
map_floor(d, f) == IF d = "UP" \/ f = 1 THEN f ELSE 2 * MaxFloors - f

realNextFloor(i) == IF i > MaxFloors - 1 THEN 2 * MaxFloors - i ELSE i

\* The first index from the car's own, going round, with somebody to pick up or put down.
searchNextFloor(d, f, r) ==
    LET i == map_floor(d, f)
        j(k) == (i + k) % Stops
        busy == {k \in Index : (r # 0 /\ waiting_list[j(k)] # 0) \/ going_list[j(k)] # 0}
    IN  IF busy = {} THEN i ELSE j(Min(busy))

Dec(n) == (n + UintMod - 1) % UintMod

DirectionOf(p) == IF trip[p].at < trip[p].to THEN "UP" ELSE "DOWN"
FromIndex(p) == map_floor(DirectionOf(p), trip[p].at)
ToIndex(p) == map_floor(DirectionOf(p), trip[p].to)

Legal(p) ==
    /\ trip[p].at \in Floor
    /\ trip[p].to \in Floor
    /\ trip[p].at # trip[p].to

-----------------------------------------------------------------------------
(***************************************************************************)
(* main(): Elevator(), then ArrivingGoingFromTo() for every passenger,     *)
(* which returns at once for an illegal trip, then Finish().               *)
(***************************************************************************)
Created == Passengers[arrived + 1]

MainElevator ==
    /\ At("Elevator")
    /\ Fork(ElevatorThr)
    /\ Goto("Arriving")
    /\ UNCHANGED <<rs, trip, arrived, token, carVars>>

MainIllegal ==
    /\ At("Arriving")
    /\ InUser
    /\ arrived < Len(Passengers) /\ ~Legal(Created)
    /\ arrived' = arrived + 1
    /\ UNCHANGED <<threadVars, rs, pc, trip, token, carVars>>

MainTakeToken ==
    /\ At("Arriving")
    /\ arrived < Len(Passengers) /\ Legal(Created)
    /\ Acquire(token_lk)
    /\ Goto("Token")
    /\ UNCHANGED <<rs, trip, arrived, token, carVars>>

MainGiveToken ==
    /\ At("Token")
    /\ token' = token + 1
    /\ Release(token_lk)
    /\ Goto("ForkPassenger")
    /\ UNCHANGED <<rs, trip, arrived, carVars>>

MainFork ==
    /\ At("ForkPassenger")
    /\ Fork(Created)
    /\ arrived' = arrived + 1
    /\ Goto("Arriving")
    /\ UNCHANGED <<rs, trip, token, carVars>>

MainFinish ==
    /\ At("Arriving")
    /\ arrived = Len(Passengers)
    /\ Finish
    /\ UNCHANGED elevatorVars

Main == MainElevator \/ MainIllegal \/ MainTakeToken \/ MainGiveToken \/ MainFork \/ MainFinish

-----------------------------------------------------------------------------
(***************************************************************************)
(* ElevatorThread.                                                         *)
(***************************************************************************)
ElevatorReady ==
    \/ /\ At("ElevatorThread")
       /\ Acquire(elevator_lk)
       /\ Goto("SignalActive")
       /\ UNCHANGED carVars
    \/ /\ At("SignalActive")
       /\ Signal(elevator_active_cd, elevator_lk)
       /\ Goto("SetUp")
       /\ UNCHANGED carVars
    \/ /\ At("SetUp")
       /\ direction' = "UP"
       /\ Release(elevator_lk)
       /\ Goto("FirstYield")
       /\ UNCHANGED <<current_floor, room, waiting_list, going_list, broadcast_count>>
    \/ /\ At("FirstYield")
       /\ Yield
       /\ Goto("Loop")
       /\ UNCHANGED carVars

ElevatorLock ==
    /\ At("Loop")
    /\ Acquire(elevator_lk)
    /\ Goto("Choose")
    /\ UNCHANGED carVars

Next_floor == searchNextFloor(direction, current_floor, room)
Real_next_floor == realNextFloor(Next_floor)
NobodyThere == waiting_list[Next_floor] = 0 /\ going_list[Next_floor] = 0

ElevatorClose ==
    /\ At("Choose")
    /\ Real_next_floor = current_floor /\ NobodyThere
    /\ direction' = "CLOSE"
    /\ waiting_list' = Deleted
    /\ going_list' = Deleted
    /\ Release(elevator_lk)
    /\ Goto("Return")
    /\ UNCHANGED <<current_floor, room, broadcast_count>>

ElevatorMove ==
    /\ At("Choose")
    /\ Real_next_floor # current_floor
    /\ IF Real_next_floor > current_floor
       THEN direction' = "UP" /\ current_floor' = current_floor + 1
       ELSE direction' = "DOWN" /\ current_floor' = current_floor - 1
    /\ Release(elevator_lk)
    /\ Goto("Loop")
    /\ UNCHANGED <<room, waiting_list, going_list, broadcast_count>>

ElevatorLetOut ==
    \/ /\ At("Choose")
       /\ Real_next_floor = current_floor /\ ~NobodyThere
       /\ broadcast_count' = Capacity - room
       /\ Broadcast(passenger_out_cd, elevator_lk)
       /\ Goto("OutSent")
       /\ UNCHANGED <<direction, current_floor, room, waiting_list, going_list>>
    \/ /\ At("OutSent")
       /\ broadcast_count # 0
       /\ Wait(finish_broadcast_cd, elevator_lk)
       /\ Goto("AllOut")
       /\ UNCHANGED carVars

ElevatorLetIn ==
    \/ /\ At("AllOut") \/ (At("OutSent") /\ broadcast_count = 0)
       /\ broadcast_count' = FoldFunction(LAMBDA a, b : a + b, 0, waiting_list)
       /\ Broadcast(passenger_in_cd, elevator_lk)
       /\ Goto("InSent")
       /\ UNCHANGED <<direction, current_floor, room, waiting_list, going_list>>
    \/ /\ At("InSent")
       /\ broadcast_count # 0
       /\ Wait(finish_broadcast_cd, elevator_lk)
       /\ Goto("AllIn")
       /\ UNCHANGED carVars
    \/ /\ At("AllIn") \/ (At("InSent") /\ broadcast_count = 0)
       /\ Release(elevator_lk)
       /\ Goto("Loop")
       /\ UNCHANGED carVars

ElevatorStep ==
    /\ ElevatorReady \/ ElevatorLock \/ ElevatorClose \/ ElevatorMove \/ ElevatorLetOut
       \/ ElevatorLetIn
    /\ UNCHANGED <<rs, trip, arrived, token, strays>>

-----------------------------------------------------------------------------
(***************************************************************************)
(* PassengerThread.  me is the passenger that runs.                        *)
(***************************************************************************)
me == currentThread

PassengerLock ==
    /\ At("PassengerThread")
    /\ Acquire(elevator_lk)
    /\ Goto("Check")
    /\ UNCHANGED carVars

PassengerAwaitsElevator ==
    /\ At("Check")
    /\ direction = "IDLE"
    /\ Wait(elevator_active_cd, elevator_lk)
    /\ Goto("Register")
    /\ UNCHANGED carVars

PassengerFindsClosed ==
    /\ At("Check")
    /\ direction = "CLOSE"
    /\ Release(elevator_lk)
    /\ Goto("Return")
    /\ UNCHANGED carVars

\* Writing to the deleted list harms whatever has the memory now; it is recorded, and the
\* model goes on as when nobody has it.
Register ==
    IF waiting_list = Deleted
    THEN /\ strays' = strays \cup {<<me, pc[me]>>}
         /\ UNCHANGED waiting_list
    ELSE /\ waiting_list' = [waiting_list EXCEPT ![FromIndex(me)] = @ + 1]
         /\ UNCHANGED strays

\* Mutant of PassengerRegisters: a passenger that finds the elevator closed registers.
PassengerIgnoresClosed ==
    /\ At("Register") \/ (At("Check") /\ direction # "IDLE")
    /\ Register
    /\ Wait(passenger_in_cd, elevator_lk)
    /\ Goto("In")
    /\ UNCHANGED <<direction, current_floor, room, going_list, broadcast_count>>

\* The passenger that waited for the elevator does not look at direction again.
PassengerRegisters ==
    /\ At("Register") \/ (At("Check") /\ direction \notin {"IDLE", "CLOSE"})
    /\ Register
    /\ Wait(passenger_in_cd, elevator_lk)
    /\ Goto("In")
    /\ UNCHANGED <<direction, current_floor, room, going_list, broadcast_count>>

\* The loop body after the answer to the broadcast: get in, or wait for the next one.
GetInOrWait ==
    IF current_floor = trip[me].at /\ room > 0
    THEN /\ room' = room - 1
         /\ waiting_list' = [waiting_list EXCEPT ![FromIndex(me)] = @ - 1]
         /\ going_list' = [going_list EXCEPT ![ToIndex(me)] = @ + 1]
         /\ Wait(passenger_out_cd, elevator_lk)
         /\ Goto("Out")
    ELSE /\ Wait(passenger_in_cd, elevator_lk)
         /\ Goto("In")
         /\ UNCHANGED <<room, waiting_list, going_list>>

\* Mutant of PassengerIn: the elevator is notified one answer too early.
PassengerInNotifiesEarly ==
    \/ /\ At("In") /\ InUser
       /\ broadcast_count' = Dec(broadcast_count)
       /\ IF broadcast_count' <= 1
          THEN /\ Signal(finish_broadcast_cd, elevator_lk)
               /\ Goto("InAnswered")
               /\ UNCHANGED <<room, waiting_list, going_list>>
          ELSE GetInOrWait
       /\ UNCHANGED <<direction, current_floor>>
    \/ /\ At("InAnswered") /\ InUser
       /\ GetInOrWait
       /\ UNCHANGED <<direction, current_floor, broadcast_count>>

PassengerIn ==
    \/ /\ At("In") /\ InUser
       /\ broadcast_count' = Dec(broadcast_count)
       /\ IF broadcast_count' = 0
          THEN /\ Signal(finish_broadcast_cd, elevator_lk)
               /\ Goto("InAnswered")
               /\ UNCHANGED <<room, waiting_list, going_list>>
          ELSE GetInOrWait
       /\ UNCHANGED <<direction, current_floor>>
    \/ /\ At("InAnswered") /\ InUser
       /\ GetInOrWait
       /\ UNCHANGED <<direction, current_floor, broadcast_count>>

GetOutOrWait ==
    IF current_floor = trip[me].to
    THEN /\ room' = room + 1
         /\ going_list' = [going_list EXCEPT ![ToIndex(me)] = @ - 1]
         /\ Release(elevator_lk)
         /\ Goto("Return")
    ELSE /\ Wait(passenger_out_cd, elevator_lk)
         /\ Goto("Out")
         /\ UNCHANGED <<room, going_list>>

\* Mutant of PassengerOut: the last answer does not notify the elevator.
PassengerOutNotifiesNobody ==
    /\ At("Out")
    /\ broadcast_count' = Dec(broadcast_count)
    /\ GetOutOrWait
    /\ UNCHANGED <<direction, current_floor, waiting_list>>

PassengerOut ==
    \/ /\ At("Out")
       /\ broadcast_count' = Dec(broadcast_count)
       /\ IF broadcast_count' = 0
          THEN /\ Signal(finish_broadcast_cd, elevator_lk)
               /\ Goto("OutAnswered")
               /\ UNCHANGED <<room, going_list>>
          ELSE GetOutOrWait
       /\ UNCHANGED <<direction, current_floor, waiting_list>>
    \/ /\ At("OutAnswered")
       /\ GetOutOrWait
       /\ UNCHANGED <<direction, current_floor, waiting_list, broadcast_count>>

PassengerStep ==
    /\ \/ PassengerRegisters
       \/ /\ PassengerLock \/ PassengerAwaitsElevator \/ PassengerFindsClosed
             \/ PassengerIn \/ PassengerOut
          /\ UNCHANGED strays
    /\ UNCHANGED <<rs, trip, arrived, token>>

-----------------------------------------------------------------------------
ThreadReturn == At("Return") /\ Finish /\ UNCHANGED elevatorVars

Kernel ==
    /\ Resume \/ WakeFromIdle \/ Halt
    /\ UNCHANGED elevatorVars

\* TimerInterruptHandler: only with -rs.
TimeSlice ==
    /\ rs
    /\ readyList # <<>>
    /\ Yield
    /\ UNCHANGED elevatorVars

Next == Main \/ ElevatorStep \/ PassengerStep \/ ThreadReturn \/ Kernel \/ TimeSlice

Spec == Init /\ [][Next]_vars

\* The processor never stops by itself.
FairSpec == Spec /\ WF_vars(Next)

-----------------------------------------------------------------------------
(***************************************************************************)
(* Properties.                                                             *)
(***************************************************************************)
\* Type invariant of the elevator's globals.
ElevatorTypeOK ==
    /\ direction \in {"UP", "DOWN", "IDLE", "CLOSE"}
    /\ current_floor \in Floor
    /\ room \in 0..Capacity
    /\ waiting_list \in [Index -> 0..Len(Passengers)] \cup {Deleted}
    /\ going_list \in [Index -> 0..Len(Passengers)] \cup {Deleted}
    /\ broadcast_count \in 0..Len(Passengers)
    /\ arrived \in 0..Len(Passengers)
    /\ token \in 0..arrived + 1

Asked(p) == pc[p] \in {"In", "InAnswered"}
Riding(p) == pc[p] \in {"Out", "OutAnswered"}
Done(p) == frame[p] = "finish"

\* The counters that steer the car agree with the passengers at every moment: the room
\* left, and until the lists are deleted, for every stop the passengers that wait there
\* and that ride there.
CountersAgree ==
    /\ room = Capacity - Cardinality({p \in Passenger : Riding(p)})
    /\ waiting_list # Deleted =>
         \A i \in Index :
            /\ waiting_list[i] = Cardinality({p \in Passenger : Asked(p) /\ FromIndex(p) = i})
            /\ going_list[i] = Cardinality({p \in Passenger : Riding(p) /\ ToIndex(p) = i})

\* "make Mesa condition variable acts like Hoare-Style condtion variable": when the
\* elevator goes on after a broadcast, every passenger the broadcast woke has answered.
BroadcastAnswered ==
    InUser /\ currentThread = ElevatorThr /\ pc[ElevatorThr] \in {"AllOut", "AllIn", "Choose"} =>
        /\ broadcast_count = 0
        /\ \A p \in Passenger : Asked(p) => p \in Range(queue[passenger_in_cd])
        /\ \A p \in Passenger : Riding(p) => p \in Range(queue[passenger_out_cd])

\* When the elevator has closed and deleted its lists, nobody rides, and nobody who asked
\* for it is left waiting except those that asked after it had closed.
ClosesEmpty ==
    /\ waiting_list = Deleted <=> direction = "CLOSE"
    /\ going_list = Deleted <=> direction = "CLOSE"
    /\ direction = "CLOSE" =>
         /\ room = Capacity
         /\ \A p \in Passenger : Asked(p) => <<p, "Register">> \in strays

\* Who writes to the deleted lists: at most one passenger, the one that ElevatorThread's
\* only signal of elevator_active_cd woke, and only with time slices; never a passenger
\* that looked at direction after the elevator had closed.
OneStray ==
    /\ strays # {} => rs
    /\ Cardinality(strays) <= 1
    /\ strays \subseteq Passenger \X {"Register"}

\* The elevator's invariant: the types, counters of threadtest.cc that agree with the
\* passengers at every step, an elevator that closes with nobody left, and lists nobody
\* uses once they are deleted but the one passenger woken from an idle elevator.
ElevatorInv == ElevatorTypeOK /\ CountersAgree /\ ClosesEmpty /\ OneStray

\* Without time slices every passenger travels, the elevator closes and the machine halts.
EverybodyTravels ==
    <>(\/ rs
       \/ /\ cpu = "halted"
          /\ direction = "CLOSE"
          /\ \A p \in Passenger : Legal(p) => Done(p))

=============================================================================
