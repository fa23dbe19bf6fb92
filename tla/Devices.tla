------------------------------- MODULE Devices ------------------------------
(***************************************************************************)
(* Simulated time: the list of pending interrupts (interrupt.cc), the      *)
(* timer (timer.cc), the console (console.cc) and the disk (disk.cc), with *)
(* threads that compute, that echo the console (ConsoleTest, progtest.cc)  *)
(* and that use the disk (SynchDisk, one client).                          *)
(*                                                                         *)
(* phase says where the machine is: a thread runs; OneTick has advanced    *)
(* the clock and calls the handlers that are due, one step each; the       *)
(* current thread sleeps and another is chosen; Idle.  The machine status  *)
(* follows from it: IdleMode in Idle, UserMode when a user program runs.   *)
(***************************************************************************)
EXTENDS Integers, Sequences, FiniteSetsExt, Functions

CONSTANTS
    UserTick, SystemTick, ConsoleTime, TimerTicks, RotationTime, SeekTime,
    SectorsPerTrack, NumTracks,
    NULL, EOF,
    User,          \* threads that run user programs
    Echo, Client,  \* the thread of ConsoleTest and the thread that uses the disk
    Char,          \* characters
    Keyboard,      \* what is typed at the console, in this order
    Settings       \* the threads that run, whether there is a timer (-rs), and bounds on
                   \* simulated time and on the requests of Client

ASSUME DevicesAssumption ==
    /\ {UserTick, SystemTick, ConsoleTime, TimerTicks, RotationTime, SeekTime,
        SectorsPerTrack, NumTracks} \subseteq Nat \ {0}
    /\ Echo # Client /\ NULL \notin User \cup {Echo, Client}
    /\ {Echo, Client} \cap User = {}
    /\ EOF \notin Char
    /\ Keyboard \in Seq(Char)
    /\ \A s \in Settings : /\ s.threads \subseteq User \cup {Echo, Client}
                           /\ IsFiniteSet(s.threads)
                           /\ s.rs \in BOOLEAN
                           /\ {s.MaxTicks, s.MaxRequests} \subseteq Nat

VARIABLES
    setting,
    totalTicks,     \* the clock
    pending,        \* Interrupt: interrupts to come, a list sorted by time
    yieldOnReturn,
    phase,
    current, ready, \* the current thread, the ready list
    at,             \* where Echo and Client are in their loops
    ch,             \* the character Echo holds
    value,          \* the semaphores
    incoming, putBusy, typed, display,                  \* Console
    active, lastSector, bufferInit, target, requests,   \* Disk and its client; target is history
    asleep,         \* threads that sleep in P
    since           \* history: since when the current thread runs and another waits for it

console == <<incoming, putBusy, typed, display>>
disk == <<active, lastSector, bufferInit, target, requests>>
vars == <<setting, totalTicks, pending, yieldOnReturn, phase, current, ready, at, ch, value,
          console, disk, asleep, since>>

Sector == 0..(SectorsPerTrack * NumTracks - 1)

-----------------------------------------------------------------------------
(* List::SortedInsert and Interrupt::Schedule. *)

\* In front of the first element that is bigger.
SortedInsert(list, int) ==
    LET next == Min({i \in DOMAIN list : list[i].when > int.when} \cup {Len(list) + 1})
    IN  SubSeq(list, 1, next - 1) \o <<int>> \o SubSeq(list, next, Len(list))

Schedule(list, now, fromNow, type) ==
    SortedInsert(list, [when |-> now + fromNow, type |-> type])

TimeOfNextInterrupt == 1..(2 * TimerTicks)

-----------------------------------------------------------------------------
(* Disk::TimeToSeek, ModuloDiff, ComputeLatency and UpdateLast. *)

Distance(a, b) == IF a > b THEN a - b ELSE b - a
Seek(newSector) ==
    Distance(newSector \div SectorsPerTrack, lastSector \div SectorsPerTrack) * SeekTime
Rotation(newSector) ==
    LET over == (totalTicks + Seek(newSector)) % RotationTime
    IN  IF over > 0 THEN RotationTime - over ELSE 0
ModuloDiff(to, from) ==
    (((to % SectorsPerTrack) - (from % SectorsPerTrack)) + SectorsPerTrack) % SectorsPerTrack

TimeAfter(newSector) == totalTicks + Seek(newSector) + Rotation(newSector)

\* Mutant: the sector that is just passing counts as read.
InTrackBufferEarly(newSector) ==
    /\ Seek(newSector) = 0
    /\ (TimeAfter(newSector) - bufferInit) \div RotationTime
           >= ModuloDiff(newSector, bufferInit \div RotationTime)
InTrackBuffer(newSector) ==
    /\ Seek(newSector) = 0
    /\ (TimeAfter(newSector) - bufferInit) \div RotationTime
           > ModuloDiff(newSector, bufferInit \div RotationTime)

ComputeLatency(newSector, writing) ==
    IF ~writing /\ InTrackBuffer(newSector) THEN RotationTime
    ELSE Seek(newSector) + Rotation(newSector) + RotationTime
           + ModuloDiff(newSector, TimeAfter(newSector) \div RotationTime) * RotationTime

UpdateLast(newSector) ==
    /\ bufferInit' = IF Seek(newSector) # 0 THEN TimeAfter(newSector) ELSE bufferInit
    /\ lastSector' = newSector

-----------------------------------------------------------------------------
NoTarget == [sector |-> 0, writing |-> FALSE, from |-> 0, buffer |-> 0, issued |-> 0,
             done |-> 0]

Init ==
    /\ setting \in Settings
    /\ totalTicks = 0
    /\ LET polling(list) == IF Echo \notin setting.threads THEN list
                            ELSE Schedule(list, 0, ConsoleTime, "ConsoleRead")
       IN  \/ ~setting.rs /\ pending = polling(<<>>)
           \/ setting.rs /\ \E first \in TimeOfNextInterrupt :
                               pending = polling(Schedule(<<>>, 0, first, "Timer"))
    /\ yieldOnReturn = FALSE
    /\ phase = "switch"
    /\ current = NULL
    /\ ready \in {s \in [1..Cardinality(setting.threads) -> setting.threads] :
                    \A i, j \in DOMAIN s : s[i] = s[j] => i = j}
    /\ at = [t \in {Echo, Client} |-> IF t = Echo THEN "readAvail" ELSE "request"]
    /\ ch = EOF
    /\ value = [s \in {"readAvail", "writeDone", "disk"} |-> 0]
    /\ incoming = EOF /\ putBusy = FALSE /\ typed = 0 /\ display = <<>>
    /\ active = FALSE /\ lastSector = 0 /\ bufferInit = 0 /\ target = NoTarget /\ requests = 0
    /\ asleep = {}
    /\ since = 0

-----------------------------------------------------------------------------
(* The scheduler: OneTick, Yield, Sleep. *)

\* SetLevel(IntOn), and every user instruction, advance the clock and look for interrupts.
OneTick(ticks) == totalTicks' = totalTicks + ticks /\ phase' = "tick"

\* A thread that wakes in P goes on there, with interrupts off; one that yielded, or is new,
\* turns interrupts on.
Dispatch(list) ==
    /\ current' = Head(list)
    /\ since' = totalTicks
    /\ asleep' = asleep \ {Head(list)}
    /\ IF Head(list) \in asleep THEN phase' = "run" /\ UNCHANGED totalTicks
       ELSE OneTick(SystemTick)

Sleep == phase' = "switch" /\ current' = NULL

Running(t) == phase = "run" /\ current = t /\ totalTicks < setting.MaxTicks

\* Thread::Sleep, when a thread is ready.
Switch ==
    /\ phase = "switch"
    /\ ready # <<>>
    /\ Dispatch(ready)
    /\ ready' = Tail(ready)
    /\ UNCHANGED <<setting, pending, yieldOnReturn, at, ch, value, console, disk>>

\* Mutant: an interrupt is called one tick late.
IsDueLate == pending # <<>> /\ Head(pending).when < totalTicks
IsDue == pending # <<>> /\ Head(pending).when <= totalTicks

\* The end of OneTick: no handler is due.  A time slice makes the thread yield.
TickDone ==
    /\ phase = "tick"
    /\ ~IsDue
    /\ totalTicks < setting.MaxTicks
    /\ yieldOnReturn' = FALSE
    /\ IF ~yieldOnReturn
       THEN phase' = "run" /\ UNCHANGED <<totalTicks, current, ready, asleep, since>>
       ELSE IF ready = <<>>
            THEN OneTick(SystemTick) /\ UNCHANGED <<current, ready, asleep, since>>
            ELSE Dispatch(ready) /\ ready' = Append(Tail(ready), current)
    /\ UNCHANGED <<setting, pending, at, ch, value, console, disk>>

-----------------------------------------------------------------------------
(* Interrupt handlers.  rest is what remains of the pending list. *)

\* Semaphore::V, with interrupts off; the thread is the only one that waits.
V(sem, t) ==
    /\ value' = [value EXCEPT ![sem] = @ + 1]
    /\ IF t \in asleep /\ at[t] = sem
       THEN /\ ready' = Append(ready, t)
            /\ since' = IF ready = <<>> THEN totalTicks ELSE since
       ELSE UNCHANGED <<ready, since>>

\* Mutant: the timer is not started again.
TimerExpiredOnce(rest, now) ==
    /\ pending' = rest
    /\ yieldOnReturn' = TRUE
    /\ UNCHANGED <<value, ready, since, console, disk>>

\* It asks for a switch; the status it tests is never IdleMode in a handler.
TimerInterruptHandler == yieldOnReturn' = TRUE

TimerExpired(rest, now) ==
    /\ \E fromNow \in TimeOfNextInterrupt : pending' = Schedule(rest, now, fromNow, "Timer")
    /\ TimerInterruptHandler
    /\ UNCHANGED <<value, ready, since, console, disk>>

\* Mutant: a character that has not been fetched is overwritten.
CheckCharAvailOver(rest, now) ==
    /\ pending' = Schedule(rest, now, ConsoleTime, "ConsoleRead")
    /\ \/ UNCHANGED <<value, ready, since, incoming, typed>>
       \/ /\ typed < Len(Keyboard)
          /\ typed' = typed + 1
          /\ incoming' = Keyboard[typed + 1]
          /\ V("readAvail", Echo)
    /\ UNCHANGED <<yieldOnReturn, putBusy, display, disk>>

\* PollFile says whether the next character has been typed.
CheckCharAvail(rest, now) ==
    /\ pending' = Schedule(rest, now, ConsoleTime, "ConsoleRead")
    /\ \/ UNCHANGED <<value, ready, since, incoming, typed>>
       \/ /\ incoming = EOF
          /\ typed < Len(Keyboard)
          /\ typed' = typed + 1
          /\ incoming' = Keyboard[typed + 1]
          /\ V("readAvail", Echo)
    /\ UNCHANGED <<yieldOnReturn, putBusy, display, disk>>

WriteDone(rest) ==
    /\ pending' = rest
    /\ putBusy' = FALSE
    /\ V("writeDone", Echo)
    /\ UNCHANGED <<yieldOnReturn, incoming, typed, display, disk>>

HandleInterrupt(rest) ==
    /\ pending' = rest
    /\ active' = FALSE
    /\ target' = NoTarget
    /\ V("disk", Client)
    /\ UNCHANGED <<yieldOnReturn, console, lastSector, bufferInit, requests>>

Fire(int, rest, now) ==
    /\ \/ int.type = "Timer" /\ TimerExpired(rest, now)
       \/ int.type = "ConsoleRead" /\ CheckCharAvail(rest, now)
       \/ int.type = "ConsoleWrite" /\ WriteDone(rest)
       \/ int.type = "Disk" /\ HandleInterrupt(rest)
    /\ UNCHANGED <<setting, current, at, ch, asleep>>

\* CheckIfDue(FALSE) in OneTick.
CheckIfDue ==
    /\ phase = "tick"
    /\ IsDue
    /\ Fire(Head(pending), Tail(pending), totalTicks)
    /\ UNCHANGED <<totalTicks, phase>>

-----------------------------------------------------------------------------
(* Interrupt::Idle. *)

\* The status is IdleMode: a timer interrupt alone is not called.
\* Mutant: also when others are pending.
OnlyTimerFirst == pending # <<>> /\ Head(pending).type = "Timer"
OnlyTimer == Len(pending) = 1 /\ Head(pending).type = "Timer"

Idling == phase = "switch" /\ ready = <<>> /\ totalTicks < setting.MaxTicks
Due == Max({totalTicks, Head(pending).when})

\* CheckIfDue(TRUE): the clock goes to the next interrupt.
Idle ==
    /\ Idling
    /\ pending # <<>>
    /\ ~OnlyTimer
    /\ totalTicks' = Due
    /\ phase' = "idle"
    /\ Fire(Head(pending), Tail(pending), Due)

\* Nothing to wait for: Halt.
IdleHalt ==
    /\ Idling
    /\ pending = <<>> \/ OnlyTimer
    /\ totalTicks' = IF pending = <<>> THEN totalTicks ELSE Due
    /\ phase' = "halted"
    /\ UNCHANGED <<setting, pending, yieldOnReturn, current, ready, at, ch, value, console,
                   disk, asleep, since>>

\* The other interrupts of that time.
IdleMore ==
    /\ phase = "idle"
    /\ IF IsDue /\ ~OnlyTimer
       THEN Fire(Head(pending), Tail(pending), totalTicks) /\ UNCHANGED phase
       ELSE /\ phase' = "switch"
            /\ yieldOnReturn' = FALSE
            /\ UNCHANGED <<setting, pending, current, ready, at, ch, value, console, disk,
                           asleep, since>>
    /\ UNCHANGED totalTicks

-----------------------------------------------------------------------------
(* Threads. *)

Instruction(t) ==
    /\ Running(t)
    /\ t \in User
    /\ OneTick(UserTick)
    /\ UNCHANGED <<setting, pending, yieldOnReturn, current, ready, at, ch, value, console,
                   disk, asleep, since>>

\* Thread::Finish.
Finish(t) ==
    /\ Running(t)
    /\ t \in User \/ (t = Client /\ at[t] = "request")
    /\ Sleep
    /\ UNCHANGED <<setting, totalTicks, pending, yieldOnReturn, ready, at, ch, value, console,
                   disk, asleep, since>>

\* Semaphore::P, and where the thread goes on.
P(t, sem, next) ==
    /\ Running(t)
    /\ at[t] = sem
    /\ IF value[sem] = 0
       THEN Sleep /\ asleep' = asleep \cup {t} /\ UNCHANGED <<totalTicks, value, at>>
       ELSE /\ value' = [value EXCEPT ![sem] = @ - 1]
            /\ at' = [at EXCEPT ![t] = next]
            /\ OneTick(SystemTick)
            /\ UNCHANGED <<current, asleep>>
    /\ UNCHANGED <<setting, pending, yieldOnReturn, ready, ch, console, disk, since>>

GetChar == ch' = incoming /\ incoming' = EOF

PutChar(c) ==
    /\ display' = Append(display, c)
    /\ putBusy' = TRUE
    /\ pending' = Schedule(pending, totalTicks, ConsoleTime, "ConsoleWrite")

\* ConsoleTest between its two calls of P.
EchoChar ==
    /\ Running(Echo)
    /\ at[Echo] = "GetPut"
    /\ GetChar
    /\ PutChar(incoming)
    /\ at' = [at EXCEPT ![Echo] = "writeDone"]
    /\ UNCHANGED <<setting, totalTicks, yieldOnReturn, phase, current, ready, value, typed, disk,
                   asleep, since>>

\* ConsoleTest returns when 'q' was typed, here the last character, and main halts.
Quit ==
    /\ Running(Echo)
    /\ at[Echo] = "Quit?"
    /\ IF ch = Keyboard[Len(Keyboard)] THEN phase' = "halted" /\ UNCHANGED at
       ELSE at' = [at EXCEPT ![Echo] = "readAvail"] /\ UNCHANGED phase
    /\ UNCHANGED <<setting, totalTicks, pending, yieldOnReturn, current, ready, ch, value,
                   console, disk, asleep, since>>

\* Disk::ReadRequest and WriteRequest.
Request(sector, writing) ==
    /\ Running(Client)
    /\ at[Client] = "request"
    /\ requests < setting.MaxRequests
    /\ LET ticks == ComputeLatency(sector, writing)
       IN  /\ pending' = Schedule(pending, totalTicks, ticks, "Disk")
           /\ target' = [sector |-> sector, writing |-> writing, from |-> lastSector,
                         buffer |-> bufferInit, issued |-> totalTicks,
                         done |-> totalTicks + ticks]
    /\ UpdateLast(sector)
    /\ active' = TRUE
    /\ requests' = requests + 1
    /\ at' = [at EXCEPT ![Client] = "disk"]
    /\ UNCHANGED <<setting, totalTicks, yieldOnReturn, phase, current, ready, ch, value, console,
                   asleep, since>>

Next ==
    \/ Switch \/ TickDone \/ CheckIfDue \/ Idle \/ IdleHalt \/ IdleMore
    \/ \E t \in User \cup {Client} : Instruction(t) \/ Finish(t)
    \/ P(Echo, "readAvail", "GetPut") \/ P(Echo, "writeDone", "Quit?")
    \/ P(Client, "disk", "request")
    \/ EchoChar \/ Quit
    \/ \E sector \in Sector, writing \in BOOLEAN : Request(sector, writing)

Spec == Init /\ [][Next]_vars

-----------------------------------------------------------------------------
(* Properties. *)

PendingInterrupt == [when : Nat, type : {"Timer", "ConsoleRead", "ConsoleWrite", "Disk"}]

\* The list of pending interrupts is sorted, with one entry at most of every device.
TypeOK ==
    /\ setting \in Settings
    /\ totalTicks \in Nat /\ since \in 0..totalTicks
    /\ pending \in Seq(PendingInterrupt)
    /\ \A i, j \in DOMAIN pending : i < j => /\ pending[i].when <= pending[j].when
                                             /\ pending[i].type # pending[j].type
    /\ {yieldOnReturn, putBusy, active} \subseteq BOOLEAN
    /\ phase \in {"run", "tick", "switch", "idle", "halted"}
    /\ current \in setting.threads \cup {NULL}
    /\ phase \in {"run", "tick"} => current # NULL
    /\ phase \in {"switch", "idle"} => current = NULL
    /\ ready \in Seq(setting.threads)
    /\ at \in [{Echo, Client} ->
               {"readAvail", "GetPut", "writeDone", "Quit?", "request", "disk"}]
    /\ value \in [{"readAvail", "writeDone", "disk"} -> Nat]
    /\ incoming \in Char \cup {EOF} /\ display \in Seq(Char)
    /\ typed \in 0..Len(Keyboard)
    /\ lastSector \in Sector /\ bufferInit \in Nat
    /\ asleep \subseteq setting.threads \cap {Echo, Client} /\ current \notin asleep

\* An interrupt is pending for everything that is under way (timer.cc, console.cc, disk.cc):
\* the timer and the console's polling always, a transfer until it ends, and none besides.
InterruptsPending ==
    LET types == {pending[i].type : i \in DOMAIN pending}
    IN  /\ "Timer" \in types <=> setting.rs
        /\ "ConsoleRead" \in types <=> Echo \in setting.threads
        /\ "ConsoleWrite" \in types <=> putBusy
        /\ "Disk" \in types <=> active

\* CheckIfDue and Idle (interrupt.cc): while a thread runs no interrupt is overdue, but for a
\* timer interrupt that Idle has put back because it was the only one.  The thread is then the
\* disk's client, which has just woken in P and lets the clock advance before it does anything.
NothingOverdue ==
    phase \in {"run", "switch"} => \A i \in DOMAIN pending :
        \/ pending[i].when > totalTicks
        \/ /\ pending[i].type = "Timer" /\ Len(pending) = 1
           /\ phase = "run" => current = Client /\ at[Client] = "disk" /\ since = totalTicks

\* The semaphore of the disk's client counts the finished transfer (HandleInterrupt), and while
\* the client sleeps its transfer is under way or it is on the ready list.
ClientAwaited ==
    /\ value["disk"] = IF at[Client] = "disk" /\ ~active THEN 1 ELSE 0
    /\ active => at[Client] = "disk"
    /\ Client \in asleep => at[Client] = "disk" /\ (active \/ Client \in Range(ready))

\* The next timer interrupt comes within two periods, counted from when the running thread was
\* given the processor or another began to wait for it, unless the switch is asked for.
TimerInTime ==
    \A i \in DOMAIN pending : pending[i].type = "Timer" =>
        /\ pending[i].when <= totalTicks + 2 * TimerTicks
        /\ ready # <<>> /\ (phase = "run" \/ (phase = "tick" /\ ~yieldOnReturn)) =>
               pending[i].when <= since + 2 * TimerTicks

\* The invariant of the simulated clock: the pending list is sorted and has what the devices
\* wait for, and no interrupt whose time has passed is left on it when the machine runs on.
DevicesInv == TypeOK /\ InterruptsPending /\ NothingOverdue /\ ClientAwaited /\ TimerInTime

\* The comment in Idle: the machine assumes the program completed only when it did.  When it halts
\* there, no thread waits for the console or the disk.
HaltsWhenDone ==
    phase = "halted" /\ current = NULL => asleep = {} /\ ~active /\ ~putBusy

\* ConsoleTest shows every character typed, once and in order: what was read is on the display
\* or in the buffer; the semaphores count the buffered character and the finished write; and
\* PutChar is called only when the device is not busy.
EchoesInput ==
    /\ display \o (IF incoming = EOF THEN <<>> ELSE <<incoming>>) = SubSeq(Keyboard, 1, typed)
    /\ value["readAvail"] = IF incoming = EOF \/ at[Echo] = "GetPut" THEN 0 ELSE 1
    /\ at[Echo] = "GetPut" => incoming # EOF
    /\ value["writeDone"] = IF at[Echo] = "writeDone" /\ ~putBusy THEN 1 ELSE 0
    /\ putBusy => at[Echo] = "writeDone"

\* When a sector starts to pass the head.
Passes(sector, t) ==
    t % RotationTime = 0 /\ (t \div RotationTime) % SectorsPerTrack = sector % SectorsPerTrack

\* ComputeLatency (disk.cc): a transfer ends when the sector has passed the head once after the
\* seek, and not later; a read of a sector that has passed since the track buffer was started
\* takes the time of one sector.  The track buffer is started when a sector begins to pass.
LatencyIsRotation ==
    /\ bufferInit % RotationTime = 0
    /\ active =>
        LET seek == SeekTime * Distance(target.sector \div SectorsPerTrack,
                                        target.from \div SectorsPerTrack)
            ready0 == target.issued + seek
            passing == {t \in ready0..(ready0 + (SectorsPerTrack + 1) * RotationTime) :
                            Passes(target.sector, t)}
            buffered == \E t \in target.buffer..target.issued :
                            Passes(target.sector, t) /\ t < target.issued
        IN  target.done = IF ~target.writing /\ seek = 0 /\ buffered
                          THEN target.issued + RotationTime
                          ELSE Min(passing) + RotationTime

\* With -rs no thread keeps the processor for two timer periods while another is
\* ready: TimerExpired schedules the next interrupt, and neither Idle nor OneTick loses one.
SliceBounded ==
    setting.rs /\ phase = "run" /\ ready # <<>> => totalTicks - since < 2 * TimerTicks

=============================================================================
