------------------------------ MODULE Processes -----------------------------
(***************************************************************************)
(* Processes of the userprog kernel: the process table (processmgr.cc),    *)
(* the process control blocks (pcb.cc) and the system calls Fork, Exit,    *)
(* Yield, Join and Kill (exception.cc), on the thread kernel.              *)
(*                                                                         *)
(* A process is named by its Thread, which also names its PCB and address  *)
(* space; memory itself is left out.  A thread's pc names its next kernel  *)
(* call; an action is the code since the previous call returned, then that *)
(* call.  Where the code follows a NULL pointer, touches a deleted PCB or  *)
(* fails an ASSERT, the machine stops and fault says why.                  *)
(***************************************************************************)
EXTENDS Threads, Integers, SequencesExt

CONSTANTS
    Machines,      \* the settings tried, see below
    pidLock        \* ProcessMgr::pidLock

(***************************************************************************)
(* PIDMAP_SIZE; whether nachos was started with -rs; the calls that user   *)
(* programs make besides Exit, and the arguments of all of these; bounds   *)
(* on the processes, on the calls of a process before it exits and on the  *)
(* Forks among them.                                                       *)
(***************************************************************************)
Machine ==
    [NumTotalPID : Nat \ {0}, rs : BOOLEAN,
     Syscalls : SUBSET {"Fork", "Yield", "Join", "Kill", "Halt"},
     Arguments : SUBSET Int, ExitStatus : SUBSET Int,
     MaxProcesses : Nat, MaxCalls : Nat, MaxForks : Nat]

ASSUME ProcessesAssumption ==
    /\ Machines \subseteq Machine
    /\ pidLock \in Lock

VARIABLES
    machine,     \* the setting of this run; it does not change
    pcb,         \* the PCB of every process
    pidMap,      \* ProcessMgr::pidMap: the PIDs in use
    allPCB,      \* ProcessMgr::allPCB
    pc,          \* the next call of every thread
    arg,         \* the PID a Join or Kill is about
    other,       \* the child of a Fork, the PCB a Kill has found
    calls, forks,\* calls a process has made
    fault,       \* "none", or why the machine stopped
    exitStatus,  \* history: the status a process exited with (killed: -1), or NULL
    joined,      \* history: the child and the value of a process's last Join
    damage,      \* history: what has made the links between PCBs wrong, and for whom
    lastEnded    \* history: the child of a process that ended last, or NULL

history == <<exitStatus, joined, damage, lastEnded>>
procVars == <<pcb, pidMap, allPCB, pc, arg, other, calls, forks, fault, history>>
vars == <<machine, threadVars, procVars>>

PID == 0..(machine.NumTotalPID - 1)

\* thisThread is set when Fork has associated PCB and thread.
NewPCB(pid, thread) ==
    [state |-> "live", PID |-> pid, thisThread |-> thread, parentPCB |-> NULL,
     childrenPCB |-> <<>>, childExitValue |-> 0]

NoPCB == [NewPCB(0, NULL) EXCEPT !.state = "none"]

\* StartProcess has created the first process.
Init ==
    /\ ThreadsInit(<<>>)
    /\ machine \in Machines
    /\ pcb = [t \in Thread |-> IF t = MainThread THEN NewPCB(0, t) ELSE NoPCB]
    /\ pidMap = {0}
    /\ allPCB = [p \in PID |-> IF p = 0 THEN MainThread ELSE NULL]
    /\ pc = [t \in Thread |-> "User"]
    /\ arg = [t \in Thread |-> 0]
    /\ other = [t \in Thread |-> NULL]
    /\ calls = [t \in Thread |-> 0]
    /\ forks = [t \in Thread |-> 0]
    /\ fault = "none"
    /\ exitStatus = [t \in Thread |-> NULL]
    /\ joined = [t \in Thread |-> [child |-> NULL, value |-> 0, last |-> NULL]]
    /\ damage = {}
    /\ lastEnded = [t \in Thread |-> NULL]

me == currentThread
At(label) == InUser /\ pc[me] = label
Goto(label) == pc' = [pc EXCEPT ![me] = label]

Call(name) ==
    /\ At("User")
    /\ name \in machine.Syscalls
    /\ calls[me] < machine.MaxCalls
    /\ calls' = [calls EXCEPT ![me] = @ + 1]

\* The machine stops.
Fault(why) ==
    /\ fault' = why
    /\ UNCHANGED <<threadVars, pcb, pidMap, allPCB, pc, arg, other, calls, forks, history>>

\* A stretch that is nothing but taking, or letting go of, pidLock.
TakeLock(here, next) ==
    /\ At(here)
    /\ Acquire(pidLock)
    /\ Goto(next)
    /\ UNCHANGED <<pcb, pidMap, allPCB, arg, other, calls, forks, fault, history>>

DropLock(here, next) ==
    /\ At(here)
    /\ Release(pidLock)
    /\ Goto(next)
    /\ UNCHANGED <<pcb, pidMap, allPCB, arg, other, calls, forks, fault, history>>

\* The PCB has been created and not deleted.
Exists(t) == pcb[t].state = "live"

-----------------------------------------------------------------------------
(***************************************************************************)
(* PCB: the lists of children are sorted by PID.                           *)
(***************************************************************************)
\* List::SortedInsert
SortedInsert(s, t) ==
    InsertAt(s, Cardinality({i \in DOMAIN s : pcb[s[i]].PID <= pcb[t].PID}) + 1, t)

\* List::Search, NULL when there is none.
GetChildPCB(t, pid) ==
    LET s == pcb[t].childrenPCB
        i == SelectInSeq(s, LAMBDA c : pcb[c].PID = pid)
    IN  IF i = 0 THEN NULL ELSE s[i]

\* List::SortedRemove
SortedRemove(s) == Rest(s)

\* RemoveChildParentPCB and RemoveParentPCBChild, and PrintPCB, touch these PCBs...
Relatives(t) == Range(pcb[t].childrenPCB) \cup ({pcb[t].parentPCB} \ {NULL})

\* Mutant of Unlink: the children keep their parent pointer.
UnlinkLeavesChildren(t, val) ==
    [u \in Thread |->
        IF u = pcb[t].parentPCB
        THEN [pcb[u] EXCEPT !.childrenPCB = SortedRemove(@), !.childExitValue = val]
        ELSE pcb[u]]

\* Mutant of Unlink: the parent notes the exit value and keeps the child on its list.
UnlinkKeepsChild(t, val) ==
    [u \in Thread |->
        IF u \in Range(pcb[t].childrenPCB)
        THEN [pcb[u] EXCEPT !.parentPCB = NULL]
        ELSE IF u = pcb[t].parentPCB
        THEN [pcb[u] EXCEPT !.childExitValue = val]
        ELSE pcb[u]]

\* ...and leave them like this: the children lose their parent; the parent loses the
\* first child of its list (SortedRemove) and notes the exit value.
Unlink(t, val) ==
    [u \in Thread |->
        IF u \in Range(pcb[t].childrenPCB)
        THEN [pcb[u] EXCEPT !.parentPCB = NULL]
        ELSE IF u = pcb[t].parentPCB
        THEN [pcb[u] EXCEPT !.childrenPCB = SortedRemove(@), !.childExitValue = val]
        ELSE pcb[u]]

\* History of t's end: SortedRemove takes off the list of t's parent another child than t, or
\* t had ended already.
Ends(t, val) ==
    LET parent == pcb[t].parentPCB
        Wrong == parent # NULL /\ pcb[parent].childrenPCB # <<>> /\ Head(pcb[parent].childrenPCB) # t
    IN  /\ exitStatus' = [exitStatus EXCEPT ![t] = val]
        /\ lastEnded' = IF parent = NULL THEN lastEnded ELSE [lastEnded EXCEPT ![parent] = t]
        /\ damage' = damage \cup (IF Wrong THEN {<<"wrong child", parent>>} ELSE {})
                            \cup (IF exitStatus[t] # NULL THEN {<<"ended twice", t>>} ELSE {})

-----------------------------------------------------------------------------
(***************************************************************************)
(* Fork: CreatePCB counts the free PIDs under pidLock, lets go of it, and  *)
(* takes it again to allocate one.                                         *)
(***************************************************************************)
\* Bound: a Fork starts only while a Thread is left for it.
ThreadLeft ==
    Cardinality({t \in Thread : pcb[t].state # "none"})
      + Cardinality({t \in Thread : pc[t] \in {"ForkCount", "ForkLock", "ForkCreate"}})
      < machine.MaxProcesses

ForkCountLock ==
    /\ Call("Fork")
    /\ forks[me] < machine.MaxForks
    /\ ThreadLeft
    /\ forks' = [forks EXCEPT ![me] = @ + 1]
    /\ Acquire(pidLock)
    /\ Goto("ForkCount")
    /\ UNCHANGED <<pcb, pidMap, allPCB, arg, other, fault, history>>

\* Fork fails when there is no free PID.
ForkCount == DropLock("ForkCount", IF pidMap = PID THEN "User" ELSE "ForkLock")

ForkLock == TakeLock("ForkLock", "ForkCreate")

FirstClear == CHOOSE p \in PID \ pidMap : \A q \in PID \ pidMap : p <= q

\* The next object "new Thread" gives; the model has a bounded number of them.
NewThread ==
    LET unborn == {t \in Thread : pcb[t].state = "none"}
    IN  IF unborn = {} THEN {} ELSE {CHOOSE t \in unborn : TRUE}

\* BitMap::Find returns -1 when the last PID has gone meanwhile.
ForkCreate ==
    /\ At("ForkCreate")
    /\ IF pidMap = PID
       THEN Fault("allPCB[-1]")
       ELSE /\ \E child \in NewThread :
                  /\ pcb' = [pcb EXCEPT ![child] = NewPCB(FirstClear, NULL)]
                  /\ allPCB' = [allPCB EXCEPT ![FirstClear] = child]
                  /\ other' = [other EXCEPT ![me] = child]
            /\ pidMap' = pidMap \cup {FirstClear}
            /\ Release(pidLock)
            /\ Goto("ForkLink")
            /\ UNCHANGED <<arg, calls, forks, fault, history>>

\* AddrSpace::Fork (which never fails: memory is paged), associate PCB, parent and
\* thread, print both PCBs, then Thread::Fork.
ForkLink ==
    LET child == other[me]
    IN  /\ At("ForkLink")
        /\ IF \E u \in Relatives(me) : ~Exists(u)
           THEN Fault("deleted PCB")
           ELSE /\ pcb' = [pcb EXCEPT ![child].thisThread = child,
                                      ![child].parentPCB = me,
                                      ![me].childrenPCB = SortedInsert(@, child)]
                /\ Fork(child)
                /\ Goto("ForkReturn")
                /\ damage' = damage \cup (IF exitStatus[me] # NULL THEN {<<"forked late", me>>}
                                                                 ELSE {})
                /\ UNCHANGED <<pidMap, allPCB, arg, other, calls, forks, fault, exitStatus, joined,
                               lastEnded>>

\* The result of Fork is read from the child's PCB when the child may have run.
ForkReturn ==
    /\ At("ForkReturn")
    /\ IF Exists(other[me])
       THEN /\ other' = [other EXCEPT ![me] = NULL]
            /\ Goto("User")
            /\ UNCHANGED <<threadVars, pcb, pidMap, allPCB, arg, calls, forks, fault, history>>
       ELSE Fault("deleted child")

-----------------------------------------------------------------------------
(***************************************************************************)
(* Exit.                                                                   *)
(***************************************************************************)
\* RemoveChildParentPCB, RemoveParentPCBChild, and RemovePCB up to its lock.
StartExit(val) ==
    IF \E u \in Relatives(me) : ~Exists(u)
    THEN Fault("deleted PCB")
    ELSE /\ pcb' = Unlink(me, val)
         /\ Ends(me, val)
         /\ Acquire(pidLock)
         /\ Goto("ExitRemove")
         /\ UNCHANGED <<pidMap, allPCB, arg, other, calls, forks, fault, joined>>

Exit(val) == At("User") /\ StartExit(val)

ExitRemove ==
    /\ At("ExitRemove")
    /\ pidMap' = pidMap \ {pcb[me].PID}
    /\ allPCB' = [allPCB EXCEPT ![pcb[me].PID] = NULL]
    /\ Release(pidLock)
    /\ Goto("ExitCountLock")
    /\ UNCHANGED <<pcb, arg, other, calls, forks, fault, history>>

\* GetNumFreePCBs, for the message, takes the lock once more.
ExitCountLock == TakeLock("ExitCountLock", "ExitCount")
ExitCount == DropLock("ExitCount", "ExitFinish")

\* ReleaseMemory, delete the address space and the PCB, Thread::Finish.
ExitFinish ==
    /\ At("ExitFinish")
    /\ pcb' = [pcb EXCEPT ![me].state = "deleted"]
    /\ Finish
    /\ UNCHANGED <<pidMap, allPCB, pc, arg, other, calls, forks, fault, history>>

-----------------------------------------------------------------------------
YieldCall ==
    /\ Call("Yield")
    /\ Yield
    /\ UNCHANGED <<pcb, pidMap, allPCB, pc, arg, other, forks, fault, history>>

\* SC_Halt: Interrupt::Halt ends the simulation.
HaltCall ==
    /\ Call("Halt")
    /\ cpu' = "halted"
    /\ UNCHANGED <<currentThread, threadToBeDestroyed, status, readyList, frame, syncVars,
                   pcb, pidMap, allPCB, pc, arg, other, forks, fault, history>>

-----------------------------------------------------------------------------
(***************************************************************************)
(* Join: wait until the PID of the child is free.                          *)
(***************************************************************************)
JoinFind(pid) ==
    LET child == GetChildPCB(me, pid)
    IN  /\ Call("Join")
        /\ IF \/ \E u \in Relatives(me) : ~Exists(u)
              \/ child # NULL /\ \E u \in Relatives(child) : ~Exists(u)
           THEN fault' = "deleted PCB" /\ UNCHANGED <<threadVars, pc, arg, other>>
           ELSE IF child = NULL
           THEN UNCHANGED <<threadVars, pc, arg, other, fault>>
           ELSE IF pcb[child].parentPCB # me
           THEN fault' = "not the parent" /\ UNCHANGED <<threadVars, pc, arg, other>>
           ELSE /\ arg' = [arg EXCEPT ![me] = pid]
                /\ other' = [other EXCEPT ![me] = child]
                /\ Acquire(pidLock)
                /\ Goto("JoinTest")
                /\ UNCHANGED fault
        /\ UNCHANGED <<pcb, pidMap, allPCB, forks, history>>

\* Mutant of JoinTest: the loop ends while the child still has its PID.
JoinTestInverted ==
    DropLock("JoinTest", IF arg[me] \in pidMap THEN "JoinReturn" ELSE "JoinYield")

\* ProcessMgr::IsSet
JoinTest == DropLock("JoinTest", IF arg[me] \in pidMap THEN "JoinYield" ELSE "JoinReturn")

\* Mutant of JoinYield: the loop tests again without giving up the processor.
JoinSpins == TakeLock("JoinYield", "JoinTest")

JoinYield ==
    /\ At("JoinYield")
    /\ Yield
    /\ Goto("JoinAgain")
    /\ UNCHANGED <<pcb, pidMap, allPCB, arg, other, calls, forks, fault, history>>

JoinAgain == TakeLock("JoinAgain", "JoinTest")

JoinReturn ==
    /\ At("JoinReturn")
    /\ IF \E u \in Relatives(me) : ~Exists(u)
       THEN Fault("deleted PCB")
       ELSE /\ joined' = [joined EXCEPT ![me] =
                            [child |-> other[me], value |-> pcb[me].childExitValue,
                             last |-> lastEnded[me]]]
            /\ other' = [other EXCEPT ![me] = NULL]
            /\ Goto("User")
            /\ UNCHANGED <<threadVars, pcb, pidMap, allPCB, arg, calls, forks, fault, exitStatus,
                           damage, lastEnded>>

-----------------------------------------------------------------------------
(***************************************************************************)
(* Kill.  Killing oneself is Exit(killPID): register 4 still holds the     *)
(* argument of Kill.                                                       *)
(***************************************************************************)
KillLock(pid) ==
    /\ Call("Kill")
    /\ arg' = [arg EXCEPT ![me] = pid]
    /\ Acquire(pidLock)
    /\ Goto("KillGet")
    /\ UNCHANGED <<pcb, pidMap, allPCB, other, forks, fault, history>>

\* ProcessMgr::GetPCB.  BitMap::Test asserts that the PID is in range.
KillGet ==
    /\ At("KillGet")
    /\ IF arg[me] \notin PID
       THEN Fault("PID out of range")
       ELSE /\ other' = [other EXCEPT ![me] = IF arg[me] \in pidMap THEN allPCB[arg[me]] ELSE NULL]
            /\ Release(pidLock)
            /\ Goto(IF arg[me] \in pidMap THEN "KillFound" ELSE "User")
            /\ UNCHANGED <<pcb, pidMap, allPCB, arg, calls, forks, fault, history>>

KillFound ==
    LET victim == other[me]
    IN  /\ At("KillFound")
        /\ IF arg[me] = pcb[me].PID
           THEN StartExit(arg[me])
           ELSE IF ~Exists(victim)
           THEN Fault("deleted victim")
           ELSE IF \E u \in Relatives(victim) : ~Exists(u)
           THEN Fault("deleted PCB")
           ELSE IF pcb[victim].thisThread = NULL
           THEN Fault("NULL thread")
           ELSE /\ pcb' = Unlink(victim, -1)
                /\ Ends(victim, -1)
                /\ Acquire(pidLock)
                /\ Goto("KillRemove")
                /\ UNCHANGED <<pidMap, allPCB, arg, other, calls, forks, fault, joined>>

KillRemove ==
    /\ At("KillRemove")
    /\ IF Exists(other[me])
       THEN /\ pidMap' = pidMap \ {pcb[other[me]].PID}
            /\ allPCB' = [allPCB EXCEPT ![pcb[other[me]].PID] = NULL]
            /\ Release(pidLock)
            /\ Goto("KillCountLock")
            /\ UNCHANGED <<pcb, arg, other, calls, forks, fault, history>>
       ELSE Fault("deleted victim")

KillCountLock == TakeLock("KillCountLock", "KillCount")
KillCount == DropLock("KillCount", "KillFinish")

\* Scheduler::RemoveThread of a thread on the ready list.  When it was the last of
\* several, List::RemoveByElement leaves the list with a NULL last pointer, which the
\* next Append follows; the model stops there.
RemoveThread(t) ==
    /\ readyList' = Remove(readyList, t)
    /\ threadToBeDestroyed' = t
    /\ fault' = IF Len(readyList) > 1 /\ Last(readyList) = t THEN "NULL last" ELSE "none"
    /\ UNCHANGED <<currentThread, status, frame, cpu, syncVars>>

\* ReleaseMemory, delete the victim's address space and PCB, remove its thread.
KillFinish ==
    LET victim == other[me]
    IN  /\ At("KillFinish")
        /\ IF ~Exists(victim)
           THEN Fault("deleted victim")
           ELSE IF victim \notin Range(readyList)
           THEN Fault("ASSERT in RemoveByElement")
           ELSE /\ pcb' = [pcb EXCEPT ![victim].state = "deleted"]
                /\ RemoveThread(victim)
                /\ other' = [other EXCEPT ![me] = NULL]
                /\ Goto("User")
                /\ UNCHANGED <<pidMap, allPCB, arg, calls, forks, history>>

-----------------------------------------------------------------------------
Step ==
    \/ ForkCountLock \/ ForkCount \/ ForkLock \/ ForkCreate \/ ForkLink \/ ForkReturn
    \/ \E val \in machine.ExitStatus : Exit(val)
    \/ ExitRemove \/ ExitCountLock \/ ExitCount \/ ExitFinish
    \/ YieldCall \/ HaltCall
    \/ \E pid \in machine.Arguments : JoinFind(pid)
    \/ JoinTest \/ JoinYield \/ JoinAgain \/ JoinReturn
    \/ \E pid \in machine.Arguments : KillLock(pid)
    \/ KillGet \/ KillFound \/ KillRemove \/ KillCountLock \/ KillCount \/ KillFinish

Kernel == (Resume \/ WakeFromIdle \/ Halt) /\ UNCHANGED procVars

TimeSlice == machine.rs /\ readyList # <<>> /\ Yield /\ UNCHANGED procVars

Next == fault = "none" /\ (Step \/ Kernel \/ TimeSlice) /\ UNCHANGED machine

Spec == Init /\ [][Next]_vars

\* Without time slices the running thread goes on; user programs end (MaxCalls).
FairSpec == Spec /\ WF_vars(Next)

-----------------------------------------------------------------------------
(***************************************************************************)
(* Properties.                                                             *)
(***************************************************************************)
\* Processes that have a PID: created, and not yet removed from the table.
Listed ==
    {t \in Thread :
        /\ pcb[t].state = "live"
        /\ pc[t] \notin {"ExitCountLock", "ExitCount", "ExitFinish"}
        /\ \A k \in Thread : pc[k] \in {"KillCountLock", "KillCount", "KillFinish"} => other[k] # t}

\* Type invariant.
ProcessesTypeOK ==
    /\ \A t \in Thread : pcb[t].PID \in PID
    /\ \A t \in Thread : pcb[t].childrenPCB \in Seq(Thread)
    /\ pidMap \subseteq PID
    /\ allPCB \in [PID -> Thread \cup {NULL}]
    /\ other \in [Thread -> Thread \cup {NULL}]
    /\ exitStatus \in [Thread -> {NULL, -1} \cup PID \cup machine.ExitStatus]

\* What has happened to whom.
Damaged(cause) == {t \in Thread : <<cause, t>> \in damage}

\* The process table is exact: a PID is in use exactly when one process has it, and
\* allPCB leads from the PID to that process.
TableIsExact ==
    /\ \A p \in PID : allPCB[p] # NULL <=> p \in pidMap
    /\ \A t \in Listed : allPCB[pcb[t].PID] = t
    /\ \A p \in pidMap : allPCB[p] \in Listed

\* project2.txt on Exit: "If process has parent, this PCB must be removed from the
\* parent's children PCB list".  The list of a process is as long as it has children; it has
\* exactly these, until a child ends before one of a smaller PID and SortedRemove takes that
\* one off the list.
FamilyAgrees ==
    \A t \in Listed : exitStatus[t] = NULL =>
        LET children == {c \in Thread : pcb[c].parentPCB = t /\ exitStatus[c] = NULL}
        IN  /\ Len(pcb[t].childrenPCB) = Cardinality(children)
            /\ t \notin Damaged("wrong child") => Range(pcb[t].childrenPCB) = children

\* How the links are damaged: only Kill with time slices reaches a process that is ending, or
\* one that forks while it is being killed; the wrong child needs a process with two.
DamageHasCause ==
    /\ Damaged("ended twice") \cup Damaged("forked late") # {} =>
         machine.rs /\ "Kill" \in machine.Syscalls
    /\ \A t \in Damaged("wrong child") :
         forks[t] > 1 \/ Damaged("ended twice") # {}

\* The invariant of the process table: PCBs, PIDs and the bit map match one to one, and
\* parent and child pointers agree, unless Kill ends a process that is ending already.
ProcessesInv ==
    /\ ProcessesTypeOK
    /\ Damaged("ended twice") = {} => TableIsExact /\ FamilyAgrees
    /\ DamageHasCause

\* The kernel follows a NULL pointer, touches a deleted PCB or fails an ASSERT only for these
\* reasons: a relative's PCB is gone when SortedRemove has removed the wrong child, or Kill
\* has overtaken the victim's own Exit or Fork; between two kernel calls of one process the
\* others take the last PID, the child a Fork returns ends, the PCB a Kill has found is
\* deleted, is not linked to its thread yet or its thread waits for pidLock; and the thread
\* Kill removes is the last of several on the ready list.
FaultHasCause ==
    /\ fault # "not the parent"
    /\ fault = "deleted PCB" => damage # {} \/ \E t \in {me, other[me]} \ {NULL} : exitStatus[t] # NULL
    /\ fault \in {"allPCB[-1]", "deleted child"} => machine.rs
    /\ fault \in {"deleted victim", "NULL thread", "ASSERT in RemoveByElement"} =>
         machine.rs /\ "Kill" \in machine.Syscalls
    /\ fault = "NULL last" => readyList # <<>> /\ "Kill" \in machine.Syscalls

\* syscall.h on Join: "Only return once the the user program "id" has finished.  Return
\* the exit status."  It is the child's, unless another child has ended since.
JoinReturnsStatus ==
    \A t \in Thread : joined[t].child # NULL =>
        /\ exitStatus[joined[t].child] # NULL
        /\ joined[t].last = joined[t].child => joined[t].value = exitStatus[joined[t].child]

\* Without time slices every process ends, unless one halts the machine or it stops at a
\* fault: a Join returns once its child has ended, and nobody waits forever.
EverybodyExits ==
    <>(\/ machine.rs \/ "Halt" \in machine.Syscalls \/ fault # "none"
       \/ cpu = "halted" /\ pidMap = {} /\ \A t \in Thread : pcb[t].state # "live")

=============================================================================
