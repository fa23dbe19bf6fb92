------------------------------ MODULE SynchDisk -----------------------------
(***************************************************************************)
(* The synchronous disk (filesys/synchdisk.cc) over the simulated disk     *)
(* (machine/disk.cc), called by any number of threads.  A thread's pc      *)
(* names its next kernel call; an action is the code since the previous    *)
(* call returned, then that call.                                          *)
(***************************************************************************)
EXTENDS Threads

CONSTANTS
    Sector,            \* the sectors of the disk
    Data, InitData,    \* contents of a sector, and the ones at the start
    MaxCalls,          \* bound: calls a thread makes
    Preemptive,        \* nachos was started with -rs
    semaphore, lock    \* SynchDisk's members

ASSUME SynchDiskAssumption ==
    /\ Sector # {}
    /\ InitData \in Data
    /\ MaxCalls \in Nat
    /\ Preemptive \in BOOLEAN
    /\ semaphore \in Semaphore
    /\ lock \in Lock

VARIABLES
    sectors,   \* the UNIX file that holds the disk's contents
    active,    \* Disk::active
    pc,        \* the next call of every thread
    op,        \* the operation of its current call
    buffer,    \* the buffer its reads fill
    calls      \* calls it has finished

diskVars == <<sectors, active, pc, op, buffer, calls>>
vars == <<threadVars, diskVars>>

Operation == [kind : {"read", "write"}, sector : Sector, data : Data]

Init ==
    /\ ThreadsInit([s \in Semaphore |-> 0])
    /\ sectors = [s \in Sector |-> InitData]
    /\ active = FALSE
    /\ pc = [t \in Thread |-> "Idle"]
    /\ op = [t \in Thread |-> CHOOSE o \in Operation : TRUE]
    /\ buffer = [t \in Thread |-> InitData]
    /\ calls = [t \in Thread |-> 0]

me == currentThread
At(label) == InUser /\ pc[me] = label
Goto(label) == pc' = [pc EXCEPT ![me] = label]

-----------------------------------------------------------------------------
(***************************************************************************)
(* ReadSector and WriteSector: lock->Acquire(); disk->...Request(); then   *)
(* semaphore->P(); then lock->Release().                                   *)
(***************************************************************************)
\* Mutant of Enter: the lock that lets one request through at a time is not taken.
EnterUnlocked(o) ==
    /\ At("Idle")
    /\ calls[me] < MaxCalls
    /\ InUser
    /\ op' = [op EXCEPT ![me] = o]
    /\ Goto("Request")
    /\ UNCHANGED <<threadVars, sectors, active, buffer, calls>>

Enter(o) ==
    /\ At("Idle")
    /\ calls[me] < MaxCalls
    /\ op' = [op EXCEPT ![me] = o]
    /\ Acquire(lock)
    /\ Goto("Request")
    /\ UNCHANGED <<sectors, active, buffer, calls>>

AwaitDone ==
    /\ P(semaphore)
    /\ Goto("Release")
    /\ UNCHANGED <<op, calls>>

\* Disk::ReadRequest moves the data at once and schedules the interrupt.
ReadRequest ==
    /\ At("Request")
    /\ op[me].kind = "read"
    /\ buffer' = [buffer EXCEPT ![me] = sectors[op[me].sector]]
    /\ active' = TRUE
    /\ AwaitDone
    /\ UNCHANGED sectors

\* Mutant of WriteRequest: the data is not written.
WriteRequestDropped ==
    /\ At("Request")
    /\ op[me].kind = "write"
    /\ active' = TRUE
    /\ AwaitDone
    /\ UNCHANGED <<sectors, buffer>>

WriteRequest ==
    /\ At("Request")
    /\ op[me].kind = "write"
    /\ sectors' = [sectors EXCEPT ![op[me].sector] = op[me].data]
    /\ active' = TRUE
    /\ AwaitDone
    /\ UNCHANGED buffer

Leave ==
    /\ At("Release")
    /\ Release(lock)
    /\ calls' = [calls EXCEPT ![me] = @ + 1]
    /\ Goto("Idle")
    /\ UNCHANGED <<sectors, active, op, buffer>>

\* Disk::HandleInterrupt, which calls SynchDisk::RequestDone.
HandleInterrupt ==
    /\ active
    /\ active' = FALSE
    /\ Handler(semaphore)
    /\ UNCHANGED <<sectors, pc, op, buffer, calls>>

-----------------------------------------------------------------------------
(***************************************************************************)
(* The callers, and the processor.  The machine does not halt while a disk *)
(* interrupt is pending.                                                   *)
(***************************************************************************)
ForkCaller ==
    /\ At("Idle")
    /\ \E t \in Thread : Fork(t)
    /\ UNCHANGED diskVars

CallerFinishes == At("Idle") /\ Finish /\ UNCHANGED diskVars

Step ==
    \/ \E o \in Operation : Enter(o)
    \/ ReadRequest \/ WriteRequest
    \/ Leave
    \/ ForkCaller \/ CallerFinishes

Kernel == (Resume \/ WakeFromIdle \/ (~active /\ Halt)) /\ UNCHANGED diskVars

TimeSlice == Preemptive /\ readyList # <<>> /\ Yield /\ UNCHANGED diskVars

Next == Step \/ HandleInterrupt \/ Kernel \/ TimeSlice

Spec == Init /\ [][Next]_vars

(***************************************************************************)
(* The disk interrupt comes at its due time, the processor does not stop,  *)
(* and a thread that gets it again and again goes on (slices have random   *)
(* lengths, timer.cc).                                                     *)
(***************************************************************************)
FairSpec ==
    /\ Spec
    /\ WF_vars(Kernel)
    /\ WF_vars(HandleInterrupt)
    /\ \A t \in Thread : SF_vars(currentThread = t /\ Step)

-----------------------------------------------------------------------------
(***************************************************************************)
(* Properties.                                                             *)
(***************************************************************************)
\* Type invariant.
SynchDiskTypeOK ==
    /\ sectors \in [Sector -> Data]
    /\ active \in BOOLEAN
    /\ pc \in [Thread -> {"Idle", "Request", "Release"}]
    /\ op \in [Thread -> Operation]
    /\ buffer \in [Thread -> Data]
    /\ calls \in [Thread -> 0..MaxCalls]
    /\ value[semaphore] \in {0, 1}

\* The ASSERT(!active) of ReadRequest and WriteRequest: a thread about to make a request
\* finds the disk idle and no completion of an earlier request left in the semaphore.
OneRequestAtATime ==
    \A t \in Thread :
        pc[t] = "Request" /\ frame[t] = "user" => ~active /\ value[semaphore] = 0

\* "Return only after the data has been read" (written): a call that goes on after P has
\* its own request completed, not somebody else's.
ReturnsWhenDone ==
    \A t \in Thread : pc[t] = "Release" /\ frame[t] = "user" => ~active

\* What the two properties above rest on: the thread that has come back from Acquire and
\* not yet called Release is the one with a request or about to make it, and the completion
\* of that request is either still to come from the disk or waiting in the semaphore.
RequestUnderLock ==
    /\ \A t \in Thread :
          /\ pc[t] = "Idle" => /\ frame[t] \in {"start", "user", "finish"}
                               /\ t \notin inside[lock]
          /\ pc[t] = "Request" => /\ frame[t] \in {"user", lock}
                                  /\ frame[t] = "user" <=> t \in inside[lock]
          /\ pc[t] = "Release" => /\ frame[t] \in {"user", semaphore}
                                  /\ t \in inside[lock]
          /\ pc[t] = "Release" /\ frame[t] = semaphore => (active <=> value[semaphore] = 0)
          /\ pc[t] = "Release" /\ frame[t] = "user" => value[semaphore] = 0
          /\ pc[t] # "Idle" => calls[t] < MaxCalls
    /\ (\A t \in Thread : pc[t] # "Release") => ~active /\ value[semaphore] = 0

\* The invariant of SynchDisk: the lock lets one request to the disk at a time, and no
\* request returns before the interrupt that ends it.
SynchDiskInv ==
    SynchDiskTypeOK /\ OneRequestAtATime /\ ReturnsWhenDone /\ RequestUnderLock

(***************************************************************************)
(* The synchronous disk implements the atomic disk: the effect of a call   *)
(* is its request to the device, made under the lock.                      *)
(***************************************************************************)
Abstract == INSTANCE AtomicDisk WITH
    phase <- [t \in Thread |-> CASE pc[t] = "Idle" -> "idle"
                                 [] pc[t] = "Request" -> "called"
                                 [] pc[t] = "Release" -> "done"]

ImplementsAtomicDisk == Abstract!Spec

=============================================================================
