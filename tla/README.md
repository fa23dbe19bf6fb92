# A TLA+ verification project for Nachos (cop5614nachos)

The repository is a C++ Nachos 3.4 with the course projects filled in: locks and
condition variables, an elevator, processes and system calls, demand paging with copy on
write, open file tables. Kernel, devices and user programs run in one UNIX process; the
"hardware" is simulated (`machine/`). This directory models the kernel and the programs
on it in TLA+, checks small instances with TLC and, for the kernel and most of the
programs and devices on it, proves the same with TLAPS. Paths below are relative to
`src/nachos-3.4/code/`.

## 1. The system

| Part | State | Operations | Interacts with |
|---|---|---|---|
| threads, scheduler (`threads/thread.cc`, `scheduler.cc`) | `currentThread`, ready list, `threadToBeDestroyed`, status of each thread | `Fork`, `Yield`, `Sleep`, `Finish`, `ReadyToRun`, `FindNextToRun`, `Run`, `RemoveThread` | everything |
| synchronization (`synch.cc`) | semaphore values, lock holders, wait lists | `P` `V`, `Acquire` `Release`, `Wait` `Signal` `Broadcast` | scheduler |
| lists (`list.cc`, `synchlist.cc`) | linked list; lock and condition of the synchronized one | `Append`, `Remove`, sorted insert and remove, `RemoveByElement` | all kernel lists |
| interrupts, timer (`machine/interrupt.cc`, `timer.cc`) | interrupt level, pending interrupts | `SetLevel`, `OneTick`, `CheckIfDue`, `Idle`, `Halt` | devices, scheduler |
| elevator, barrier (`threads/threadtest.cc`) | car, lists of waiting and travelling passengers; shared counter | `ElevatorThread`, `PassengerThread`, `SimpleThread` | synchronization |
| disk, synchronous disk (`machine/disk.cc`, `filesys/synchdisk.cc`) | sectors, `active` | `ReadSector`, `WriteSector`, completion interrupt | synchronization |
| network, post office (`machine/network.cc`, `network/post.cc`, `nettest.cc`) | socket, packet buffer, mailboxes | `Send`, `Receive`, postal worker, two interrupts | synchronized list |
| processes (`userprog/exception.cc`, `processmgr.cc`, `pcb.cc`) | PID bitmap, `allPCB`, family links, exit values | `Fork`, `Exit`, `Yield`, `Join`, `Kill`, `Exec`, `Halt` | scheduler, `pidLock` |
| memory (`userprog/memorymgr.cc`, `addrspace.cc`, `machine/translate.cc`) | frames, owners, page tables, swap files | page fault, copy on write, eviction, release | processes, file system |
| open files (`userprog/sofmgr.cc`, `sof.cc`, `pof.cc`) | system and process tables, counters, offsets | `Create`, `Open`, `Close`, `Read`, `Write`; the end of a process | file system |
| file system (`filesys/`) | free map, directory, headers on disk | `Create`, `Open`, `Remove`, `ReadAt`, `WriteAt` | synchronous disk |
| console (`machine/console.cc`, `userprog/progtest.cc`) | character read, `putBusy` | `GetChar`, `PutChar`, two interrupts | interrupts, semaphores |
| MIPS machine (`machine/mipssim.cc`, `machine.cc`, `translate.cc`) | registers, the delayed load, memory | `OneInstruction`, `RaiseException`, `Translate` | system calls, memory, scheduler |
| stand-alone simulator (`bin/execute.c`) | registers, `pc`, `npc` | `runprogram` | none: a second implementation of the instructions |
| start-up, tools | | | |

`PROJECT.json` lists every part with its status and every hazard with its line.

What makes it hard. Nachos is a uniprocessor that gets atomicity by turning interrupts
off; a routine may therefore be interrupted exactly where it turns them on again or
switches threads. Threads woken by `V`, `Release`, `Signal` or `Broadcast` only become
ready, so anybody may overtake them (Mesa semantics). A finished thread is deleted by
whoever runs next. Device interrupts may come before the thread that waits for them
sleeps. Packets get lost. PIDs are reused. User calls are not checked by a compiler.

## 2. How the model is built

**Atomicity.** An action is a stretch that the code runs with no chance of a switch: a
kernel call from the moment it turns interrupts off, together with the caller's code
since its previous kernel call returned. That code is not interrupted by anything that
could change what it reads: switches and handlers come only where interrupts go from off
to on (`interrupt.cc` `SetLevel`, `OneTick`), which in kernel and thread programs is at
the end of a kernel call. User instructions, which also tick, touch no kernel state.

**`Threads`** is the kernel: state and operations, no next-state relation. `frame[t]`
says where a thread continues when it is switched to: in `ThreadRoot`, in its caller's
code, or inside the loop of `P` or `Acquire`. `Wait` is a release, a sleep on the
condition, and a continuation in `Acquire`. `Run` includes the deferred delete, which a
thread that has never run does not perform. `Idle` and `Halt` end the machine when
nothing is ready and no interrupt is pending.

**Clients** extend `Threads`. Each has a `pc`, the next kernel call of a thread, and
`Next == Step \/ devices \/ Kernel \/ TimeSlice`: a step of the current thread, a device
handler, a continuation inside the kernel, or (under `-rs`: `system.cc` starts the timer
only then) a `Yield` between two calls.

| Module | Models | Notes |
|---|---|---|
| `SynchClient` | any caller: every routine with every argument in any order | the client of the theorems about the kernel |
| `Elevator` | `threadtest.cc`, elevator build | floors, capacity and trips as constants; `unsigned` arithmetic modulo `UintMod` |
| `Barrier` | `threadtest.cc`, semaphore and lock builds | |
| `SynchDisk` | `synchdisk.cc` over `disk.cc` | refines `AtomicDisk` |
| `AtomicDisk` | what `synchdisk.h` promises | a call takes effect at one moment, and returns |
| `SynchList` | `synchlist.cc` | operations, used by `PostOffice` |
| `PostOffice` | `post.cc` over `network.cc` on one machine that mails itself | loss unless `Reliable`; the user threads are any program |
| `MailTest` | `nettest.cc` between machines | post offices as FIFO channels that may lose |
| `Processes` | system calls Fork, Exit, Yield, Join, Kill, Halt; process table; PCBs | `fault` names a NULL pointer, a deleted PCB or a failed ASSERT; the history `damage` has the links gone wrong and why |
| `BitMap` | `userprog/bitmap.cc` | the set of set bits; operations only |
| `VM` | `memorymgr.cc`, `addrspace.cc`, the page table of `translate.cc`, and what page faults, write faults, Fork, Exec, Exit, Read and Write do to memory | histories: `mem`, what a process last wrote; `lost`, the pages lost; `left`, the marks left behind. `stopped` names a NULL pointer, an overrun array, a stolen frame, a failed ASSERT or an endless loop |
| `OpenFiles` | `sofmgr.cc`, `sof.cc`, `pof.cc`, the tables of `pcb.cc`, the file calls of `exception.cc`, Exit and Kill | on the stub file system, which calls UNIX |
| `FileSys` | `filesys/*.cc` but the synchronous disk | `queue` holds the sector writes of the call under way; a crash drops them |
| `Devices` | pending interrupts, clock, timer, disk latency, console, `ConsoleTest` | one tick of the processor, one interrupt handler or one switch is an action |
| `MipsWord`, `Mips` | `mipssim.cc`, `machine.cc`, and the code that saves, restores or changes user registers | words of `4 * ByteBits` bits; operators and state machine |
| `Execute` | `bin/execute.c` | operators: one instruction, the reference of `Mips` |
| `ThreadsProofs`, `SynchProofs`, `BarrierProofs`, `SynchDiskProofs`, `PostOfficeProofs`, `MailTestProofs`, `OpenFilesProofs`, `DevicesProofs` | proofs | section 6 |

`MC*` modules only supply constants. Definitions called "Mutant of ..." are wrong
variants of the definition that follows them, used to confirm that a property notices
the bug; they are in no specification.

Data is abstracted: messages, file contents and names are members of small sets;
printing is left out, but where the arguments of a message take a lock or touch an
object (`GetNumFreePCBs`, `PrintPCB`) the effect is modelled. In `Processes` one name
stands for a thread, its PCB and its address space; memory is left out, so the locks of
the memory manager add no switch points beyond those of `pidLock`.

**`VM`.** A page table entry has frame, valid, dirty, readOnly and zeroFilled. The time
stamps of frames are kept as their order (`fifo`): eviction compares them only. A
stretch under `memoryLock` is one action; between two stretches another process may run
if `-rs` is given. What the code evaluates before it waits for `memoryLock` is an action
of its own, so that it can be out of date in the next. `PageIn` is two actions (get a
frame, load it), `COW` three, Fork three and `ReleaseMemory` two for each page. A byte is
zero, of one of two executables, or written. `SetShare(-1)` writes outside its array and
is a choice of what it may change; so are the uninitialized `zeroFilled` bits after Exec.
Programs are arbitrary: the settings bound what they do and keep them from nothing. What
the code loses is recorded where it happens, in `lost`, by one of four definitions:
`DataZeroed` (`PageIn` zero-fills a page that begins with data), `StoredUnseen` (Read
stores in a clean or shared page), `NotForked` (written pages that are paged out at Fork)
and `PagedOutInExec` (an old page in the new swap file).

**`FileSys`.** The disk is an array of sectors that hold data, a header, the map or half
of the directory (which is longer than a sector). Every call computes the sector writes
it makes, in the order of the code; they reach the disk one at a time, and a crash (the
machine halts and is started again without `-f`) can come between any two. The history
`file` has what Create made and what was last written; a file is `tainted` once a crash
interrupted its creation or removal, or a handle that outlived it has been written.

**`Devices`.** The clock advances by user and system ticks and by `Idle`. The pending
list is in order of time and, for equal times, of scheduling. Handlers run with
interrupts off and request a yield. The disk's arithmetic is that of `disk.cc` with
shorter times and a track of few sectors.

**`Mips`.** Decode, every opcode, the delayed load, the two program counters, exceptions
that restart the instruction, system calls that step over it, interrupts, and the saving
and restoring of registers in `Scheduler::Run` and Fork. A program is not stored in
memory: the instruction at a PC is chosen when it is first fetched. The history `ref` is
the same thread run by `Execute`.

## 3. Runs

The runs, all of which pass (in brackets: distinct states):

| Run | Instance | Shows |
|---|---|---|
| `synch` | 4 threads, one semaphore, lock, condition; values up to 2; time slices and device interrupts anywhere | no thread linked twice or lost, locks exclude, no lost wakeup of `Release` or `V`, only finished threads deleted, every ready thread runs (170 078) |
| `elevator` | 3 passengers, 3 floors, a car for 2. Without `-rs`: all trips. With it: all trips of two passengers, and one case of three | counters agree with passengers, broadcasts are answered in full, the elevator closes empty, at most one passenger uses its deleted lists and only with `-rs`; without `-rs` everybody travels (815 946) |
| `barrier` | both builds, 3 threads, 2 rounds, `-rs` | no lost update, nobody passes early, all read the final value, all finish (206 896) |
| `synchdisk` | 3 threads with a call each, one sector, `-rs` | one request at a time, no early return; `SynchDisk` implements `AtomicDisk`, liveness included (48 446) |
| `post_office` | 2 senders, or a sender of 2 mails and 2 receivers of one box; losses, `-rs` | sends do not overlap; mail arrives once and in order; while receivers sleep, every item on a list has an awake receiver of its own; all is read in the end (162 951) |
| `mailtest` | 3 machines, any pairing, with and without loss | who finishes was heard; without loss all finish (3 412) |
| `processes` | 2 or 3 PIDs, up to 4 processes in all, with one child and with two, with and without `-rs`; Fork, Join, Kill, Yield, Halt, Exit | process table and family links exact but for links whose damage has a named cause; every fault has one of the causes named; Join returns the child's status unless a sibling ended later; without `-rs` everybody ends (1 245 237) |
| `vm` | 17 settings: up to 3 processes of 1 to 3 pages in 2 or 3 frames; Fork, Exec, Exit, Read, Write together with eviction; ends of data inside a page; `-rs` with sharing, Exit, Exec and Read | every process finds what it wrote last and clean pages are in the swap file, but for lost pages; mapped frames are set and marked; shared pages are read-only, and the last user may write unless a mark was left; every mark has a user or was left by `ClearPage`; one fault is enough; every stop has its cause (1 175 121) |
| `openfiles` | 3 processes, 3 files, tables of 2 entries, 8 calls; `-rs`; Exit and Kill, also in the middle of a Read; careless programs; similar names | counters are references, no entry dangles, one system entry for a file, offsets stay inside the file, failed ASSERTs have a cause (764 381) |
| `filesys` | 4 names, 11 sectors of 2 bytes, 3 directory entries, at most 2 data sectors a header, 7 calls, one crash; the programs of `fstest.cc` | the map is exact; after a crash no sector leaks and no other file is harmed; every range reads what was written; Copy and Print are complete (385 312) |
| `devices` | two programs, console and disk in five combinations, with and without the timer | no interrupt stays overdue, the machine halts only when done, input is echoed in order, latency is that of the rotating disk, slices are bounded (388 760) |
| `mips` | 8-bit words; all opcodes but system calls on 15 x 15 operands; sequences of 3 and 4 instructions with a fault, an interrupt, Fork, Exec and Yield; 2 threads | `Mips` and `Execute` agree where they are meant to; nothing pending in the kernel; overflow, product and quotient exact (1 000 262) |

Where one run asks its question of several settings (`-rs` or not, build, loss,
programs), the setting is a variable that `Init` chooses and no step changes.

**Component invariants.** A run checks one conjunction of the invariants that describe
the component's state, and separately the properties about outcomes, order and progress:

| Invariant | Conjuncts |
|---|---|
| `ThreadsInv` | `ThreadsTypeOK`, `OnOneList`, `NoThreadLost`, `MutualExclusion`, `LockWakeup`, `CarcassIsDead`, `FrameAgrees` |
| `ElevatorInv` | `ElevatorTypeOK`, `ClosesEmpty`, `CountersAgree`, `OneStray` |
| `BarrierInv` | `BarrierTypeOK`, `FinalValue`, `BarrierHolds`, `WhereThreadsAre`, `OneWriter`, `NoUpdateLost`, `TurnstileClosed` |
| `SynchDiskInv` | `SynchDiskTypeOK`, `OneRequestAtATime`, `ReturnsWhenDone`, `RequestUnderLock` |
| `PostOfficeInv` | `PostOfficeTypeOK`, `BufferSignalled`, `OneSendAtATime`, `ItemsAwaited`, `WhereThreadsAre`, `SendUnderLock`, `SignalsReachReaders` |
| `MailTestInv` | `MailTestTypeOK`, `AcksFollowReads`, `HaltedMeansRead` |
| `ProcessesInv` | `ProcessesTypeOK`, `TableIsExact`, `FamilyAgrees`, `DamageHasCause` |
| `PagingInv` (`VM`) | `TypeOK`, `MappedIsMarked`, `ReadOnlyIffShared`, `HandlerRepairs` |
| `TablesAgree` (`OpenFiles`) | `TypeOK`, `NoDanglingPOF`, `CallsHoldEntries`, `OpenFilesExist`, `OneSOFPerFile`, `StopsHaveCause` |
| `DiskInv` (`FileSys`) | `TypeOK`, `MapIsExact`, `AssertNeedsDamage` |
| `DevicesInv` | `TypeOK`, `InterruptsPending`, `NothingOverdue`, `ClientAwaited`, `TimerInTime` |
| `RegistersInv` (`Mips`) | `TypeOK`, `NothingPendingInKernel` |

**Bounds.** Three threads are the least with a holder, a waiter and an overtaker; four
add a second waiter, so that the order of a wait list matters. Two receivers of one
mailbox and two mails are what a lost `Signal` needs; a second mailbox has its own list,
lock and condition, and shares only the worker. Two PIDs for three processes make PIDs
run out and be reused; three give a process two children, and four processes let two of
them fork for the last PID. `MaxCalls`, `MaxForks`, `MaxMail` and `MaxValue` bound
programs, not the kernel. `UintMod` stands
for 2^32 in the elevator's counters; a wrap would show as a count above the number of
passengers.

Two frames for two processes of two pages force evictions of shared and private pages.
Three processes are the least that leave a mark of one on a frame that two others share;
one page each in two frames is enough for it, and for the mark to be followed. Pages of
two bytes separate whole-page from partial copies and let data end inside a page. Where a
setting would grow too large its programs only store (`Stores`). Tables of two entries for three files fill up
in the system and in a process. Files of 3 bytes in sectors of 2 have a partial last
sector, and 5 bytes overrun a header; eleven sectors hold two such files. The times of
`Devices` are small, with the timer and the user's tick the shortest, so that interrupts
fall on equal and on different ticks. Words of 8 bits have all of a word's parts (four
bytes of two bits, two halfwords, a sign); the code treats all widths alike. `MaxCalls`,
`MaxTicks`, `MaxRequests`, `MaxCrashes` and the steps of `Mips` bound programs.

**Deadlock** is not checked: the machine halts when nobody can run. That somebody waits
forever is a property instead (`EverybodyFinishes`, `EverybodyTravels`,
`EverybodyExits`, `MailIsRead`; in `Devices`, `HaltsWhenDone`).

## 4. Where the code falls short

The runs reach most of what follows; their properties say when it happens, and that
nothing else goes wrong.

Threads and processes:
- A finished thread followed by a new thread that finishes too is never deleted
  (`scheduler.cc:124`; `thread.cc:134` says that it is).
- With `-rs` two passengers can wait for an idle elevator that wakes one of them
  (`threadtest.cc:219`; `reports/project1.txt:270` claims any seed). A passenger that the
  elevator's last signal woke may also register in lists that the closing elevator has
  freed; `OneStray` says that it is one at most.
- Join can return a sibling's status: a parent has one `childExitValue` (`pcb.cc:54`;
  `syscall.h:64`). A child that ends before an older sibling removes that one from the
  parent's list (`SortedRemove`), which then holds a deleted PCB; Exit, Join, Fork and Kill
  touch it.
- `RemoveByElement` of the last of several elements sets `last` to NULL (`list.cc:275`):
  Kill of the last ready thread breaks the ready list.
- With `-rs` two Forks can count the same last free PID (`processmgr.cc:27`) and use
  `allPCB[-1]`; Fork reads its child's PCB after the child may have ended; Kill may end a
  process that is being forked, sleeps, is ending or has been ended by another Kill.
- Kill of a PID outside the table fails an ASSERT.

Memory:
- Fork fills the child's swap file from the executable (`addrspace.cc:288`): pages the
  parent has written and that were paged out are not in it.
- `PageIn` zero-fills the whole page when the address is behind the data
  (`addrspace.cc:560`): a page that holds the end of the data loses it, and what has been
  written there too if it comes back from the swap file.
- Kernel copies into user memory set no dirty bit and ignore `readOnly`
  (`addrspace.cc:336`): what Read brings can be lost at an eviction, or show in another
  process. `reports/project4.txt` states the rule that is broken (`CleanIsInSwap`).
- `ClearPage` leaves `framePID`, and Exit clears `allPCB` first: an eviction follows a
  NULL pointer, or runs off the page table of a process that does not map the frame
  (`memorymgr.cc:41`). A mark left behind also makes `UnsetShare` count one user too many:
  the last one stays read-only, and the copy it makes at its next write leaves a frame
  that nobody uses.
- Exec keeps the old number of pages (`addrspace.cc:468` computes the new one and does not
  use it): data that do not fit run over the buffer in `AllocateSwapFile`, and a program
  that needs more memory raises an address error.
- With `-rs`: `COW` may find its page evicted while it waited for `VMLock`; system calls
  page in without `VMLock`, so an eviction meets a frame that is not mapped yet; a child is
  evicted while Fork makes it, before it has a swap file; Fork or `ReleaseMemory` marks or
  clears a frame that was evicted while it waited for `memoryLock`; an old page is written
  into the swap file that Exec has made; and a process in Exit unshares a frame under a PID
  that a new process has by then.
- A copy beyond the end of the address space never ends or fails an ASSERT
  (`userReadWrite`), and Exec of a missing file aborts the machine.

Open files:
- A second Open of an open file counts a reference that no Close takes back.
- A process entry has a copy of the name without its terminating zero (`pof.cc`): a file
  may be taken for one whose name it begins with, or an open one not be found; Open's
  `ASSERT(pofIndex == -1)` can fail.
- Close of a closed identifier follows a pointer to a deleted entry.
- Kill of a process inside Read or Write leaves the file's lock held, and others wait for
  it; Kill of one that sleeps for the lock fails an ASSERT.
- The UNIX descriptor is never closed (`sof.cc`; `descriptors` only grows).

File system:
- Neither Create (header, directory, map) nor Remove (map, directory) survives a crash:
  the interrupted entry is left with sectors that are free, and a later Create shares
  them. No sector is lost.
- `Allocate` does not check `NumDirect`: a large file overruns its header.
- Remove of an open file frees its sectors under the reader. Create does not clear the
  data.
- `PerformanceTest` creates a file of size 0, so its writes and reads fail.

Machine:
- In `Idle`'s second loop a timer interrupt due at the same tick as the last other one
  is put back, overdue, and fires at the next tick.
- `OP_OR` computes `rs | rs` (`mipssim.cc:376`), `SRL` and `SRLV` shift a signed number
  (`:445`), `LWL`, `LWR`, `SWL`, `SWR` fail an ASSERT for some addresses, and a system
  call in a delay slot loses the branch (`UpdatePCRegs`). `Differs` in `Mips` lists
  these and the differences of `bin/execute.c`; everywhere else the two must agree.

## 5. Fairness

The processor never stops by itself: continuations in the kernel are weakly fair, and so
are the device interrupts, which are scheduled when the request is made. Without time
slices the current thread just continues: `WF(Next)`. With them (`-rs`), a thread's next
call is strongly fair: slices have random lengths (`timer.cc`), so a thread that is
given the processor again and again makes its next call at some turn. `SynchClient`
makes arbitrary calls and assumes only that slices keep coming. `AtomicDisk`'s fairness
is what is shown, not assumed. `VM`, `OpenFiles`, `FileSys`, `Devices` and `Mips` are
checked for safety only and assume no fairness.

## 6. Proofs

TLAPS checks the following theorems for every value of the constants. "Run" marks the
ones that state a property of section 3.

| Module | Theorem | States | Run |
|---|---|---|---|
| `SynchProofs` | `KernelInvariant` | `Spec => []ThreadsInv` | `synch` |
| | `KernelTypes`, `LocksExclude`, `ThreadsStayListed`, `NoLostLockWakeup`, `OnlyCarcassesDeleted` | its conjuncts, one by one | |
| | `NoLostSemaphoreWakeup` | `[]SemaphoreWakeup` | `synch` |
| `BarrierProofs` | `BarrierCorrect` | `[]BarrierInv` | `barrier` |
| `SynchDiskProofs` | `SynchDiskCorrect` | `[]SynchDiskInv` | `synchdisk` |
| | `SynchDiskRefines` | `Spec => Abstract!Safety`: the safety part of `ImplementsAtomicDisk` | |
| `PostOfficeProofs` | `PostOfficeCorrect` | `[]PostOfficeInv` | `post_office` |
| | `MailStaysInOrder` | `[]MailInOrder` | `post_office` |
| `MailTestProofs` | `MailTestCorrect` | `[]MailTestInv` | `mailtest` |
| `OpenFilesProofs` | `OpenFilesTablesAgree`, `OpenFilesCounters`, `OpenFilesOffsets` | `[]TablesAgree`, `[]CounterIsReferences`, `[]OffsetInFile` | `openfiles` |
| `DevicesProofs` | `ClockCorrect`, `MachineHaltsWhenDone`, `ConsoleEchoes`, `DiskLatency`, `SlicesBounded` | `[]DevicesInv`, `[]HaltsWhenDone`, `[]EchoesInput`, `[]LatencyIsRotation`, `[]SliceBounded` | `devices` |

**Assumptions.** All are `ASSUME`s of the component modules, and TLC evaluates them on
the runs. `ThreadsAssumption`: main is a thread, NULL is not, semaphores, locks and
conditions are distinct. `ClientAssumption`, `SynchDiskAssumption`, `SynchListAssumption`,
`PostOfficeAssumption`: the objects a program uses exist; every mailbox has a lock and a
condition of its own. `BarrierAssumption`: main forks every other thread once, and the
three semaphores are different ones. `MailTestAssumption`: a network is reliable or not.
`OpenFilesAssumption`: tables and bounds are not empty, processes are finitely many.
`DevicesAssumption`: times and disk geometry are positive, end of file is no character,
threads are finitely many.

**The kernel (`ThreadsProofs`, `SynchProofs`).** No conjunct of `ThreadsInv` is
inductive alone. `FrameAgrees` joins them: a thread on the list of a lock continues in
its `Acquire`, one on the list of a condition in the `Acquire` of some lock. Without it
`Release` could wake a thread that does not try the lock again, and `LockWakeup` would
not survive. Mutual exclusion needs that the current thread is on no list, so that only a
thread that runs can take a lock. `ThreadsProofs` first proves what is needed of lists
without repetition, then splits `ThreadsInv` into a part about lists (`Lists`) and one
about locks (`LocksOK`). `Lists` is carried through wakeups (`WakeLists`) and switches
(`BlockLists`, `YieldLists`, `FinishLists`), and every kernel operation has one lemma
(`ForkInv`, `YieldInv`, `DoPInv`, ...) that puts the two parts together. These lemmas
speak of `Threads` only; the programs below cite them. `SemaphoreWakeup` says that a
semaphore with sleepers has no more units than threads on their way to take one; `V`
adds one of each, and a thread that takes a unit was one of them.

**The programs on the kernel.** Their invariants are proved together with `ThreadsInv`.
What each needed besides the properties one would ask for, and what TLC therefore
checks too, is a conjunct that ties `pc` to `frame` and to what the thread holds:
- `Barrier`: `OneWriter` (one thread is between `P` and `V` of `sp`, or in the lock, and
  the value it has read is the current one) makes every update count (`NoUpdateLost`);
  `TurnstileClosed` (`br` has units only when all have arrived) gives `BarrierHolds`.
- `SynchDisk`: `RequestUnderLock` says that only the holder of the lock has a request,
  and that its completion is either pending or in the semaphore. In the refinement the
  request, made under the lock, is the moment of the effect; `Enter` and `Leave` are the
  call and the return, and every other step stutters.
- `PostOffice`: `SendUnderLock` does the same for the network's send side.
  `BufferSignalled` says that the packet buffer is full exactly when its interrupt has
  been counted, so the worker never finds it empty. `ItemsAwaited` counts: while receivers
  sleep on a list, each of its items has an awake receiver of its own, since a signalled
  receiver may be overtaken by another one; it needs `SignalsReachReaders` (the worker
  signals under the list's lock, and who sleeps there is a receiver of that list).
  `MailInOrder` is inductive with these: what
  is posted is the concatenation of what was delivered and of what is under way (worker,
  buffer, socket), and what the readers of a box got with what its list holds is the
  subsequence of the delivered mail that is addressed to it.
- `MailTest`: `AcksFollowReads`, for every packet that is under way or in a box.

**Open files.** The three properties are inductive together. `CallsHoldEntries` says
that a call that sleeps for a file's lock keeps its entries, so that no Close, Exit or
Kill by another process deletes what it will use; `OpenFilesExist`, that the file behind
an entry is there. Reference counts are the cardinality of a set of process entries; a
call adds or removes one element of it, or none, and the end of a process all of its own.

**Devices.** The five properties rest on one inductive invariant (`DevicesInv`,
`HaltsWhenDone`, `EchoesInput`, `LatencyIsRotation`). Its centre is that the list of
pending interrupts is sorted, with at most one entry of each kind, and has what the
devices wait for: each handler has one lemma about the entry it takes and the entry it
inserts. `HaltsWhenDone` follows because a sleeping thread has a pending interrupt or is
ready; `EchoesInput` because the two semaphores tell whether a character is buffered and
whether the display is free. `LatencyIsRotation` compares `ComputeLatency` with the first
time that the sector passes the head, by lemmas on quotients and remainders. `TimerInTime`
bounds the time of the next timer interrupt, and so the slice.

**Only model-checked:**
- liveness, which this prover does not handle: `ReadyThreadRuns`, `EverybodyTravels`,
  `EverybodyFinishes`, `MailIsRead`, `EverybodyHalts`, `EverybodyExits`, and the fairness
  part of `ImplementsAtomicDisk`;
- `Elevator`: `BroadcastAnswered` depends on the sum of `waiting_list`, a fold over an
  array, about which only induction over data would say anything; `ElevatorInv` is left to
  TLC with it;
- `Processes` and `VM`: their invariants are stated up to the damage that the code does
  (section 4), which the histories follow through many steps; no inductive form of them has
  been worked out;
- `FileSys`: no inductive invariant has been worked out; it would have to describe the
  disk at every point of the queue of sector writes that a call leaves behind, for any
  geometry;
- `Mips` and `Execute`: bitwise operators and words of a given width.

## 7. Not modelled

- The TLB (`translate.cc`): no code of the repository fills one, and `Translate` in the
  `vm` build would fail its ASSERT.
- Concurrent use of the file system: `filesys.cc:33` says that there is no
  synchronization for it.
- The pointers of `list.cc`: lists are sequences, except for the `last` pointer after
  `RemoveByElement`. `Mapcar`, `Print`, the debugger, `DumpState` and statistics are
  output only.
- The assembly of `SWITCH`; what it does is `Run` and `ThreadRoot` of `Threads`.
- `sysdep.cc`: UNIX calls, modelled by how the devices use them.
- Parsing of options, the COFF tools, the user programs of `test/`, the two ping
  programs, the lock test (demonstrations of calls that `SynchClient` makes in every
  order) and `c++example`, a tutorial.
- The zero that `SOF`'s copy of a name writes behind its buffer (`sof.cc:12`); what a
  Close of a closed entry makes of the deleted record.
- Kill in `VM`: it releases the victim's memory as Exit does. With `-rs` the victim may be
  in the middle of a fault, and then keeps `VMLock` for ever.
- `VM`, `OpenFiles` and `Processes` are not composed: each has the calls' effect on its
  own state. They share PIDs and PCBs only; the order in which Exit clears `allPCB` and
  releases memory is in `VM`, and the closing of files by the PCB's destructor in
  `OpenFiles`.
