--------------------------------- MODULE VM ---------------------------------
(***************************************************************************)
(* Virtual memory of the userprog kernel: the memory manager               *)
(* (memorymgr.cc), address spaces with demand paging, swap files and       *)
(* copy-on-write (addrspace.cc), the page table of the simulated machine   *)
(* (translate.cc) and the exceptions and system calls that use them        *)
(* (exception.cc).                                                         *)
(*                                                                         *)
(* pc names the place where a process is; an action is a stretch of code   *)
(* up to a point where another process may run.  A stretch under           *)
(* memoryLock is one action.  Where the code follows a NULL pointer,       *)
(* leaves an array or takes a frame that is another's, the machine stops   *)
(* and stopped says why.                                                   *)
(***************************************************************************)
EXTENDS BitMap, SequencesExt

CONSTANTS
    Proc,      \* processes: PCB, thread and address space
    NULL,
    Machines   \* the settings tried, see below

(***************************************************************************)
(* The machine and the programs on it: time slices (-rs); sizes; the end   *)
(* of the code and data of every executable, where zero-filled memory      *)
(* begins; PIDs; the instructions of the programs, on addresses of theirs  *)
(* or astray, one too far; the system calls, and a bound on their number.  *)
(***************************************************************************)
Ends == [{"x"} -> Nat] \cup [{"x", "y"} -> Nat]

Machine ==
    [rs : BOOLEAN, NumPhysPages : Nat \ {0, 1}, numPages : Nat \ {0}, PageSize : Nat \ {0},
     CodeDataEnd : Ends, PIDs : Nat \ {0}, Ops : SUBSET {"load", "store", "stray"},
     Calls : SUBSET {"Fork", "Exec", "Exit", "Read", "Write"}, MaxCalls : Nat]

ASSUME VMAssumption == Machines \subseteq Machine /\ NULL \notin Proc

VARIABLES
    machine,     \* the setting of this run; it does not change
    memoryMap,   \* MemoryMgr: the frames in use
    fifo,        \* MemoryMgr::frametime: the frames in the order of their time stamps
    framePID,    \* MemoryMgr: the PIDs that use a frame
    mainMemory,  \* Machine::mainMemory, by frames
    allPCB,      \* ProcessMgr::allPCB
    space,       \* AddrSpace of every process
    VMLock,      \* holder of VMLock, or NULL
    pc,          \* where every process is
    loc,         \* what it is doing: instruction or system call, and local variables
    calls,       \* system calls so far, but Exit
    stopped,     \* "no", or why the machine stopped
    mem,         \* history: what every process last wrote to every address
    left,        \* history: the marks <<frame, PID>> that ClearPage has left behind
    lost         \* history: the pages <<process, page>> whose contents are lost, see below

memoryVars == <<memoryMap, fifo, framePID, left>>
vars == <<machine, memoryVars, mainMemory, allPCB, space, VMLock, pc, loc, calls, stopped,
          mem, lost>>

Frame == 0..(machine.NumPhysPages - 1)
VPage == 0..(machine.numPages - 1)
Offset == 0..(machine.PageSize - 1)
Size == machine.numPages * machine.PageSize
PID == 0..(machine.PIDs - 1)

\* Bytes: zero, what the two executables hold as code and data, and what programs write.
Byte == {"0", "x", "y", "w"}
Zeroes == [o \in Offset |-> "0"]

vpn(addr) == addr \div machine.PageSize
offset(addr) == addr % machine.PageSize

\* The end of p's code and data: CodeDataVirtAddr + CodeDataSize.
CodeDataEnd(sp) == machine.CodeDataEnd[sp.execfile]

\* The executable's code and data, then zeroes: AllocateSwapFile, and the memory a program
\* starts with.
Image(exec) ==
    [v \in VPage |-> [o \in Offset |->
        IF v * machine.PageSize + o < machine.CodeDataEnd[exec] THEN exec ELSE "0"]]

NewEntry ==
    [physicalPage |-> -1, valid |-> FALSE, dirty |-> FALSE, readOnly |-> FALSE,
     zeroFilled |-> FALSE]

NewSpace(pid, exec) ==
    [PID |-> pid, execfile |-> exec, pageTable |-> [v \in VPage |-> NewEntry],
     swap |-> Image(exec)]

NoSpace == [PID |-> -1]
Idle == [op |-> "none", addr |-> 0, size |-> 0, byte |-> "0", i |-> 0, frame |-> -1,
         child |-> NULL]

\* StartProcess has constructed the first address space; no page is loaded.
Init ==
    /\ machine \in Machines
    /\ memoryMap = {}
    /\ fifo = <<>>
    /\ framePID = [f \in Frame |-> {}]
    /\ mainMemory = [f \in Frame |-> Zeroes]
    /\ LET p == CHOOSE p \in Proc : TRUE IN
        /\ allPCB = [i \in PID |-> IF i = 0 THEN p ELSE NULL]
        /\ space = [q \in Proc |-> IF q = p THEN NewSpace(0, "x") ELSE NoSpace]
        /\ pc = [q \in Proc |-> IF q = p THEN "User" ELSE "none"]
        /\ mem = [q \in Proc |-> IF q = p THEN Image("x") ELSE <<>>]
    /\ VMLock = NULL
    /\ loc = [q \in Proc |-> Idle]
    /\ calls = 0
    /\ stopped = "no"
    /\ left = {}
    /\ lost = {}

(***************************************************************************)
(* Where another process may run: without time slices only between two     *)
(* instructions of a user program (it may call Yield there), with them     *)
(* wherever the code has just returned from a lock operation.              *)
(***************************************************************************)
SwitchPoints ==
    {"none", "gone", "User"} \cup
    IF machine.rs
    THEN {"Restart", "PageFault", "ReadOnly", "PageIn", "PageInLoad", "COW", "CowCopy",
          "CowUnshare", "ForkBegin", "ForkMark", "ForkCopy", "Release", "ClearPage",
          "UnsetShare"}
    ELSE {}

At(p, label) ==
    /\ stopped = "no"
    /\ pc[p] = label
    /\ \A q \in Proc \ {p} : pc[q] \in SwitchPoints

Goto(p, label) == pc' = [pc EXCEPT ![p] = label]

Stop(why) ==
    /\ stopped' = why
    /\ UNCHANGED <<memoryVars, mainMemory, allPCB, space, VMLock, pc, loc, calls, mem, lost>>

pageTable(p) == space[p].pageTable

\* p is about to replace or delete its memory; p has memory.
Releasing(p) == pc[p] \in {"Release", "ClearPage", "UnsetShare", "Released"}
HasMemory(p) == pc[p] \notin {"none", "gone"} /\ ~Releasing(p)

-----------------------------------------------------------------------------
(***************************************************************************)
(* MemoryMgr and the parts of AddrSpace it calls                           *)
(***************************************************************************)
\* The first page that is mapped to frame f.
PageOf(sp, f) == Min({v \in VPage : sp.pageTable[v].physicalPage = f})
Maps(sp, f) == \E v \in VPage : sp.pageTable[v].physicalPage = f

\* Mutant of PageOut: the dirty page is not written to the swap file.
PageOutForgets(sp, f) ==
    [sp EXCEPT !.pageTable[PageOf(sp, f)] =
        [@ EXCEPT !.physicalPage = -1, !.valid = FALSE, !.readOnly = FALSE]]

\* AddrSpace::PageOut, for a frame that the address space maps.  dirty stays as it is.
PageOut(sp, f) ==
    LET v == PageOf(sp, f)
    IN  [sp EXCEPT
           !.swap[v] = IF sp.pageTable[v].dirty THEN mainMemory[f] ELSE @,
           !.pageTable[v] = [@ EXCEPT !.physicalPage = -1, !.valid = FALSE,
                                      !.readOnly = FALSE]]

Users(f) == {allPCB[i] : i \in framePID[f]}

\* A frame is evicted from all its users.  A mark of a process that has gone is a NULL
\* pointer; one of a process that does not map the frame runs off its page table; and the
\* child of a Fork under way has no swap file yet.
Forked(q) == space[q].swap # <<>>
CanEvict(f) ==
    NULL \notin Users(f) /\ \A q \in Users(f) : Maps(space[q], f) /\ Forked(q)

Evicted(f) == [q \in Proc |-> IF q \in Users(f) THEN PageOut(space[q], f) ELSE space[q]]

\* History: the swap file of a process in the middle of Exec is the new program's, and a page
\* of the old one is written to it.
PagedOutInExec(f) ==
    {<<q, PageOf(space[q], f)>> : q \in
        {q \in Users(f) : Releasing(q) /\ pageTable(q)[PageOf(space[q], f)].dirty}}

\* Mutant of Victim: the shared page may be taken.
VictimMayBeShared(sharedPage) == Head(fifo)

\* The frame that has been in use longest, but not sharedPage.
Victim(sharedPage) == Head(SelectSeq(fifo, LAMBDA f : f # sharedPage))

\* The frame gets the newest time stamp.
Stamped(f) == Append(SelectSeq(fifo, LAMBDA g : g # f), f)

(***************************************************************************)
(* GetPage: a free frame, or the victim; it is stamped and marked.  There  *)
(* is always one, so it never returns -1.                                  *)
(***************************************************************************)
GetPage(p, sharedPage, next) ==
    LET full == NumClear(memoryMap, Frame) = 0
        f == IF full THEN Victim(sharedPage) ELSE Find(memoryMap, Frame)
        pid == space[p].PID
    IN  IF full /\ ~CanEvict(f)
        THEN Stop(IF NULL \in Users(f) \/ (\A q \in Users(f) : Forked(q))
                  THEN "dangling mark" ELSE "unfinished child")
        ELSE /\ memoryMap' = Mark(memoryMap, f)
             /\ fifo' = Stamped(f)
             /\ framePID' = [framePID EXCEPT ![f] = (IF full THEN {} ELSE @) \cup {pid}]
             /\ left' = {m \in left : m[1] # f \/ (~full /\ m[2] # pid)}
             /\ space' = IF full THEN Evicted(f) ELSE space
             /\ lost' = IF full THEN lost \cup PagedOutInExec(f) ELSE lost
             /\ loc' = [loc EXCEPT ![p].frame = f]
             /\ Goto(p, next)
             /\ UNCHANGED <<mainMemory, allPCB, VMLock, calls, stopped, mem>>

\* ClearPage leaves framePID as it is.
ClearPage(f) ==
    /\ memoryMap' = Clear(memoryMap, f)
    /\ left' = left \cup ({f} \X framePID[f])
    /\ UNCHANGED <<fifo, framePID, space>>

\* AddrSpace::UnsetReadOnly
UnsetReadOnly(sp, f) ==
    IF Maps(sp, f) THEN [sp EXCEPT !.pageTable[PageOf(sp, f)].readOnly = FALSE] ELSE sp

\* The users that UnsetShare leaves to a frame.
Sharers(f, pid) == framePID[f] \ {pid}

\* UnsetShare: the last user left may write.
LastUserIsGone(f, pid) ==
    \E i \in Sharers(f, pid) : Sharers(f, pid) = {i} /\ allPCB[i] = NULL

UnsetShare(f, pid) ==
    /\ framePID' = [framePID EXCEPT ![f] = @ \ {pid}]
    /\ left' = left \ {<<f, pid>>}
    /\ space' = [q \in Proc |->
                    IF Cardinality(Sharers(f, pid)) = 1 /\ q \in {allPCB[i] : i \in Sharers(f, pid)}
                    THEN UnsetReadOnly(space[q], f) ELSE space[q]]
    /\ UNCHANGED <<memoryMap, fifo>>

\* SetShare(-1, ...) of a page that is not in memory writes in front of framePID, which is
\* where frametime ends: one frame gets another time stamp.
SetShare(f, pid) ==
    IF f # -1
    THEN /\ framePID' = [framePID EXCEPT ![f] = @ \cup {pid}]
         /\ left' = left \ {<<f, pid>>}
         /\ UNCHANGED <<memoryMap, fifo>>
    ELSE /\ \/ UNCHANGED fifo
            \/ \E g \in Range(fifo) : \E i \in 1..Len(fifo) :
                  fifo' = InsertAt(SelectSeq(fifo, LAMBDA h : h # g), i, g)
         /\ UNCHANGED <<memoryMap, framePID, left>>

-----------------------------------------------------------------------------
(***************************************************************************)
(* Instructions, and the exceptions they raise                             *)
(***************************************************************************)
\* Machine::Translate, with a page table.
Translate(p, addr, writing) ==
    CASE vpn(addr) >= machine.numPages -> "AddressErrorException"
      [] ~pageTable(p)[vpn(addr)].valid -> "PageFaultException"
      [] pageTable(p)[vpn(addr)].readOnly /\ writing -> "ReadOnlyException"
      [] pageTable(p)[vpn(addr)].physicalPage = -1 -> "BusErrorException"
      [] OTHER -> "NoException"

\* Storing n copies of a byte through the page table, and what is then expected of p.
Stored(p, addr, n, byte) ==
    [mainMemory EXCEPT ![pageTable(p)[vpn(addr)].physicalPage] =
        [o \in Offset |-> IF o \in offset(addr)..(offset(addr) + n - 1) THEN byte ELSE @[o]]]

Expected(p, addr, n, byte) ==
    [mem EXCEPT ![p][vpn(addr)] =
        [o \in Offset |-> IF o \in offset(addr)..(offset(addr) + n - 1) THEN byte ELSE @[o]]]

\* VMLock.Acquire at the start of a handler.
AcquireVMLock(p, waiting, inside) ==
    IF VMLock = NULL
    THEN VMLock' = p /\ Goto(p, inside)
    ELSE UNCHANGED VMLock /\ Goto(p, waiting)

\* One instruction, as far as it loads (op = "load") or stores a byte.
Execute(p, op, addr, byte) ==
    LET exception == Translate(p, addr, op = "store")
        l == [Idle EXCEPT !.op = op, !.addr = addr, !.byte = byte]
    IN  \/ /\ exception = "NoException"
           /\ Goto(p, "User")
           /\ loc' = [loc EXCEPT ![p] = Idle]
           /\ IF op = "store"
              THEN /\ mainMemory' = Stored(p, addr, 1, byte)
                   /\ space' = [space EXCEPT ![p].pageTable[vpn(addr)].dirty = TRUE]
                   /\ mem' = Expected(p, addr, 1, byte)
              ELSE UNCHANGED <<mainMemory, space, mem>>
           /\ UNCHANGED <<memoryVars, allPCB, VMLock, calls, stopped, lost>>
        \/ /\ exception = "PageFaultException"
           /\ AcquireVMLock(p, "PageFault", "PageIn")
           /\ loc' = [loc EXCEPT ![p] = l]
           /\ UNCHANGED <<memoryVars, mainMemory, allPCB, space, calls, stopped, mem, lost>>
        \/ /\ exception = "ReadOnlyException"
           /\ AcquireVMLock(p, "ReadOnly", "COW")
           /\ loc' = [loc EXCEPT ![p] = l]
           /\ UNCHANGED <<memoryVars, mainMemory, allPCB, space, calls, stopped, mem, lost>>
        \/ /\ exception \in {"AddressErrorException", "BusErrorException"}
           /\ Stop("unexpected exception")

\* The addresses that programs use.
Address == 0..(IF "stray" \in machine.Ops THEN Size ELSE Size - 1)

\* Programs write one value.
Instruction(p) ==
    /\ At(p, "User")
    /\ \E addr \in Address : \E op \in machine.Ops \ {"stray"} : Execute(p, op, addr, "w")

\* The handler has returned: the instruction is executed again.
Restart(p) ==
    /\ At(p, "Restart")
    /\ Execute(p, loc[p].op, loc[p].addr, loc[p].byte)

LockAgain(p, waiting, inside) ==
    /\ At(p, waiting)
    /\ VMLock = NULL
    /\ AcquireVMLock(p, waiting, inside)
    /\ UNCHANGED <<memoryVars, mainMemory, allPCB, space, loc, calls, stopped, mem, lost>>

PageFaultHandler(p) == LockAgain(p, "PageFault", "PageIn")
ReadOnlyExceptionHandler(p) == LockAgain(p, "ReadOnly", "COW")

\* PageIn, called by the handler, asks for a frame...
PageIn(p) == At(p, "PageIn") /\ GetPage(p, -1, "PageInLoad")

\* A page is zero-filled when the address is behind the data and it has not been before.
ZeroFills(sp, addr) ==
    addr >= CodeDataEnd(sp) /\ ~sp.pageTable[vpn(addr)].zeroFilled

\* The table entry and the contents of a page that is loaded for address addr.
LoadedEntry(sp, f, addr) ==
    [sp.pageTable[vpn(addr)] EXCEPT !.physicalPage = f, !.valid = TRUE, !.readOnly = FALSE,
                                    !.zeroFilled = @ \/ ZeroFills(sp, addr)]

LoadedPage(sp, addr) == IF ZeroFills(sp, addr) THEN Zeroes ELSE sp.swap[vpn(addr)]

\* History: data in front of addr is zeroed with the rest of the page.
DataZeroed(p, addr) ==
    IF ZeroFills(space[p], addr) /\ vpn(addr) * machine.PageSize < CodeDataEnd(space[p])
    THEN {<<p, vpn(addr)>>} ELSE {}

\* ...maps and fills it.  The handler then releases VMLock; a system call goes on copying.
PageInLoad(p) ==
    LET f == loc[p].frame
        addr == loc[p].addr
    IN  /\ At(p, "PageInLoad")
        /\ space' = [space EXCEPT ![p].pageTable[vpn(addr)] = LoadedEntry(space[p], f, addr)]
        /\ mainMemory' = [mainMemory EXCEPT ![f] = LoadedPage(space[p], addr)]
        /\ IF loc[p].op \in {"load", "store"}
           THEN VMLock' = NULL /\ Goto(p, "Restart")
           ELSE UNCHANGED VMLock /\ Goto(p, "Copy")
        /\ lost' = lost \cup DataZeroed(p, addr)
        /\ UNCHANGED <<memoryVars, allPCB, loc, calls, stopped, mem>>

\* COW: a frame other than the shared one...
COW(p) ==
    /\ At(p, "COW")
    /\ GetPage(p, pageTable(p)[vpn(loc[p].addr)].physicalPage, "CowCopy")

\* ...gets the contents of the shared one.  When that has been evicted while the handler
\* waited for VMLock, the copy is made from in front of mainMemory.
CowCopy(p) ==
    LET v == vpn(loc[p].addr)
        f == loc[p].frame
        oppn == pageTable(p)[v].physicalPage
    IN  /\ At(p, "CowCopy")
        /\ IF oppn = -1
           THEN Stop("stale page")
           ELSE /\ space' = [space EXCEPT ![p].pageTable[v] =
                               [@ EXCEPT !.physicalPage = f, !.readOnly = FALSE]]
                /\ mainMemory' = [mainMemory EXCEPT ![f] = mainMemory[oppn]]
                /\ loc' = [loc EXCEPT ![p].frame = oppn]
                /\ Goto(p, "CowUnshare")
                /\ UNCHANGED <<memoryVars, allPCB, VMLock, calls, stopped, mem, lost>>

\* The old frame has a user less, and VMLock is released.
CowUnshare(p) ==
    LET f == loc[p].frame
    IN  /\ At(p, "CowUnshare")
        /\ IF LastUserIsGone(f, space[p].PID)
           THEN Stop("dangling mark")
           ELSE /\ UnsetShare(f, space[p].PID)
                /\ VMLock' = NULL
                /\ Goto(p, "Restart")
                /\ UNCHANGED <<mainMemory, allPCB, loc, calls, stopped, mem, lost>>

-----------------------------------------------------------------------------
(***************************************************************************)
(* System calls that copy between the kernel and user memory: Read and     *)
(* Write (userReadWrite) and Exec (ReadString), chunk by chunk.  They page *)
(* in without VMLock, and look neither at readOnly nor set dirty.          *)
(***************************************************************************)
\* File names are two bytes long.
CopyCall(p) ==
    /\ At(p, "User")
    /\ calls < machine.MaxCalls
    /\ calls' = calls + 1
    /\ \E op \in {"Read", "Write", "Exec"} \cap machine.Calls :
       \E addr \in Address : \E n \in 1..(machine.PageSize + 1) :
        /\ op = "Exec" => n = 2
        /\ loc' = [loc EXCEPT ![p] = [Idle EXCEPT !.op = op, !.addr = addr, !.size = n,
                                                  !.byte = "w"]]
    /\ Goto(p, "Copy")
    /\ UNCHANGED <<memoryVars, mainMemory, allPCB, space, VMLock, stopped, mem, lost>>

\* To the end of the page or of the request; a string byte by byte.
Chunk(op, addr, size) ==
    IF op = "Exec" THEN 1 ELSE Min({size, machine.PageSize - offset(addr)})

\* History: bytes stored in a clean page are not written to the swap file, and those stored
\* in a shared page show in the memory of the others.
StoredUnseen(p, v) ==
    LET f == pageTable(p)[v].physicalPage
    IN  {m \in {q \in Proc : HasMemory(q)} \X VPage :
           /\ pageTable(m[1])[m[2]].physicalPage = f
           /\ m # <<p, v>> \/ ~pageTable(p)[v].dirty}

\* The page is in memory: a chunk is copied.
Copy(p) ==
    LET l == loc[p]
        n == Chunk(l.op, l.addr, l.size)
    IN  /\ At(p, "Copy")
        /\ vpn(l.addr) \in VPage
        /\ pageTable(p)[vpn(l.addr)].valid
        /\ IF l.op = "Read"
           THEN /\ mainMemory' = Stored(p, l.addr, n, l.byte)
                /\ mem' = Expected(p, l.addr, n, l.byte)
                /\ lost' = lost \cup StoredUnseen(p, vpn(l.addr))
           ELSE UNCHANGED <<mainMemory, mem, lost>>
        /\ loc' = [loc EXCEPT ![p] = IF l.size = n /\ l.op # "Exec" THEN Idle
                                     ELSE [l EXCEPT !.addr = @ + n, !.size = @ - n]]
        /\ Goto(p, IF l.size > n THEN "Copy" ELSE IF l.op = "Exec" THEN "Exec" ELSE "User")
        /\ UNCHANGED <<memoryVars, allPCB, space, VMLock, calls, stopped>>

\* The page is not in memory: Translate calls PageIn.
CopyPageIn(p) ==
    /\ At(p, "Copy")
    /\ vpn(loc[p].addr) \in VPage
    /\ ~pageTable(p)[vpn(loc[p].addr)].valid
    /\ GetPage(p, -1, "PageInLoad")

\* Outside the address space: Exec goes on with the name it has; userReadWrite tries the same
\* page for ever, or fails its ASSERT when less than a page is left.
CopyError(p) ==
    /\ At(p, "Copy")
    /\ vpn(loc[p].addr) \notin VPage
    /\ \/ /\ loc[p].op = "Exec"
          /\ Goto(p, "Exec")
          /\ UNCHANGED <<memoryVars, mainMemory, allPCB, space, VMLock, loc, calls, stopped, mem, lost>>
       \/ /\ loc[p].op # "Exec"
          /\ Stop(IF loc[p].size >= machine.PageSize THEN "endless loop" ELSE "ASSERT")

\* ExecSystemcall after ReadString.  Without an executable the machine aborts; with one the
\* swap file is replaced, then the memory is released.  The size stays that of the old
\* program, whatever the new one needs; data that do not fit leave the buffer.
Exec(p) ==
    /\ At(p, "Exec")
    /\ \/ Stop("Abort")
       \/ \E exec \in DOMAIN machine.CodeDataEnd :
            IF machine.CodeDataEnd[exec] > Size
            THEN Stop("swap buffer overrun")
            ELSE /\ space' = [space EXCEPT ![p].execfile = exec, ![p].swap = Image(exec)]
                 /\ loc' = [loc EXCEPT ![p].i = 0]
                 /\ Goto(p, "Release")
                 /\ lost' = {m \in lost : m[1] # p}
                 /\ UNCHANGED <<memoryVars, mainMemory, allPCB, VMLock, calls, stopped, mem>>

\* The new page table; zeroFilled is not initialized.
ReplaceMemory(p) ==
    /\ At(p, "Released")
    /\ loc[p].op = "Exec"
    /\ \E z \in [VPage -> BOOLEAN] :
         space' = [space EXCEPT ![p].pageTable =
                      [v \in VPage |-> [NewEntry EXCEPT !.zeroFilled = z[v]]]]
    /\ mem' = [mem EXCEPT ![p] = Image(space[p].execfile)]
    /\ loc' = [loc EXCEPT ![p] = Idle]
    /\ Goto(p, "User")
    /\ UNCHANGED <<memoryVars, mainMemory, allPCB, VMLock, calls, stopped, lost>>

-----------------------------------------------------------------------------
(***************************************************************************)
(* Fork, Exit and the release of memory                                    *)
(***************************************************************************)
\* CreatePCB, and an address space without pages.  Without a PID nothing happens.
Fork(p) ==
    /\ At(p, "User")
    /\ "Fork" \in machine.Calls
    /\ IF \A i \in PID : allPCB[i] # NULL
       THEN UNCHANGED vars
       ELSE LET new == {q \in Proc : pc[q] = "none" /\ space[q] = NoSpace}
                q == CHOOSE q \in new : TRUE
                pid == Min({i \in PID : allPCB[i] = NULL})
            IN    /\ new # {}
                  /\ calls < machine.MaxCalls
                  /\ calls' = calls + 1
                  /\ allPCB' = [allPCB EXCEPT ![pid] = q]
                  /\ space' = [space EXCEPT ![q] = [NewSpace(pid, space[p].execfile) EXCEPT
                                                       !.swap = <<>>]]
                  /\ loc' = [loc EXCEPT ![p] = [Idle EXCEPT !.op = "Fork", !.child = q]]
                  /\ Goto(p, "ForkBegin")
                  /\ UNCHANGED <<memoryVars, mainMemory, VMLock, stopped, mem, lost>>

\* Page by page: the child's entry gets the frame...
ForkShare(p) ==
    LET f == pageTable(p)[loc[p].i].physicalPage
    IN  /\ At(p, "ForkBegin") \/ At(p, "ForkShare")
        /\ space' = [space EXCEPT ![loc[p].child].pageTable[loc[p].i].physicalPage = f]
        /\ loc' = [loc EXCEPT ![p].frame = f]
        /\ Goto(p, "ForkMark")
        /\ UNCHANGED <<memoryVars, mainMemory, allPCB, VMLock, calls, stopped, mem, lost>>

\* ...which is marked; somebody else's, when it was evicted before memoryLock was free...
ForkMark(p) ==
    LET f == loc[p].frame
    IN  /\ At(p, "ForkMark")
        /\ IF pageTable(p)[loc[p].i].physicalPage # f
           THEN Stop("stale frame")
           ELSE /\ SetShare(f, space[loc[p].child].PID)
                /\ Goto(p, "ForkCopy")
                /\ UNCHANGED <<mainMemory, allPCB, space, VMLock, loc, calls, stopped, mem,
                               lost>>

\* Mutant of ForkedEntry: the child's page is clean.
ForkedEntryClean(e, f) ==
    [e EXCEPT !.physicalPage = f, !.dirty = FALSE, !.readOnly = IF f # -1 THEN TRUE ELSE @]

\* The child's entry, which has the frame already.
ForkedEntry(e, f) ==
    [e EXCEPT !.physicalPage = f, !.readOnly = IF f # -1 THEN TRUE ELSE @]

\* Mutant of SharedEntry: the parent may go on writing.
SharedEntryWritable(e, f) == e

\* The parent's entry.
SharedEntry(e, f) == [e EXCEPT !.readOnly = IF f # -1 THEN TRUE ELSE @]

\* History: what the parent has lost, and what it has written and paged out, which is not in
\* the child's swap file.
NotForked(p, q) ==
    LET paged(v) == pageTable(p)[v].dirty /\ ~pageTable(p)[v].valid
    IN  {q} \X {v \in VPage : <<p, v>> \in lost \/ paged(v)}

\* ...and the other fields follow.  After the last page the swap file is made from the
\* executable, and the child's thread is ready.
ForkCopy(p) ==
    LET q == loc[p].child
        i == loc[p].i
        last == i = machine.numPages - 1
        f == space[q].pageTable[i].physicalPage
        copied == [space EXCEPT
                     ![q].pageTable[i] = ForkedEntry(pageTable(p)[i], f),
                     ![p].pageTable[i] = SharedEntry(@, f)]
    IN  /\ At(p, "ForkCopy")
        /\ space' = IF last THEN [copied EXCEPT ![q].swap = Image(space[q].execfile)] ELSE copied
        /\ pc' = IF last THEN [pc EXCEPT ![p] = "User", ![q] = "User"]
                         ELSE [pc EXCEPT ![p] = "ForkShare"]
        /\ loc' = [loc EXCEPT ![p] = IF last THEN Idle ELSE [@ EXCEPT !.i = i + 1]]
        /\ mem' = IF last THEN [mem EXCEPT ![q] = mem[p]] ELSE mem
        /\ lost' = IF last THEN lost \cup NotForked(p, q) ELSE lost
        /\ UNCHANGED <<memoryVars, mainMemory, allPCB, VMLock, calls, stopped>>

\* ExitSystemcall: RemovePCB, then ReleaseMemory.  KillSystemcall does the same to another.
Exit(p) ==
    /\ At(p, "User")
    /\ "Exit" \in machine.Calls
    /\ allPCB' = [allPCB EXCEPT ![space[p].PID] = NULL]
    /\ loc' = [loc EXCEPT ![p] = [Idle EXCEPT !.op = "Exit"]]
    /\ Goto(p, "Release")
    /\ UNCHANGED <<memoryVars, mainMemory, space, VMLock, calls, stopped, mem, lost>>

\* A page whose frame is given back, rather than unshared.
Private(e) == e.physicalPage # -1 /\ ~e.readOnly

\* ReleaseMemory: the next page that has a frame.
Release(p) ==
    LET mapped == {v \in VPage : v >= loc[p].i /\ pageTable(p)[v].physicalPage # -1}
        v == Min(mapped)
        e == pageTable(p)[v]
    IN  /\ At(p, "Release")
        /\ IF mapped = {}
           THEN Goto(p, "Released") /\ UNCHANGED loc
           ELSE /\ Goto(p, IF Private(e) THEN "ClearPage" ELSE "UnsetShare")
                /\ loc' = [loc EXCEPT ![p].i = v, ![p].frame = e.physicalPage]
        /\ UNCHANGED <<memoryVars, mainMemory, allPCB, space, VMLock, calls, stopped, mem, lost>>

\* The frame is free, or is somebody else's when it was evicted before memoryLock was free.
ReleaseClear(p) ==
    /\ At(p, "ClearPage")
    /\ IF pageTable(p)[loc[p].i].physicalPage # loc[p].frame
       THEN Stop("stale frame")
       ELSE /\ ClearPage(loc[p].frame)
            /\ loc' = [loc EXCEPT ![p].i = @ + 1]
            /\ Goto(p, "Release")
            /\ UNCHANGED <<mainMemory, allPCB, VMLock, calls, stopped, mem, lost>>

\* A process maps a frame, or is about to (GetPage has returned) or has just stopped to (COW).
UsesFrame(p, f) ==
    \/ space[p] # NoSpace /\ Maps(space[p], f)
    \/ pc[p] \in {"PageInLoad", "CowCopy", "CowUnshare"} /\ loc[p].frame = f

\* The frame has a user less; another one, when the PID of a process that exits is in use
\* again and its new owner uses the frame.
ReleaseUnshare(p) ==
    LET f == loc[p].frame
        pid == space[p].PID
        owner == allPCB[pid]
    IN  /\ At(p, "UnsetShare")
        /\ IF LastUserIsGone(f, pid) THEN Stop("dangling mark")
           ELSE IF owner \notin {p, NULL} /\ UsesFrame(owner, f) THEN Stop("reused PID")
           ELSE /\ UnsetShare(f, pid)
                /\ loc' = [loc EXCEPT ![p].i = @ + 1]
                /\ Goto(p, "Release")
                /\ UNCHANGED <<mainMemory, allPCB, VMLock, calls, stopped, mem, lost>>

\* The address space and the PCB are deleted, and the thread finishes.
ExitDone(p) ==
    /\ At(p, "Released")
    /\ loc[p].op = "Exit"
    /\ space' = [space EXCEPT ![p] = NoSpace]
    /\ loc' = [loc EXCEPT ![p] = Idle]
    /\ pc' = [pc EXCEPT ![p] = "gone"]
    /\ mem' = [mem EXCEPT ![p] = <<>>]
    /\ lost' = {m \in lost : m[1] # p}
    /\ UNCHANGED <<memoryVars, mainMemory, allPCB, VMLock, calls, stopped>>

Step(p) ==
    \/ Instruction(p) \/ Restart(p) \/ PageFaultHandler(p) \/ ReadOnlyExceptionHandler(p)
    \/ PageIn(p) \/ PageInLoad(p) \/ COW(p) \/ CowCopy(p) \/ CowUnshare(p)
    \/ CopyCall(p) \/ Copy(p) \/ CopyPageIn(p) \/ CopyError(p) \/ Exec(p) \/ ReplaceMemory(p)
    \/ Fork(p) \/ ForkShare(p) \/ ForkMark(p) \/ ForkCopy(p)
    \/ Exit(p) \/ Release(p) \/ ReleaseClear(p) \/ ReleaseUnshare(p) \/ ExitDone(p)

Next == (\E p \in Proc : Step(p)) /\ UNCHANGED machine

Spec == Init /\ [][Next]_vars

-----------------------------------------------------------------------------
Entry ==
    [physicalPage : Frame \cup {-1}, valid : BOOLEAN, dirty : BOOLEAN, readOnly : BOOLEAN,
     zeroFilled : BOOLEAN]

\* Types of the variables of the memory manager and of the address spaces.
TypeOK ==
    /\ machine \in Machines
    /\ memoryMap \subseteq Frame
    /\ Range(fifo) \subseteq Frame /\ IsInjective(fifo)
    /\ framePID \in [Frame -> SUBSET PID]
    /\ mainMemory \in [Frame -> [Offset -> Byte]]
    /\ allPCB \in [PID -> Proc \cup {NULL}]
    /\ \A p \in Proc : space[p] = NoSpace \/ pageTable(p) \in [VPage -> Entry]
    /\ VMLock \in Proc \cup {NULL}

\* What p would find in a page: its frame, or what PageIn would load.
Visible(p, v) ==
    IF pageTable(p)[v].valid
    THEN mainMemory[pageTable(p)[v].physicalPage]
    ELSE LoadedPage(space[p], v * machine.PageSize)

\* A process finds at every address what it wrote there last, what its parent had there when
\* it was forked, or what its program starts with: demand paging, eviction to the swap file,
\* zero filling and copy-on-write (addrspace.cc, memorymgr.cc) do not show.  Four steps lose a
\* page, and no other: PageIn zeroes data (DataZeroed), a Read stores in a clean or shared page
\* (StoredUnseen), Fork leaves out what is paged out (NotForked), Exec's new swap file gets an
\* old page (PagedOutInExec).
ReadsLastWrite ==
    stopped = "no" =>
    \A p \in Proc : HasMemory(p) => \A v \in VPage :
        <<p, v>> \notin lost => Visible(p, v) = mem[p][v]

\* GetPage asks the processes marked in framePID to page a frame out, and hands out frames
\* that are clear in memoryMap: every mapped frame is set and marked for its user.
MappedIsMarked ==
    stopped = "no" =>
    \A p \in Proc : HasMemory(p) => \A v \in VPage :
        pageTable(p)[v].valid =>
            LET f == pageTable(p)[v].physicalPage
            IN  f \in memoryMap /\ space[p].PID \in framePID[f]

\* Another page is mapped to the frame of p's page v.
IsShared(p, v) ==
    \E q \in Proc : HasMemory(q) /\ \E w \in VPage :
        /\ <<q, w>> # <<p, v>>
        /\ pageTable(q)[w].valid
        /\ pageTable(q)[w].physicalPage = pageTable(p)[v].physicalPage

\* Copy-on-write: outside Fork, COW and Exit a shared page is read-only, and the last user of
\* a frame may write to it, unless UnsetShare counts a mark that ClearPage has left there
\* (memorymgr.cc:62, :83).
ReadOnlyIffShared ==
    stopped = "no" /\ (\A p \in Proc : pc[p] \in {"none", "gone", "User"}) =>
    \A p \in Proc : HasMemory(p) => \A v \in VPage :
        LET e == pageTable(p)[v]
        IN  e.valid => /\ IsShared(p, v) => e.readOnly
                       /\ e.readOnly => IsShared(p, v) \/ \E m \in left : m[1] = e.physicalPage

\* "If it is not dirty, PageOut will do nothing. Because the contents should already be in the
\* swapfile" (reports/project4.txt): a clean page in memory is as its swap file has it, but for
\* the pages that are lost.
CleanIsInSwap ==
    stopped = "no" =>
    \A p \in Proc : HasMemory(p) => \A v \in VPage :
        pageTable(p)[v].valid /\ ~pageTable(p)[v].dirty /\ <<p, v>> \notin lost =>
            mainMemory[pageTable(p)[v].physicalPage] = space[p].swap[v]

\* A mark in framePID is of a process that uses the frame, or ClearPage has left it: nothing
\* else does.  So GetPage (memorymgr.cc:41) and UnsetShare (:95) follow the mark of a process
\* that has gone or does not map the frame only where one was left, or under time slices: to
\* a process in Exit, or to one that pages in for a system call, without VMLock.  COW finds
\* its page evicted (addrspace.cc:618), Fork and Release find a frame taken or a PID used
\* again, and Fork's child is evicted too early, only under time slices.
NoDanglingMark ==
    /\ stopped = "no" =>
         \A f \in Frame : \A i \in framePID[f] :
            <<f, i>> \in left \/ \E p \in Proc : space[p].PID = i /\ UsesFrame(p, f)
    /\ stopped = "dangling mark" =>
         left # {} \/ (machine.rs /\ machine.Calls \cap {"Exit", "Exec", "Read", "Write"} # {})
    /\ stopped \in {"stale page", "stale frame", "unfinished child", "reused PID"} => machine.rs

\* One fault is enough: when a handler returns, the instruction that raised the exception can
\* be completed (with time slices another process may take the page away first).
HandlerRepairs ==
    \A p \in Proc : ~machine.rs /\ stopped = "no" /\ pc[p] = "Restart" =>
        Translate(p, loc[p].addr, loc[p].op = "store") = "NoException"

\* The invariant of demand paging: page tables and the memory manager's map agree, read-only
\* means shared but for marks left behind, and a page fault handler that returns has made the access possible.
PagingInv == TypeOK /\ MappedIsMarked /\ ReadOnlyIffShared /\ HandlerRepairs

=============================================================================
