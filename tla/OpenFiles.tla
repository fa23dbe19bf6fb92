------------------------------ MODULE OpenFiles -----------------------------
(***************************************************************************)
(* Open files of the userprog kernel: the system-wide table (sofmgr.cc,    *)
(* sof.cc), the table of every process (pof.cc, pcb.cc) and the system     *)
(* calls Create, Open, Close, Read, Write, Exit and Kill (exception.cc),   *)
(* on the stub file system, which keeps files in UNIX (filesys.h,          *)
(* openfile.h).                                                            *)
(*                                                                         *)
(* A file is the sequence of its bytes.  Calls are one action each, but    *)
(* for Read and Write, which take the file's lock.  Where the code follows *)
(* a pointer to nothing or fails an ASSERT, the machine stops.             *)
(***************************************************************************)
EXTENDS BitMap, Sequences

CONSTANTS
    Proc,        \* processes, named by their PCB
    NULL,
    FileName,
    Byte,        \* what programs write; holes are filled with 0
    POF_MAXNUM, SOF_MAXNUM,
    MaxCalls,    \* bound on the calls of all processes
    MaxBytes,    \* bound on the size of a Read or Write
    Settings     \* the settings tried, see below

\* Time slices (-rs); what programs do not do: open a file they have open, truncate an open
\* file, close what is not open, name identifiers outside the table; and the pairs <<f, g>>
\* of names they use of which f begins with g and goes on.
Setting == [rs : BOOLEAN, once : BOOLEAN, truncate : BOOLEAN, tame : BOOLEAN,
            longer : SUBSET (FileName \X FileName)]

SofIndex == 0..(SOF_MAXNUM - 1)
PofIndex == 0..(POF_MAXNUM - 1)
Contents == Seq(Byte \cup {0})
SOF == [filename : FileName, counter : Nat]
POF == [filename : FileName, sofIndex : SofIndex, offset : Nat]

ASSUME OpenFilesAssumption ==
    /\ Settings \subseteq Setting
    /\ {POF_MAXNUM, SOF_MAXNUM, MaxCalls, MaxBytes} \subseteq Nat \ {0}
    /\ IsFiniteSet(Proc)
    /\ NULL \notin Proc /\ NULL \notin Contents /\ NULL \notin SOF /\ NULL \notin POF

VARIABLES
    setting,      \* the setting of this run; it does not change
    files,        \* the UNIX files, NULL for one that does not exist
    descriptors,  \* UNIX descriptors open for every file
    sofArray,     \* SOFMgr: the system's entries, NULL where sofMap is clear
    pofArray,     \* PCB: every process's entries, NULL where pofMap is clear
    fileLock,     \* the holder of every system entry's lock
    woken,        \* the processes that its Release has put back on the ready list
    pc,           \* where every process is
    loc,          \* local variables of its Read or Write
    calls,        \* calls made so far
    stopped       \* "no", or why the machine stopped

vars == <<setting, files, descriptors, sofArray, pofArray, fileLock, woken,
          pc, loc, calls, stopped>>

sofMap == {s \in SofIndex : sofArray[s] # NULL}
pofMap(p) == {i \in PofIndex : pofArray[p][i] # NULL}

NoCall == [op |-> "none", pof |-> 0, sof |-> 0, offset |-> 0, data |-> <<>>, moved |-> 0]

Init ==
    /\ setting \in Settings
    /\ files = [f \in FileName |-> NULL]
    /\ descriptors = [f \in FileName |-> 0]
    /\ sofArray = [s \in SofIndex |-> NULL]
    /\ pofArray = [p \in Proc |-> [i \in PofIndex |-> NULL]]
    /\ fileLock = [s \in SofIndex |-> NULL]
    /\ woken = {}
    /\ pc = [p \in Proc |-> "User"]
    /\ loc = [p \in Proc |-> NoCall]
    /\ calls = 0
    /\ stopped = "no"

\* A switch without time slices only between two calls, with them at the lock too.
At(p, label) ==
    /\ stopped = "no"
    /\ pc[p] = label
    /\ setting.rs \/ \A q \in Proc \ {p} : pc[q] \in {"User", "gone"}

Goto(p, label) == pc' = [pc EXCEPT ![p] = label]

Call(p) ==
    /\ At(p, "User")
    /\ calls < MaxCalls
    /\ calls' = calls + 1

Stop(why) ==
    /\ stopped' = why
    /\ UNCHANGED <<files, descriptors, sofArray, pofArray, fileLock, woken, pc, loc>>

-----------------------------------------------------------------------------
(***************************************************************************)
(* The stub's OpenFile: lseek, then a UNIX read or write.                  *)
(***************************************************************************)
\* Writing behind the end leaves a hole.
WriteAt(content, from, position) ==
    [i \in 1..Max({Len(content), position + Len(from)}) |->
        IF i > position /\ i <= position + Len(from) THEN from[i - position]
        ELSE IF i <= Len(content) THEN content[i] ELSE 0]

\* As many bytes as there are.
ReadAt(content, numBytes, position) ==
    SubSeq(content, position + 1, Min({position + numBytes, Len(content)}))

\* The stub's FileSystem::Create truncates a file that exists.
FileSystemCreate(f) == files' = [files EXCEPT ![f] = <<>>]

\* Its Open gives a new UNIX descriptor.
FileSystemOpen(f) == descriptors' = [descriptors EXCEPT ![f] = @ + 1]

Create(p) ==
    /\ Call(p)
    /\ \E f \in FileName :
        /\ setting.truncate \/ \A s \in sofMap : sofArray[s].filename # f
        /\ FileSystemCreate(f)
    /\ UNCHANGED <<descriptors, sofArray, pofArray, fileLock, woken, pc, loc, stopped>>

-----------------------------------------------------------------------------
(***************************************************************************)
(* The tables                                                              *)
(***************************************************************************)
\* SOFMgr::FindSOFByName: the first entry, or -1.
FindSOFByName(f) ==
    LET found == {s \in sofMap : sofArray[s].filename = f}
    IN  IF found = {} THEN -1 ELSE Min(found)

\* PCB::FindPOFByName.  POF's copy of the name has no terminating zero, so the comparison
\* runs into what follows it in memory: an entry of the name may not be found, and the entry
\* of a name that f goes on from may be, when the rest of a longer one lies behind it.
FindPOFByName(p, f) ==
    {-1} \cup {i \in pofMap(p) : \/ pofArray[p][i].filename = f
                                \/ <<f, pofArray[p][i].filename>> \in setting.longer}

NewSOF(f) == [filename |-> f, counter |-> 0]
NewPOF(s, f) == [filename |-> f, sofIndex |-> s, offset |-> 0]
CreateSOF(f) == [sofArray EXCEPT ![Find(sofMap, SofIndex)] = NewSOF(f)]
IncSOFCounter(sofs, s) == [sofs EXCEPT ![s].counter = @ + 1]

\* PCB::CreatePOF; a process without a free entry keeps what it has.
CreatePOF(p, s, f) ==
    LET i == Find(pofMap(p), PofIndex)
    IN  IF i = -1 THEN pofArray ELSE [pofArray EXCEPT ![p][i] = NewPOF(s, f)]

\* Mutant of Full: the process's own table is not looked at.
FullSystem(p) == NumClear(sofMap, SofIndex) = 0

\* Open gives up before it creates a system entry that it could not use.
Full(p) == NumClear(pofMap(p), PofIndex) = 0 \/ NumClear(sofMap, SofIndex) = 0

\* Open of a file that the system has not open.
OpenNew(p, f) ==
    IF Full(p) \/ files[f] = NULL
    THEN UNCHANGED <<descriptors, sofArray, pofArray>>
    ELSE LET s == Find(sofMap, SofIndex)
         IN  /\ FileSystemOpen(f)
             /\ pofArray' = CreatePOF(p, s, f)
             /\ sofArray' = IF pofArray' = pofArray THEN CreateSOF(f)
                            ELSE IncSOFCounter(CreateSOF(f), s)

\* Open of a file that is in the system table at s; pofIndex is what FindPOFByName found.
OpenAgain(p, f, s, pofIndex) ==
    /\ pofArray' = IF pofIndex # -1 THEN pofArray ELSE CreatePOF(p, s, f)
    /\ sofArray' = IF pofIndex = -1 /\ pofArray' = pofArray THEN sofArray
                   ELSE IncSOFCounter(sofArray, s)
    /\ UNCHANGED descriptors

Open(p) ==
    /\ Call(p)
    /\ \E f \in FileName : \E pofIndex \in FindPOFByName(p, f) :
        LET s == FindSOFByName(f)
        IN  /\ setting.once => \A i \in pofMap(p) : pofArray[p][i].filename # f
            /\ \/ /\ IF s # -1 THEN OpenAgain(p, f, s, pofIndex)
                     ELSE pofIndex = -1 /\ OpenNew(p, f)
                  /\ UNCHANGED <<files, fileLock, woken, pc, loc, stopped>>
               \/ s = -1 /\ pofIndex # -1 /\ Stop("ASSERT(pofIndex == -1)")

\* Mutant of RemoveSOF: the entry goes with the first Close.
RemoveSOFAtOnce(sofs, s, k) == [sofs EXCEPT ![s] = NULL]

\* SOFMgr::RemoveSOF, k times.  The UNIX file stays open.
RemoveSOF(sofs, s, k) ==
    IF sofs[s] = NULL THEN sofs
    ELSE IF k >= sofs[s].counter THEN [sofs EXCEPT ![s] = NULL]
    ELSE [sofs EXCEPT ![s].counter = @ - k]

\* A system entry that is deleted takes its lock along.
LocksOf(sofs) == [s \in SofIndex |-> IF sofs[s] = NULL THEN NULL ELSE fileLock[s]]

RemovePOF(p, i) == [pofArray EXCEPT ![p][i] = NULL]

\* Close, by the identifier that Open has returned; of another it takes a pointer to
\* nothing.
Close(p) ==
    /\ Call(p)
    /\ \E id \in -1..(POF_MAXNUM + 2) :
        \/ /\ id - 2 \in pofMap(p)
           /\ sofArray' = RemoveSOF(sofArray, pofArray[p][id - 2].sofIndex, 1)
           /\ pofArray' = RemovePOF(p, id - 2)
           /\ fileLock' = LocksOf(sofArray')
           /\ UNCHANGED <<files, descriptors, woken, pc, loc, stopped>>
        \/ /\ id - 2 \notin pofMap(p)
           /\ ~setting.tame
           /\ Stop("closed twice")

\* The end of a process deletes its PCB, which closes its files.
ClosedAll(p) ==
    LET refs(s) == Cardinality({i \in pofMap(p) : pofArray[p][i].sofIndex = s})
    IN  [s \in SofIndex |-> IF refs(s) = 0 THEN sofArray[s]
                            ELSE RemoveSOF(sofArray, s, refs(s))[s]]

DeletePCB(p) ==
    /\ sofArray' = ClosedAll(p)
    /\ pofArray' = [pofArray EXCEPT ![p] = [i \in PofIndex |-> NULL]]
    /\ fileLock' = LocksOf(sofArray')
    /\ woken' = woken \ {p}
    /\ Goto(p, "gone")
    /\ UNCHANGED <<files, descriptors, loc>>

\* Exit.
Exit(p) == At(p, "User") /\ DeletePCB(p) /\ UNCHANGED <<calls, stopped>>

\* Kill of another process, wherever it is, the middle of Read or Write included.  What it
\* holds it keeps.  If it sleeps it is not on the ready list: RemoveThread fails an ASSERT.
Kill(p) ==
    /\ Call(p)
    /\ \E q \in Proc \ {p} :
        /\ pc[q] # "gone"
        /\ DeletePCB(q)
        /\ stopped' = IF pc[q] = "Wait" /\ q \notin woken
                      THEN "ASSERT in RemoveByElement" ELSE stopped

-----------------------------------------------------------------------------
(***************************************************************************)
(* Read and Write.  Identifiers 0 and 1 are the console.                   *)
(***************************************************************************)
\* SOF::Write and SOF::Read begin with fileLock.Acquire.
Acquire(p, s) ==
    /\ IF fileLock[s] = NULL
       THEN fileLock' = [fileLock EXCEPT ![s] = p] /\ Goto(p, "Transfer")
       ELSE UNCHANGED fileLock /\ Goto(p, "Wait")
    /\ woken' = woken \ {p}

Begin(p, op, i, data) ==
    LET e == pofArray[p][i]
    IN  /\ loc' = [loc EXCEPT ![p] = [op |-> op, pof |-> i, sof |-> e.sofIndex,
                                      offset |-> e.offset, data |-> data, moved |-> 0]]
        /\ Acquire(p, e.sofIndex)
        /\ UNCHANGED <<files, descriptors, sofArray, pofArray, stopped>>

TestPOF(p, i) == i \in pofMap(p)

\* The console, a negative identifier and an entry that is not open change nothing; one
\* outside the table fails an ASSERT of BitMap::Test.
ByIdentifier(p, op, data) ==
    \E id \in -1..(POF_MAXNUM + 2) :
        \/ /\ TestPOF(p, id - 2)
           /\ Begin(p, op, id - 2, data)
        \/ /\ id < 2 \/ (id - 2 \in PofIndex /\ ~TestPOF(p, id - 2))
           /\ UNCHANGED <<files, descriptors, sofArray, pofArray, fileLock, woken, pc, loc, stopped>>
        \/ /\ ~InMap(id - 2, PofIndex) /\ id >= 2
           /\ ~setting.tame
           /\ Stop("ASSERT")

Write(p) ==
    /\ Call(p)
    /\ \E b \in Byte : \E n \in 1..MaxBytes : ByIdentifier(p, "Write", [i \in 1..n |-> b])

Read(p) ==
    /\ Call(p)
    /\ \E n \in 1..MaxBytes : ByIdentifier(p, "Read", [i \in 1..n |-> 0])

\* A waiter that was woken tries again; somebody else may have been faster.
Wait(p) ==
    /\ At(p, "Wait") /\ p \in woken
    /\ Acquire(p, loc[p].sof)
    /\ UNCHANGED <<files, descriptors, sofArray, pofArray, loc, calls, stopped>>

Sleepers(s) == {q \in Proc \ woken : pc[q] = "Wait" /\ loc[q].sof = s}

\* fileLock.Release, which wakes one, and back to the system call, which has moved n bytes.
Released(p, n) ==
    /\ loc' = [loc EXCEPT ![p].moved = n]
    /\ fileLock' = [fileLock EXCEPT ![loc[p].sof] = NULL]
    /\ LET asleep == Sleepers(loc[p].sof)
       IN  IF asleep = {} THEN woken' = woken ELSE \E q \in asleep : woken' = woken \cup {q}
    /\ Goto(p, "SetOffset")
    /\ UNCHANGED <<descriptors, sofArray, pofArray, calls, stopped>>

\* SOF::Write; the stub's WriteAt reports the size it was given.
SOFWrite(p) ==
    LET l == loc[p]
    IN  /\ At(p, "Transfer") /\ l.op = "Write"
        /\ files' = [files EXCEPT ![sofArray[l.sof].filename] = WriteAt(@, l.data, l.offset)]
        /\ Released(p, Len(l.data))

SOFRead(p) ==
    LET l == loc[p]
        content == files[sofArray[l.sof].filename]
    IN  /\ At(p, "Transfer") /\ l.op = "Read"
        /\ Released(p, Len(ReadAt(content, Len(l.data), l.offset)))
        /\ UNCHANGED files

\* Mutant of Advanced: Read moves by what was asked for, as Write does.
AdvancedBySize(l) == l.offset + Len(l.data)

Advanced(l) == l.offset + l.moved

SetPOFoffset(p) ==
    /\ At(p, "SetOffset")
    /\ pofArray' = [pofArray EXCEPT ![p][loc[p].pof].offset = Advanced(loc[p])]
    /\ loc' = [loc EXCEPT ![p] = NoCall]
    /\ Goto(p, "User")
    /\ UNCHANGED <<files, descriptors, sofArray, fileLock, woken, calls, stopped>>

Step(p) ==
    \/ Create(p) \/ Open(p) \/ Close(p) \/ Exit(p) \/ Kill(p)
    \/ Write(p) \/ Read(p) \/ Wait(p) \/ SOFWrite(p) \/ SOFRead(p) \/ SetPOFoffset(p)

Next == (\E p \in Proc : Step(p)) /\ UNCHANGED setting

Spec == Init /\ [][Next]_vars

-----------------------------------------------------------------------------
\* Type invariant.
TypeOK ==
    /\ setting \in Settings
    /\ files \in [FileName -> Contents \cup {NULL}]
    /\ descriptors \in [FileName -> Nat]
    /\ sofArray \in [SofIndex -> SOF \cup {NULL}]
    /\ pofArray \in [Proc -> [PofIndex -> POF \cup {NULL}]]
    /\ fileLock \in [SofIndex -> Proc \cup {NULL}]
    /\ woken \in SUBSET Proc
    /\ pc \in [Proc -> {"User", "Wait", "Transfer", "SetOffset", "gone"}]
    /\ loc \in [Proc -> [op : {"none", "Read", "Write"}, pof : PofIndex, sof : SofIndex,
                         offset : Nat, data : Contents, moved : Nat]]

References(s) == {e \in Proc \X PofIndex :
                     e[2] \in pofMap(e[1]) /\ pofArray[e[1]][e[2]].sofIndex = s}

\* "the counter of how many threads have accessed the file" (reports/project3.txt): the
\* counter of a system entry is the number of open process entries for it, never zero
\* (RemoveSOF deletes the entry then); a program that opens a file again while it has it
\* open, or is given the entry of a file whose name is the beginning of this one's, leaves
\* the counter too high, never too low.
CounterIsReferences ==
    \A s \in sofMap :
        /\ sofArray[s].counter >= Cardinality(References(s))
        /\ sofArray[s].counter > 0
        /\ setting.once /\ setting.longer = {} =>
             sofArray[s].counter = Cardinality(References(s))

\* Whatever the other processes open and close, an entry of a process refers to a system
\* entry that exists and is for the same file, also in the middle of Read and Write, which
\* keep the index across fileLock.Acquire (exception.cc:438); nobody holds the lock of an
\* entry that is deleted.
NoDanglingPOF ==
    /\ \A p \in Proc : \A i \in pofMap(p) :
         LET s == pofArray[p][i].sofIndex
         IN  s \in sofMap /\ sofArray[s].filename = pofArray[p][i].filename
    /\ \A s \in SofIndex : fileLock[s] # NULL => s \in sofMap

\* A Read or Write under way still has the process entry it began with, and a lock is held
\* by exactly the one process that transfers bytes under it, or, with time slices, by one
\* that was killed there (exception.cc:299) and will never release it.
CallsHoldEntries ==
    /\ \A p \in Proc : pc[p] \in {"Wait", "Transfer", "SetOffset"} =>
         LET e == pofArray[p][loc[p].pof]
         IN  e # NULL /\ e.sofIndex = loc[p].sof /\ e.offset = loc[p].offset
    /\ \A p \in Proc : pc[p] = "Transfer" => fileLock[loc[p].sof] = p
    /\ \A s \in SofIndex : fileLock[s] # NULL =>
         /\ loc[fileLock[s]].sof = s
         /\ pc[fileLock[s]] = "Transfer" \/ (pc[fileLock[s]] = "gone" /\ setting.rs)

\* A file that is open exists.
OpenFilesExist == \A s \in sofMap : files[sofArray[s].filename] # NULL

\* A file has one system entry, so one lock and one UNIX descriptor for all its users.
OneSOFPerFile ==
    \A s, t \in sofMap : sofArray[s].filename = sofArray[t].filename => s = t

\* Open's ASSERT(pofIndex == -1) fails only for a name that another one is the beginning of
\* (pof.cc:7), and Kill finds its victim off the ready list only with time slices.
StopsHaveCause ==
    /\ stopped = "ASSERT(pofIndex == -1)" => setting.longer # {}
    /\ stopped = "ASSERT in RemoveByElement" => setting.rs

\* The two tables agree: every process entry leads to a live system entry, also while a call
\* that uses it waits and whoever is killed meanwhile, and a file that is open has exactly
\* one.
TablesAgree ==
    /\ TypeOK /\ NoDanglingPOF /\ CallsHoldEntries /\ OpenFilesExist /\ OneSOFPerFile
    /\ StopsHaveCause

\* The offset of an entry is not behind the end of the file unless somebody truncates it:
\* Read moves it by what it has read, Write by what it has written.
OffsetInFile ==
    ~setting.truncate =>
    /\ \A p \in Proc : \A i \in pofMap(p) :
         pofArray[p][i].offset <= Len(files[pofArray[p][i].filename])
    /\ \A p \in Proc : pc[p] = "SetOffset" =>
         loc[p].offset + loc[p].moved <= Len(files[pofArray[p][loc[p].pof].filename])

=============================================================================
