------------------------------- MODULE FileSys ------------------------------
(***************************************************************************)
(* The Nachos file system (filesys.cc, directory.cc, filehdr.cc,           *)
(* openfile.cc, bitmap.cc) on its disk, and the programs of fstest.cc that *)
(* run on it.  One thread uses it, as the code demands; the machine may    *)
(* halt between any two sector writes, and boots again from what is on the *)
(* disk.                                                                   *)
(*                                                                         *)
(* An operation reads all it needs before it writes: its action computes   *)
(* the sectors it writes, in the order of the code, and WriteSector writes *)
(* them one at a time.  A sector is a header, the free map, half of the    *)
(* directory or data; where the code takes one for another its behaviour   *)
(* depends on bytes the model does not have, and it stops.  A name stands  *)
(* for the FileNameMaxLen characters the directory stores and compares.    *)
(***************************************************************************)
EXTENDS BitMap, SequencesExt

CONSTANTS
    Name, Handle, NULL,
    Text,            \* what programs write: a set of sequences of bytes
    Size,            \* the sizes of the files they create
    UnixFile,        \* the file Copy copies
    Contents,        \* what PerformanceTest writes
    SectorSize, NumSectors, NumDirect, NumDirEntries,
    Straddle,        \* the directory entry that has its name in the second sector
    TransferSize,
    MaxCalls, MaxCrashes,
    Settings         \* "calls": any calls; "fstest": the programs of fstest.cc

ASSUME FileSysAssumption ==
    /\ {SectorSize, NumSectors, NumDirect, NumDirEntries, TransferSize} \subseteq Nat \ {0}
    /\ Straddle \in 0..(NumDirEntries - 1)
    /\ Size \subseteq Nat
    /\ Len(UnixFile) <= NumDirect * SectorSize

VARIABLES
    setting, running,
    disk,       \* the contents of every sector
    queue,      \* the sector writes left of the operation under way
    handle,     \* OpenFile objects, NULL when deleted
    job,        \* the program of fstest.cc that runs
    file,       \* history: for every directory entry, its sectors and the bytes written to it
    doing,      \* history: the entry the operation under way is about, the bytes it leaves
    tainted,    \* history: entries damaged by a halt or by a write to a removed file
    calls, crashes, stopped

vars == <<setting, running, disk, queue, handle, job, file, doing, tainted, calls, crashes,
          stopped>>

-----------------------------------------------------------------------------
(* What sectors hold. *)

Sector == 0..(NumSectors - 1)
Entry == 0..(NumDirEntries - 1)
FreeMapSector == 0
DirectorySector == 1

divRoundUp(n, s) == (n \div s) + (IF n % s > 0 THEN 1 ELSE 0)

Junk == -1
Unformatted == [is |-> "data", bytes |-> [k \in 1..SectorSize |-> Junk]]
Bytes(content) == IF content.is = "data" THEN content.bytes ELSE Unformatted.bytes

\* FileHeader::Allocate: the data sectors are the first clear bits, each marked in turn.
Allocate(map, fileSize) ==
    LET free == Sector \ map
        nth(n) == CHOOSE s \in free : Cardinality({t \in free : t < s}) = n - 1
    IN  [is |-> "header", numBytes |-> fileSize,
         dataSectors |-> [n \in 1..divRoundUp(fileSize, SectorSize) |-> nth(n)]]
HasSpace(map, fileSize) == NumClear(map, Sector) >= divRoundUp(fileSize, SectorSize)
DataSectors(hdr) == ToSet(hdr.dataSectors)
ByteToSector(hdr, offset) == hdr.dataSectors[offset \div SectorSize + 1]

\* The headers of the two files that FileSystem::FileSystem allocates, in this order.
mapHdr == Allocate({FreeMapSector, DirectorySector}, SectorSize)
dirHdr == Allocate({FreeMapSector, DirectorySector} \cup DataSectors(mapHdr),
                   2 * SectorSize - 1)
SystemSectors == {FreeMapSector, DirectorySector} \cup DataSectors(mapHdr)
                     \cup DataSectors(dirHdr)

\* The directory fills two sectors; the name of entry Straddle is in the second.
Unused == [inUse |-> FALSE, sector |-> -1, name |-> NULL]
DirectoryWriteBack(table) ==
    <<<<dirHdr.dataSectors[1],
        [is |-> "dir", part |-> [i \in 0..Straddle |->
            IF i = Straddle THEN [table[i] EXCEPT !.name = NULL] ELSE table[i]]]>>,
      <<dirHdr.dataSectors[2],
        [is |-> "dir", part |-> [i \in Straddle..(NumDirEntries - 1) |->
            IF i = Straddle THEN [Unused EXCEPT !.name = table[i].name] ELSE table[i]]]>>>>
DirectoryFetchFrom ==
    LET first == disk[dirHdr.dataSectors[1]].part
        second == disk[dirHdr.dataSectors[2]].part
    IN  [i \in Entry |-> CASE i < Straddle -> first[i]
                           [] i > Straddle -> second[i]
                           [] OTHER -> [first[i] EXCEPT !.name = second[i].name]]
BitMapWriteBack(map) == <<<<mapHdr.dataSectors[1], [is |-> "map", bits |-> map]>>>>
BitMapFetchFrom == disk[mapHdr.dataSectors[1]].bits
HeaderWriteBack(sector, hdr) == <<<<sector, hdr>>>>

\* Directory::FindIndex, Add and Remove.
FindIndex(table, name) ==
    LET found == {i \in Entry : table[i].inUse /\ table[i].name = name}
    IN  IF found = {} THEN -1 ELSE Min(found)
FreeEntries(table) == {i \in Entry : ~table[i].inUse}
Add(table, name, sector) ==
    [table EXCEPT ![Min(FreeEntries(table))] =
        [inUse |-> TRUE, sector |-> sector, name |-> name]]
DirRemove(table, name) == [table EXCEPT ![FindIndex(table, name)].inUse = FALSE]

-----------------------------------------------------------------------------
(* OpenFile::ReadAt and WriteAt. *)

bcopy(from, buf, offset) ==
    [k \in DOMAIN buf |-> IF k - offset \in DOMAIN from THEN from[k - offset] ELSE buf[k]]

ReadAt(hdr, n, position) ==
    IF n <= 0 \/ position >= hdr.numBytes THEN <<>>
    ELSE LET numBytes == Min({n, hdr.numBytes - position})
             first == position \div SectorSize
             last == (position + numBytes - 1) \div SectorSize
             buf == FlattenSeq([k \in 1..(1 + last - first) |->
                        Bytes(disk[ByteToSector(hdr, (first + k - 1) * SectorSize)])])
             start == position - first * SectorSize
         IN  SubSeq(buf, start + 1, start + numBytes)

\* How many bytes WriteAt writes, and the sector writes it does.
WriteCount(hdr, n, position) ==
    IF n <= 0 \/ position >= hdr.numBytes THEN 0 ELSE Min({n, hdr.numBytes - position})

\* Must the last sector be read, given that the first has been if it is not aligned?
\* Mutant: not when it is the first.
ReadsLastNot(first, last, firstAligned, lastAligned) == ~lastAligned /\ first # last
ReadsLast(first, last, firstAligned, lastAligned) ==
    ~lastAligned /\ (first # last \/ firstAligned)

WriteAt(hdr, from, position) ==
    LET numBytes == WriteCount(hdr, Len(from), position)
        first == position \div SectorSize
        last == (position + numBytes - 1) \div SectorSize
        firstAligned == position = first * SectorSize
        lastAligned == position + numBytes = (last + 1) * SectorSize
        buf0 == [k \in 1..((1 + last - first) * SectorSize) |-> Junk]
        buf1 == IF firstAligned THEN buf0
                ELSE bcopy(ReadAt(hdr, SectorSize, first * SectorSize), buf0, 0)
        buf2 == IF ReadsLast(first, last, firstAligned, lastAligned)
                THEN bcopy(ReadAt(hdr, SectorSize, last * SectorSize), buf1,
                           (last - first) * SectorSize)
                ELSE buf1
        buf3 == bcopy(SubSeq(from, 1, numBytes), buf2, position - first * SectorSize)
    IN  IF numBytes = 0 THEN <<>>
        ELSE [k \in 1..(1 + last - first) |->
                <<ByteToSector(hdr, (first + k - 1) * SectorSize),
                  [is |-> "data",
                   bytes |-> SubSeq(buf3, (k - 1) * SectorSize + 1, k * SectorSize)]>>]

-----------------------------------------------------------------------------
(* History: what the files should hold. *)

Unknown == -2
NoFile == [sector |-> -1, hdr |-> Allocate({}, 0), bytes |-> <<>>]
Owned(f) == {f.sector} \cup DataSectors(f.hdr)
InUse == {i \in Entry : DirectoryFetchFrom[i].inUse}

\* Reference for WriteAt: the bytes of a file after text is written at position.
Overwrite(bytes, text, position) ==
    [k \in DOMAIN bytes |-> IF k - position \in DOMAIN text THEN text[k - position] ELSE bytes[k]]

\* Does s agree with t wherever t is known?
Agrees(s, t) == Len(s) = Len(t) /\ \A k \in DOMAIN t : t[k] \in {Unknown, s[k]}

NothingDone == [entry |-> -1, bytes |-> <<>>]
Formatting == [entry |-> -2, bytes |-> <<>>]

\* An OpenFile of a file that is still there as it was when opened.
Fresh(of) == of.entry \in InUse /\ file[of.entry].sector = of.sector /\ file[of.entry].hdr = of.hdr

-----------------------------------------------------------------------------
NoJob == [at |-> "none", name |-> NULL, of |-> NULL, left |-> <<>>, out |-> <<>>]

Init ==
    /\ setting \in Settings
    /\ running = FALSE
    /\ disk = [s \in Sector |-> Unformatted]
    /\ queue = <<>>
    /\ handle = [h \in Handle |-> NULL]
    /\ job = NoJob
    /\ file = [i \in Entry |-> NoFile]
    /\ doing = NothingDone
    /\ tainted = {}
    /\ calls = 0
    /\ crashes = 0
    /\ stopped = "no"

Idle == running /\ queue = <<>> /\ stopped = "no"

\* FileSystem::FileSystem(TRUE).
Format ==
    /\ ~running
    /\ stopped = "no"
    /\ running' = TRUE
    /\ doing' = Formatting
    /\ queue' = HeaderWriteBack(FreeMapSector, mapHdr)
                    \o HeaderWriteBack(DirectorySector, dirHdr)
                    \o BitMapWriteBack(SystemSectors)
                    \o DirectoryWriteBack([i \in Entry |-> Unused])
    /\ UNCHANGED <<setting, disk, handle, job, file, tainted, calls, crashes, stopped>>

Formatted ==
    /\ disk[FreeMapSector] = mapHdr
    /\ disk[DirectorySector] = dirHdr
    /\ disk[mapHdr.dataSectors[1]].is = "map"
    /\ \A k \in 1..2 : disk[dirHdr.dataSectors[k]].is = "dir"

\* FileSystem::FileSystem(FALSE): the two files are opened as they are.
Mount ==
    /\ ~running
    /\ stopped = "no"
    /\ running' = TRUE
    /\ stopped' = IF Formatted THEN "no" ELSE "unformatted disk"
    /\ UNCHANGED <<setting, disk, queue, handle, job, file, doing, tainted, calls, crashes>>

\* SynchDisk::WriteSector.
WriteSector ==
    /\ running
    /\ queue # <<>>
    /\ disk' = [disk EXCEPT ![Head(queue)[1]] = Head(queue)[2]]
    /\ queue' = Tail(queue)
    /\ doing' = IF Len(queue) > 1 THEN doing ELSE NothingDone
    /\ file' = IF Len(queue) > 1 \/ doing.entry \notin Entry THEN file
               ELSE [file EXCEPT ![doing.entry].bytes = doing.bytes]
    /\ UNCHANGED <<setting, running, handle, job, tainted, calls, crashes, stopped>>

\* The machine halts.  What was not written is lost; an entry in use whose sectors are not all
\* marked is damaged.
Crash ==
    /\ running
    /\ crashes < MaxCrashes
    /\ stopped = "no"
    /\ running' = FALSE
    /\ queue' = <<>>
    /\ handle' = [h \in Handle |-> NULL]
    /\ job' = NoJob
    /\ doing' = NothingDone
    /\ tainted' = IF ~Formatted THEN {}
                  ELSE tainted \cup
                         {i \in InUse : /\ doing.entry \in {i, Formatting.entry}
                                        /\ ~ Owned(file[i]) \subseteq BitMapFetchFrom}
    /\ crashes' = crashes + 1
    /\ UNCHANGED <<setting, disk, file, calls, stopped>>

-----------------------------------------------------------------------------
(* FileSystem::Create, Open, Remove; OpenFile::Read, Write, Seek. *)

CanCreate(name, size) ==
    LET directory == DirectoryFetchFrom
        sector == Find(BitMapFetchFrom, Sector)
    IN  /\ FindIndex(directory, name) = -1
        /\ sector # -1
        /\ FreeEntries(directory) # {}
        /\ HasSpace(Mark(BitMapFetchFrom, sector), size)

\* A header holds NumDirect sector numbers: the rest is written past its end.
Overruns(size) == divRoundUp(size, SectorSize) > NumDirect

\* Mutant: the header's sector is not marked before the data sectors are allocated.
NewHeaderUnmarked(sector, size) == Allocate(BitMapFetchFrom, size)
NewHeader(sector, size) == Allocate(Mark(BitMapFetchFrom, sector), size)

\* What Create flushes, in this order.
\* Mutants: the data sectors are not in the map; the map goes before the directory.
FlushUnmarked(hdr, sector, directory) ==
    HeaderWriteBack(sector, hdr) \o DirectoryWriteBack(directory)
        \o BitMapWriteBack(Mark(BitMapFetchFrom, sector))
FlushMapFirst(hdr, sector, directory) ==
    HeaderWriteBack(sector, hdr)
        \o BitMapWriteBack(Mark(BitMapFetchFrom, sector) \cup DataSectors(hdr))
        \o DirectoryWriteBack(directory)
Flush(hdr, sector, directory) ==
    HeaderWriteBack(sector, hdr) \o DirectoryWriteBack(directory)
        \o BitMapWriteBack(Mark(BitMapFetchFrom, sector) \cup DataSectors(hdr))

Create(name, size) ==
    LET directory == DirectoryFetchFrom
        sector == Find(BitMapFetchFrom, Sector)
        hdr == NewHeader(sector, size)
        new == [sector |-> sector, hdr |-> hdr, bytes |-> [k \in 1..size |-> Unknown]]
        i == Min(FreeEntries(directory))
    IN  /\ CanCreate(name, size)
        /\ ~Overruns(size)
        /\ queue' = Flush(hdr, sector, Add(directory, name, sector))
        /\ file' = [file EXCEPT ![i] = new]
        /\ doing' = [entry |-> i, bytes |-> new.bytes]
        /\ tainted' = (tainted \ {i}) \cup
               (IF \E j \in tainted \ {i} : j \in InUse /\ Owned(file[j]) \cap Owned(new) # {}
                THEN {i} ELSE {})

\* Open of a sector that holds no header.
Garbage(name) ==
    LET i == FindIndex(DirectoryFetchFrom, name)
    IN  i # -1 /\ disk[DirectoryFetchFrom[i].sector].is # "header"

\* The OpenFile that Open returns, NULL if the name is not in the directory.
Open(name) ==
    LET i == FindIndex(DirectoryFetchFrom, name)
        sector == DirectoryFetchFrom[i].sector
    IN  IF i = -1 THEN NULL
        ELSE [entry |-> i, sector |-> sector, hdr |-> disk[sector], seekPosition |-> 0]

Deallocated(name) == DataSectors(Open(name).hdr)

\* The ASSERT of Deallocate: the sectors ought to be marked.
AssertsMarked(name) == Deallocated(name) \subseteq BitMapFetchFrom

RemoveFile(name) ==
    LET of == Open(name)
    IN  /\ of # NULL
        /\ ~Garbage(name)
        /\ AssertsMarked(name)
        /\ queue' = BitMapWriteBack(Clear(BitMapFetchFrom \ Deallocated(name), of.sector))
                        \o DirectoryWriteBack(DirRemove(DirectoryFetchFrom, name))
        /\ doing' = [entry |-> of.entry, bytes |-> file[of.entry].bytes]
        /\ UNCHANGED <<file, tainted>>

Advance(of, n) == [of EXCEPT !.seekPosition = @ + n]

Write(of, text) ==
    /\ queue' = WriteAt(of.hdr, text, of.seekPosition)
    /\ IF Fresh(of)
       THEN LET unknown == [k \in DOMAIN text |-> Unknown]
                bytes == file[of.entry].bytes
            IN  /\ file' = [file EXCEPT ![of.entry].bytes =
                                Overwrite(bytes, unknown, of.seekPosition)]
                /\ doing' = IF queue' = <<>> THEN NothingDone
                            ELSE [entry |-> of.entry,
                                  bytes |-> Overwrite(bytes, text, of.seekPosition)]
                /\ UNCHANGED tainted
       ELSE /\ tainted' = tainted \cup
                   {i \in InUse : Owned(file[i]) \cap DataSectors(of.hdr) # {}}
            /\ UNCHANGED <<file, doing>>

-----------------------------------------------------------------------------
(* A program that makes any calls. *)

Call == Idle /\ setting = "calls" /\ calls < MaxCalls /\ calls' = calls + 1
Returns == UNCHANGED <<setting, running, disk, job, crashes, stopped>>

CreateCall(name, size) ==
    /\ Call
    /\ Create(name, size)
    /\ UNCHANGED handle
    /\ Returns

OpenCall(h, name) ==
    /\ Call
    /\ handle[h] = NULL
    /\ Open(name) # NULL
    /\ ~Garbage(name)
    /\ handle' = [handle EXCEPT ![h] = Open(name)]
    /\ UNCHANGED <<queue, file, doing, tainted>>
    /\ Returns

CloseCall(h) ==
    /\ Call
    /\ handle[h] # NULL
    /\ handle' = [handle EXCEPT ![h] = NULL]
    /\ UNCHANGED <<queue, file, doing, tainted>>
    /\ Returns

SeekCall(h, position) ==
    /\ Call
    /\ handle[h] # NULL
    /\ handle' = [handle EXCEPT ![h].seekPosition = position]
    /\ UNCHANGED <<queue, file, doing, tainted>>
    /\ Returns

ReadCall(h, n) ==
    /\ Call
    /\ handle[h] # NULL
    /\ handle' = [handle EXCEPT
            ![h] = Advance(@, Len(ReadAt(@.hdr, n, @.seekPosition)))]
    /\ UNCHANGED <<queue, file, doing, tainted>>
    /\ Returns

WriteCall(h, text) ==
    /\ Call
    /\ handle[h] # NULL
    /\ Write(handle[h], text)
    /\ handle' = [handle EXCEPT
            ![h] = Advance(@, WriteCount(@.hdr, Len(text), @.seekPosition))]
    /\ Returns

RemoveCall(name) ==
    /\ Call
    /\ RemoveFile(name)
    /\ UNCHANGED handle
    /\ Returns

\* Why a call on the file of this name cannot go on.
Failure(name) ==
    CASE Open(name) = NULL -> "no"
      [] Open(name) # NULL /\ Garbage(name) -> "garbage header"
      [] OTHER -> IF AssertsMarked(name) THEN "no" ELSE "assert"

\* Calls after which the behaviour is not the model's to say, and the failed ASSERT of Remove.
CallFails(name) ==
    /\ Call
    /\ stopped' \in {Failure(name)} \cup
          {"header overrun" : size \in {s \in Size : CanCreate(name, s) /\ Overruns(s)}}
    /\ stopped' # "no"
    /\ UNCHANGED <<setting, running, disk, queue, handle, job, file, doing, tainted, crashes>>

-----------------------------------------------------------------------------
(* The programs of fstest.cc. *)

Step(at) == Idle /\ job.at = at /\ UNCHANGED <<setting, running, disk, handle, crashes, stopped>>
Start == Step("none") /\ setting = "fstest" /\ calls < MaxCalls /\ calls' = calls + 1
Quiet == UNCHANGED <<queue, file, doing, tainted, calls>>

\* Copy: if Create fails it gives up.
Copy(name) ==
    /\ Start
    /\ \/ /\ Create(name, Len(UnixFile))
          /\ job' = [NoJob EXCEPT !.at = "CopyOpen", !.name = name, !.left = UnixFile]
       \/ /\ ~CanCreate(name, Len(UnixFile))
          /\ job' = NoJob
          /\ UNCHANGED <<queue, file, doing, tainted>>

CopyOpen ==
    /\ Idle
    /\ job.at = "CopyOpen"
    /\ job' = [job EXCEPT !.at = "CopyLoop", !.of = Open(job.name)]
    /\ stopped' = IF Open(job.name) = NULL THEN "assert" ELSE stopped
    /\ UNCHANGED <<setting, running, disk, handle, crashes>>
    /\ Quiet

\* Mutant of CopyLoop: it ends at the first piece that is shorter than TransferSize.
CopyLoopStopsShort ==
    /\ Step("CopyLoop")
    /\ LET buffer == SubSeq(job.left, 1, TransferSize)
       IN  IF Len(job.left) >= TransferSize
           THEN /\ Write(job.of, buffer)
                /\ job' = [job EXCEPT
                        !.of = Advance(@, WriteCount(@.hdr, TransferSize, @.seekPosition)),
                        !.left = SubSeq(@, TransferSize + 1, Len(@))]
                /\ UNCHANGED calls
           ELSE job' = [job EXCEPT !.at = "copied", !.of = NULL] /\ Quiet

CopyLoop ==
    /\ Step("CopyLoop")
    /\ LET amountRead == Min({TransferSize, Len(job.left)})
           buffer == SubSeq(job.left, 1, amountRead)
       IN  IF amountRead > 0
           THEN /\ Write(job.of, buffer)
                /\ job' = [job EXCEPT
                        !.of = Advance(@, WriteCount(@.hdr, amountRead, @.seekPosition)),
                        !.left = SubSeq(@, amountRead + 1, Len(@))]
                /\ UNCHANGED calls
           ELSE job' = [job EXCEPT !.at = "copied", !.of = NULL] /\ Quiet

PrintFile(name) ==
    /\ Start
    /\ ~Garbage(name)
    /\ job' = IF Open(name) = NULL THEN NoJob
              ELSE [NoJob EXCEPT !.at = "PrintLoop", !.name = name, !.of = Open(name)]
    /\ UNCHANGED <<queue, file, doing, tainted>>

PrintLoop ==
    /\ Step("PrintLoop")
    /\ LET buffer == ReadAt(job.of.hdr, TransferSize, job.of.seekPosition)
       IN  job' = IF buffer = <<>> THEN [job EXCEPT !.at = "printed", !.of = NULL]
                  ELSE [job EXCEPT !.of = Advance(@, Len(buffer)), !.out = @ \o buffer]
    /\ Quiet

\* PerformanceTest: FileWrite creates an empty file, FileRead reads until a chunk is short or
\* differs, and the file is removed.
FileWrite(name) ==
    /\ Start
    /\ \/ /\ Create(name, 0)
          /\ job' = [NoJob EXCEPT !.at = "FileWriteLoop", !.name = name]
       \/ /\ ~CanCreate(name, 0)
          /\ job' = [NoJob EXCEPT !.at = "FileRead", !.name = name]
          /\ UNCHANGED <<queue, file, doing, tainted>>

FileWriteLoop ==
    /\ Step("FileWriteLoop")
    /\ LET of == IF job.of = NULL THEN Open(job.name) ELSE job.of
           numBytes == WriteCount(of.hdr, Len(Contents), of.seekPosition)
       IN  /\ Write(of, Contents)
           /\ job' = IF numBytes < Len(Contents) THEN [job EXCEPT !.at = "FileRead", !.of = NULL]
                     ELSE [job EXCEPT !.of = Advance(of, numBytes)]
    /\ UNCHANGED calls

FileRead ==
    /\ Step("FileRead")
    /\ ~Garbage(job.name)
    /\ LET of == IF job.of = NULL THEN Open(job.name) ELSE job.of
       IN  job' = IF of # NULL /\ ReadAt(of.hdr, Len(Contents), of.seekPosition) = Contents
                  THEN [job EXCEPT !.of = Advance(of, Len(Contents))]
                  ELSE [job EXCEPT !.at = "PerformanceTest", !.of = NULL]
    /\ Quiet

PerformanceTest ==
    /\ Step("PerformanceTest")
    /\ IF Open(job.name) = NULL THEN UNCHANGED <<queue, file, doing, tainted>>
       ELSE RemoveFile(job.name)
    /\ job' = NoJob
    /\ UNCHANGED calls

JobReturns ==
    /\ Step("copied") \/ Step("printed")
    /\ job' = NoJob
    /\ Quiet

\* A program meets a sector that is no header, or the failed ASSERT of Remove.
JobFails(name) ==
    /\ Idle
    /\ setting = "fstest"
    /\ Open(name) # NULL
    /\ \/ job.at = "none" /\ calls < MaxCalls /\ Failure(name) = "garbage header"
       \/ job.at = "FileRead" /\ name = job.name /\ Failure(name) = "garbage header"
       \/ job.at = "PerformanceTest" /\ name = job.name /\ Failure(name) = "assert"
    /\ stopped' = Failure(name)
    /\ UNCHANGED <<setting, running, disk, queue, handle, job, file, doing, tainted, calls,
                   crashes>>

-----------------------------------------------------------------------------
Next ==
    \/ Format \/ Mount \/ WriteSector \/ Crash
    \/ \E name \in Name :
         \/ \E size \in Size : CreateCall(name, size)
         \/ \E h \in Handle : OpenCall(h, name)
         \/ RemoveCall(name)
         \/ CallFails(name)
         \/ Copy(name) \/ PrintFile(name) \/ FileWrite(name) \/ JobFails(name)
    \/ \E h \in Handle :
         \/ CloseCall(h)
         \/ \E position \in 0..(NumDirect * SectorSize) : SeekCall(h, position)
         \/ \E n \in 1..(NumDirect * SectorSize) : ReadCall(h, n)
         \/ \E text \in Text : WriteCall(h, text)
    \/ CopyOpen \/ CopyLoop \/ PrintLoop \/ FileWriteLoop \/ FileRead \/ PerformanceTest
    \/ JobReturns

Spec == Init /\ [][Next]_vars

-----------------------------------------------------------------------------
(* Properties. *)

Whole == Idle /\ Formatted
Good == {i \in InUse : i \notin tainted}

\* Entries, sectors and histories have their types; an operation under way has writes left.
TypeOK ==
    /\ setting \in Settings /\ running \in BOOLEAN
    /\ \A s \in Sector : disk[s].is \in {"data", "header", "map", "dir"}
    /\ \A k \in DOMAIN queue : queue[k][1] \in Sector
    /\ tainted \subseteq Entry
    /\ doing.entry \in Entry \cup {-1, -2}
    /\ doing # NothingDone => queue # <<>>
    /\ stopped \in {"no", "unformatted disk", "garbage header", "assert", "header overrun"}

\* The free map and the directory agree (Create, Remove, Allocate, Deallocate) as long as no halt
\* and no stale handle has damaged an entry, and a halt that leaves the entry it interrupts
\* out of the directory damages nothing: the marked sectors are exactly those of the two system
\* files and of the files in the directory.
MapIsExact ==
    Whole /\ tainted \cap InUse = {} =>
        BitMapFetchFrom = SystemSectors \cup UNION {Owned(file[i]) : i \in InUse}

\* Create writes the directory before the map and Remove the map before the directory: whatever
\* a halt interrupts, no sector is ever marked that no entry of the directory owns.
NoSectorLeaks ==
    running /\ Formatted =>
        BitMapFetchFrom \subseteq SystemSectors \cup UNION {Owned(file[i]) : i \in InUse}

\* A halt damages no file but the one being created or removed, also when only half of the
\* directory was written: every other entry is found under its name, its header is what Create
\* wrote, its sectors are marked and no other entry's.
OthersSurvive ==
    Whole => \A i \in Good :
        LET e == DirectoryFetchFrom[i]
        IN  /\ FindIndex(DirectoryFetchFrom, e.name) = i
            /\ e.sector = file[i].sector
            /\ disk[e.sector] = file[i].hdr
            /\ Owned(file[i]) \subseteq BitMapFetchFrom \ SystemSectors
            /\ \A j \in InUse \ {i} : Owned(file[j]) \cap Owned(file[i]) = {}

\* ReadAt and WriteAt (openfile.cc) work in whole sectors, yet a read of any range of a file
\* returns what the last writes to that range left, also after a write cut short by a halt.
ReadsLastWrite ==
    Whole => \A i \in Good : \A position, n \in 0..(NumDirect * SectorSize) :
        LET bytes == file[i].bytes
        IN  Agrees(ReadAt(file[i].hdr, n, position),
                   SubSeq(bytes, position + 1, Min({position + n, Len(bytes)})))

\* Remove's ASSERT that the sectors of a file are marked (filehdr.cc) fails only for a file that
\* a halt or a stale handle has damaged.
AssertNeedsDamage == stopped = "assert" => tainted \cap InUse # {}

\* The invariant of the disk: between operations the bit map marks exactly the sectors in
\* use, and only a damaged disk makes an ASSERT of the file system fail.
DiskInv == TypeOK /\ MapIsExact /\ AssertNeedsDamage

\* A Copy that has returned has left exactly the UNIX file's bytes on the disk, every one of
\* them, and a Print that has returned has printed exactly the bytes of the whole file, though
\* both go through it in pieces of TransferSize that need not fit its sectors or its length.
CopiesAndPrintsAll ==
    Whole /\ job.at \in {"copied", "printed"} =>
        LET i == FindIndex(DirectoryFetchFrom, job.name)
            bytes == ReadAt(file[i].hdr, NumDirect * SectorSize, 0)
        IN  i \in Good => /\ job.at = "copied" => bytes = UnixFile /\ file[i].bytes = UnixFile
                          /\ job.at = "printed" => bytes = job.out /\ Agrees(bytes, file[i].bytes)

=============================================================================
