-------------------------- MODULE OpenFilesProofs ----------------------------
(***************************************************************************)
(* The open-file tables agree, their reference counts are right and        *)
(* offsets stay inside their files, for any number of processes, files and *)
(* table entries.                                                          *)
(***************************************************************************)
EXTENDS OpenFiles, FiniteSetTheorems, TLAPS

\* TablesAgree but for StopsHaveCause, and all that it rests on.
Tables == TypeOK /\ NoDanglingPOF /\ CallsHoldEntries /\ OpenFilesExist /\ OneSOFPerFile

Inv == Tables /\ CounterIsReferences /\ OffsetInFile

-----------------------------------------------------------------------------
(***************************************************************************)
(* BitMap.                                                                 *)
(***************************************************************************)
\* A set of natural numbers that is not empty has a least element, and Min finds it.
LEMMA MinOfSet ==
    ASSUME NEW S \in SUBSET Nat, S # {}
    PROVE  Min(S) \in S /\ \A x \in S : Min(S) <= x
  <1> DEFINE R == {ss \in Nat \X Nat : ss[1] < ss[2]}
  <1>1. IsWellFoundedOn(OpToRel(<, Nat), Nat)
    BY NatLessThanWellFounded, Zenon
  <1>2. R \cap (Nat \X Nat) \subseteq OpToRel(<, Nat)
    BY Zenon DEF OpToRel
  <1>3. IsWellFoundedOn(R, Nat)
    BY <1>1, <1>2, IsWellFoundedOnSubrelation, Zenon
  <1>4. PICK x \in S : \A y \in S : ~(<<y, x>> \in R)
    <2> HIDE DEF R
    <2> QED BY <1>3, WFMin, Zenon
  <1>5. ASSUME NEW y \in S PROVE x <= y
    <2>1. x \in Nat /\ y \in Nat /\ (y < x => <<y, x>> \in R)
      BY Zenon
    <2> QED BY <1>4, <2>1
  <1> QED BY <1>5, Zenon DEF Min

\* BitMap::Find returns -1 or a bit that was clear.
LEMMA FindClear ==
    ASSUME NEW bits \in SUBSET Nat, NEW map
    PROVE  /\ Find(map, bits) = -1 /\ bits \subseteq map
           \/ Find(map, bits) \in bits \ map
  <1>1. CASE bits \subseteq map
    BY <1>1, Zenon DEF Find
  <1>2. CASE ~(bits \subseteq map)
    <2>1. bits \ map \in SUBSET Nat /\ bits \ map # {}
      BY <1>2, Zenon
    <2>2. Min(bits \ map) \in bits \ map
      BY <2>1, MinOfSet, Zenon
    <2> QED BY <1>2, <2>2, Zenon DEF Find
  <1> QED BY <1>1, <1>2, Zenon

\* NumClear counts to zero only when no bit is clear.
LEMMA NumClearZero ==
    ASSUME NEW n \in Nat, NEW map, NumClear(map, 0..(n - 1)) # 0
    PROVE  ~(0..(n - 1) \subseteq map)
  <1>1. SUFFICES ASSUME 0..(n - 1) \subseteq map PROVE FALSE
    BY Zenon
  <1>2. (0..(n - 1)) \ map = {}
    BY <1>1, Zenon
  <1> QED BY <1>2, FS_EmptySet, Zenon DEF NumClear

-----------------------------------------------------------------------------
(***************************************************************************)
(* References.                                                             *)
(***************************************************************************)
LEMMA Indexes ==
    /\ SOF_MAXNUM \in Nat /\ POF_MAXNUM \in Nat
    /\ SofIndex \in SUBSET Nat /\ PofIndex \in SUBSET Nat
    /\ -1 \notin SofIndex /\ -1 \notin PofIndex
    /\ IsFiniteSet(Proc) /\ IsFiniteSet(PofIndex)
    /\ IsFiniteSet(Proc \X PofIndex)
  <1>1. SOF_MAXNUM \in Nat /\ POF_MAXNUM \in Nat /\ IsFiniteSet(Proc)
    BY OpenFilesAssumption, Zenon
  <1>2. IsFiniteSet(PofIndex)
    BY <1>1, FS_Interval DEF PofIndex
  <1>3. IsFiniteSet(Proc \X PofIndex)
    BY <1>1, <1>2, FS_Product, Zenon
  <1> QED BY <1>1, <1>2, <1>3 DEF SofIndex, PofIndex

\* There are finitely many references.
LEMMA FiniteReferences ==
    ASSUME NEW s
    PROVE  IsFiniteSet(References(s)) /\ Cardinality(References(s)) \in Nat
  <1>1. References(s) \in SUBSET (Proc \X PofIndex)
    BY Zenon DEF References
  <1>2. IsFiniteSet(References(s))
    BY <1>1, Indexes, FS_Subset, Zenon
  <1> QED BY <1>2, FS_CardinalityType, Zenon

\* A step that leaves every entry open or closed, and pointing where it does.
LEMMA SameReferences ==
    ASSUME TypeOK,
           \A p \in Proc, i \in PofIndex :
              /\ pofArray'[p][i] = NULL <=> pofArray[p][i] = NULL
              /\ pofArray[p][i] # NULL => pofArray'[p][i].sofIndex = pofArray[p][i].sofIndex
    PROVE  \A s : References(s)' = References(s)
  BY DEF References, pofMap

\* A new entry is one reference more.
LEMMA OneMoreReference ==
    ASSUME TypeOK, NEW p \in Proc, NEW i \in PofIndex, pofArray[p][i] = NULL,
           NEW e \in POF, pofArray' = [pofArray EXCEPT ![p][i] = e],
           NEW s
    PROVE  IF s = e.sofIndex THEN Cardinality(References(s)') = Cardinality(References(s)) + 1
           ELSE References(s)' = References(s)
  <1>1. \A q \in Proc, j \in PofIndex :
           pofArray'[q][j] = IF q = p /\ j = i THEN e ELSE pofArray[q][j]
    BY DEF TypeOK
  <1>2. e # NULL
    BY OpenFilesAssumption, Zenon
  <1>3. CASE s = e.sofIndex
    <2>1. References(s)' = References(s) \cup {<<p, i>>}
      BY <1>1, <1>2, <1>3 DEF References, pofMap
    <2>2. <<p, i>> \notin References(s)
      BY Zenon DEF References, pofMap
    <2> QED BY <1>3, <2>1, <2>2, FiniteReferences, FS_AddElement, Zenon
  <1>4. CASE s # e.sofIndex
    BY <1>1, <1>2, <1>4 DEF References, pofMap
  <1> QED BY <1>3, <1>4, Zenon

\* A closed entry is one reference less.
LEMMA OneReferenceLess ==
    ASSUME TypeOK, NEW p \in Proc, NEW i \in PofIndex, pofArray[p][i] # NULL,
           pofArray' = [pofArray EXCEPT ![p][i] = NULL],
           NEW s
    PROVE  IF s = pofArray[p][i].sofIndex
           THEN /\ Cardinality(References(s)') = Cardinality(References(s)) - 1
                /\ Cardinality(References(s)) > 0
           ELSE References(s)' = References(s)
  <1>1. \A q \in Proc, j \in PofIndex :
           pofArray'[q][j] = IF q = p /\ j = i THEN NULL ELSE pofArray[q][j]
    BY Zenon DEF TypeOK
  <1>2. CASE s = pofArray[p][i].sofIndex
    <2>1. <<p, i>> \in References(s)
      BY <1>2, Zenon DEF References, pofMap
    <2>2. References(s)' = References(s) \ {<<p, i>>}
      <3>1. ASSUME NEW e \in Proc \X PofIndex
            PROVE  e \in References(s)' <=> e \in References(s) /\ e # <<p, i>>
        <4>1. e[1] \in Proc /\ e[2] \in PofIndex /\ e = <<e[1], e[2]>>
          OBVIOUS
        <4> QED BY <1>1, <4>1 DEF References, pofMap
      <3>2. /\ References(s) \subseteq Proc \X PofIndex
            /\ References(s)' \subseteq Proc \X PofIndex
        BY Zenon DEF References
      <3> QED BY <3>1, <3>2, Zenon
    <2>3. IsFiniteSet(References(s)) /\ Cardinality(References(s)) \in Nat
      BY FiniteReferences, Zenon
    <2>4. Cardinality(References(s)) # 0
      BY <2>1, <2>3, FS_EmptySet, Zenon
    <2>5. Cardinality(References(s) \ {<<p, i>>}) = Cardinality(References(s)) - 1
      BY <2>1, <2>3, FS_RemoveElement, Zenon
    <2> QED BY <1>2, <2>2, <2>3, <2>4, <2>5
  <1>3. CASE s # pofArray[p][i].sofIndex
    BY <1>1, <1>3 DEF References, pofMap
  <1> QED BY <1>2, <1>3, Zenon

\* When all entries of a process are closed, it has no reference left.
LEMMA ReferencesOfOthers ==
    ASSUME TypeOK, NEW p \in Proc,
           pofArray' = [pofArray EXCEPT ![p] = [i \in PofIndex |-> NULL]],
           NEW s, NEW mine, mine = {i \in pofMap(p) : pofArray[p][i].sofIndex = s}
    PROVE  /\ Cardinality(mine) \in Nat
           /\ mine = {} <=> Cardinality(mine) = 0
           /\ Cardinality(References(s)') = Cardinality(References(s)) - Cardinality(mine)
  <1> DEFINE pairs == {e \in References(s) : e[1] = p}
  <1>1. \A q \in Proc, j \in PofIndex :
           pofArray'[q][j] = IF q = p THEN NULL ELSE pofArray[q][j]
    BY Zenon DEF TypeOK
  <1>2. IsFiniteSet(References(s)) /\ Cardinality(References(s)) \in Nat
    BY FiniteReferences, Zenon
  <1>3. References(s)' = References(s) \ pairs
    <2>1. ASSUME NEW e \in Proc \X PofIndex
          PROVE  e \in References(s)' <=> e \in References(s) /\ e[1] # p
      BY <1>1 DEF References, pofMap
    <2>2. /\ References(s) \subseteq Proc \X PofIndex
          /\ References(s)' \subseteq Proc \X PofIndex
      BY Zenon DEF References
    <2> QED BY <2>1, <2>2, Zenon
  <1>4. mine \in SUBSET PofIndex
    BY Zenon DEF pofMap
  <1>5. IsFiniteSet(mine)
    BY <1>4, Indexes, FS_Subset, Zenon
  <1>6. Cardinality(pairs) = Cardinality(mine)
    <2> DEFINE f == [i \in mine |-> <<p, i>>]
    <2>1. \A i \in mine : <<p, i>> \in pairs
      BY <1>4, Zenon DEF References, pofMap
    <2>2. \A e \in pairs : e[2] \in mine /\ e = <<p, e[2]>>
      BY DEF References, pofMap
    <2>3. f \in Bijection(mine, pairs)
      <3> HIDE DEF pairs
      <3>1. f \in [mine -> pairs]
        BY <2>1, Zenon
      <3>2. f \in Injection(mine, pairs)
        BY <3>1, Zenon DEF Injection, IsInjective
      <3>3. f \in Surjection(mine, pairs)
        BY <2>2, <3>1, Zenon DEF Surjection
      <3> QED BY <3>2, <3>3, Zenon DEF Bijection
    <2>4. ExistsBijection(mine, pairs)
      BY <2>3, Zenon DEF ExistsBijection
    <2> HIDE DEF pairs
    <2> QED BY <1>5, <2>4, FS_Bijection, Zenon
  <1>7. Cardinality(References(s) \ pairs) = Cardinality(References(s)) - Cardinality(pairs)
    <2>1. References(s) \cap pairs = pairs
      BY Zenon
    <2> HIDE DEF pairs
    <2> QED BY <1>2, <2>1, FS_Difference, Zenon
  <1>8. Cardinality(mine) \in Nat /\ (mine = {} <=> Cardinality(mine) = 0)
    BY <1>5, FS_CardinalityType, FS_EmptySet, Zenon
  <1> HIDE DEF pairs
  <1> QED BY <1>3, <1>6, <1>7, <1>8, Zenon

-----------------------------------------------------------------------------
(***************************************************************************)
(* Files and transfers.                                                    *)
(***************************************************************************)
USE DEF sofMap, pofMap

LEMMA InvParts ==
    ASSUME Inv
    PROVE  /\ TypeOK /\ NoDanglingPOF /\ CallsHoldEntries /\ OpenFilesExist /\ OneSOFPerFile
           /\ CounterIsReferences /\ OffsetInFile
  BY Zenon DEF Inv, Tables

\* Counters do not change with steps that neither open nor close.
LEMMA CountersKept ==
    ASSUME TypeOK, CounterIsReferences, OneSOFPerFile, UNCHANGED <<setting, sofArray>>,
           \A p \in Proc, i \in PofIndex :
              /\ pofArray'[p][i] = NULL <=> pofArray[p][i] = NULL
              /\ pofArray[p][i] # NULL => pofArray'[p][i].sofIndex = pofArray[p][i].sofIndex
    PROVE  CounterIsReferences' /\ OneSOFPerFile'
  <1>1. \A s : References(s)' = References(s)
    BY SameReferences, Zenon
  <1> QED BY <1>1, Zenon DEF CounterIsReferences, OneSOFPerFile

\* An entry of a process is for a file that exists.
LEMMA EntryFile ==
    ASSUME Inv, NEW p \in Proc, NEW i \in PofIndex, pofArray[p][i] # NULL
    PROVE  /\ pofArray[p][i] \in POF
           /\ pofArray[p][i].sofIndex \in SofIndex
           /\ sofArray[pofArray[p][i].sofIndex] \in SOF
           /\ sofArray[pofArray[p][i].sofIndex] # NULL
           /\ sofArray[pofArray[p][i].sofIndex].filename = pofArray[p][i].filename
           /\ pofArray[p][i].filename \in FileName
           /\ files[pofArray[p][i].filename] \in Contents
           /\ Len(files[pofArray[p][i].filename]) \in Nat
  <1>1. pofArray[p][i] \in POF
    BY InvParts DEF TypeOK
  <1>2. pofArray[p][i].sofIndex \in SofIndex /\ pofArray[p][i].filename \in FileName
    BY <1>1, Zenon DEF POF
  <1>3. /\ sofArray[pofArray[p][i].sofIndex] # NULL
        /\ sofArray[pofArray[p][i].sofIndex].filename = pofArray[p][i].filename
    BY InvParts, Zenon DEF NoDanglingPOF
  <1>4. sofArray[pofArray[p][i].sofIndex] \in SOF
    BY <1>2, <1>3, InvParts, Zenon DEF TypeOK
  <1>5. files[pofArray[p][i].filename] # NULL
    BY <1>2, <1>3, InvParts, Zenon DEF OpenFilesExist
  <1>6. files[pofArray[p][i].filename] \in Contents
    BY <1>2, <1>5, InvParts, Zenon DEF TypeOK
  <1> QED BY <1>1, <1>2, <1>3, <1>4, <1>6 DEF Contents

\* FileSystem::Create: without truncation of open files nobody's file gets shorter.
LEMMA CreateInv ==
    ASSUME Inv, NEW p \in Proc, Create(p), UNCHANGED setting
    PROVE  Inv'
  <1>1. PICK f \in FileName :
           /\ setting.truncate \/ \A s \in sofMap : sofArray[s].filename # f
           /\ files' = [files EXCEPT ![f] = <<>>]
    BY Zenon DEF Create, FileSystemCreate
  <1>2. UNCHANGED <<setting, descriptors, sofArray, pofArray, fileLock, woken, pc, loc>>
    BY Zenon DEF Create
  <1>3. <<>> \in Contents /\ <<>> # NULL
    <2>1. <<>> \in Contents
      BY DEF Contents
    <2> QED BY <2>1, OpenFilesAssumption, Zenon
  <1>4. TypeOK'
    BY <1>1, <1>2, <1>3, InvParts, Zenon DEF TypeOK
  <1>5. NoDanglingPOF' /\ CallsHoldEntries'
    BY <1>2, InvParts DEF NoDanglingPOF, CallsHoldEntries
  <1>6. OpenFilesExist'
    BY <1>1, <1>2, <1>3, InvParts DEF OpenFilesExist, TypeOK
  <1>7. OneSOFPerFile' /\ CounterIsReferences'
    BY <1>2, InvParts, CountersKept, Zenon
  <1>8. OffsetInFile'
    <2>1. SUFFICES ASSUME ~setting.truncate PROVE OffsetInFile'
      BY <1>2, Zenon DEF OffsetInFile
    <2>2. ASSUME NEW q \in Proc, NEW i \in PofIndex, pofArray[q][i] # NULL
          PROVE  files'[pofArray[q][i].filename] = files[pofArray[q][i].filename]
      <3>1. pofArray[q][i].filename \in FileName /\ pofArray[q][i].filename # f
        BY <1>1, <2>1, <2>2, EntryFile, SMTT(60)
      <3> QED BY <1>1, <3>1, InvParts, Zenon DEF TypeOK
    <2>3. \A q \in Proc : pc[q] = "SetOffset" =>
             loc[q].pof \in PofIndex /\ pofArray[q][loc[q].pof] # NULL
      BY InvParts, Zenon DEF CallsHoldEntries, TypeOK
    <2> QED BY <1>2, <2>1, <2>2, <2>3, InvParts, Zenon DEF OffsetInFile
  <1> QED BY <1>4, <1>5, <1>6, <1>7, <1>8, Zenon DEF Inv, Tables

\* Read and Write of an open entry: the locals are copied from it, and the lock is taken
\* if it is free.
LEMMA BeginInv ==
    ASSUME Inv, NEW p \in Proc, pc[p] = "User", NEW op \in {"Read", "Write"},
           NEW i \in PofIndex, pofArray[p][i] # NULL, NEW data \in Contents,
           Begin(p, op, i, data), UNCHANGED setting
    PROVE  Inv'
  <1> DEFINE s0 == pofArray[p][i].sofIndex
             l == [op |-> op, pof |-> i, sof |-> s0, offset |-> pofArray[p][i].offset,
                   data |-> data, moved |-> 0]
  <1>1. /\ UNCHANGED <<setting, files, descriptors, sofArray, pofArray>>
        /\ loc' = [loc EXCEPT ![p] = l]
        /\ IF fileLock[s0] = NULL
           THEN fileLock' = [fileLock EXCEPT ![s0] = p] /\ pc' = [pc EXCEPT ![p] = "Transfer"]
           ELSE fileLock' = fileLock /\ pc' = [pc EXCEPT ![p] = "Wait"]
        /\ woken' = woken \ {p}
    BY Zenon DEF Begin, Acquire, Goto
  <1>2. s0 \in SofIndex /\ sofArray[s0] # NULL /\ pofArray[p][i].offset \in Nat
    BY EntryFile, Zenon DEF POF
  <1>3. p # NULL
    BY OpenFilesAssumption, Zenon
  <1>4. TypeOK'
    BY <1>1, <1>2, InvParts, Zenon DEF TypeOK
  <1>5. \A q \in Proc : q # p => pc'[q] = pc[q] /\ loc'[q] = loc[q]
    BY <1>1, InvParts, Zenon DEF TypeOK
  <1>6. /\ pc'[p] \in {"Transfer", "Wait"} /\ loc'[p].pof = i /\ loc'[p].sof = s0
        /\ loc'[p].offset = pofArray[p][i].offset
        /\ pc'[p] = "Transfer" => fileLock'[s0] = p
    <2>1. loc'[p] = l
      BY <1>1, InvParts, Zenon DEF TypeOK
    <2>2. s0 \in DOMAIN fileLock /\ p \in DOMAIN pc
      BY <1>2, InvParts, Zenon DEF TypeOK
    <2>3. pc'[p] \in {"Transfer", "Wait"} /\ (pc'[p] = "Transfer" => fileLock'[s0] = p)
      BY <1>1, <2>2, Zenon
    <2> QED BY <2>1, <2>3
  <1>7. \A s \in SofIndex :
           \/ fileLock'[s] = fileLock[s]
           \/ s = s0 /\ fileLock[s] = NULL /\ fileLock'[s] = p /\ pc'[p] = "Transfer"
    <2>1. DOMAIN fileLock = SofIndex /\ p \in DOMAIN pc
      BY InvParts, Zenon DEF TypeOK
    <2> HIDE DEF s0
    <2> QED BY <1>1, <1>2, <2>1, Zenon
  <1>8. NoDanglingPOF'
    BY <1>1, <1>2, <1>7, InvParts, SMTT(60) DEF NoDanglingPOF
  <1>9. CallsHoldEntries'
    <2>1. ASSUME NEW q \in Proc, pc'[q] \in {"Wait", "Transfer", "SetOffset"}
          PROVE  LET e == pofArray'[q][loc'[q].pof]
                 IN  e # NULL /\ e.sofIndex = loc'[q].sof /\ e.offset = loc'[q].offset
      BY <1>1, <1>5, <1>6, <2>1, InvParts DEF CallsHoldEntries
    <2>2. ASSUME NEW q \in Proc, pc'[q] = "Transfer" PROVE fileLock'[loc'[q].sof] = q
      <3>1. CASE q = p
        BY <1>6, <2>2, <3>1, Zenon
      <3>2. CASE q # p
        <4>1. fileLock[loc[q].sof] = q /\ loc[q].sof \in SofIndex /\ q # NULL
          BY <1>5, <2>2, <3>2, InvParts, OpenFilesAssumption DEF CallsHoldEntries, TypeOK
        <4> QED BY <1>5, <1>7, <3>2, <4>1, Zenon
      <3> QED BY <3>1, <3>2, Zenon
    <2>3. ASSUME NEW s \in SofIndex, fileLock'[s] # NULL
          PROVE  /\ loc'[fileLock'[s]].sof = s
                 /\ \/ pc'[fileLock'[s]] = "Transfer"
                    \/ pc'[fileLock'[s]] = "gone" /\ setting'.rs
      <3>1. CASE fileLock'[s] = fileLock[s]
        <4>1. /\ fileLock[s] \in Proc /\ loc[fileLock[s]].sof = s
              /\ pc[fileLock[s]] = "Transfer" \/ (pc[fileLock[s]] = "gone" /\ setting.rs)
          BY <2>3, <3>1, InvParts DEF CallsHoldEntries, TypeOK
        <4>2. fileLock[s] # p
          BY <4>1, Zenon
        <4> QED BY <1>1, <1>5, <3>1, <4>1, <4>2, Zenon
      <3>2. CASE s = s0 /\ fileLock'[s] = p /\ pc'[p] = "Transfer"
        BY <1>6, <3>2, Zenon
      <3> QED BY <1>7, <3>1, <3>2, Zenon
    <2> QED BY <2>1, <2>2, <2>3, Zenon DEF CallsHoldEntries
  <1>10. OpenFilesExist'
    BY <1>1, InvParts, Zenon DEF OpenFilesExist
  <1>11. OneSOFPerFile' /\ CounterIsReferences'
    BY <1>1, InvParts, CountersKept, Zenon
  <1>12. OffsetInFile'
    BY <1>1, <1>5, <1>6, InvParts DEF OffsetInFile
  <1> QED BY <1>4, <1>8, <1>9, <1>10, <1>11, <1>12, Zenon DEF Inv, Tables

\* fileLock.Acquire after a wait.
LEMMA WaitInv ==
    ASSUME Inv, NEW p \in Proc, Wait(p), UNCHANGED setting
    PROVE  Inv'
  <1> DEFINE s0 == loc[p].sof
  <1>1. /\ UNCHANGED <<setting, files, descriptors, sofArray, pofArray, loc>>
        /\ pc[p] = "Wait" /\ woken' = woken \ {p}
        /\ IF fileLock[s0] = NULL
           THEN fileLock' = [fileLock EXCEPT ![s0] = p] /\ pc' = [pc EXCEPT ![p] = "Transfer"]
           ELSE fileLock' = fileLock /\ pc' = [pc EXCEPT ![p] = "Wait"]
    BY Zenon DEF Wait, At, Acquire, Goto
  <1>2. /\ s0 \in SofIndex /\ loc[p].pof \in PofIndex
        /\ pofArray[p][loc[p].pof] # NULL /\ pofArray[p][loc[p].pof].sofIndex = s0
    BY <1>1, InvParts, SMTT(60) DEF TypeOK, CallsHoldEntries
  <1>3. sofArray[s0] # NULL /\ p # NULL
    BY <1>2, EntryFile, OpenFilesAssumption
  <1>4. TypeOK'
    BY <1>1, <1>2, InvParts, Zenon DEF TypeOK
  <1>5. /\ \A q \in Proc : q # p => pc'[q] = pc[q]
        /\ pc'[p] \in {"Transfer", "Wait"} /\ (pc'[p] = "Transfer" => fileLock'[s0] = p)
        /\ \A s \in SofIndex :
             \/ fileLock'[s] = fileLock[s]
             \/ s = s0 /\ fileLock[s] = NULL /\ fileLock'[s] = p /\ pc'[p] = "Transfer"
    <2>1. DOMAIN fileLock = SofIndex /\ DOMAIN pc = Proc
      BY InvParts, Zenon DEF TypeOK
    <2> HIDE DEF s0
    <2> QED BY <1>1, <1>2, <2>1, Zenon
  <1>6. NoDanglingPOF'
    BY <1>1, <1>3, <1>5, InvParts DEF NoDanglingPOF
  <1>7. CallsHoldEntries'
    <2>1. ASSUME NEW q \in Proc, pc'[q] \in {"Wait", "Transfer", "SetOffset"}
          PROVE  LET e == pofArray'[q][loc'[q].pof]
                 IN  e # NULL /\ e.sofIndex = loc'[q].sof /\ e.offset = loc'[q].offset
      BY <1>1, <1>5, <2>1, InvParts DEF CallsHoldEntries
    <2>2. ASSUME NEW q \in Proc, pc'[q] = "Transfer" PROVE fileLock'[loc'[q].sof] = q
      <3>1. CASE q = p
        BY <1>1, <1>5, <2>2, <3>1, Zenon
      <3>2. CASE q # p
        <4>1. fileLock[loc[q].sof] = q /\ loc[q].sof \in SofIndex /\ q # NULL
          BY <1>5, <2>2, <3>2, InvParts, OpenFilesAssumption DEF CallsHoldEntries, TypeOK
        <4> QED BY <1>1, <1>5, <4>1, Zenon
      <3> QED BY <3>1, <3>2, Zenon
    <2>3. ASSUME NEW s \in SofIndex, fileLock'[s] # NULL
          PROVE  /\ loc'[fileLock'[s]].sof = s
                 /\ \/ pc'[fileLock'[s]] = "Transfer"
                    \/ pc'[fileLock'[s]] = "gone" /\ setting'.rs
      <3>1. CASE s = s0 /\ fileLock'[s] = p /\ pc'[p] = "Transfer"
        BY <1>1, <3>1, Zenon
      <3>2. CASE fileLock'[s] = fileLock[s]
        <4>1. /\ fileLock[s] \in Proc /\ loc[fileLock[s]].sof = s
              /\ pc[fileLock[s]] = "Transfer" \/ (pc[fileLock[s]] = "gone" /\ setting.rs)
          BY <2>3, <3>2, InvParts DEF CallsHoldEntries, TypeOK
        <4>2. fileLock[s] # p
          BY <1>1, <4>1, Zenon
        <4> QED BY <1>1, <1>5, <3>2, <4>1, <4>2, Zenon
      <3> QED BY <1>5, <3>1, <3>2, Zenon
    <2> QED BY <2>1, <2>2, <2>3, Zenon DEF CallsHoldEntries
  <1>8. OpenFilesExist'
    BY <1>1, InvParts, Zenon DEF OpenFilesExist
  <1>9. OneSOFPerFile' /\ CounterIsReferences'
    BY <1>1, InvParts, CountersKept, Zenon
  <1>10. OffsetInFile'
    BY <1>1, <1>5, InvParts, Zenon DEF OffsetInFile
  <1> QED BY <1>4, <1>6, <1>7, <1>8, <1>9, <1>10, Zenon DEF Inv, Tables

\* SOF::Read and SOF::Write: n bytes are moved, the file does not get shorter, and what was
\* moved lies inside it if the offset did.
Transfers(p, n, f) ==
    /\ pc[p] = "Transfer" /\ f = sofArray[loc[p].sof].filename /\ Released(p, n)
    /\ files' \in [FileName -> Contents \cup {NULL}]
    /\ \A g \in FileName : g # f => files'[g] = files[g]
    /\ files'[f] \in Contents /\ Len(files'[f]) >= Len(files[f])
    /\ loc[p].offset <= Len(files[f]) => loc[p].offset + n <= Len(files'[f])

\* Such a transfer keeps the invariant.
LEMMA TransfersInv ==
    ASSUME Inv, NEW p \in Proc, NEW n \in Nat, NEW f \in FileName, Transfers(p, n, f),
           UNCHANGED setting
    PROVE  Inv'
  <1> DEFINE s0 == loc[p].sof
  <1>1. /\ UNCHANGED <<setting, descriptors, sofArray, pofArray>>
        /\ loc' = [loc EXCEPT ![p].moved = n]
        /\ fileLock' = [fileLock EXCEPT ![s0] = NULL] /\ pc' = [pc EXCEPT ![p] = "SetOffset"]
    BY Zenon DEF Transfers, Released, Goto
  <1>13. woken \in SUBSET Proc => woken' \in SUBSET Proc
    BY Zenon DEF Transfers, Released, Sleepers
  <1>2. /\ s0 \in SofIndex /\ loc[p].pof \in PofIndex /\ fileLock[s0] = p
        /\ pofArray[p][loc[p].pof] # NULL /\ pofArray[p][loc[p].pof].sofIndex = s0
        /\ pofArray[p][loc[p].pof].offset = loc[p].offset
    <2>1. pc[p] = "Transfer"
      BY Zenon DEF Transfers
    <2> QED BY <2>1, InvParts, Zenon DEF TypeOK, CallsHoldEntries
  <1>3. /\ pofArray[p][loc[p].pof].filename = f /\ f \in FileName
        /\ files[f] \in Contents /\ Len(files[f]) \in Nat /\ Len(files'[f]) \in Nat
    <2>1. /\ sofArray[s0].filename = pofArray[p][loc[p].pof].filename
          /\ files[pofArray[p][loc[p].pof].filename] \in Contents
          /\ Len(files[pofArray[p][loc[p].pof].filename]) \in Nat
      BY <1>2, EntryFile, Zenon
    <2>2. Len(files'[f]) \in Nat
      BY SMTT(60) DEF Contents, Transfers
    <2>3. f = sofArray[s0].filename
      BY Zenon DEF Transfers
    <2> QED BY <2>1, <2>2, <2>3, Zenon
  <1>4. /\ \A q \in Proc : q # p => pc'[q] = pc[q] /\ loc'[q] = loc[q]
        /\ pc'[p] = "SetOffset" /\ loc'[p] = [loc[p] EXCEPT !.moved = n]
    BY <1>1, InvParts, Zenon DEF TypeOK
  <1>5. /\ loc'[p].pof = loc[p].pof /\ loc'[p].sof = s0 /\ loc'[p].offset = loc[p].offset
        /\ loc'[p].moved = n
    BY <1>4, InvParts DEF TypeOK
  <1>6. \A s \in SofIndex : fileLock'[s] = IF s = s0 THEN NULL ELSE fileLock[s]
    BY <1>1, <1>2, InvParts, Zenon DEF TypeOK
  <1>7. TypeOK'
    <2>1. /\ fileLock' \in [SofIndex -> Proc \cup {NULL}]
          /\ pc' \in [Proc -> {"User", "Wait", "Transfer", "SetOffset", "gone"}]
      BY <1>1, <1>2, InvParts, Zenon DEF TypeOK
    <2>2. loc' \in [Proc -> [op : {"none", "Read", "Write"}, pof : PofIndex, sof : SofIndex,
                             offset : Nat, data : Contents, moved : Nat]]
      <3> DEFINE L == [op : {"none", "Read", "Write"}, pof : PofIndex, sof : SofIndex,
                       offset : Nat, data : Contents, moved : Nat]
      <3>1. loc \in [Proc -> L]
        BY InvParts, Zenon DEF TypeOK
      <3>2. [loc[p] EXCEPT !.moved = n] \in L
        BY <3>1, Zenon
      <3> HIDE DEF L
      <3>3. loc' \in [Proc -> L]
        BY <1>1, <3>1, <3>2, Zenon
      <3> QED BY <3>3, Zenon DEF L
    <2>3. files' \in [FileName -> Contents \cup {NULL}]
      BY Zenon DEF Transfers
    <2> QED BY <1>1, <1>13, <2>1, <2>2, <2>3, InvParts, Zenon DEF TypeOK
  <1>8. NoDanglingPOF'
    <2>1. \A s \in SofIndex : fileLock'[s] # NULL => fileLock[s] # NULL
      BY <1>6, Zenon
    <2> QED BY <1>1, <2>1, InvParts, Zenon DEF NoDanglingPOF
  <1>9. CallsHoldEntries'
    <2>1. ASSUME NEW q \in Proc, pc'[q] \in {"Wait", "Transfer", "SetOffset"}
          PROVE  LET e == pofArray'[q][loc'[q].pof]
                 IN  e # NULL /\ e.sofIndex = loc'[q].sof /\ e.offset = loc'[q].offset
      <3>1. CASE q = p
        BY <1>1, <1>2, <1>5, <3>1, Zenon
      <3>2. CASE q # p
        BY <1>1, <1>4, <2>1, <3>2, InvParts DEF CallsHoldEntries
      <3> QED BY <3>1, <3>2, Zenon
    <2>2. ASSUME NEW q \in Proc, pc'[q] = "Transfer" PROVE fileLock'[loc'[q].sof] = q
      <3>1. q # p /\ pc[q] = "Transfer"
        BY <1>4, <2>2, Zenon
      <3>2. fileLock[loc[q].sof] = q /\ loc[q].sof \in SofIndex
        BY <3>1, InvParts, Zenon DEF CallsHoldEntries, TypeOK
      <3>3. loc[q].sof # s0
        BY <1>2, <3>1, <3>2, Zenon
      <3> QED BY <1>4, <1>6, <3>1, <3>2, <3>3, Zenon
    <2>3. ASSUME NEW s \in SofIndex, fileLock'[s] # NULL
          PROVE  /\ loc'[fileLock'[s]].sof = s
                 /\ \/ pc'[fileLock'[s]] = "Transfer"
                    \/ pc'[fileLock'[s]] = "gone" /\ setting'.rs
      <3>1. s # s0 /\ fileLock'[s] = fileLock[s]
        BY <1>6, <2>3, Zenon
      <3>2. /\ fileLock[s] \in Proc /\ loc[fileLock[s]].sof = s
            /\ pc[fileLock[s]] = "Transfer" \/ (pc[fileLock[s]] = "gone" /\ setting.rs)
        BY <2>3, <3>1, InvParts DEF CallsHoldEntries, TypeOK
      <3>3. fileLock[s] # p
        BY <3>1, <3>2, Zenon
      <3> QED BY <1>1, <1>4, <3>1, <3>2, <3>3, Zenon
    <2> QED BY <2>1, <2>2, <2>3, Zenon DEF CallsHoldEntries
  <1>10. OpenFilesExist'
    <2>1. \A g \in FileName : files[g] # NULL => files'[g] # NULL
      BY OpenFilesAssumption, Zenon DEF Transfers
    <2>2. \A s \in SofIndex : sofArray[s] # NULL => sofArray[s].filename \in FileName
      BY InvParts, Zenon DEF TypeOK, SOF
    <2> QED BY <1>1, <2>1, <2>2, InvParts, Zenon DEF OpenFilesExist
  <1>11. OneSOFPerFile' /\ CounterIsReferences'
    BY <1>1, InvParts, CountersKept, Zenon
  <1>12. OffsetInFile'
    <2>1. SUFFICES ASSUME ~setting.truncate PROVE OffsetInFile'
      BY <1>1, Zenon DEF OffsetInFile
    <2>2. ASSUME NEW g \in FileName, files[g] # NULL, NEW k \in Nat, k <= Len(files[g])
          PROVE  k <= Len(files'[g])
      <3>1. CASE g = f
        <4>1. Len(files'[f]) >= Len(files[f])
          BY Zenon DEF Transfers
        <4> QED BY <1>3, <2>2, <3>1, <4>1, SMTT(60)
      <3>2. CASE g # f
        <4>1. files'[g] = files[g]
          BY <3>2, Zenon DEF Transfers
        <4> QED BY <2>2, <4>1, Zenon
      <3> QED BY <3>1, <3>2, Zenon
    <2>3. ASSUME NEW q \in Proc, NEW i \in PofIndex, pofArray[q][i] # NULL
          PROVE  pofArray[q][i].offset <= Len(files'[pofArray[q][i].filename])
      <3>1. /\ pofArray[q][i].filename \in FileName /\ pofArray[q][i].offset \in Nat
            /\ files[pofArray[q][i].filename] # NULL
        BY <2>3, EntryFile, OpenFilesAssumption, SMTT(60) DEF POF
      <3>2. pofArray[q][i].offset <= Len(files[pofArray[q][i].filename])
        BY <2>1, <2>3, InvParts, Zenon DEF OffsetInFile
      <3> QED BY <2>2, <3>1, <3>2, Zenon
    <2>4. ASSUME NEW q \in Proc, pc'[q] = "SetOffset"
          PROVE  loc'[q].offset + loc'[q].moved
                    <= Len(files'[pofArray[q][loc'[q].pof].filename])
      <3>1. CASE q = p
        <4>1. loc[p].offset <= Len(files[f])
          BY <1>2, <1>3, <2>1, InvParts, Zenon DEF OffsetInFile
        <4>2. loc[p].offset + n <= Len(files'[f])
          BY <4>1, Zenon DEF Transfers
        <4> QED BY <1>3, <1>5, <3>1, <4>2, Zenon
      <3>2. CASE q # p
        <4>1. /\ pc[q] = "SetOffset" /\ loc'[q] = loc[q]
              /\ loc[q].pof \in PofIndex /\ pofArray[q][loc[q].pof] # NULL
              /\ loc[q].offset \in Nat /\ loc[q].moved \in Nat
          BY <1>4, <2>4, <3>2, InvParts, SMTT(60) DEF CallsHoldEntries, TypeOK
        <4>2. loc[q].offset + loc[q].moved <= Len(files[pofArray[q][loc[q].pof].filename])
          BY <2>1, <4>1, InvParts, Zenon DEF OffsetInFile
        <4>3. PICK end \in Nat : end = loc[q].offset + loc[q].moved
          BY <4>1, SMTT(60)
        <4>4. PICK g \in FileName : g = pofArray[q][loc[q].pof].filename /\ files[g] # NULL
          BY <4>1, EntryFile, OpenFilesAssumption, Zenon
        <4>5. end <= Len(files'[g])
          BY <2>2, <4>2, <4>3, <4>4, Zenon
        <4> QED BY <4>1, <4>3, <4>4, <4>5, Zenon
      <3> QED BY <3>1, <3>2, Zenon
    <2> QED BY <1>1, <2>3, <2>4, Zenon DEF OffsetInFile
  <1> QED BY <1>7, <1>8, <1>9, <1>10, <1>11, <1>12, Zenon DEF Inv, Tables

\* The stub's WriteAt: the file ends where it did, or where the written bytes do.
LEMMA WriteAtLength ==
    ASSUME NEW content \in Contents, NEW from \in Contents, NEW position \in Nat
    PROVE  /\ WriteAt(content, from, position) \in Contents
           /\ Len(WriteAt(content, from, position)) >= Len(content)
           /\ Len(WriteAt(content, from, position)) >= position + Len(from)
           /\ Len(from) \in Nat
  <1> DEFINE B == Byte \cup {0}
             m == Max({Len(content), position + Len(from)})
             w == WriteAt(content, from, position)
  <1>1. /\ Len(content) \in Nat /\ content \in [1..Len(content) -> B]
        /\ Len(from) \in Nat /\ from \in [1..Len(from) -> B]
    BY DEF Contents
  <1>2. m \in Nat /\ m >= Len(content) /\ m >= position + Len(from)
    <2>1. CASE Len(content) >= position + Len(from)
      BY <1>1, <2>1 DEF Max
    <2>2. CASE ~(Len(content) >= position + Len(from))
      BY <1>1, <2>2 DEF Max
    <2> QED BY <2>1, <2>2, Zenon
  <1> HIDE DEF m
  <1>3. w \in [1..m -> B]
    <2>1. w = [i \in 1..m |-> IF i > position /\ i <= position + Len(from)
                              THEN from[i - position]
                              ELSE IF i <= Len(content) THEN content[i] ELSE 0]
      BY Zenon DEF WriteAt, m
    <2>2. \A i \in 1..m : (IF i > position /\ i <= position + Len(from)
                           THEN from[i - position]
                           ELSE IF i <= Len(content) THEN content[i] ELSE 0) \in B
      BY <1>1, <1>2
    <2> QED BY <2>1, <2>2, Zenon
  <1> HIDE DEF w, B
  <1>4. w \in Seq(B)
    BY <1>2, <1>3
  <1>5. Len(w) = m
    BY <1>2, <1>3, <1>4
  <1> QED BY <1>1, <1>2, <1>4, <1>5, Zenon DEF w, B, Contents

\* The stub's ReadAt gives no bytes from behind the end.
LEMMA ReadAtLength ==
    ASSUME NEW content \in Contents, NEW n \in Nat, NEW position \in Nat
    PROVE  /\ Len(ReadAt(content, n, position)) \in Nat
           /\ position <= Len(content)
                => position + Len(ReadAt(content, n, position)) <= Len(content)
  <1> DEFINE m == Min({position + n, Len(content)})
  <1>1. Len(content) \in Nat /\ \A i \in 1..Len(content) : content[i] \in Byte \cup {0}
    BY DEF Contents
  <1>2. m \in Nat /\ m <= Len(content) /\ m <= position + n
    <2>1. CASE Len(content) >= position + n
      BY <1>1, <2>1 DEF Min
    <2>2. CASE ~(Len(content) >= position + n)
      BY <1>1, <2>2 DEF Min
    <2> QED BY <2>1, <2>2, Zenon
  <1> HIDE DEF m
  <1>3. \A i \in (position + 1)..m : content[i] \in Byte \cup {0}
    BY <1>1, <1>2
  <1>4. position + 1 \in Int /\ m \in Int
    BY <1>2
  <1>5. Len(SubSeq(content, position + 1, m))
            = IF position + 1 <= m THEN m - (position + 1) + 1 ELSE 0
    BY <1>3, <1>4
  <1>6. ReadAt(content, n, position) = SubSeq(content, position + 1, m)
    BY Zenon DEF ReadAt, m
  <1> QED BY <1>1, <1>2, <1>5, <1>6

\* What a transfer works on.
LEMMA TransferFile ==
    ASSUME Inv, NEW p \in Proc, pc[p] = "Transfer"
    PROVE  /\ sofArray[loc[p].sof].filename \in FileName
           /\ files[sofArray[loc[p].sof].filename] \in Contents
           /\ loc[p].offset \in Nat /\ loc[p].data \in Contents
  <1>1. /\ loc[p].sof \in SofIndex /\ loc[p].pof \in PofIndex
        /\ pofArray[p][loc[p].pof] # NULL /\ pofArray[p][loc[p].pof].sofIndex = loc[p].sof
        /\ loc[p].offset \in Nat /\ loc[p].data \in Contents
    BY InvParts, Zenon DEF TypeOK, CallsHoldEntries
  <1> QED BY <1>1, EntryFile

LEMMA SOFWriteInv ==
    ASSUME Inv, NEW p \in Proc, SOFWrite(p), UNCHANGED setting
    PROVE  Inv'
  <1>1. pc[p] = "Transfer" /\ Released(p, Len(loc[p].data))
    BY Zenon DEF SOFWrite, At
  <1>2. PICK f \in FileName : f = sofArray[loc[p].sof].filename
    BY <1>1, TransferFile, Zenon
  <1>3. files[f] \in Contents /\ loc[p].offset \in Nat /\ loc[p].data \in Contents
    BY <1>1, <1>2, TransferFile, Zenon
  <1>4. files' = [files EXCEPT ![f] = WriteAt(files[f], loc[p].data, loc[p].offset)]
    BY <1>2, Zenon DEF SOFWrite
  <1>5. PICK w \in Contents : w = WriteAt(files[f], loc[p].data, loc[p].offset)
    BY <1>3, WriteAtLength, Zenon
  <1>6. PICK n \in Nat : n = Len(loc[p].data)
    BY <1>3, WriteAtLength, Zenon
  <1>7. Len(w) >= Len(files[f]) /\ Len(w) >= loc[p].offset + n
    BY <1>3, <1>5, <1>6, WriteAtLength, Zenon
  <1>8. /\ files' \in [FileName -> Contents \cup {NULL}] /\ files'[f] = w
        /\ \A g \in FileName : g # f => files'[g] = files[g]
    BY <1>4, <1>5, InvParts, Zenon DEF TypeOK
  <1>9. Len(w) \in Nat /\ loc[p].offset + n <= Len(w)
    BY <1>3, <1>7 DEF Contents
  <1>10. Released(p, n)
    BY <1>1, <1>6, Zenon
  <1>11. Transfers(p, n, f)
    BY <1>1, <1>2, <1>7, <1>8, <1>9, <1>10, Zenon DEF Transfers
  <1> QED BY <1>11, TransfersInv, Zenon

LEMMA SOFReadInv ==
    ASSUME Inv, NEW p \in Proc, SOFRead(p), UNCHANGED setting
    PROVE  Inv'
  <1>1. pc[p] = "Transfer" /\ UNCHANGED files
    BY Zenon DEF SOFRead, At
  <1>2. PICK f \in FileName : f = sofArray[loc[p].sof].filename
    BY <1>1, TransferFile, Zenon
  <1>3. /\ files[f] \in Contents /\ loc[p].offset \in Nat /\ Len(files[f]) \in Nat
        /\ Len(loc[p].data) \in Nat
    BY <1>1, <1>2, TransferFile DEF Contents
  <1>4. PICK n \in Nat : n = Len(ReadAt(files[f], Len(loc[p].data), loc[p].offset))
    BY <1>3, ReadAtLength, Zenon
  <1>5. Released(p, n)
    BY <1>2, <1>4, Zenon DEF SOFRead
  <1>6. loc[p].offset <= Len(files[f]) => loc[p].offset + n <= Len(files'[f])
    BY <1>1, <1>3, <1>4, ReadAtLength, Zenon
  <1>7. files' \in [FileName -> Contents \cup {NULL}]
    BY <1>1, InvParts, Zenon DEF TypeOK
  <1>8. Transfers(p, n, f)
    BY <1>1, <1>2, <1>3, <1>5, <1>6, <1>7 DEF Transfers
  <1> QED BY <1>8, TransfersInv, Zenon

\* POF::SetPOFoffset ends a Read or Write.
LEMMA SetPOFoffsetInv ==
    ASSUME Inv, NEW p \in Proc, SetPOFoffset(p), UNCHANGED setting
    PROVE  Inv'
  <1>1. /\ UNCHANGED <<setting, files, descriptors, sofArray, fileLock, woken>>
        /\ pc[p] = "SetOffset" /\ pc' = [pc EXCEPT ![p] = "User"]
        /\ loc' = [loc EXCEPT ![p] = NoCall]
    BY Zenon DEF SetPOFoffset, At, Goto
  <1>2. PICK i \in PofIndex : i = loc[p].pof
    BY InvParts, Zenon DEF TypeOK
  <1>3. PICK n \in Nat : n = loc[p].offset + loc[p].moved
    BY InvParts DEF TypeOK
  <1>4. PICK e \in POF : e = pofArray[p][i]
    <2>1. pofArray[p][i] # NULL
      BY <1>1, <1>2, InvParts, Zenon DEF CallsHoldEntries
    <2> QED BY <2>1, EntryFile, Zenon
  <1>5. PICK e1 \in POF : /\ e1 = [e EXCEPT !.offset = n]
                          /\ e1.filename = e.filename /\ e1.sofIndex = e.sofIndex
                          /\ e1.offset = n
    <2>1. [e EXCEPT !.offset = n] \in POF
      BY Zenon DEF POF
    <2>2. /\ [e EXCEPT !.offset = n].filename = e.filename
          /\ [e EXCEPT !.offset = n].sofIndex = e.sofIndex
          /\ [e EXCEPT !.offset = n].offset = n
      BY Zenon DEF POF
    <2> QED BY <2>1, <2>2, Zenon
  <1>6. pofArray' = [pofArray EXCEPT ![p][i] = e1]
    <2>1. pofArray' = [pofArray EXCEPT ![p][i].offset = n]
      BY <1>2, <1>3, Zenon DEF SetPOFoffset, Advanced
    <2> QED BY <1>4, <1>5, <2>1, Zenon
  <1>7. \A q \in Proc, j \in PofIndex :
           pofArray'[q][j] = IF q = p /\ j = i THEN e1 ELSE pofArray[q][j]
    BY <1>6, InvParts, Zenon DEF TypeOK
  <1>8. e # NULL /\ e1 # NULL
    BY OpenFilesAssumption, Zenon
  <1>9. /\ \A q \in Proc : q # p => pc'[q] = pc[q] /\ loc'[q] = loc[q]
        /\ pc'[p] = "User"
    BY <1>1, InvParts, Zenon DEF TypeOK
  <1>10. TypeOK'
    <2>1. pofArray' \in [Proc -> [PofIndex -> POF \cup {NULL}]]
      BY <1>6, InvParts, Zenon DEF TypeOK
    <2>2. NoCall \in [op : {"none", "Read", "Write"}, pof : PofIndex, sof : SofIndex,
                      offset : Nat, data : Contents, moved : Nat]
      <3>1. 0 \in PofIndex /\ 0 \in SofIndex
        BY OpenFilesAssumption, SMTT(60) DEF PofIndex, SofIndex
      <3> QED BY <3>1 DEF NoCall, Contents
    <2> QED BY <1>1, <2>1, <2>2, InvParts, Zenon DEF TypeOK
  <1>11. NoDanglingPOF'
    <2>1. ASSUME NEW q \in Proc, NEW j \in PofIndex, pofArray'[q][j] # NULL
          PROVE  /\ pofArray[q][j] # NULL
                 /\ pofArray'[q][j].sofIndex = pofArray[q][j].sofIndex
                 /\ pofArray'[q][j].filename = pofArray[q][j].filename
      BY <1>4, <1>5, <1>7, <1>8, <2>1, ZenonT(60)
    <2> QED BY <1>1, <2>1, InvParts DEF NoDanglingPOF
  <1>12. CallsHoldEntries'
    <2>1. ASSUME NEW q \in Proc, pc'[q] \in {"Wait", "Transfer", "SetOffset"}
          PROVE  LET r == pofArray'[q][loc'[q].pof]
                 IN  r # NULL /\ r.sofIndex = loc'[q].sof /\ r.offset = loc'[q].offset
      <3>1. q # p /\ pc[q] = pc'[q] /\ loc'[q] = loc[q] /\ loc[q].pof \in PofIndex
        BY <1>9, <2>1, InvParts, Zenon DEF TypeOK
      <3>2. pofArray'[q][loc[q].pof] = pofArray[q][loc[q].pof]
        BY <1>7, <3>1, Zenon
      <3> QED BY <2>1, <3>1, <3>2, InvParts, SMTT(60) DEF CallsHoldEntries
    <2>2. ASSUME NEW q \in Proc, pc'[q] = "Transfer" PROVE fileLock'[loc'[q].sof] = q
      BY <1>1, <1>9, <2>2, InvParts, SMTT(60) DEF CallsHoldEntries
    <2>3. ASSUME NEW s \in SofIndex, fileLock'[s] # NULL
          PROVE  /\ loc'[fileLock'[s]].sof = s
                 /\ \/ pc'[fileLock'[s]] = "Transfer"
                    \/ pc'[fileLock'[s]] = "gone" /\ setting'.rs
      <3>1. /\ fileLock[s] \in Proc /\ loc[fileLock[s]].sof = s
            /\ pc[fileLock[s]] = "Transfer" \/ (pc[fileLock[s]] = "gone" /\ setting.rs)
        BY <1>1, <2>3, InvParts, SMTT(60) DEF CallsHoldEntries, TypeOK
      <3> QED BY <1>1, <1>9, <3>1, Zenon
    <2> QED BY <2>1, <2>2, <2>3, Zenon DEF CallsHoldEntries
  <1>13. OpenFilesExist'
    BY <1>1, InvParts, Zenon DEF OpenFilesExist
  <1>14. OneSOFPerFile' /\ CounterIsReferences'
    <2>1. \A q \in Proc, j \in PofIndex :
             /\ pofArray'[q][j] = NULL <=> pofArray[q][j] = NULL
             /\ pofArray[q][j] # NULL => pofArray'[q][j].sofIndex = pofArray[q][j].sofIndex
      BY <1>4, <1>5, <1>7, <1>8, ZenonT(60)
    <2> QED BY <1>1, <2>1, InvParts, CountersKept, Zenon
  <1>15. OffsetInFile'
    <2>1. SUFFICES ASSUME ~setting.truncate PROVE OffsetInFile'
      BY <1>1, Zenon DEF OffsetInFile
    <2>2. n <= Len(files[e.filename])
      BY <1>1, <1>2, <1>3, <1>4, <2>1, InvParts, Zenon DEF OffsetInFile
    <2>3. ASSUME NEW q \in Proc, NEW j \in PofIndex, pofArray'[q][j] # NULL
          PROVE  pofArray'[q][j].offset <= Len(files[pofArray'[q][j].filename])
      <3>1. CASE q = p /\ j = i
        BY <1>5, <1>7, <2>2, <3>1, ZenonT(60)
      <3>2. CASE ~(q = p /\ j = i)
        BY <1>7, <2>1, <2>3, <3>2, InvParts, Zenon DEF OffsetInFile
      <3> QED BY <3>1, <3>2, Zenon
    <2>4. ASSUME NEW q \in Proc, pc'[q] = "SetOffset"
          PROVE  loc'[q].offset + loc'[q].moved
                    <= Len(files[pofArray'[q][loc'[q].pof].filename])
      <3>1. /\ q # p /\ pc[q] = "SetOffset" /\ loc'[q] = loc[q] /\ loc[q].pof \in PofIndex
        BY <1>9, <2>4, InvParts, Zenon DEF TypeOK
      <3>2. pofArray'[q][loc[q].pof] = pofArray[q][loc[q].pof]
        BY <1>7, <3>1, Zenon
      <3> QED BY <2>1, <3>1, <3>2, InvParts, Zenon DEF OffsetInFile
    <2> QED BY <1>1, <2>3, <2>4, ZenonT(60) DEF OffsetInFile
  <1> QED BY <1>10, <1>11, <1>12, <1>13, <1>14, <1>15, Zenon DEF Inv, Tables

-----------------------------------------------------------------------------
(***************************************************************************)
(* Open and close.                                                         *)
(***************************************************************************)
\* What opening and closing by a process outside Read and Write, and the end of a process
\* anywhere, do to the tables.  Others are left alone.
OthersKept(p) ==
    /\ pc'[p] = pc[p] \/ pc'[p] = "gone"
    /\ pc[p] = "User" \/ (pc'[p] = "gone" /\ setting.rs)
    /\ \A q \in Proc : q # p => pofArray'[q] = pofArray[q] /\ pc'[q] = pc[q]

\* Its own entries stay, go, or are new with offset 0.
EntriesKeptOrNew(p) ==
    \A i \in PofIndex : pofArray'[p][i] # NULL =>
        \/ pofArray'[p][i] = pofArray[p][i]
        \/ LET e == pofArray'[p][i]
           IN  e.offset = 0 /\ sofArray'[e.sofIndex].filename = e.filename

\* A system entry goes with its last reference.
SOFsReferenced ==
    \A s \in SofIndex : sofArray'[s] = NULL =>
        \A q \in Proc : \A i \in PofIndex :
            pofArray'[q][i] # NULL => pofArray'[q][i].sofIndex # s

\* It keeps its file, and is new only for a file that exists and has none.
SOFsKeptOrNew ==
    \A s \in SofIndex : sofArray'[s] # NULL =>
        IF sofArray[s] # NULL THEN sofArray'[s].filename = sofArray[s].filename
        ELSE /\ files[sofArray'[s].filename] # NULL
             /\ \A t \in SofIndex :
                  /\ sofArray[t] # NULL => sofArray[t].filename # sofArray'[s].filename
                  /\ sofArray[t] = NULL /\ sofArray'[t] # NULL => s = t

\* Then the tables agree again.
LEMMA TablesInv ==
    ASSUME Inv, NEW p \in Proc, TypeOK', UNCHANGED <<setting, files, loc>>,
           fileLock' = LocksOf(sofArray'), OthersKept(p), EntriesKeptOrNew(p), SOFsReferenced, SOFsKeptOrNew
    PROVE  Tables' /\ OffsetInFile'
  <1>1. NoDanglingPOF'
    <2>1. ASSUME NEW q \in Proc, NEW i \in PofIndex, pofArray'[q][i] # NULL
          PROVE  LET s == pofArray'[q][i].sofIndex
                 IN  s \in sofMap' /\ sofArray'[s].filename = pofArray'[q][i].filename
      <3>1. pofArray'[q][i].sofIndex \in SofIndex
        BY <2>1 DEF TypeOK, POF
      <3>2. sofArray'[pofArray'[q][i].sofIndex] # NULL
        BY <2>1, <3>1, Zenon DEF SOFsReferenced
      <3>3. CASE pofArray'[q][i] = pofArray[q][i]
        <4>1. /\ sofArray[pofArray'[q][i].sofIndex] # NULL
              /\ sofArray[pofArray'[q][i].sofIndex].filename = pofArray'[q][i].filename
          BY <2>1, <3>3, EntryFile, Zenon
        <4> QED BY <3>1, <3>2, <4>1, Zenon DEF SOFsKeptOrNew
      <3>4. CASE pofArray'[q][i] # pofArray[q][i]
        <4>1. q = p
          BY <3>4, Zenon DEF OthersKept
        <4> QED BY <2>1, <3>1, <3>2, <3>4, <4>1, Zenon DEF EntriesKeptOrNew
      <3> QED BY <3>3, <3>4, Zenon
    <2>2. ASSUME NEW s \in SofIndex, fileLock'[s] # NULL PROVE sofArray'[s] # NULL
      BY <2>2, Zenon DEF LocksOf
    <2> QED BY <2>1, <2>2, Zenon DEF NoDanglingPOF
  <1>2. CallsHoldEntries'
    <2>1. ASSUME NEW q \in Proc, pc'[q] \in {"Wait", "Transfer", "SetOffset"}
          PROVE  pc[q] = pc'[q] /\ loc'[q] = loc[q] /\ pofArray'[q] = pofArray[q]
      <3>1. q # p
        BY <2>1, Zenon DEF OthersKept
      <3> QED BY <3>1, Zenon DEF OthersKept
    <2>2. ASSUME NEW s \in SofIndex, fileLock'[s] # NULL
          PROVE  /\ loc'[fileLock'[s]].sof = s
                 /\ \/ pc'[fileLock'[s]] = "Transfer"
                    \/ pc'[fileLock'[s]] = "gone" /\ setting'.rs
      <3>1. fileLock'[s] = fileLock[s] /\ fileLock[s] # NULL
        BY <2>2, Zenon DEF LocksOf
      <3>2. /\ fileLock[s] \in Proc /\ loc[fileLock[s]].sof = s
            /\ pc[fileLock[s]] = "Transfer" \/ (pc[fileLock[s]] = "gone" /\ setting.rs)
        BY <3>1, InvParts, SMTT(60) DEF CallsHoldEntries, TypeOK
      <3> QED BY <3>1, <3>2, Zenon DEF OthersKept
    <2>3. ASSUME NEW q \in Proc, pc'[q] \in {"Wait", "Transfer", "SetOffset"}
          PROVE  LET e == pofArray'[q][loc'[q].pof]
                 IN  e # NULL /\ e.sofIndex = loc'[q].sof /\ e.offset = loc'[q].offset
      BY <2>1, <2>3, InvParts DEF CallsHoldEntries
    <2>4. ASSUME NEW q \in Proc, pc'[q] = "Transfer" PROVE fileLock'[loc'[q].sof] = q
      <3>1. /\ pc[q] = "Transfer" /\ loc'[q] = loc[q] /\ pofArray'[q] = pofArray[q]
        BY <2>1, <2>4, Zenon
      <3>2. /\ fileLock[loc[q].sof] = q /\ loc[q].sof \in SofIndex
            /\ loc[q].pof \in PofIndex /\ pofArray[q][loc[q].pof] # NULL
            /\ pofArray[q][loc[q].pof].sofIndex = loc[q].sof
        BY <3>1, InvParts, Zenon DEF CallsHoldEntries, TypeOK
      <3>3. sofArray'[loc[q].sof] # NULL
        BY <3>1, <3>2, Zenon DEF SOFsReferenced
      <3> QED BY <3>1, <3>2, <3>3, Zenon DEF LocksOf
    <2> QED BY <2>2, <2>3, <2>4, Zenon DEF CallsHoldEntries
  <1>3. OpenFilesExist'
    BY InvParts, Zenon DEF OpenFilesExist, SOFsKeptOrNew
  <1>4. OneSOFPerFile'
    BY InvParts, SMTT(60) DEF OneSOFPerFile, SOFsKeptOrNew
  <1>5. OffsetInFile'
    <2>1. SUFFICES ASSUME ~setting.truncate PROVE OffsetInFile'
      BY Zenon DEF OffsetInFile
    <2>2. ASSUME NEW q \in Proc, NEW i \in PofIndex, pofArray'[q][i] # NULL
          PROVE  pofArray'[q][i].offset <= Len(files[pofArray'[q][i].filename])
      <3>1. CASE pofArray'[q][i] = pofArray[q][i]
        BY <2>1, <2>2, <3>1, InvParts, Zenon DEF OffsetInFile
      <3>2. CASE pofArray'[q][i] # pofArray[q][i]
        <4>1. q = p
          BY <3>2, Zenon DEF OthersKept
        <4>2. pofArray'[q][i].offset = 0
          BY <2>2, <3>2, <4>1, Zenon DEF EntriesKeptOrNew
        <4>3. /\ pofArray'[q][i].sofIndex \in SofIndex /\ pofArray'[q][i].filename \in FileName
          BY <2>2 DEF TypeOK, POF
        <4>4. files[pofArray'[q][i].filename] # NULL
          BY <1>1, <1>3, <2>2, <4>3, Zenon DEF OpenFilesExist, NoDanglingPOF
        <4>5. files[pofArray'[q][i].filename] \in Contents
          BY <4>3, <4>4, InvParts, Zenon DEF TypeOK
        <4>6. Len(files[pofArray'[q][i].filename]) \in Nat
          BY <4>5, SMTT(60) DEF Contents
        <4> QED BY <4>2, <4>6
      <3> QED BY <3>1, <3>2, Zenon
    <2>3. ASSUME NEW q \in Proc, pc'[q] = "SetOffset"
          PROVE  loc'[q].offset + loc'[q].moved
                    <= Len(files[pofArray'[q][loc'[q].pof].filename])
      <3>1. pc[q] = "SetOffset" /\ loc'[q] = loc[q] /\ pofArray'[q] = pofArray[q]
        <4>1. q # p
          BY <2>3, Zenon DEF OthersKept
        <4> QED BY <2>3, <4>1, Zenon DEF OthersKept
      <3> QED BY <2>1, <3>1, InvParts, Zenon DEF OffsetInFile
    <2> QED BY <2>2, <2>3, Zenon DEF OffsetInFile
  <1> QED BY <1>1, <1>2, <1>3, <1>4, <1>5, Zenon DEF Tables

\* Counters that stay right: every system entry keeps a counter between its references and
\* what it was, moved by as much as they did.
LEMMA CountersInv ==
    ASSUME UNCHANGED setting,
           \A s \in SofIndex : sofArray'[s] # NULL =>
              /\ sofArray'[s].counter >= Cardinality(References(s)')
              /\ sofArray'[s].counter > 0
              /\ setting.once /\ setting.longer = {} => sofArray'[s].counter = Cardinality(References(s)')
    PROVE  CounterIsReferences'
  BY Zenon DEF CounterIsReferences

\* The locks that stay, and they all stay when no system entry is deleted.
LEMMA LocksType ==
    ASSUME TypeOK, fileLock' = LocksOf(sofArray')
    PROVE  fileLock' \in [SofIndex -> Proc \cup {NULL}]
  <1>1. \A s \in SofIndex : fileLock[s] \in Proc \cup {NULL}
    BY Zenon DEF TypeOK
  <1> QED BY <1>1, Zenon DEF LocksOf

LEMMA LocksStay ==
    ASSUME Inv, \A s \in SofIndex : sofArray'[s] = NULL => sofArray[s] = NULL
    PROVE  fileLock = LocksOf(sofArray')
  <1>1. \A s \in SofIndex : sofArray'[s] = NULL => fileLock[s] = NULL
    BY InvParts, Zenon DEF NoDanglingPOF
  <1>2. fileLock = [s \in SofIndex |-> fileLock[s]]
    BY InvParts, Zenon DEF TypeOK
  <1>3. \A s \in SofIndex :
           fileLock[s] = IF sofArray'[s] = NULL THEN NULL ELSE fileLock[s]
    BY <1>1, Zenon
  <1> QED BY <1>2, <1>3, Zenon DEF LocksOf

\* Close: SOFMgr::RemoveSOF and PCB::RemovePOF.
ClosesEntry(p, i) ==
    /\ pc[p] = "User" /\ pofArray[p][i] # NULL
    /\ sofArray' = RemoveSOF(sofArray, pofArray[p][i].sofIndex, 1)
    /\ pofArray' = RemovePOF(p, i)

LEMMA CloseEntryInv ==
    ASSUME Inv, NEW p \in Proc, NEW i \in PofIndex, ClosesEntry(p, i),
           fileLock' = LocksOf(sofArray'),
           UNCHANGED <<setting, files, descriptors, woken, pc, loc>>
    PROVE  Inv'
  <1>1. PICK s0 \in SofIndex : s0 = pofArray[p][i].sofIndex
    BY EntryFile, Zenon DEF ClosesEntry
  <1>2. sofArray[s0] # NULL /\ sofArray[s0] \in SOF
    BY <1>1, EntryFile, Zenon DEF ClosesEntry
  <1>3. PICK c \in Nat : c = sofArray[s0].counter
    BY <1>2, Zenon DEF SOF
  <1>4. /\ c >= Cardinality(References(s0)) /\ c > 0
        /\ setting.once /\ setting.longer = {} => c = Cardinality(References(s0))
    BY <1>2, <1>3, InvParts, Zenon DEF CounterIsReferences
  <1>5. \A s : Cardinality(References(s)) \in Nat
    BY FiniteReferences, Zenon
  <1>6. pofArray' = [pofArray EXCEPT ![p][i] = NULL]
    BY Zenon DEF ClosesEntry, RemovePOF
  <1>7. \A q \in Proc, j \in PofIndex :
           pofArray'[q][j] = IF q = p /\ j = i THEN NULL ELSE pofArray[q][j]
    BY <1>6, InvParts, Zenon DEF TypeOK
  <1>8. /\ Cardinality(References(s0)') = Cardinality(References(s0)) - 1
        /\ Cardinality(References(s0)) > 0
    BY <1>1, <1>6, InvParts, OneReferenceLess, Zenon DEF ClosesEntry
  <1>9. \A s \in SofIndex : s # s0 => References(s)' = References(s)
    BY <1>1, <1>6, InvParts, OneReferenceLess, ZenonT(60) DEF ClosesEntry
  <1>10. sofArray' = IF 1 >= c THEN [sofArray EXCEPT ![s0] = NULL]
                     ELSE [sofArray EXCEPT ![s0] = [sofArray[s0] EXCEPT !.counter = c - 1]]
    <2>1. sofArray' = RemoveSOF(sofArray, s0, 1)
      BY <1>1, Zenon DEF ClosesEntry
    <2> QED BY <1>2, <1>3, <2>1, Zenon DEF RemoveSOF
  <1>11. /\ \A s \in SofIndex : s # s0 => sofArray'[s] = sofArray[s]
         /\ 1 >= c => sofArray'[s0] = NULL
         /\ ~(1 >= c) => /\ sofArray'[s0] \in SOF /\ sofArray'[s0].counter = c - 1
                         /\ sofArray'[s0].filename = sofArray[s0].filename
    <2>1. DOMAIN sofArray = SofIndex
      BY InvParts, Zenon DEF TypeOK
    <2>2. ~(1 >= c) => /\ [sofArray[s0] EXCEPT !.counter = c - 1] \in SOF
                       /\ [sofArray[s0] EXCEPT !.counter = c - 1].counter = c - 1
                       /\ [sofArray[s0] EXCEPT !.counter = c - 1].filename
                             = sofArray[s0].filename
      BY <1>2 DEF SOF
    <2> QED BY <1>10, <2>1, <2>2, Zenon
  <1>12. TypeOK'
    <2>1. sofArray' \in [SofIndex -> SOF \cup {NULL}]
      <3>1. ~(1 >= c) => [sofArray[s0] EXCEPT !.counter = c - 1] \in SOF
        BY <1>2, <1>3 DEF SOF
      <3> QED BY <1>10, <3>1, InvParts, Zenon DEF TypeOK
    <2>2. pofArray' \in [Proc -> [PofIndex -> POF \cup {NULL}]]
      BY <1>6, InvParts, Zenon DEF TypeOK
    <2>3. fileLock' \in [SofIndex -> Proc \cup {NULL}]
      BY InvParts, LocksType, Zenon
    <2> QED BY <2>1, <2>2, <2>3, InvParts, Zenon DEF TypeOK
  <1>13. CounterIsReferences'
    <2>1. ASSUME NEW s \in SofIndex, sofArray'[s] # NULL
          PROVE  /\ sofArray'[s].counter >= Cardinality(References(s)')
                 /\ sofArray'[s].counter > 0
                 /\ setting.once /\ setting.longer = {} => sofArray'[s].counter = Cardinality(References(s)')
      <3>1. CASE s = s0
        <4>1. ~(1 >= c) /\ sofArray'[s].counter = c - 1
          BY <1>11, <2>1, <3>1, Zenon
        <4> QED BY <1>4, <1>5, <1>8, <3>1, <4>1, SMTT(60)
      <3>2. CASE s # s0
        BY <1>9, <1>11, <2>1, <3>2, InvParts, Zenon DEF CounterIsReferences
      <3> QED BY <3>1, <3>2, Zenon
    <2> QED BY <2>1, CountersInv, Zenon
  <1>14. ASSUME NEW s \in SofIndex, sofArray'[s] = NULL,
                NEW q \in Proc, NEW j \in PofIndex, pofArray'[q][j] # NULL
         PROVE  pofArray'[q][j].sofIndex # s
    <2>1. SUFFICES ASSUME pofArray'[q][j].sofIndex = s PROVE FALSE
      BY Zenon
    <2>2. <<q, j>> \in References(s)'
      BY <1>14, <2>1, Zenon DEF References
    <2>3. pofArray[q][j] # NULL /\ pofArray[q][j].sofIndex = s
      BY <1>7, <1>14, <2>1, Zenon
    <2>4. s = s0 /\ 1 >= c
      <3>1. sofArray[s] # NULL
        BY <2>3, EntryFile, Zenon
      <3>2. s = s0
        BY <1>11, <1>14, <3>1, Zenon
      <3> QED BY <1>11, <1>14, <3>2, OpenFilesAssumption, Zenon
    <2>5. Cardinality(References(s)') = 0
      BY <1>4, <1>5, <1>8, <2>4
    <2>6. IsFiniteSet(References(s)')
      <3>1. References(s)' \in SUBSET (Proc \X PofIndex)
        BY Zenon DEF References
      <3> QED BY <3>1, Indexes, FS_Subset, Zenon
    <2> QED BY <2>2, <2>5, <2>6, FS_EmptySet, Zenon
  <1>15. OthersKept(p)
    BY <1>6, InvParts, Zenon DEF TypeOK, OthersKept, ClosesEntry
  <1>16. EntriesKeptOrNew(p) /\ SOFsReferenced
    BY <1>7, <1>14, Zenon DEF EntriesKeptOrNew, SOFsReferenced
  <1>17. SOFsKeptOrNew
    BY <1>2, <1>11, Zenon DEF SOFsKeptOrNew
  <1>18. Tables' /\ OffsetInFile'
    BY <1>12, <1>15, <1>16, <1>17, TablesInv, Zenon
  <1> QED BY <1>13, <1>18, Zenon DEF Inv

\* The references after a step are finitely many.
LEMMA FiniteReferencesAfter ==
    ASSUME NEW s
    PROVE  /\ IsFiniteSet(References(s)') /\ Cardinality(References(s)') \in Nat
           /\ Cardinality(References(s)') = 0 => References(s)' = {}
  <1>1. References(s)' \in SUBSET (Proc \X PofIndex)
    BY Zenon DEF References
  <1>2. IsFiniteSet(References(s)')
    BY <1>1, Indexes, FS_Subset, Zenon
  <1> QED BY <1>2, FS_CardinalityType, FS_EmptySet, Zenon

\* PCB::~PCB closes every entry of the process.
LEMMA DeletePCBInv ==
    ASSUME Inv, NEW p \in Proc, DeletePCB(p), pc[p] = "User" \/ setting.rs,
           UNCHANGED setting
    PROVE  Inv'
  <1>1. /\ UNCHANGED <<setting, files, descriptors, loc>>
        /\ fileLock' = LocksOf(sofArray') /\ woken' = woken \ {p}
        /\ pc' = [pc EXCEPT ![p] = "gone"] /\ sofArray' = ClosedAll(p)
        /\ pofArray' = [pofArray EXCEPT ![p] = [i \in PofIndex |-> NULL]]
    BY Zenon DEF DeletePCB, Goto
  <1>2. \A q \in Proc, j \in PofIndex :
           pofArray'[q][j] = IF q = p THEN NULL ELSE pofArray[q][j]
    BY <1>1, InvParts, Zenon DEF TypeOK
  <1>3. ASSUME NEW s \in SofIndex
        PROVE  \E k \in Nat :
                 /\ Cardinality(References(s)') = Cardinality(References(s)) - k
                 /\ sofArray'[s] = IF k = 0 THEN sofArray[s]
                                   ELSE RemoveSOF(sofArray, s, k)[s]
    <2> DEFINE mine == {i \in pofMap(p) : pofArray[p][i].sofIndex = s}
    <2>1. /\ Cardinality(mine) \in Nat
          /\ Cardinality(References(s)') = Cardinality(References(s)) - Cardinality(mine)
      BY <1>1, InvParts, ReferencesOfOthers, ZenonT(60)
    <2>2. sofArray'[s] = IF Cardinality(mine) = 0 THEN sofArray[s]
                         ELSE RemoveSOF(sofArray, s, Cardinality(mine))[s]
      BY <1>1, Zenon DEF ClosedAll
    <2> HIDE DEF mine
    <2> QED BY <2>1, <2>2, Zenon
  <1>4. ASSUME NEW s \in SofIndex
        PROVE  /\ sofArray'[s] \in SOF \cup {NULL}
               /\ sofArray'[s] # NULL =>
                     /\ sofArray[s] # NULL
                     /\ sofArray'[s].filename = sofArray[s].filename
                     /\ sofArray'[s].counter >= Cardinality(References(s)')
                     /\ sofArray'[s].counter > 0
                     /\ setting.once /\ setting.longer = {} => sofArray'[s].counter = Cardinality(References(s)')
               /\ sofArray'[s] = NULL /\ sofArray[s] # NULL => References(s)' = {}
    <2>1. PICK k \in Nat : /\ Cardinality(References(s)') = Cardinality(References(s)) - k
                           /\ sofArray'[s] = IF k = 0 THEN sofArray[s]
                                             ELSE RemoveSOF(sofArray, s, k)[s]
      BY <1>3, Zenon
    <2>2. /\ Cardinality(References(s)) \in Nat /\ Cardinality(References(s)') \in Nat
          /\ Cardinality(References(s)') = 0 => References(s)' = {}
      BY FiniteReferences, FiniteReferencesAfter, Zenon
    <2>3. CASE sofArray[s] = NULL
      BY <2>1, <2>3, Zenon DEF RemoveSOF
    <2>4. CASE sofArray[s] # NULL
      <3>1. sofArray[s] \in SOF /\ s \in DOMAIN sofArray
        BY <2>4, InvParts, Zenon DEF TypeOK
      <3>2. PICK c \in Nat : c = sofArray[s].counter
        BY <3>1, Zenon DEF SOF
      <3>3. /\ c >= Cardinality(References(s)) /\ c > 0
            /\ setting.once /\ setting.longer = {} => c = Cardinality(References(s))
        BY <2>4, <3>2, InvParts, Zenon DEF CounterIsReferences
      <3>4. CASE k = 0
        BY <2>1, <2>2, <2>4, <3>1, <3>2, <3>3, <3>4, SMTT(60)
      <3>5. CASE k # 0 /\ k >= c
        <4>1. sofArray'[s] = NULL
          BY <2>1, <2>4, <3>1, <3>2, <3>5, Zenon DEF RemoveSOF
        <4> QED BY <2>1, <2>2, <3>3, <3>5, <4>1, SMTT(60)
      <3>6. CASE k # 0 /\ ~(k >= c)
        <4>1. sofArray'[s] = [sofArray[s] EXCEPT !.counter = c - k]
          BY <2>1, <2>4, <3>1, <3>2, <3>6, Zenon DEF RemoveSOF
        <4>2. /\ sofArray'[s] \in SOF /\ sofArray'[s].filename = sofArray[s].filename
              /\ sofArray'[s].counter = c - k
          BY <3>1, <3>6, <4>1 DEF SOF
        <4>3. sofArray'[s] # NULL
          BY <4>2, OpenFilesAssumption, Zenon
        <4> QED BY <2>1, <2>2, <2>4, <3>3, <3>6, <4>2, <4>3, SMTT(60)
      <3> QED BY <3>4, <3>5, <3>6, Zenon
    <2> QED BY <2>3, <2>4, Zenon
  <1>5. TypeOK'
    <2>1. sofArray' \in [SofIndex -> SOF \cup {NULL}]
      <3>1. sofArray' = [s \in SofIndex |-> sofArray'[s]]
        BY <1>1, Zenon DEF ClosedAll
      <3> QED BY <1>4, <3>1, Zenon
    <2>2. pofArray' \in [Proc -> [PofIndex -> POF \cup {NULL}]]
      BY <1>1, InvParts, Zenon DEF TypeOK
    <2>3. fileLock' \in [SofIndex -> Proc \cup {NULL}]
      BY <1>1, InvParts, LocksType, Zenon
    <2> QED BY <1>1, <2>1, <2>2, <2>3, InvParts, Zenon DEF TypeOK
  <1>6. CounterIsReferences'
    BY <1>1, <1>4, CountersInv, Zenon
  <1>7. ASSUME NEW s \in SofIndex, sofArray'[s] = NULL,
               NEW q \in Proc, NEW j \in PofIndex, pofArray'[q][j] # NULL
        PROVE  pofArray'[q][j].sofIndex # s
    <2>1. SUFFICES ASSUME pofArray'[q][j].sofIndex = s PROVE FALSE
      BY Zenon
    <2>2. <<q, j>> \in References(s)'
      BY <1>7, <2>1, Zenon DEF References
    <2>3. pofArray[q][j] # NULL /\ pofArray[q][j].sofIndex = s
      BY <1>2, <1>7, <2>1, Zenon
    <2>4. sofArray[s] # NULL
      BY <2>3, EntryFile, Zenon
    <2> QED BY <1>4, <1>7, <2>2, <2>4, Zenon
  <1>8. OthersKept(p)
    BY <1>1, InvParts, Zenon DEF TypeOK, OthersKept
  <1>9. EntriesKeptOrNew(p) /\ SOFsReferenced
    BY <1>2, <1>7, Zenon DEF EntriesKeptOrNew, SOFsReferenced
  <1>10. SOFsKeptOrNew
    BY <1>4, Zenon DEF SOFsKeptOrNew
  <1>11. Tables' /\ OffsetInFile'
    BY <1>1, <1>5, <1>8, <1>9, <1>10, TablesInv, Zenon
  <1> QED BY <1>6, <1>11, Zenon DEF Inv

\* Open with a free entry in both tables: the process's entry i is new, and the system entry
\* s is new too or counts one more.
OpensEntry(p, f, s, i, c, r) ==
    /\ pc[p] = "User" /\ pofArray[p][i] = NULL
    /\ pofArray' = [pofArray EXCEPT ![p][i] = NewPOF(s, f)]
    /\ sofArray[s] # NULL => sofArray[s].filename = f
    /\ sofArray[s] = NULL =>
         files[f] # NULL
         /\ \A t \in SofIndex : sofArray[t] # NULL => sofArray[t].filename # f
    /\ c = IF sofArray[s] = NULL THEN 0 ELSE sofArray[s].counter
    /\ sofArray' = [sofArray EXCEPT ![s] = r]

LEMMA OpenEntryInv ==
    ASSUME Inv, NEW p \in Proc, NEW f \in FileName, NEW s \in SofIndex,
           NEW i \in PofIndex, NEW c \in Nat, NEW r \in SOF, OpensEntry(p, f, s, i, c, r),
           r.filename = f, r.counter = c + 1, descriptors' \in [FileName -> Nat],
           UNCHANGED <<setting, files, fileLock, woken, pc, loc>>
    PROVE  Inv'
  <1>2. PICK e \in POF : /\ e = NewPOF(s, f) /\ e.filename = f /\ e.sofIndex = s
                         /\ e.offset = 0
    <2>1. NewPOF(s, f) \in POF
      BY Zenon DEF POF, NewPOF
    <2>2. NewPOF(s, f).filename = f /\ NewPOF(s, f).sofIndex = s /\ NewPOF(s, f).offset = 0
      BY Zenon DEF NewPOF
    <2> QED BY <2>1, <2>2, Zenon
  <1>3. r # NULL /\ e # NULL
    BY OpenFilesAssumption, Zenon
  <1>4. \A q \in Proc, j \in PofIndex :
           pofArray'[q][j] = IF q = p /\ j = i THEN e ELSE pofArray[q][j]
    BY <1>2, InvParts, Zenon DEF TypeOK, OpensEntry
  <1>5. \A t \in SofIndex : sofArray'[t] = IF t = s THEN r ELSE sofArray[t]
    BY InvParts, Zenon DEF TypeOK, OpensEntry
  <1>6. TypeOK'
    <2>1. sofArray' \in [SofIndex -> SOF \cup {NULL}]
      BY InvParts, Zenon DEF TypeOK, OpensEntry
    <2>2. pofArray' \in [Proc -> [PofIndex -> POF \cup {NULL}]]
      BY <1>2, InvParts, Zenon DEF TypeOK, OpensEntry
    <2> QED BY <2>1, <2>2, InvParts, Zenon DEF TypeOK
  <1>7. /\ Cardinality(References(s)') = Cardinality(References(s)) + 1
        /\ \A t : t # s => References(t)' = References(t)
    <2>1. pofArray[p][i] = NULL /\ pofArray' = [pofArray EXCEPT ![p][i] = e]
      BY <1>2, Zenon DEF OpensEntry
    <2>2. \A t : t # s => References(t)' = References(t)
      BY <1>2, <2>1, InvParts, OneMoreReference, Zenon
    <2>3. Cardinality(References(s)') = Cardinality(References(s)) + 1
      BY <1>2, <2>1, InvParts, OneMoreReference, Zenon
    <2> QED BY <2>2, <2>3, Zenon
  <1>8. /\ c >= Cardinality(References(s))
        /\ setting.once /\ setting.longer = {} => c = Cardinality(References(s))
        /\ Cardinality(References(s)) \in Nat
    <2>1. Cardinality(References(s)) \in Nat
      BY FiniteReferences, Zenon
    <2>2. CASE sofArray[s] = NULL
      <3>1. References(s) = {}
        <4>1. ASSUME NEW x \in References(s) PROVE FALSE
          <5>1. /\ x[1] \in Proc /\ x[2] \in PofIndex /\ pofArray[x[1]][x[2]] # NULL
                /\ pofArray[x[1]][x[2]].sofIndex = s
            BY Zenon DEF References
          <5> QED BY <2>2, <5>1, EntryFile, Zenon
        <4> QED BY <4>1, Zenon
      <3>2. Cardinality(References(s)) = 0
        BY <3>1, FS_EmptySet, Zenon
      <3> QED BY <2>2, <3>2 DEF OpensEntry
    <2>3. CASE sofArray[s] # NULL
      <3>1. c = sofArray[s].counter
        BY <2>3, Zenon DEF OpensEntry
      <3> QED BY <2>1, <2>3, <3>1, InvParts, Zenon DEF CounterIsReferences
    <2> QED BY <2>1, <2>2, <2>3, Zenon
  <1>9. CounterIsReferences'
    <2>1. ASSUME NEW t \in SofIndex, sofArray'[t] # NULL
          PROVE  /\ sofArray'[t].counter >= Cardinality(References(t)')
                 /\ sofArray'[t].counter > 0
                 /\ setting.once /\ setting.longer = {} => sofArray'[t].counter = Cardinality(References(t)')
      <3>1. CASE t = s
        BY <1>3, <1>5, <1>7, <1>8, <3>1, SMTT(60)
      <3>2. CASE t # s
        BY <1>5, <1>7, <2>1, <3>2, InvParts, Zenon DEF CounterIsReferences
      <3> QED BY <3>1, <3>2, Zenon
    <2> QED BY <2>1, CountersInv, Zenon
  <1>10. ASSUME NEW t \in SofIndex, sofArray'[t] = NULL,
                NEW q \in Proc, NEW j \in PofIndex, pofArray'[q][j] # NULL
         PROVE  pofArray'[q][j].sofIndex # t
    <2>1. t # s /\ sofArray[t] = NULL
      BY <1>3, <1>5, <1>10, Zenon
    <2>2. CASE q = p /\ j = i
      BY <1>2, <1>4, <2>1, <2>2, Zenon
    <2>3. CASE ~(q = p /\ j = i)
      BY <1>4, <1>10, <2>1, <2>3, EntryFile, SMTT(60)
    <2> QED BY <2>2, <2>3, Zenon
  <1>11. OthersKept(p)
    BY InvParts, Zenon DEF TypeOK, OthersKept, OpensEntry
  <1>12. EntriesKeptOrNew(p) /\ SOFsReferenced
    BY <1>2, <1>3, <1>4, <1>5, <1>10 DEF EntriesKeptOrNew, SOFsReferenced
  <1>13. SOFsKeptOrNew
    BY <1>3, <1>5 DEF SOFsKeptOrNew, OpensEntry
  <1>14. fileLock' = LocksOf(sofArray')
    BY <1>3, <1>5, LocksStay, Zenon
  <1>15. Tables' /\ OffsetInFile'
    BY <1>6, <1>11, <1>12, <1>13, <1>14, TablesInv, Zenon
  <1> QED BY <1>9, <1>15, Zenon DEF Inv

\* Calls that fail or stop the machine, and steps of nobody.
LEMMA NothingInv ==
    ASSUME Inv,
           UNCHANGED <<setting, files, descriptors, sofArray, pofArray, fileLock, woken, pc, loc>>
    PROVE  Inv'
  <1>1. TypeOK' /\ NoDanglingPOF' /\ CallsHoldEntries' /\ OpenFilesExist'
    BY InvParts DEF TypeOK, NoDanglingPOF, CallsHoldEntries, OpenFilesExist
  <1>2. CounterIsReferences' /\ OneSOFPerFile'
    BY InvParts, CountersKept, Zenon
  <1>3. OffsetInFile'
    BY InvParts, Zenon DEF OffsetInFile
  <1> QED BY <1>1, <1>2, <1>3, Zenon DEF Inv, Tables

\* IncSOFCounter changes nothing but the counter.
LEMMA Incremented ==
    ASSUME NEW r \in SOF, NEW c \in Nat
    PROVE  /\ [r EXCEPT !.counter = c + 1] \in SOF
           /\ [r EXCEPT !.counter = c + 1].filename = r.filename
           /\ [r EXCEPT !.counter = c + 1].counter = c + 1
  BY DEF SOF

\* A file opened again by a process that has it open: the counter alone goes up.
LEMMA CountedTwiceInv ==
    ASSUME Inv, NEW s \in SofIndex, sofArray[s] # NULL,
           ~(setting.once /\ setting.longer = {}),
           sofArray' = IncSOFCounter(sofArray, s),
           UNCHANGED <<setting, files, descriptors, pofArray, fileLock, woken, pc, loc>>
    PROVE  Inv'
  <1>1. sofArray[s] \in SOF
    BY InvParts, Zenon DEF TypeOK
  <1>2. PICK c \in Nat : c = sofArray[s].counter
    BY <1>1, Zenon DEF SOF
  <1>3. PICK r \in SOF : /\ r = [sofArray[s] EXCEPT !.counter = c + 1]
                         /\ r.filename = sofArray[s].filename /\ r.counter = c + 1
    BY <1>1, Incremented, Zenon
  <1>4. sofArray' = [sofArray EXCEPT ![s] = r] /\ r # NULL
    BY <1>2, <1>3, OpenFilesAssumption, Zenon DEF IncSOFCounter
  <1>5. \A t \in SofIndex : sofArray'[t] = IF t = s THEN r ELSE sofArray[t]
    BY <1>4, InvParts, Zenon DEF TypeOK
  <1>6. TypeOK'
    <2>1. sofArray \in [SofIndex -> SOF \cup {NULL}]
      BY InvParts, Zenon DEF TypeOK
    <2>2. sofArray' \in [SofIndex -> SOF \cup {NULL}]
      BY <1>4, <2>1, Zenon
    <2>3. TypeOK
      BY InvParts, Zenon
    <2> QED BY <2>2, <2>3, Zenon DEF TypeOK
  <1>7. \A t \in SofIndex :
           /\ sofArray'[t] = NULL <=> sofArray[t] = NULL
           /\ sofArray[t] # NULL => sofArray'[t].filename = sofArray[t].filename
    BY <1>3, <1>4, <1>5, Zenon
  <1>8. NoDanglingPOF'
    <2>1. \A q \in Proc : \A i \in PofIndex : pofArray[q][i] # NULL =>
             pofArray[q][i].sofIndex \in SofIndex
      BY EntryFile, Zenon
    <2> QED BY <1>7, <2>1, InvParts, SMTT(60) DEF NoDanglingPOF
  <1>9. CallsHoldEntries' /\ OffsetInFile'
    BY InvParts, ZenonT(60) DEF CallsHoldEntries, OffsetInFile
  <1>10. OpenFilesExist' /\ OneSOFPerFile'
    BY <1>7, InvParts, Zenon DEF OpenFilesExist, OneSOFPerFile
  <1>11. CounterIsReferences'
    <2>1. \A t : References(t)' = References(t)
      BY InvParts, SameReferences, Zenon
    <2>2. \A t : Cardinality(References(t)) \in Nat
      BY FiniteReferences, Zenon
    <2>3. ASSUME NEW t \in SofIndex, sofArray'[t] # NULL
          PROVE  /\ sofArray'[t].counter >= Cardinality(References(t)')
                 /\ sofArray'[t].counter > 0
      <3>1. CASE t = s
        <4>1. c >= Cardinality(References(s))
          BY <1>2, InvParts, Zenon DEF CounterIsReferences
        <4>2. sofArray'[t].counter = c + 1 /\ References(t)' = References(s)
          BY <1>3, <1>5, <2>1, <3>1, ZenonT(60)
        <4> QED BY <2>2, <4>1, <4>2, SMTT(60)
      <3>2. CASE t # s
        BY <1>5, <2>1, <2>3, <3>2, InvParts, Zenon DEF CounterIsReferences
      <3> QED BY <3>1, <3>2, Zenon
    <2> QED BY <2>3, CountersInv, Zenon
  <1> QED BY <1>6, <1>8, <1>9, <1>10, <1>11, Zenon DEF Inv, Tables

\* SOFMgr::FindSOFByName returns -1 only for a file that is not open.
LEMMA FindSOFByNameFinds ==
    ASSUME Inv, NEW f \in FileName
    PROVE  \/ /\ FindSOFByName(f) = -1
              /\ \A t \in SofIndex : sofArray[t] # NULL => sofArray[t].filename # f
           \/ /\ FindSOFByName(f) \in SofIndex /\ sofArray[FindSOFByName(f)] # NULL
              /\ sofArray[FindSOFByName(f)].filename = f
  <1> DEFINE found == {s \in sofMap : sofArray[s].filename = f}
  <1>1. CASE found = {}
    BY <1>1, Zenon DEF FindSOFByName
  <1>2. CASE found # {}
    <2>1. found \in SUBSET Nat
      BY Indexes, ZenonT(60)
    <2>2. Min(found) \in found
      <3> HIDE DEF found
      <3> QED BY <1>2, <2>1, MinOfSet, Zenon
    <2>3. FindSOFByName(f) = Min(found)
      BY <1>2, Zenon DEF FindSOFByName
    <2> QED BY <2>2, <2>3, Zenon
  <1> QED BY <1>1, <1>2, Zenon

\* Open of a file that the system has open.
OpensAgain(p, f, s, pofIndex) ==
    /\ pc[p] = "User" /\ sofArray[s] # NULL /\ sofArray[s].filename = f
    /\ setting.once => \A i \in pofMap(p) : pofArray[p][i].filename # f
    /\ OpenAgain(p, f, s, pofIndex)

LEMMA OpenAgainInv ==
    ASSUME Inv, NEW p \in Proc, NEW f \in FileName, NEW s \in SofIndex,
           NEW found \in FindPOFByName(p, f), OpensAgain(p, f, s, found),
           UNCHANGED <<setting, files, fileLock, woken, pc, loc>>
    PROVE  Inv'
  <1>1. /\ pofArray' = IF found # -1 THEN pofArray ELSE CreatePOF(p, s, f)
        /\ sofArray' = IF found = -1 /\ pofArray' = pofArray THEN sofArray
                       ELSE IncSOFCounter(sofArray, s)
        /\ UNCHANGED descriptors
    BY Zenon DEF OpensAgain, OpenAgain
  <1>2. CASE found # -1
    <2>1. ~(setting.once /\ setting.longer = {})
      BY <1>2, Zenon DEF FindPOFByName, OpensAgain
    <2>2. sofArray[s] # NULL
      BY Zenon DEF OpensAgain
    <2> QED BY <1>1, <1>2, <2>1, <2>2, CountedTwiceInv, Zenon
  <1>3. CASE found = -1 /\ pofArray' = pofArray
    BY <1>1, <1>3, NothingInv, Zenon
  <1>4. CASE found = -1 /\ pofArray' # pofArray
    <2>1. PICK i : i = Find(pofMap(p), PofIndex)
      BY Zenon
    <2>2. i # -1 /\ pofArray' = [pofArray EXCEPT ![p][i] = NewPOF(s, f)]
      BY <1>1, <1>4, <2>1, Zenon DEF CreatePOF
    <2>3. i \in PofIndex /\ pofArray[p][i] = NULL
      <3> HIDE DEF pofMap
      <3>1. i \in PofIndex \ pofMap(p)
        BY <2>1, <2>2, Indexes, FindClear, Zenon
      <3> QED BY <3>1, Zenon DEF pofMap
    <2>4. sofArray[s] \in SOF
      BY InvParts, Zenon DEF TypeOK, OpensAgain
    <2>5. PICK c \in Nat : c = sofArray[s].counter
      BY <2>4, Zenon DEF SOF
    <2>6. PICK r \in SOF : /\ r = [sofArray[s] EXCEPT !.counter = c + 1]
                           /\ r.filename = f /\ r.counter = c + 1
      BY <2>4, Incremented, ZenonT(60) DEF OpensAgain
    <2>7. sofArray' = [sofArray EXCEPT ![s] = r]
      BY <1>1, <1>4, <2>5, <2>6, Zenon DEF IncSOFCounter
    <2>8. descriptors' \in [FileName -> Nat]
      BY <1>1, InvParts, Zenon DEF TypeOK
    <2>9. OpensEntry(p, f, s, i, c, r)
      BY <2>2, <2>3, <2>5, <2>7, Zenon DEF OpensEntry, OpensAgain
    <2> QED BY <2>3, <2>6, <2>8, <2>9, OpenEntryInv, ZenonT(60)
  <1> QED BY <1>2, <1>3, <1>4, Zenon

\* Open of a file that the system has not open.  Full has seen a free entry in both tables.
OpensNew(p, f) ==
    /\ pc[p] = "User" /\ OpenNew(p, f)
    /\ \A t \in SofIndex : sofArray[t] # NULL => sofArray[t].filename # f

LEMMA OpenNewInv ==
    ASSUME Inv, NEW p \in Proc, NEW f \in FileName, OpensNew(p, f),
           UNCHANGED <<setting, files, fileLock, woken, pc, loc>>
    PROVE  Inv'
  <1>1. CASE Full(p) \/ files[f] = NULL
    BY <1>1, NothingInv, Zenon DEF OpensNew, OpenNew
  <1>2. CASE ~(Full(p) \/ files[f] = NULL)
    <2>1. PICK s : s = Find(sofMap, SofIndex)
      BY Zenon
    <2>2. PICK i : i = Find(pofMap(p), PofIndex)
      BY Zenon
    <2>3. s \in SofIndex \ sofMap /\ i \in PofIndex \ pofMap(p)
      <3> HIDE DEF sofMap, pofMap
      <3>1. ~(SofIndex \subseteq sofMap) /\ ~(PofIndex \subseteq pofMap(p))
        BY <1>2, Indexes, NumClearZero, Zenon DEF Full, SofIndex, PofIndex
      <3>2. s \in SofIndex \ sofMap
        BY <2>1, <3>1, Indexes, FindClear, Zenon
      <3>3. i \in PofIndex \ pofMap(p)
        BY <2>2, <3>1, Indexes, FindClear, Zenon
      <3> QED BY <3>2, <3>3, Zenon
    <2>4. /\ s \in SofIndex /\ sofArray[s] = NULL /\ i \in PofIndex /\ pofArray[p][i] = NULL
          /\ i # -1
      BY <2>3, Indexes, Zenon
    <2>5. /\ descriptors' = [descriptors EXCEPT ![f] = @ + 1]
          /\ pofArray' = CreatePOF(p, s, f)
          /\ sofArray' = IF pofArray' = pofArray THEN CreateSOF(f)
                         ELSE IncSOFCounter(CreateSOF(f), s)
      BY <1>2, <2>1, Zenon DEF OpensNew, OpenNew, FileSystemOpen
    <2>6. pofArray' = [pofArray EXCEPT ![p][i] = NewPOF(s, f)]
      BY <2>2, <2>4, <2>5, Zenon DEF CreatePOF
    <2>7. pofArray' # pofArray
      <3>1. pofArray'[p][i] = NewPOF(s, f)
        BY <2>4, <2>6, InvParts, Zenon DEF TypeOK
      <3>2. NewPOF(s, f) \in POF
        BY <2>4, Zenon DEF NewPOF, POF
      <3> QED BY <2>4, <3>1, <3>2, OpenFilesAssumption, Zenon
    <2>8. /\ NewSOF(f) \in SOF /\ NewSOF(f).filename = f /\ NewSOF(f).counter = 0
      BY Zenon DEF NewSOF, SOF
    <2>9. PICK c \in Nat : c = 0
      BY Zenon
    <2>10. PICK r \in SOF : /\ r = [NewSOF(f) EXCEPT !.counter = c + 1]
                            /\ r.filename = f /\ r.counter = c + 1
      BY <2>8, Incremented, ZenonT(60)
    <2>11. sofArray' = [sofArray EXCEPT ![s] = r]
      <3>1. CreateSOF(f) = [sofArray EXCEPT ![s] = NewSOF(f)]
        BY <2>1, Zenon DEF CreateSOF
      <3>2. sofArray' = [CreateSOF(f) EXCEPT ![s] = [CreateSOF(f)[s] EXCEPT
                            !.counter = CreateSOF(f)[s].counter + 1]]
        BY <2>5, <2>7, Zenon DEF IncSOFCounter
      <3>3. DOMAIN sofArray = SofIndex
        BY InvParts, Zenon DEF TypeOK
      <3>4. CreateSOF(f)[s] = NewSOF(f)
        BY <2>4, <3>1, <3>3, Zenon
      <3>5. sofArray' = [CreateSOF(f) EXCEPT ![s] = r]
        BY <2>8, <2>9, <2>10, <3>2, <3>4, ZenonT(60)
      <3> QED BY <3>1, <3>5, Zenon
    <2>12. descriptors' \in [FileName -> Nat]
      BY <2>5, InvParts DEF TypeOK
    <2>13. files[f] # NULL
      BY <1>2, Zenon
    <2>14. OpensEntry(p, f, s, i, c, r)
      BY <2>4, <2>6, <2>9, <2>11, <2>13, Zenon DEF OpensEntry, OpensNew
    <2> QED BY <2>4, <2>10, <2>12, <2>14, OpenEntryInv, Zenon
  <1> QED BY <1>1, <1>2, Zenon

LEMMA OpenInv ==
    ASSUME Inv, NEW p \in Proc, Open(p), UNCHANGED setting
    PROVE  Inv'
  <1>1. pc[p] = "User"
    BY ZenonT(60) DEF Open, Call, At
  <1>2. PICK f \in FileName : \E pofIndex \in FindPOFByName(p, f) :
           /\ setting.once => \A i \in pofMap(p) : pofArray[p][i].filename # f
           /\ \/ /\ IF FindSOFByName(f) # -1
                    THEN OpenAgain(p, f, FindSOFByName(f), pofIndex)
                    ELSE OpenNew(p, f)
                 /\ UNCHANGED <<files, fileLock, woken, pc, loc>>
              \/ Stop("ASSERT(pofIndex == -1)")
    BY Zenon DEF Open
  <1>3. PICK pofIndex \in FindPOFByName(p, f) :
           /\ setting.once => \A i \in pofMap(p) : pofArray[p][i].filename # f
           /\ \/ /\ IF FindSOFByName(f) # -1
                    THEN OpenAgain(p, f, FindSOFByName(f), pofIndex)
                    ELSE OpenNew(p, f)
                 /\ UNCHANGED <<files, fileLock, woken, pc, loc>>
              \/ Stop("ASSERT(pofIndex == -1)")
    BY <1>2, Zenon
  <1>4. CASE /\ FindSOFByName(f) # -1 /\ OpenAgain(p, f, FindSOFByName(f), pofIndex)
             /\ UNCHANGED <<files, fileLock, woken, pc, loc>>
    <2>1. PICK s \in SofIndex : /\ s = FindSOFByName(f)
                                /\ sofArray[s] # NULL /\ sofArray[s].filename = f
      BY <1>4, FindSOFByNameFinds, Zenon
    <2>2. OpensAgain(p, f, s, pofIndex)
      BY <1>1, <1>3, <1>4, <2>1, ZenonT(60) DEF OpensAgain
    <2> QED BY <1>4, <2>2, OpenAgainInv, Zenon
  <1>5. CASE /\ FindSOFByName(f) = -1 /\ OpenNew(p, f)
             /\ UNCHANGED <<files, fileLock, woken, pc, loc>>
    <2>1. OpensNew(p, f)
      BY <1>1, <1>5, Indexes, FindSOFByNameFinds, Zenon DEF OpensNew
    <2> QED BY <1>5, <2>1, OpenNewInv, Zenon
  <1>6. CASE Stop("ASSERT(pofIndex == -1)")
    BY <1>6, NothingInv, ZenonT(60) DEF Stop
  <1> QED BY <1>3, <1>4, <1>5, <1>6, ZenonT(60)

LEMMA CloseInv ==
    ASSUME Inv, NEW p \in Proc, Close(p), UNCHANGED setting
    PROVE  Inv'
  <1>1. pc[p] = "User"
    BY ZenonT(60) DEF Close, Call, At
  <1>2. PICK id \in -1..(POF_MAXNUM + 2) :
          \/ /\ id - 2 \in pofMap(p)
             /\ sofArray' = RemoveSOF(sofArray, pofArray[p][id - 2].sofIndex, 1)
             /\ pofArray' = RemovePOF(p, id - 2) /\ fileLock' = LocksOf(sofArray')
             /\ UNCHANGED <<files, descriptors, woken, pc, loc>>
          \/ Stop("closed twice")
    BY ZenonT(60) DEF Close
  <1>3. CASE /\ id - 2 \in pofMap(p)
             /\ sofArray' = RemoveSOF(sofArray, pofArray[p][id - 2].sofIndex, 1)
             /\ pofArray' = RemovePOF(p, id - 2) /\ fileLock' = LocksOf(sofArray')
             /\ UNCHANGED <<files, descriptors, woken, pc, loc>>
    <2>1. PICK i \in PofIndex : i = id - 2 /\ pofArray[p][i] # NULL
      BY <1>3, Zenon
    <2>2. ClosesEntry(p, i)
      BY <1>1, <1>3, <2>1, Zenon DEF ClosesEntry
    <2> QED BY <1>3, <2>2, CloseEntryInv, Zenon
  <1>4. CASE Stop("closed twice")
    BY <1>4, NothingInv, ZenonT(60) DEF Stop
  <1> QED BY <1>2, <1>3, <1>4, ZenonT(60)

\* Read and Write of any identifier.
LEMMA ByIdentifierInv ==
    ASSUME Inv, NEW p \in Proc, pc[p] = "User", NEW op \in {"Read", "Write"},
           NEW data \in Contents, ByIdentifier(p, op, data), UNCHANGED setting
    PROVE  Inv'
  <1>1. PICK id \in -1..(POF_MAXNUM + 2) :
          \/ TestPOF(p, id - 2) /\ Begin(p, op, id - 2, data)
          \/ UNCHANGED <<files, descriptors, sofArray, pofArray, fileLock, woken, pc, loc>>
          \/ Stop("ASSERT")
    BY Zenon DEF ByIdentifier
  <1>2. CASE TestPOF(p, id - 2) /\ Begin(p, op, id - 2, data)
    <2>1. PICK i \in PofIndex : i = id - 2 /\ pofArray[p][i] # NULL
      BY <1>2, Zenon DEF TestPOF
    <2> QED BY <1>2, <2>1, BeginInv, Zenon
  <1>3. CASE UNCHANGED <<files, descriptors, sofArray, pofArray, fileLock, woken, pc, loc>>
    BY <1>3, NothingInv, Zenon
  <1>4. CASE Stop("ASSERT")
    BY <1>4, NothingInv, Zenon DEF Stop
  <1> QED BY <1>1, <1>2, <1>3, <1>4, Zenon

-----------------------------------------------------------------------------
(***************************************************************************)
(* The theorems.                                                           *)
(***************************************************************************)
\* Every step keeps the invariant.
LEMMA OpenFilesStep == Inv /\ [Next]_vars => Inv'
  <1>1. SUFFICES ASSUME Inv, [Next]_vars PROVE Inv'
    BY Zenon
  <1>2. CASE UNCHANGED vars
    BY <1>1, <1>2, NothingInv, Zenon DEF vars
  <1>3. CASE Next
    <2>1. PICK p \in Proc : Step(p) /\ UNCHANGED setting
      BY <1>3, Zenon DEF Next
    <2>2. ASSUME NEW b \in Byte \cup {0}, NEW n \in 1..MaxBytes
          PROVE  [i \in 1..n |-> b] \in Contents
      <3>1. n \in Nat
        BY OpenFilesAssumption
      <3> QED BY <3>1 DEF Contents
    <2>3. CASE Create(p)
      BY <1>1, <2>1, <2>3, CreateInv, Zenon
    <2>4. CASE Open(p)
      BY <1>1, <2>1, <2>4, OpenInv, Zenon
    <2>5. CASE Close(p)
      BY <1>1, <2>1, <2>5, CloseInv, Zenon
    <2>6. CASE Exit(p)
      <3>1. pc[p] = "User" /\ DeletePCB(p)
        BY <2>6, Zenon DEF Exit, At
      <3> QED BY <1>1, <2>1, <3>1, DeletePCBInv, Zenon
    <2>13. CASE Kill(p)
      <3>1. PICK q \in Proc \ {p} : pc[q] # "gone" /\ DeletePCB(q)
        BY <2>13, Zenon DEF Kill
      <3>2. pc[q] = "User" \/ setting.rs
        BY <2>13, <3>1, Zenon DEF Kill, Call, At
      <3> QED BY <1>1, <2>1, <3>1, <3>2, DeletePCBInv, Zenon
    <2>7. CASE Write(p)
      <3>1. PICK b \in Byte : \E n \in 1..MaxBytes :
               ByIdentifier(p, "Write", [i \in 1..n |-> b])
        BY <2>7, Zenon DEF Write
      <3>2. PICK n \in 1..MaxBytes : ByIdentifier(p, "Write", [i \in 1..n |-> b])
        BY <3>1, Zenon
      <3>3. pc[p] = "User"
        BY <2>7, Zenon DEF Write, Call, At
      <3> QED BY <1>1, <2>1, <2>2, <3>2, <3>3, ByIdentifierInv, Zenon
    <2>8. CASE Read(p)
      <3>1. PICK n \in 1..MaxBytes : ByIdentifier(p, "Read", [i \in 1..n |-> 0])
        BY <2>8, ZenonT(60) DEF Read
      <3>2. pc[p] = "User"
        BY <2>8, SMTT(60) DEF Read, Call, At
      <3> QED BY <1>1, <2>1, <2>2, <3>1, <3>2, ByIdentifierInv, Zenon
    <2>9. CASE Wait(p)
      BY <1>1, <2>1, <2>9, WaitInv, Zenon
    <2>10. CASE SOFWrite(p)
      BY <1>1, <2>1, <2>10, SOFWriteInv, Zenon
    <2>11. CASE SOFRead(p)
      BY <1>1, <2>1, <2>11, SOFReadInv, Zenon
    <2>12. CASE SetPOFoffset(p)
      BY <1>1, <2>1, <2>12, SetPOFoffsetInv, Zenon
    <2> QED BY <2>1, <2>3, <2>4, <2>5, <2>6, <2>7, <2>8, <2>9, <2>10, <2>11, <2>12, <2>13,
            Zenon DEF Step
  <1> QED BY <1>1, <1>2, <1>3, Zenon

\* No file is open at the start.
LEMMA OpenFilesInit == Init => Inv
  <1>1. SUFFICES ASSUME Init PROVE Inv
    BY Zenon
  <1>2. TypeOK
    <2>1. 0 \in PofIndex /\ 0 \in SofIndex /\ <<>> \in Contents
      BY OpenFilesAssumption DEF PofIndex, SofIndex, Contents
    <2>2. NoCall \in [op : {"none", "Read", "Write"}, pof : PofIndex, sof : SofIndex,
                      offset : Nat, data : Contents, moved : Nat]
      BY <2>1, Zenon DEF NoCall
    <2> QED BY <1>1, <2>2, Zenon DEF Init, TypeOK
  <1>3. NoDanglingPOF /\ CallsHoldEntries /\ OpenFilesExist /\ OneSOFPerFile
    BY <1>1, Zenon DEF Init, NoDanglingPOF, CallsHoldEntries, OpenFilesExist, OneSOFPerFile
  <1>4. CounterIsReferences /\ OffsetInFile
    BY <1>1, Zenon DEF Init, CounterIsReferences, OffsetInFile
  <1> QED BY <1>2, <1>3, <1>4, Zenon DEF Inv, Tables

\* Open has no system entry for a file, but finds one of the process: its name is another.
LEMMA OpenStops ==
    ASSUME Inv, StopsHaveCause, NEW p \in Proc, Open(p), UNCHANGED setting
    PROVE  StopsHaveCause'
  <1>1. CASE stopped' = stopped
    BY <1>1, Zenon DEF StopsHaveCause
  <1>2. CASE stopped' # stopped
    <2>1. PICK f \in FileName : \E i \in FindPOFByName(p, f) :
             FindSOFByName(f) = -1 /\ i # -1 /\ stopped' = "ASSERT(pofIndex == -1)"
      BY <1>2, Zenon DEF Open, Stop
    <2>2. PICK i \in FindPOFByName(p, f) : i # -1
      BY <2>1, Zenon
    <2>3. /\ i \in PofIndex /\ pofArray[p][i] # NULL
          /\ \/ pofArray[p][i].filename = f
             \/ <<f, pofArray[p][i].filename>> \in setting.longer
      BY <2>2, Zenon DEF FindPOFByName
    <2>4. \A t \in SofIndex : sofArray[t] # NULL => sofArray[t].filename # f
      BY <2>1, Indexes, FindSOFByNameFinds, Zenon
    <2>5. pofArray[p][i].filename # f
      BY <2>3, <2>4, EntryFile, Zenon
    <2>6. setting.longer # {}
      BY <2>3, <2>5, Zenon
    <2> QED BY <2>1, <2>6 DEF StopsHaveCause
  <1> QED BY <1>1, <1>2, Zenon

\* The other calls stop the machine for other reasons, or with time slices.
LEMMA StopsStep == Inv /\ StopsHaveCause /\ [Next]_vars => StopsHaveCause'
  <1>1. SUFFICES ASSUME Inv, StopsHaveCause, [Next]_vars PROVE StopsHaveCause'
    BY Zenon
  <1>2. CASE UNCHANGED vars
    BY <1>1, <1>2, Zenon DEF vars, StopsHaveCause
  <1>3. CASE Next
    <2>1. PICK p \in Proc : Step(p) /\ UNCHANGED setting
      BY <1>3, Zenon DEF Next
    <2>2. CASE stopped' \in {stopped, "closed twice", "ASSERT"}
      BY <1>1, <2>1, <2>2 DEF StopsHaveCause
    <2>3. CASE Open(p)
      BY <1>1, <2>1, <2>3, OpenStops, Zenon
    <2>4. CASE Kill(p)
      <3>1. PICK q \in Proc \ {p} :
               stopped' = IF pc[q] = "Wait" /\ q \notin woken
                          THEN "ASSERT in RemoveByElement" ELSE stopped
        BY <2>4, Zenon DEF Kill
      <3>2. pc[q] = "Wait" => setting.rs
        BY <2>4, <3>1 DEF Kill, Call, At
      <3> QED BY <1>1, <2>1, <3>1, <3>2 DEF StopsHaveCause
    <2>5. CASE Create(p) \/ Close(p) \/ Exit(p) \/ Wait(p)
      BY <2>2, <2>5, Zenon DEF Create, Close, Exit, Wait, Stop
    <2>6. CASE Write(p) \/ Read(p)
      BY <2>2, <2>6, Zenon DEF Write, Read, ByIdentifier, Begin, Stop
    <2>7. CASE SOFWrite(p) \/ SOFRead(p) \/ SetPOFoffset(p)
      BY <2>2, <2>7, Zenon DEF SOFWrite, SOFRead, Released, SetPOFoffset
    <2> QED BY <2>1, <2>3, <2>4, <2>5, <2>6, <2>7, Zenon DEF Step
  <1> QED BY <1>1, <1>2, <1>3, Zenon

LEMMA OpenFilesInductive == Spec => []Inv
  BY OpenFilesInit, OpenFilesStep, PTL DEF Spec

\* Whatever processes open, close, read and write, exit and kill one another in any order,
\* also in the middle of a Read or Write under the file's lock, every process entry leads to
\* a live system entry for its file, a call under way has the entry it began with, a held
\* lock is the lock of an entry that exists, and a file has one system entry; Open's ASSERT
\* fails only for names of which one begins with the other: for any number of processes,
\* files and table entries.
THEOREM OpenFilesTablesAgree == Spec => []TablesAgree
  <1>1. Init => StopsHaveCause
    BY DEF Init, StopsHaveCause
  <1>2. Inv /\ StopsHaveCause => TablesAgree
    BY Zenon DEF Inv, Tables, TablesAgree
  <1> QED BY <1>1, <1>2, OpenFilesInductive, StopsStep, PTL DEF Spec

\* The counter of a system entry is the number of its references when programs open a file
\* once and no name begins with another, and never below it or zero when they do not.
THEOREM OpenFilesCounters == Spec => []CounterIsReferences
  <1>1. Inv => CounterIsReferences
    BY Zenon DEF Inv
  <1> QED BY <1>1, OpenFilesInductive, PTL

\* Unless open files are truncated, the offset of an entry is inside its file.
THEOREM OpenFilesOffsets == Spec => []OffsetInFile
  <1>1. Inv => OffsetInFile
    BY Zenon DEF Inv
  <1> QED BY <1>1, OpenFilesInductive, PTL

=============================================================================
