-------------------------- MODULE PostOfficeProofs ---------------------------
(***************************************************************************)
(* The post office: one send at a time, no arrival missed, no reader left  *)
(* asleep beside its mail, and mail in the order of its sending, for any   *)
(* number of senders, receivers and mailboxes and whatever packets are     *)
(* lost.                                                                   *)
(***************************************************************************)
EXTENDS PostOffice, ThreadsProofs

\* What the steps below are about: the kernel's invariant and the post office's own.
PostInv == ThreadsInv /\ PostOfficeInv

\* The conjuncts of PostOfficeInv, of one thread or one box.
WhereOK(t) ==
    /\ pc[t] \in {"NewWorker", "ForkUsers"} =>
          t = MainThread /\ frame[t] \in {"user", "finish"}
    /\ pc[t] \in {"AwaitPacket", "NetworkReceive", "Put", "PutUnlock"} <=> t = Worker
    /\ pc[t] \in {"Send", "NetworkSend", "SendUnlock"} => t \in Senders
    /\ pc[t] \in {"Receive", "Get"} => t \in Receivers
    /\ pc[t] \in {"AwaitPacket", "Receive"} => frame[t] \in {"start", "user"}
    /\ pc[t] = "NetworkReceive" => frame[t] \in {"user", messageAvailable}
    /\ pc[t] = "Put" => frame[t] \in {"user", listLock[mail[t].to]} /\ mail[t] \in Mail
    /\ pc[t] = "PutUnlock" => frame[t] = "user" /\ mail[t] \in Mail
    /\ pc[t] \in {"Send", "Unused"} => frame[t] \in {"start", "user", "finish"}
    /\ pc[t] = "Get" => frame[t] \in {"user", listLock[BoxOf[t]]}
SendOK(t) ==
    IF pc[t] = "NetworkSend"
    THEN /\ frame[t] \in {"user", sendLock}
         /\ frame[t] = "user" <=> t \in inside[sendLock]
         /\ mail[t] \in Mail /\ sent[t] < program.mails[t]
    ELSE IF pc[t] = "SendUnlock"
    THEN /\ frame[t] \in {"user", messageSent} /\ t \in inside[sendLock]
         /\ sent[t] < program.mails[t]
         /\ sending + value[messageSent] = IF frame[t] = "user" THEN 0 ELSE 1
    ELSE t \notin inside[sendLock]
SendIdle == (\A t \in Thread : pc[t] # "SendUnlock") => sending + value[messageSent] = 0
WorkerSignals ==
    pc[Worker] = "Put" /\ frame[Worker] = "user" => Worker \in inside[listLock[mail[Worker].to]]
SleepersRead(b) ==
    \A t \in Range(queue[listEmpty[b]]) : t \in Receivers /\ BoxOf[t] = b /\ pc[t] = "Get"
Readers(b) ==
    {t \in Receivers : BoxOf[t] = b /\ pc[t] = "Get" /\ t \notin Range(queue[listEmpty[b]])}
Awaited(n, R) == Injection(1..n, R) # {}
ItemsOK(b) == queue[listEmpty[b]] # <<>> => Awaited(Len(list[b]), Readers(b))

LEMMA InvSplit ==
    PostInv <=> /\ ThreadsInv /\ PostOfficeTypeOK /\ BufferSignalled /\ OneSendAtATime
                /\ \A t \in Thread : WhereOK(t) /\ SendOK(t)
                /\ SendIdle /\ WorkerSignals
                /\ \A b \in Box : SleepersRead(b) /\ ItemsOK(b)
  <1>1. WhereThreadsAre <=> \A t \in Thread : WhereOK(t)
    BY Zenon DEF WhereThreadsAre, WhereOK
  <1>2. SendUnderLock <=> (\A t \in Thread : SendOK(t)) /\ SendIdle
    BY Zenon DEF SendUnderLock, SendOK, SendIdle
  <1>3. SignalsReachReaders <=> WorkerSignals /\ \A b \in Box : SleepersRead(b)
    BY Zenon DEF SignalsReachReaders, WorkerSignals, SleepersRead
  <1>4. ItemsAwaited <=> \A b \in Box : ItemsOK(b)
    BY Zenon DEF ItemsAwaited, ItemsOK, Awaited, Readers
  <1> QED BY <1>1, <1>2, <1>3, <1>4, Zenon DEF PostInv, PostOfficeInv

\* The same of the next state.
LEMMA InvSplitNext ==
    (PostInv <=> /\ ThreadsInv /\ PostOfficeTypeOK /\ BufferSignalled /\ OneSendAtATime
                 /\ \A t \in Thread : WhereOK(t) /\ SendOK(t)
                 /\ SendIdle /\ WorkerSignals
                 /\ \A b \in Box : SleepersRead(b) /\ ItemsOK(b))'
  BY InvSplit, PTL

\* What every step below needs: the types, and the names that differ.
LEMMA Parts ==
    ASSUME PostInv
    PROVE  /\ me \in Thread /\ ThreadsInv /\ PostOfficeTypeOK
           /\ frame \in [Thread -> {"start", "user", "finish"} \cup Semaphore \cup Lock]
           /\ value \in [Semaphore -> Nat] /\ inside \in [Lock -> SUBSET Thread]
           /\ sending \in Nat /\ queue \in [WaitList -> Seq(Thread)]
  BY DEF PostInv, PostOfficeInv, PostOfficeTypeOK, ThreadsInv, ThreadsTypeOK, me

LEMMA Names ==
    /\ messageAvailable \in Semaphore /\ messageSent \in Semaphore
    /\ messageAvailable # messageSent
    /\ sendLock \in Lock /\ sendLock \notin Semaphore
    /\ {"start", "user", "finish"} \cap (Semaphore \cup Lock) = {}
    /\ Semaphore \cap Lock = {}
    /\ \A b \in Box : /\ listLock[b] \in Lock /\ listLock[b] # sendLock
                      /\ listEmpty[b] \in Condition /\ listEmpty[b] \in WaitList
    /\ \A b, c \in Box : listEmpty[b] = listEmpty[c] => b = c
    /\ Worker \in Thread /\ Worker # MainThread
    /\ Worker \notin Senders /\ Worker \notin Receivers
    /\ \A t \in Receivers : t \in Thread /\ BoxOf[t] \in Box
  <1>1. /\ \A b \in Box : /\ listLock[b] \in Lock /\ listLock[b] # sendLock
                          /\ listEmpty[b] \in Condition /\ listEmpty[b] \in WaitList
    BY PostOfficeAssumption, SynchListAssumption, Zenon DEF Range, WaitList, Box
  <1>2. \A b, c \in Box : listEmpty[b] = listEmpty[c] => b = c
    BY SynchListAssumption, Zenon DEF IsInjective, Box
  <1> QED BY <1>1, <1>2, PostOfficeAssumption, ThreadsAssumption, Zenon

-----------------------------------------------------------------------------
(***************************************************************************)
(* The kernel's calls, as far as the post office sees them.                *)
(***************************************************************************)
\* The current thread goes on, or to sleep, in frame f.
FrameMoves(f) == frame'[me] = f /\ \A t \in Thread : t # me => frame'[t] = frame[t]

\* The current thread goes on to label l.
LabelMoves(l) == pc'[me] = l /\ \A t \in Thread : t # me => pc'[t] = pc[t]

ConditionsKept == \A b \in Box : queue'[listEmpty[b]] = queue[listEmpty[b]]

\* The list of a semaphore or a lock is none of the lists' conditions.
LEMMA QueueMoves ==
    ASSUME PostInv, NEW q \in Semaphore \cup Lock, NEW x,
           queue' = queue \/ queue' = [queue EXCEPT ![q] = x]
    PROVE  ConditionsKept
  <1> SUFFICES ASSUME NEW b \in Box PROVE queue'[listEmpty[b]] = queue[listEmpty[b]]
    BY Zenon DEF ConditionsKept
  <1>1. listEmpty[b] \in WaitList /\ listEmpty[b] # q
    BY Names, ThreadsAssumption, Zenon
  <1> QED BY <1>1, Parts, Zenon

\* s.P() either sleeps in frame s or takes a unit and returns to the caller.
LEMMA PMoves ==
    ASSUME PostInv, NEW s \in Semaphore, DoP(s)
    PROVE  /\ inside' = inside /\ ConditionsKept
           /\ \A r \in Semaphore : r # s => value'[r] = value[r]
           /\ \/ FrameMoves(s) /\ value'[s] = value[s]
              \/ FrameMoves("user") /\ value[s] # 0 /\ value'[s] = value[s] - 1
  <1>1. ConditionsKept
    <2>1. queue' = queue \/ queue' = [queue EXCEPT ![s] = Append(queue[s], me)]
      BY Zenon DEF DoP, me
    <2> QED BY <2>1, QueueMoves, Zenon
  <1>2. \/ frame' = [frame EXCEPT ![me] = s] /\ value' = value
        \/ /\ frame' = [frame EXCEPT ![me] = "user"] /\ value[s] # 0
           /\ value' = [value EXCEPT ![s] = value[s] - 1]
    BY Zenon DEF DoP, me
  <1>3. inside' = inside
    BY Zenon DEF DoP
  <1> QED BY <1>1, <1>2, <1>3, Parts, Zenon DEF FrameMoves

\* s.V() adds a unit.
LEMMA VMoves ==
    ASSUME PostInv, NEW s \in Semaphore, DoV(s)
    PROVE  /\ frame' = frame /\ inside' = inside /\ ConditionsKept
           /\ value'[s] = value[s] + 1
           /\ \A r \in Semaphore : r # s => value'[r] = value[r]
  <1>1. ConditionsKept
    <2>1. queue' = queue \/ queue' = [queue EXCEPT ![s] = Rest(queue[s])]
      BY Zenon DEF DoV
    <2> QED BY <2>1, QueueMoves, Zenon
  <1> QED BY <1>1, Parts, Zenon DEF DoV

\* l.Acquire() either sleeps in frame l or finds the lock free, takes it and returns.
LEMMA AcquireMoves ==
    ASSUME PostInv, NEW l \in Lock, DoAcquire(l)
    PROVE  /\ value' = value /\ ConditionsKept
           /\ \A k \in Lock : k # l => inside'[k] = inside[k]
           /\ \/ FrameMoves(l) /\ inside'[l] = inside[l]
              \/ FrameMoves("user") /\ inside[l] = {} /\ inside'[l] = {me}
  <1>1. ConditionsKept
    <2>1. queue' = queue \/ queue' = [queue EXCEPT ![l] = Append(queue[l], me)]
      BY Zenon DEF DoAcquire, me
    <2> QED BY <2>1, QueueMoves, Zenon
  <1>2. \/ frame' = [frame EXCEPT ![me] = l] /\ inside' = inside
        \/ /\ frame' = [frame EXCEPT ![me] = "user"] /\ inside[l] = {}
           /\ inside' = [inside EXCEPT ![l] = inside[l] \cup {me}]
    BY Parts, Zenon DEF DoAcquire, me, ThreadsInv, MutualExclusion
  <1>3. value' = value
    BY Zenon DEF DoAcquire
  <1> QED BY <1>1, <1>2, <1>3, Parts, Zenon DEF FrameMoves

\* l.Release() leaves the lock to others.
LEMMA ReleaseMoves ==
    ASSUME PostInv, NEW l \in Lock, Release(l)
    PROVE  /\ frame' = frame /\ value' = value /\ ConditionsKept
           /\ \A k \in Lock : inside'[k] = IF k = l THEN inside[l] \ {me} ELSE inside[k]
  <1>1. ConditionsKept
    <2>1. queue' = queue \/ queue' = [queue EXCEPT ![l] = Rest(queue[l])]
      BY Zenon DEF Release
    <2> QED BY <2>1, QueueMoves, Zenon
  <1>2. frame' = frame /\ value' = value
    BY Zenon DEF Release
  <1>3. CASE isHeldByCurrentThread(l)
    <2>1. inside' = [inside EXCEPT ![l] = inside[l] \ {me}]
      BY <1>3, Zenon DEF Release, FreeLock, me
    <2> QED BY <1>1, <1>2, <2>1, Parts, Zenon
  <1>4. CASE ~isHeldByCurrentThread(l)
    <2>1. inside' = inside
      BY <1>4, Zenon DEF Release
    <2>2. me \notin inside[l]
      BY <1>4, Parts, Zenon DEF isHeldByCurrentThread, ThreadsInv, MutualExclusion, me
    <2> QED BY <1>1, <1>2, <2>1, <2>2, Zenon
  <1> QED BY <1>3, <1>4, Zenon

-----------------------------------------------------------------------------
(***************************************************************************)
(* What a step that does not touch a conjunct's state leaves alone.        *)
(***************************************************************************)
\* A step that is no part of a send.
LEMMA SendKept ==
    ASSUME PostInv, program' = program, inside'[sendLock] = inside[sendLock],
           sending' + value'[messageSent] = sending + value[messageSent],
           \A t \in Thread :
              \/ {pc[t], pc'[t]} \cap {"NetworkSend", "SendUnlock"} = {}
              \/ /\ pc'[t] = pc[t] /\ frame'[t] = frame[t]
                 /\ mail'[t] = mail[t] /\ sent'[t] = sent[t]
    PROVE  (\A t \in Thread : SendOK(t)') /\ SendIdle'
  <1>1. ASSUME NEW t \in Thread PROVE SendOK(t)'
    <2>1. SendOK(t)
      BY InvSplit, Zenon
    <2>2. CASE {pc[t], pc'[t]} \cap {"NetworkSend", "SendUnlock"} = {}
      BY <2>1, <2>2, Zenon DEF SendOK
    <2>3. CASE /\ pc'[t] = pc[t] /\ frame'[t] = frame[t]
               /\ mail'[t] = mail[t] /\ sent'[t] = sent[t]
      BY <2>1, <2>3, Zenon DEF SendOK
    <2> QED BY <2>2, <2>3, Zenon
  <1>2. SendIdle'
    BY InvSplit, Zenon DEF SendIdle
  <1> QED BY <1>1, <1>2, Zenon

\* A step that neither fills or empties the network's buffer nor moves the worker there.
LEMMA BufferKept ==
    ASSUME PostInv, inbox' = inbox, value'[messageAvailable] = value[messageAvailable],
           (pc'[Worker] = "NetworkReceive" /\ frame'[Worker] = "user")
              <=> (pc[Worker] = "NetworkReceive" /\ frame[Worker] = "user")
    PROVE  BufferSignalled'
  BY InvSplit, Zenon DEF BufferSignalled

\* A step of another thread than the worker.
LEMMA WorkerKept ==
    ASSUME PostInv, pc'[Worker] = pc[Worker], frame'[Worker] = frame[Worker],
           mail'[Worker] = mail[Worker],
           \A l \in Lock : Worker \in inside[l] => Worker \in inside'[l]
    PROVE  WorkerSignals'
  <1>1. pc[Worker] = "Put" => listLock[mail[Worker].to] \in Lock
    <2>1. pc[Worker] = "Put" => mail[Worker].to \in Box
      BY InvSplit, Names, Zenon DEF WhereOK, Mail
    <2> QED BY <2>1, Names, Zenon
  <1> QED BY <1>1, InvSplit, Zenon DEF WorkerSignals

\* Items that have a reader each still have one when there are more readers, or another
\* item comes with its own reader, or a reader takes one of them.
LEMMA MoreReaders ==
    ASSUME NEW n \in Nat, NEW R, NEW T, R \subseteq T, Awaited(n, R)
    PROVE  Awaited(n, T)
  BY Zenon DEF Awaited, Injection, IsInjective

LEMMA OneMoreReader ==
    ASSUME NEW n \in Nat, NEW R, NEW h, h \notin R, Awaited(n, R)
    PROVE  Awaited(n + 1, R \cup {h})
  <1>1. PICK f \in [1..n -> R] : IsInjective(f)
    BY Zenon DEF Awaited, Injection
  <1>2. PICK g : g = [i \in 1..(n + 1) |-> IF i <= n THEN f[i] ELSE h]
    BY Zenon
  <1>3. g \in [1..(n + 1) -> R \cup {h}] /\ IsInjective(g)
    BY <1>1, <1>2 DEF IsInjective
  <1> QED BY <1>3, Zenon DEF Awaited, Injection

LEMMA OneReaderLess ==
    ASSUME NEW n \in Nat \ {0}, NEW R, NEW m, Awaited(n, R)
    PROVE  Awaited(n - 1, R \ {m})
  <1>1. PICK f \in [1..n -> R] : IsInjective(f)
    BY Zenon DEF Awaited, Injection
  <1>2. PICK g : g = [i \in 1..(n - 1) |-> IF f[i + 1] = m THEN f[1] ELSE f[i + 1]]
    BY Zenon
  <1>3. g \in [1..(n - 1) -> R \ {m}] /\ IsInjective(g)
    BY <1>1, <1>2 DEF IsInjective
  <1> QED BY <1>3, Zenon DEF Awaited, Injection

\* No items need no reader.
LEMMA NoneAwaited == \A R : Awaited(0, R)
  <1>1. PICK f : f = [i \in 1..0 |-> i]
    BY Zenon
  <1>2. \A R : f \in [1..0 -> R] /\ IsInjective(f)
    BY <1>1 DEF IsInjective
  <1> QED BY <1>2, Zenon DEF Awaited, Injection

\* A step that leaves a mailbox alone and takes none of its receivers out of Remove.
LEMMA BoxKept ==
    ASSUME PostInv, NEW b \in Box, queue'[listEmpty[b]] = queue[listEmpty[b]],
           list'[b] = list[b],
           \A t \in Receivers : BoxOf[t] = b /\ pc[t] = "Get" => pc'[t] = "Get"
    PROVE  SleepersRead(b)' /\ ItemsOK(b)'
  <1>1. SleepersRead(b)'
    BY InvSplit, Zenon DEF SleepersRead
  <1>2. Readers(b) \subseteq Readers(b)'
    BY Zenon DEF Readers
  <1>3. Len(list[b]) \in Nat
    BY Parts DEF PostOfficeTypeOK
  <1> QED BY <1>1, <1>2, <1>3, MoreReaders, InvSplit, Zenon DEF ItemsOK

\* A step that changes no mailbox and takes no receiver out of Remove.
LEMMA ReadersKept ==
    ASSUME PostInv, ConditionsKept, list' = list,
           \A t \in Receivers : pc[t] = "Get" => pc'[t] = "Get"
    PROVE  \A b \in Box : SleepersRead(b)' /\ ItemsOK(b)'
  BY BoxKept, Zenon DEF ConditionsKept

\* A step that moves the current thread only.
LEMMA WhereMoved ==
    ASSUME PostInv, NEW m \in Thread, m = me, NEW f, NEW l, FrameMoves(f), LabelMoves(l),
           \A t \in Thread : t # me => mail'[t] = mail[t],
           WhereOK(m)'
    PROVE  \A t \in Thread : WhereOK(t)'
  <1> SUFFICES ASSUME NEW t \in Thread, t # m PROVE WhereOK(t)'
    BY Zenon
  <1>1. pc'[t] = pc[t] /\ frame'[t] = frame[t] /\ mail'[t] = mail[t]
    BY Zenon DEF FrameMoves, LabelMoves
  <1>2. WhereOK(t)
    BY InvSplit, Zenon
  <1> QED BY <1>1, <1>2 DEF WhereOK

\* A lock admits one thread, and its fields name it.
LEMMA AloneInside ==
    ASSUME ThreadsInv, NEW l \in Lock, NEW t \in inside[l]
    PROVE  inside[l] = {t} /\ lockHolder[l] = t /\ isHeld[l]
  <1>1. inside[l] = IF isHeld[l] THEN {lockHolder[l]} ELSE {}
    BY Zenon DEF ThreadsInv, MutualExclusion
  <1> QED BY <1>1, Zenon

\* The lock admits one thread, so that a thread about to send finds no send in progress.
LEMMA OneSend ==
    ThreadsInv /\ PostOfficeTypeOK /\ (\A t \in Thread : SendOK(t)) /\ SendIdle
       => OneSendAtATime
  <1> SUFFICES ASSUME ThreadsInv, PostOfficeTypeOK, \A t \in Thread : SendOK(t), SendIdle,
                      NEW t \in Senders, pc[t] = "NetworkSend", frame[t] = "user"
               PROVE  sending = 0 /\ value[messageSent] = 0
    BY Zenon DEF OneSendAtATime
  <1>1. t \in Thread
    BY PostOfficeAssumption, Zenon
  <1>2. t \in inside[sendLock]
    BY <1>1, Zenon DEF SendOK
  <1>3. inside[sendLock] = {t}
    BY <1>2, Names, AloneInside, Zenon
  <1>4. \A u \in Thread : pc[u] # "SendUnlock"
    BY <1>3, Zenon DEF SendOK
  <1>5. sending + value[messageSent] = 0
    BY <1>4, Zenon DEF SendIdle
  <1>6. sending \in Nat /\ value[messageSent] \in Nat
    BY Names DEF PostOfficeTypeOK, ThreadsInv, ThreadsTypeOK
  <1> QED BY <1>5, <1>6

LEMMA OneSendNext ==
    (ThreadsInv /\ PostOfficeTypeOK /\ (\A t \in Thread : SendOK(t)) /\ SendIdle
       => OneSendAtATime)'
  BY OneSend, PTL

LEMMA Assemble ==
    ASSUME ThreadsInv', PostOfficeTypeOK', BufferSignalled', \A t \in Thread : WhereOK(t)',
           \A t \in Thread : SendOK(t)', SendIdle', WorkerSignals',
           \A b \in Box : SleepersRead(b)' /\ ItemsOK(b)'
    PROVE  PostInv'
  <1>1. OneSendAtATime'
    BY OneSendNext, Zenon
  <1> QED BY <1>1, InvSplitNext, Zenon

\* A step of the scheduler that changes nothing the post office sees.
LEMMA UnmovedInv ==
    ASSUME PostInv, ThreadsInv', ConditionsKept,
           UNCHANGED <<list, postVars, frame, value, inside>>
    PROVE  PostInv'
  <1>1. PostOfficeTypeOK'
    BY Parts, Zenon DEF PostOfficeTypeOK, postVars
  <1>2. BufferSignalled'
    BY BufferKept, Zenon DEF postVars
  <1>3. ASSUME NEW t \in Thread PROVE WhereOK(t)'
    <2>1. WhereOK(t)
      BY InvSplit, Zenon
    <2> QED BY <2>1, Zenon DEF WhereOK, postVars
  <1>4. (\A t \in Thread : SendOK(t)') /\ SendIdle'
    BY SendKept, Zenon DEF postVars
  <1>5. WorkerSignals'
    BY WorkerKept, Zenon DEF postVars
  <1>6. \A b \in Box : SleepersRead(b)' /\ ItemsOK(b)'
    BY ReadersKept, Zenon DEF postVars
  <1> QED BY <1>1, <1>2, <1>3, <1>4, <1>5, <1>6, Assemble, Zenon

\* A step of the current thread outside a send and outside what the worker does with a packet.
LEMMA OutsideStep ==
    ASSUME PostInv, ThreadsInv', PostOfficeTypeOK', NEW m \in Thread, m = me, WhereOK(m)',
           NEW f, NEW l, FrameMoves(f), LabelMoves(l),
           UNCHANGED <<program, sending, sent, inbox, value>>,
           \A t \in Thread : t # me => mail'[t] = mail[t],
           {pc[me], l} \cap {"NetworkSend", "SendUnlock"} = {},
           inside'[sendLock] = inside[sendLock],
           \/ me = Worker /\ {pc[me], l} \cap {"NetworkReceive", "Put"} = {}
           \/ me # Worker /\ \A k \in Lock : Worker \in inside[k] => Worker \in inside'[k],
           \A b \in Box : SleepersRead(b)' /\ ItemsOK(b)'
    PROVE  PostInv'
  <1>1. BufferSignalled'
    <2>1. CASE me = Worker
      BY <2>1, BufferKept, Zenon DEF LabelMoves
    <2>2. CASE me # Worker
      BY <2>2, BufferKept, Names, Zenon DEF LabelMoves, FrameMoves
    <2> QED BY <2>1, <2>2, Zenon
  <1>2. \A t \in Thread : WhereOK(t)'
    BY WhereMoved, Zenon
  <1>3. (\A t \in Thread : SendOK(t)') /\ SendIdle'
    BY SendKept, Zenon DEF LabelMoves, FrameMoves
  <1>4. WorkerSignals'
    <2>1. CASE me = Worker
      BY <2>1, Zenon DEF LabelMoves, WorkerSignals
    <2>2. CASE me # Worker
      BY <2>2, WorkerKept, Names, Zenon DEF LabelMoves, FrameMoves
    <2> QED BY <2>1, <2>2, Zenon
  <1> QED BY <1>1, <1>2, <1>3, <1>4, Assemble, Zenon

\* Such a step that changes no mailbox either.
LEMMA QuietStep ==
    ASSUME PostInv, ThreadsInv', PostOfficeTypeOK', NEW m \in Thread, m = me, WhereOK(m)',
           NEW f, NEW l, FrameMoves(f), LabelMoves(l), ConditionsKept,
           UNCHANGED <<program, sending, sent, inbox, list, value>>,
           \A t \in Thread : t # me => mail'[t] = mail[t],
           {pc[me], l} \cap {"NetworkSend", "SendUnlock"} = {},
           pc[me] = "Get" => l = "Get",
           inside'[sendLock] = inside[sendLock],
           \/ me = Worker /\ {pc[me], l} \cap {"NetworkReceive", "Put"} = {}
           \/ me # Worker /\ \A k \in Lock : Worker \in inside[k] => Worker \in inside'[k]
    PROVE  PostInv'
  <1>1. \A b \in Box : SleepersRead(b)' /\ ItemsOK(b)'
    BY ReadersKept, Names, Zenon DEF LabelMoves
  <1> QED BY <1>1, OutsideStep, Zenon

\* Where a thread that has not started, or sleeps, will go on.
LEMMA WhereItSleeps ==
    ASSUME PostInv, NEW t \in Thread
    PROVE  /\ frame[t] = "start" => pc[t] \in {"AwaitPacket", "Receive", "Send", "Unused"}
           /\ frame[t] \in Semaphore =>
                 \/ pc[t] = "NetworkReceive" /\ frame[t] = messageAvailable
                 \/ pc[t] = "SendUnlock" /\ frame[t] = messageSent
           /\ frame[t] \in Lock =>
                 \/ pc[t] = "Put" /\ frame[t] = listLock[mail[t].to]
                 \/ pc[t] = "Get" /\ frame[t] = listLock[BoxOf[t]]
                 \/ pc[t] = "NetworkSend" /\ frame[t] = sendLock
  <1>1. WhereOK(t) /\ SendOK(t) /\ pc[t] \in Label
    BY InvSplit, Parts, Zenon DEF PostOfficeTypeOK
  <1>2. /\ pc[t] = "Put" => listLock[mail[t].to] \in Lock
        /\ pc[t] = "Get" => listLock[BoxOf[t]] \in Lock
    <2>1. pc[t] = "Put" => mail[t].to \in Box
      BY <1>1, Zenon DEF WhereOK, Mail
    <2>2. pc[t] = "Get" => BoxOf[t] \in Box
      BY <1>1, Names, Zenon DEF WhereOK
    <2> QED BY <2>1, <2>2, Names, Zenon
  <1>3. CASE pc[t] \in {"NewWorker", "ForkUsers"}
    BY <1>1, <1>3, Names, Zenon DEF WhereOK
  <1>4. CASE pc[t] \in {"AwaitPacket", "PutUnlock", "Send", "Receive", "Unused"}
    BY <1>1, <1>4, Names, Zenon DEF WhereOK
  <1>5. CASE pc[t] \in {"NetworkReceive", "Put", "Get"}
    BY <1>1, <1>2, <1>5, Names, Zenon DEF WhereOK
  <1>6. CASE pc[t] \in {"NetworkSend", "SendUnlock"}
    BY <1>1, <1>6, Names, Zenon DEF SendOK
  <1> QED BY <1>1, <1>3, <1>4, <1>5, <1>6, Zenon DEF Label

-----------------------------------------------------------------------------
(***************************************************************************)
(* The threads outside a send and the worker's delivery.                   *)
(***************************************************************************)
\* A type that no step but Network::Send, the handlers and the worker needs to look at.
LEMMA TypeKept ==
    ASSUME PostInv, NEW l \in Label, pc' = [pc EXCEPT ![me] = l] \/ pc' = pc,
           UNCHANGED <<program, list, mail, sent, socket, inbox, sending, posted, received>>
    PROVE  PostOfficeTypeOK'
  BY Parts, Zenon DEF PostOfficeTypeOK

LEMMA NewPostOfficeInv ==
    ASSUME PostInv, NewPostOffice
    PROVE  PostInv'
  <1>1. PICK m \in Thread : m = me
    BY Parts, Zenon
  <1>2. ThreadsInv'
    BY ForkInv, Parts, Names, Zenon DEF NewPostOffice
  <1>3. PostOfficeTypeOK'
    BY TypeKept, Zenon DEF NewPostOffice, Goto, Label
  <1>4. FrameMoves("user") /\ ConditionsKept /\ UNCHANGED <<value, inside>>
    BY Zenon DEF NewPostOffice, Fork, At, InUser, FrameMoves, ConditionsKept, syncVars, me
  <1>5. pc[me] = "NewWorker" /\ LabelMoves("ForkUsers")
    BY Parts, Zenon DEF NewPostOffice, At, Goto, LabelMoves, PostOfficeTypeOK
  <1>6. m = MainThread
    BY <1>1, <1>5, InvSplit, Zenon DEF WhereOK
  <1>7. WhereOK(m)'
    BY <1>1, <1>4, <1>5, <1>6, Names, Zenon DEF WhereOK, FrameMoves, LabelMoves
  <1> QED BY <1>1, <1>2, <1>3, <1>4, <1>5, <1>6, <1>7, QuietStep, Names, Zenon DEF NewPostOffice

\* Main or a sender is done.
LEMMA FinishMoves ==
    ASSUME PostInv, Finish, UNCHANGED <<list, postVars>>, pc[me] \in {"ForkUsers", "Send"}
    PROVE  PostInv'
  <1>1. PICK m \in Thread : m = me
    BY Parts, Zenon
  <1>2. ThreadsInv'
    BY FinishInv, Parts, Zenon
  <1>3. PostOfficeTypeOK'
    BY Parts, Zenon DEF PostOfficeTypeOK, postVars
  <1>4. FrameMoves("finish") /\ ConditionsKept /\ UNCHANGED <<value, inside>>
    BY Parts, Zenon DEF Finish, FrameMoves, ConditionsKept, syncVars, me
  <1>5. LabelMoves(pc[me])
    BY Zenon DEF LabelMoves, postVars
  <1>6. WhereOK(m)' /\ m # Worker
    <2>1. WhereOK(m)
      BY InvSplit, Zenon
    <2>2. pc'[m] = pc[m] /\ frame'[m] = "finish"
      BY <1>1, <1>4, <1>5, Zenon DEF FrameMoves, LabelMoves
    <2> QED BY <1>1, <2>1, <2>2, Zenon DEF WhereOK
  <1> QED BY <1>1, <1>2, <1>3, <1>4, <1>5, <1>6, QuietStep, Zenon DEF postVars

LEMMA ForkUsersInv ==
    ASSUME PostInv, ForkUsers
    PROVE  PostInv'
  <1>1. CASE Finish
    BY <1>1, FinishMoves, Zenon DEF ForkUsers, At
  <1>2. CASE ~Finish
    <2>1. PICK t \in Users : Fork(t)
      BY <1>2, Zenon DEF ForkUsers
    <2>2. t \in Thread
      BY Parts, PostOfficeAssumption, Zenon DEF Users, PostOfficeTypeOK, Program
    <2>3. ThreadsInv'
      BY <2>1, <2>2, ForkInv, Parts, Zenon
    <2>4. ConditionsKept /\ UNCHANGED <<value, inside, frame>>
      BY <2>1, Zenon DEF Fork, ConditionsKept, syncVars
    <2> QED BY <2>3, <2>4, UnmovedInv, Zenon DEF ForkUsers
  <1> QED BY <1>1, <1>2, Zenon

LEMMA SenderFinishesInv ==
    ASSUME PostInv, SenderFinishes
    PROVE  PostInv'
  BY FinishMoves, Zenon DEF SenderFinishes, At

\* A thread starts: its pc is where Init put it.
LEMMA ThreadRootMoves ==
    ASSUME PostInv, ThreadRoot, UNCHANGED <<list, postVars>>
    PROVE  PostInv'
  <1>1. PICK m \in Thread : m = me
    BY Parts, Zenon
  <1>2. ThreadsInv'
    BY ThreadRootInv, Parts, Zenon
  <1>3. PostOfficeTypeOK'
    BY Parts, Zenon DEF PostOfficeTypeOK, postVars
  <1>4. /\ FrameMoves("user") /\ ConditionsKept /\ UNCHANGED <<value, inside>>
        /\ frame[me] = "start"
    BY Parts, Zenon DEF ThreadRoot, FrameMoves, ConditionsKept, syncVars, me
  <1>5. LabelMoves(pc[me])
    BY Zenon DEF LabelMoves, postVars
  <1>6. WhereOK(m)
    BY InvSplit, Zenon
  <1>7. pc[m] \in {"AwaitPacket", "Receive", "Send", "Unused"}
    BY <1>1, <1>4, WhereItSleeps, Zenon
  <1>8. WhereOK(m)'
    <2>1. pc'[m] = pc[m] /\ frame'[m] = "user"
      BY <1>1, <1>4, <1>5, Zenon DEF FrameMoves, LabelMoves
    <2> QED BY <1>6, <1>7, <2>1, Zenon DEF WhereOK
  <1> QED BY <1>1, <1>2, <1>3, <1>4, <1>5, <1>7, <1>8, QuietStep, Zenon DEF postVars

-----------------------------------------------------------------------------
(***************************************************************************)
(* PostOffice::Send.                                                       *)
(***************************************************************************)
\* What a step of a send leaves alone: the worker, the buffer and the mailboxes.
LEMMA SendStep ==
    ASSUME PostInv, ThreadsInv', PostOfficeTypeOK', NEW m \in Thread, m = me, WhereOK(m)',
           NEW f, NEW l, FrameMoves(f), LabelMoves(l), ConditionsKept,
           UNCHANGED <<inbox, list>>, value'[messageAvailable] = value[messageAvailable],
           \A t \in Thread : t # me => mail'[t] = mail[t],
           m \in Senders, pc[me] # "Get",
           \A k \in Lock : k # sendLock => inside'[k] = inside[k],
           \A t \in Thread : SendOK(t)', SendIdle'
    PROVE  PostInv'
  <1>1. m # Worker
    BY Names, Zenon
  <1>2. /\ pc'[Worker] = pc[Worker] /\ frame'[Worker] = frame[Worker]
        /\ mail'[Worker] = mail[Worker]
    BY <1>1, Names, Zenon DEF LabelMoves, FrameMoves
  <1>3. BufferSignalled'
    BY <1>2, BufferKept, Zenon
  <1>4. \A t \in Thread : WhereOK(t)'
    BY WhereMoved, Zenon
  <1>5. Worker \notin inside[sendLock]
    <2>1. WhereOK(Worker) /\ SendOK(Worker)
      BY InvSplit, Names, Zenon
    <2> QED BY <2>1, Zenon DEF WhereOK, SendOK
  <1>6. WorkerSignals'
    BY <1>2, <1>5, WorkerKept, Zenon
  <1>7. \A b \in Box : SleepersRead(b)' /\ ItemsOK(b)'
    BY ReadersKept, Names, Zenon DEF LabelMoves
  <1> QED BY <1>3, <1>4, <1>6, <1>7, Assemble, Zenon

\* Acquire of sendLock, entered or continued: its return puts the sender inside.
LEMMA LockMoves ==
    ASSUME PostInv, ThreadsInv', PostOfficeTypeOK', DoAcquire(sendLock),
           LabelMoves("NetworkSend"), UNCHANGED <<program, list, sent, inbox, sending>>,
           \A t \in Thread : t # me => mail'[t] = mail[t],
           mail'[me] \in Mail, sent[me] < program.mails[me],
           pc[me] = "Send" \/ (pc[me] = "NetworkSend" /\ frame[me] = sendLock)
    PROVE  PostInv'
  <1>1. PICK m \in Thread : m = me
    BY Parts, Zenon
  <1>2. PICK f \in {"user", sendLock} : FrameMoves(f)
    BY AcquireMoves, Names, Zenon
  <1>3. /\ \A k \in Lock : k # sendLock => inside'[k] = inside[k]
        /\ value' = value /\ ConditionsKept
    BY AcquireMoves, Names, Zenon
  <1>4. WhereOK(m) /\ SendOK(m)
    BY InvSplit, Zenon
  <1>5. m \in Senders /\ m # Worker
    BY <1>1, <1>4, Names, Zenon DEF WhereOK
  <1>6. m \notin inside[sendLock]
    BY <1>1, <1>4, Names, Zenon DEF SendOK
  <1>7. /\ f = "user" <=> m \in inside'[sendLock]
        /\ \A t \in Thread : t # m => (t \in inside'[sendLock] <=> t \in inside[sendLock])
    BY <1>1, <1>2, <1>6, AcquireMoves, Names DEF FrameMoves
  <1>8. WhereOK(m)'
    BY <1>1, <1>2, <1>5, Zenon DEF WhereOK, FrameMoves, LabelMoves
  <1>9. SendOK(m)'
    BY <1>1, <1>2, <1>7, Zenon DEF SendOK, FrameMoves, LabelMoves
  <1>10. ASSUME NEW t \in Thread, t # m PROVE SendOK(t)'
    <2>1. SendOK(t)
      BY InvSplit, Zenon
    <2>2. pc'[t] = pc[t] /\ frame'[t] = frame[t] /\ mail'[t] = mail[t]
      BY <1>1, <1>2, <1>10, Zenon DEF FrameMoves, LabelMoves
    <2> QED BY <1>3, <1>7, <1>10, <2>1, <2>2, Zenon DEF SendOK
  <1>11. SendIdle'
    <2>1. \A t \in Thread : pc'[t] # "SendUnlock" => pc[t] # "SendUnlock"
      BY Zenon DEF LabelMoves
    <2> QED BY <1>3, <2>1, InvSplit, Zenon DEF SendIdle
  <1> QED BY <1>1, <1>2, <1>3, <1>5, <1>8, <1>9, <1>10, <1>11, SendStep, Zenon

LEMMA SendLockInv ==
    ASSUME PostInv, NEW b \in Box, SendLock(b)
    PROVE  PostInv'
  <1>1. me \in Senders
    BY Parts, InvSplit, Zenon DEF SendLock, At, WhereOK
  <1>2. sent[me] < program.mails[me] /\ sent[me] \in 0..MaxMail
        /\ program.mails[me] \in 0..MaxMail /\ MaxMail \in Nat
    BY <1>1, Parts, PostOfficeAssumption, Zenon DEF SendLock, PostOfficeTypeOK, Program
  <1>3. PICK x \in Mail : mail' = [mail EXCEPT ![me] = x]
    <2>1. [from |-> me, number |-> sent[me] + 1, to |-> b] \in Mail
      BY <1>1, <1>2 DEF Mail
    <2> QED BY <2>1, Zenon DEF SendLock
  <1>4. ThreadsInv'
    BY DoAcquireInv, Parts, Names, Zenon DEF SendLock, Acquire, InUser
  <1>5. PostOfficeTypeOK'
    BY <1>3, Parts DEF SendLock, Goto, PostOfficeTypeOK, Label
  <1>6. LabelMoves("NetworkSend") /\ pc[me] = "Send"
    BY Parts, Zenon DEF SendLock, At, Goto, LabelMoves, PostOfficeTypeOK
  <1>7. mail'[me] = x /\ \A t \in Thread : t # me => mail'[t] = mail[t]
    BY <1>3, Parts, Zenon DEF PostOfficeTypeOK
  <1> QED BY <1>2, <1>4, <1>5, <1>6, <1>7, LockMoves, Zenon DEF SendLock, Acquire

\* P of messageSent, entered or continued by the sender inside sendLock, after its packet has
\* left: the interrupt is pending or its V is done.
LEMMA SentMoves ==
    ASSUME PostInv, ThreadsInv', PostOfficeTypeOK', DoP(messageSent),
           LabelMoves("SendUnlock"), UNCHANGED <<program, list, mail, sent, inbox>>,
           me \in Senders, me \in inside[sendLock], sent[me] < program.mails[me],
           pc[me] # "Get", sending' + value[messageSent] = 1
    PROVE  PostInv'
  <1>1. PICK m \in Thread : m = me
    BY Parts, Zenon
  <1>2. PICK f \in {"user", messageSent} :
           FrameMoves(f) /\ sending' + value'[messageSent] = IF f = "user" THEN 0 ELSE 1
    <2>1. /\ value[messageSent] \in Nat /\ value'[messageSent] \in Nat /\ sending' \in Nat
          /\ messageSent # "user"
      BY Parts, Names, SMTT(30) DEF PostOfficeTypeOK, ThreadsInv, ThreadsTypeOK
    <2>2. \/ FrameMoves(messageSent) /\ value'[messageSent] = value[messageSent]
          \/ FrameMoves("user") /\ value'[messageSent] = value[messageSent] - 1
      BY PMoves, Names, Zenon
    <2> QED BY <2>1, <2>2, SMTT(30)
  <1>3. /\ inside' = inside /\ ConditionsKept
        /\ value'[messageAvailable] = value[messageAvailable]
    BY PMoves, Names, Zenon
  <1>4. inside[sendLock] = {m} /\ m # Worker
    BY <1>1, Names, Parts, AloneInside, Zenon
  <1>5. WhereOK(m)'
    BY <1>1, <1>4, Zenon DEF WhereOK, LabelMoves
  <1>6. SendOK(m)'
    BY <1>1, <1>2, <1>3, Zenon DEF SendOK, FrameMoves, LabelMoves
  <1>7. ASSUME NEW t \in Thread, t # m PROVE SendOK(t)'
    <2>1. SendOK(t) /\ t \notin inside[sendLock]
      BY <1>4, <1>7, InvSplit, Zenon
    <2>2. pc'[t] = pc[t] /\ frame'[t] = frame[t]
      BY <1>1, <1>2, <1>7, Zenon DEF FrameMoves, LabelMoves
    <2> QED BY <1>3, <2>1, <2>2, Zenon DEF SendOK
  <1>8. SendIdle'
    BY <1>1, Zenon DEF SendIdle, LabelMoves
  <1> QED BY <1>1, <1>2, <1>3, <1>5, <1>6, <1>7, <1>8, SendStep

LEMMA SendPacketInv ==
    ASSUME PostInv, SendPacket
    PROVE  PostInv'
  <1>1. pc[me] = "NetworkSend" /\ frame[me] = "user"
    BY Zenon DEF SendPacket, At, InUser, me
  <1>2. /\ me \in Senders /\ me \in inside[sendLock]
        /\ mail[me] \in Mail /\ sent[me] < program.mails[me]
    BY <1>1, InvSplit, Parts, Zenon DEF WhereOK, SendOK
  <1>3. sending = 0 /\ value[messageSent] = 0
    BY <1>1, <1>2, InvSplit, Zenon DEF OneSendAtATime
  <1>4. sending' = 1
    BY <1>3 DEF SendPacket, NetworkSend
  <1>5. ThreadsInv'
    BY DoPInv, Parts, Names, Zenon DEF SendPacket, P, InUser
  <1>6. PostOfficeTypeOK'
    <2>1. socket \in Seq(Mail) /\ posted \in Seq(Mail)
      BY Parts, Zenon DEF PostOfficeTypeOK
    <2>2. Append(socket, mail[me]) \in Seq(Mail) /\ Append(posted, mail[me]) \in Seq(Mail)
      BY <1>2, <2>1
    <2>3. socket' \in Seq(Mail) /\ posted' \in Seq(Mail)
      BY <2>1, <2>2, Zenon DEF SendPacket, NetworkSend
    <2> QED BY <1>4, <2>3, Parts, Zenon DEF SendPacket, Goto, PostOfficeTypeOK, Label
  <1>7. LabelMoves("SendUnlock")
    BY Parts, Zenon DEF SendPacket, Goto, LabelMoves, PostOfficeTypeOK
  <1> QED BY <1>1, <1>2, <1>3, <1>4, <1>5, <1>6, <1>7, SentMoves DEF SendPacket, P

LEMMA SendUnlockInv ==
    ASSUME PostInv, SendUnlock
    PROVE  PostInv'
  <1>1. PICK m \in Thread : m = me
    BY Parts, Zenon
  <1>2. pc[me] = "SendUnlock" /\ frame[me] = "user" /\ LabelMoves("Send")
    BY Parts, Zenon DEF SendUnlock, At, InUser, Goto, LabelMoves, PostOfficeTypeOK, me
  <1>3. WhereOK(m) /\ SendOK(m)
    BY InvSplit, Zenon
  <1>4. m \in Senders /\ m # Worker
    BY <1>1, <1>2, <1>3, Names, Zenon DEF WhereOK
  <1>5. /\ m \in inside[sendLock] /\ sending + value[messageSent] = 0
        /\ sent[m] < program.mails[m]
    BY <1>1, <1>2, <1>3, Zenon DEF SendOK
  <1>6. inside[sendLock] = {m}
    BY <1>5, Names, Parts, AloneInside, Zenon
  <1>7. /\ FrameMoves("user") /\ value' = value /\ ConditionsKept
        /\ \A k \in Lock : k # sendLock => inside'[k] = inside[k]
        /\ inside'[sendLock] = {}
    BY <1>1, <1>2, <1>6, ReleaseMoves, Names, Zenon DEF SendUnlock, FrameMoves
  <1>8. ThreadsInv'
    BY ReleaseInv, Parts, Names, Zenon DEF SendUnlock
  <1>9. PostOfficeTypeOK'
    <2>1. sent[m] + 1 \in 0..MaxMail
      BY <1>4, <1>5, Parts, PostOfficeAssumption DEF PostOfficeTypeOK, Program
    <2> QED BY <1>1, <2>1, Parts, Zenon DEF SendUnlock, Goto, PostOfficeTypeOK, Label
  <1>10. WhereOK(m)'
    BY <1>1, <1>2, <1>4, <1>7, Zenon DEF WhereOK, FrameMoves, LabelMoves
  <1>11. SendOK(m)'
    BY <1>1, <1>2, <1>7, Zenon DEF SendOK, LabelMoves
  <1>12. ASSUME NEW t \in Thread, t # m PROVE SendOK(t)'
    <2>1. SendOK(t) /\ t \notin inside[sendLock]
      BY <1>6, <1>12, InvSplit, Zenon
    <2>2. pc'[t] = pc[t] /\ frame'[t] = frame[t]
      BY <1>1, <1>2, <1>7, <1>12, Zenon DEF FrameMoves, LabelMoves
    <2>3. pc[t] \in {"NetworkSend", "SendUnlock"} => sent'[t] = sent[t]
      <3>1. pc[t] \in {"NetworkSend", "SendUnlock"} => t \in Senders
        BY InvSplit, Zenon DEF WhereOK
      <3> QED BY <1>1, <1>12, <3>1, Parts, Zenon DEF SendUnlock, PostOfficeTypeOK
    <2> QED BY <1>7, <2>1, <2>2, <2>3, Zenon DEF SendOK, SendUnlock
  <1>13. SendIdle'
    BY <1>5, <1>7, Zenon DEF SendIdle, SendUnlock
  <1> QED BY <1>1, <1>2, <1>4, <1>7, <1>8, <1>9, <1>10, <1>11, <1>12, <1>13, SendStep, SMTT(30)
             DEF SendUnlock

\* PacketSent turns the pending interrupt into a unit of messageSent.
LEMMA PacketSentInv ==
    ASSUME PostInv, PacketSent
    PROVE  PostInv'
  <1>1. ThreadsInv'
    BY DoVInv, Parts, Names, Zenon DEF PacketSent, Handler
  <1>2. /\ frame' = frame /\ inside' = inside /\ ConditionsKept
        /\ value'[messageSent] = value[messageSent] + 1
        /\ value'[messageAvailable] = value[messageAvailable]
    BY VMoves, Names, Zenon DEF PacketSent, Handler
  <1>3. PostOfficeTypeOK'
    BY Parts DEF PacketSent, PostOfficeTypeOK
  <1>4. sending' + value'[messageSent] = sending + value[messageSent]
    BY <1>2, Parts, Names DEF PacketSent
  <1>5. BufferSignalled'
    BY <1>2, BufferKept, Zenon DEF PacketSent
  <1>6. ASSUME NEW t \in Thread PROVE WhereOK(t)'
    <2>1. WhereOK(t)
      BY InvSplit, Zenon
    <2> QED BY <1>2, <2>1, Zenon DEF WhereOK, PacketSent
  <1>7. (\A t \in Thread : SendOK(t)') /\ SendIdle'
    BY <1>2, <1>4, SendKept, Zenon DEF PacketSent
  <1>8. WorkerSignals'
    BY <1>2, WorkerKept, Zenon DEF PacketSent
  <1>9. \A b \in Box : SleepersRead(b)' /\ ItemsOK(b)'
    BY <1>2, ReadersKept, Zenon DEF PacketSent
  <1> QED BY <1>1, <1>3, <1>5, <1>6, <1>7, <1>8, <1>9, Assemble, Zenon

-----------------------------------------------------------------------------
(***************************************************************************)
(* The network's buffer and the postal worker.                             *)
(***************************************************************************)
LEMMA IncomingPacketInv ==
    ASSUME PostInv, IncomingPacket
    PROVE  PostInv'
  <1>1. ThreadsInv'
    BY DoVInv, Parts, Names, Zenon DEF IncomingPacket, Handler
  <1>2. /\ frame' = frame /\ inside' = inside /\ ConditionsKept
        /\ value'[messageAvailable] = value[messageAvailable] + 1
        /\ value'[messageSent] = value[messageSent]
    BY VMoves, Names DEF IncomingPacket, Handler
  <1>3. PICK x \in Mail : inbox' = <<x>> /\ socket' \in Seq(Mail)
    <2>1. socket \in Seq(Mail) /\ socket # <<>>
      BY Parts, Zenon DEF IncomingPacket, PostOfficeTypeOK
    <2> QED BY <2>1 DEF IncomingPacket
  <1>4. PostOfficeTypeOK'
    BY <1>3, Parts DEF IncomingPacket, PostOfficeTypeOK
  <1>5. BufferSignalled'
    <2>1. Len(inbox) = 0 /\ Len(inbox') = 1
      BY <1>3, Zenon DEF IncomingPacket
    <2> QED BY <1>2, <2>1, Parts, Names, InvSplit DEF IncomingPacket, BufferSignalled
  <1>6. ASSUME NEW t \in Thread PROVE WhereOK(t)'
    <2>1. WhereOK(t)
      BY InvSplit, Zenon
    <2> QED BY <1>2, <2>1, Zenon DEF WhereOK, IncomingPacket
  <1>7. (\A t \in Thread : SendOK(t)') /\ SendIdle'
    BY <1>2, SendKept, Zenon DEF IncomingPacket
  <1>8. WorkerSignals'
    BY <1>2, WorkerKept, Zenon DEF IncomingPacket
  <1>9. \A b \in Box : SleepersRead(b)' /\ ItemsOK(b)'
    BY <1>2, ReadersKept, Zenon DEF IncomingPacket
  <1> QED BY <1>1, <1>4, <1>5, <1>6, <1>7, <1>8, <1>9, Assemble, SMTT(30)

\* P of messageAvailable, entered or continued: its return claims the packet in the buffer.
LEMMA AwaitMoves ==
    ASSUME PostInv, ThreadsInv', PostOfficeTypeOK', DoP(messageAvailable), me = Worker,
           LabelMoves("NetworkReceive"),
           UNCHANGED <<program, list, mail, sent, inbox, sending>>,
           Len(inbox) = value[messageAvailable]
    PROVE  PostInv'
  <1>1. PICK f \in {"user", messageAvailable} :
           /\ FrameMoves(f)
           /\ Len(inbox) = value'[messageAvailable] + (IF f = "user" THEN 1 ELSE 0)
    <2>1. value[messageAvailable] \in Nat /\ messageAvailable # "user"
      BY Parts, Names, Zenon
    <2>2. \/ FrameMoves(messageAvailable) /\ value'[messageAvailable] = value[messageAvailable]
          \/ /\ FrameMoves("user") /\ value[messageAvailable] # 0
             /\ value'[messageAvailable] = value[messageAvailable] - 1
      BY PMoves, Names, Zenon
    <2> QED BY <2>1, <2>2
  <1>2. inside' = inside /\ ConditionsKept /\ value'[messageSent] = value[messageSent]
    BY PMoves, Names, Zenon
  <1>3. pc[Worker] \in {"AwaitPacket", "NetworkReceive", "Put", "PutUnlock"}
    BY InvSplit, Names, Zenon DEF WhereOK
  <1>4. BufferSignalled'
    BY <1>1, Zenon DEF BufferSignalled, FrameMoves, LabelMoves
  <1>5. \A t \in Thread : WhereOK(t)'
    <2>1. WhereOK(Worker)'
      BY <1>1, Zenon DEF WhereOK, FrameMoves, LabelMoves
    <2> QED BY <1>1, <2>1, WhereMoved, Names, Zenon
  <1>6. (\A t \in Thread : SendOK(t)') /\ SendIdle'
    BY <1>1, <1>2, <1>3, SendKept, Zenon DEF FrameMoves, LabelMoves
  <1>7. WorkerSignals'
    BY Zenon DEF WorkerSignals, LabelMoves
  <1>8. \A b \in Box : SleepersRead(b)' /\ ItemsOK(b)'
    BY <1>2, ReadersKept, Names, Zenon DEF LabelMoves
  <1> QED BY <1>4, <1>5, <1>6, <1>7, <1>8, Assemble, Zenon

LEMMA AwaitPacketInv ==
    ASSUME PostInv, AwaitPacket
    PROVE  PostInv'
  <1>1. pc[me] = "AwaitPacket" /\ me = Worker
    BY InvSplit, Parts, Zenon DEF AwaitPacket, At, WhereOK
  <1>2. ThreadsInv'
    BY DoPInv, Parts, Names, Zenon DEF AwaitPacket, P, InUser
  <1>3. PostOfficeTypeOK'
    BY TypeKept, Zenon DEF AwaitPacket, Goto, Label
  <1>4. LabelMoves("NetworkReceive")
    BY Parts, Zenon DEF AwaitPacket, Goto, LabelMoves, PostOfficeTypeOK
  <1>5. Len(inbox) = value[messageAvailable]
    BY <1>1, InvSplit, Parts, Names DEF BufferSignalled
  <1> QED BY <1>1, <1>2, <1>3, <1>4, <1>5, AwaitMoves DEF AwaitPacket, P

\* Acquire of the mailbox's lock by the worker, entered or continued.
LEMMA PutLockMoves ==
    ASSUME PostInv, ThreadsInv', PostOfficeTypeOK', BufferSignalled', me = Worker,
           NEW x \in Mail, mail'[me] = x, DoAcquire(listLock[x.to]), LabelMoves("Put"),
           UNCHANGED <<program, list, sent, sending>>,
           \A t \in Thread : t # me => mail'[t] = mail[t]
    PROVE  PostInv'
  <1>1. PICK k \in Lock : k = listLock[x.to] /\ k # sendLock
    BY Names DEF Mail
  <1>2. PICK f \in {"user", k} : FrameMoves(f) /\ (f = "user" => me \in inside'[k])
    BY <1>1, AcquireMoves, Names
  <1>3. inside'[sendLock] = inside[sendLock] /\ ConditionsKept /\ value' = value
    BY <1>1, AcquireMoves, Names
  <1>4. pc[Worker] \in {"AwaitPacket", "NetworkReceive", "Put", "PutUnlock"}
    BY InvSplit, Names, Zenon DEF WhereOK
  <1>5. \A t \in Thread : WhereOK(t)'
    <2>1. WhereOK(Worker)'
      BY <1>1, <1>2, Zenon DEF WhereOK, FrameMoves, LabelMoves
    <2> QED BY <1>2, <2>1, WhereMoved, Names, Zenon
  <1>6. (\A t \in Thread : SendOK(t)') /\ SendIdle'
    BY <1>2, <1>3, <1>4, SendKept, Zenon DEF FrameMoves, LabelMoves
  <1>7. WorkerSignals'
    BY <1>1, <1>2, Zenon DEF WorkerSignals, LabelMoves, FrameMoves
  <1>8. \A b \in Box : SleepersRead(b)' /\ ItemsOK(b)'
    BY <1>3, ReadersKept, Names, Zenon DEF LabelMoves
  <1> QED BY <1>5, <1>6, <1>7, <1>8, Assemble, Zenon

LEMMA NetworkReceiveInv ==
    ASSUME PostInv, NetworkReceive
    PROVE  PostInv'
  <1>1. pc[me] = "NetworkReceive" /\ frame[me] = "user" /\ me = Worker
    BY InvSplit, Parts, Zenon DEF NetworkReceive, At, InUser, WhereOK, me
  <1>2. Len(inbox) = value[messageAvailable] + 1
    BY <1>1, InvSplit, Zenon DEF BufferSignalled
  <1>3. value[messageAvailable] \in Nat /\ inbox \in {<<>>} \cup [1..1 -> Mail]
    BY Parts, Names, Zenon DEF PostOfficeTypeOK
  <1>4. inbox # <<>>
    BY <1>2, <1>3
  <1>5. PICK x \in Mail : x = inbox[1]
    BY <1>3, <1>4
  <1>6. value[messageAvailable] = 0
    <2>1. Len(inbox) = 1
      BY <1>3, <1>4
    <2> QED BY <1>2, <1>3, <2>1
  <1>7. PICK k \in Lock : k = listLock[x.to]
    BY Names, Zenon DEF Mail
  <1>8. DoAcquire(k) /\ InUser
    BY <1>5, <1>7, Zenon DEF NetworkReceive, LockList, Acquire
  <1>9. ThreadsInv'
    BY <1>8, DoAcquireInv, Parts, Zenon DEF InUser
  <1>10. mail' = [mail EXCEPT ![me] = x]
    BY <1>5, Zenon DEF NetworkReceive
  <1>11. PostOfficeTypeOK'
    BY <1>10, Parts DEF NetworkReceive, LockList, Goto, PostOfficeTypeOK, Label
  <1>12. LabelMoves("Put")
    BY Parts, Zenon DEF NetworkReceive, Goto, LabelMoves, PostOfficeTypeOK
  <1>13. mail'[me] = x /\ \A t \in Thread : t # me => mail'[t] = mail[t]
    BY <1>10, Parts, Zenon DEF PostOfficeTypeOK
  <1>14. BufferSignalled'
    <2>1. value' = value
      BY <1>8, AcquireMoves, Zenon
    <2>2. Len(inbox') = 0
      BY Zenon DEF NetworkReceive
    <2> QED BY <1>1, <1>6, <1>12, <2>1, <2>2 DEF BufferSignalled, LabelMoves
  <1> QED BY <1>1, <1>7, <1>8, <1>9, <1>11, <1>12, <1>13, <1>14, PutLockMoves, SMTT(30)
             DEF NetworkReceive, LockList

\* MailBox::Put returns: the worker leaves the lock and waits for the next packet.
LEMMA PutUnlockInv ==
    ASSUME PostInv, At("PutUnlock"), UnlockList(mail[me].to),
           mail' = [mail EXCEPT ![me] = NoMail], Goto("AwaitPacket"),
           UNCHANGED <<program, sent, socket, inbox, sending, posted, received>>
    PROVE  PostInv'
  <1>1. pc[me] = "PutUnlock" /\ frame[me] = "user" /\ me = Worker /\ mail[me] \in Mail
    BY InvSplit, Parts, Zenon DEF At, InUser, WhereOK, me
  <1>2. PICK k \in Lock : k = listLock[mail[me].to] /\ k # sendLock
    BY <1>1, Names, Zenon DEF Mail
  <1>3. Release(k)
    BY <1>2, Zenon DEF UnlockList
  <1>4. /\ frame' = frame /\ value' = value /\ ConditionsKept
        /\ inside'[sendLock] = inside[sendLock]
    BY <1>2, <1>3, ReleaseMoves, Names, Zenon
  <1>5. ThreadsInv'
    BY <1>3, ReleaseInv, Parts, Zenon
  <1>6. PostOfficeTypeOK'
    BY Parts, Zenon DEF UnlockList, Goto, PostOfficeTypeOK, Label
  <1>7. LabelMoves("AwaitPacket") /\ \A t \in Thread : t # me => mail'[t] = mail[t]
    BY Parts, Zenon DEF Goto, LabelMoves, PostOfficeTypeOK
  <1>8. WhereOK(Worker)'
    BY <1>1, <1>4, <1>7, Names, Zenon DEF WhereOK, LabelMoves
  <1>9. FrameMoves("user")
    BY <1>1, <1>4, Zenon DEF FrameMoves
  <1> QED BY <1>1, <1>4, <1>5, <1>6, <1>7, <1>8, <1>9, QuietStep, Names, SMTT(30) DEF UnlockList

\* MailBox::Put: the Signal is given under the lock, so that it wakes a reader if any sleeps.
LEMMA PutItemInv ==
    ASSUME PostInv, At("Put"), AppendItem(mail[me].to, mail[me]), Goto("PutUnlock"),
           UNCHANGED <<program, mail, sent, socket, inbox, sending, posted, received>>
    PROVE  PostInv'
  <1>1. pc[me] = "Put" /\ frame[me] = "user" /\ me = Worker /\ mail[me] \in Mail
    BY InvSplit, Parts, Zenon DEF At, InUser, WhereOK, me
  <1>2. PICK x \in Mail, b \in Box : x = mail[me] /\ b = x.to
    BY <1>1, Zenon DEF Mail
  <1>3. PICK k \in Lock, c \in Condition : k = listLock[b] /\ c = listEmpty[b]
    BY Names, Zenon
  <1>4. list' = [list EXCEPT ![b] = Append(list[b], x)] /\ Signal(c, k)
    BY <1>2, <1>3, Zenon DEF AppendItem
  <1>5. isHeldByCurrentThread(k)
    <2>1. Worker \in inside[k]
      BY <1>1, <1>2, <1>3, InvSplit, Zenon DEF WorkerSignals
    <2> QED BY <1>1, <2>1, AloneInside, Parts, Zenon DEF isHeldByCurrentThread, me
  <1>6. /\ queue' = [queue EXCEPT ![c] = Rest(queue[c])]
        /\ UNCHANGED <<frame, value, inside>>
    BY <1>4, <1>5, Zenon DEF Signal
  <1>7. ThreadsInv'
    BY <1>4, SignalInv, Parts, Zenon
  <1>8. /\ list[b] \in Seq(Mail) /\ Append(list[b], x) \in Seq(Mail)
        /\ Len(Append(list[b], x)) = Len(list[b]) + 1
    BY Parts DEF PostOfficeTypeOK
  <1>9. PostOfficeTypeOK'
    BY <1>4, <1>8, Parts, Zenon DEF Goto, PostOfficeTypeOK, Label
  <1>10. LabelMoves("PutUnlock")
    BY Parts, Zenon DEF Goto, LabelMoves, PostOfficeTypeOK
  <1>11. ASSUME NEW d \in Box, d # b PROVE SleepersRead(d)' /\ ItemsOK(d)'
    <2>1. queue'[listEmpty[d]] = queue[listEmpty[d]]
      BY <1>3, <1>6, <1>11, Names, Parts, Zenon
    <2>2. list'[d] = list[d]
      BY <1>4, <1>11, Parts, Zenon DEF PostOfficeTypeOK
    <2> QED BY <1>1, <1>10, <2>1, <2>2, BoxKept, Names, Zenon DEF LabelMoves
  <1>12. SleepersRead(b)' /\ ItemsOK(b)'
    <2>1. PICK q \in Seq(Thread) : q = queue[c] /\ queue'[c] = Rest(q) /\ IsInjective(q)
      <3>1. c \in WaitList
        BY Zenon DEF WaitList
      <3> QED BY <1>6, <3>1, Parts, Zenon DEF ThreadsInv, OnOneList
    <2>2. \A t \in Range(q) : t \in Receivers /\ BoxOf[t] = b /\ pc[t] = "Get"
      BY <1>3, <2>1, InvSplit, Zenon DEF SleepersRead
    <2>3. \A t \in Receivers : pc'[t] = pc[t]
      BY <1>1, <1>10, Names, Zenon DEF LabelMoves
    <2>4. Range(Rest(q)) \subseteq Range(q)
      BY <2>1, FirstRest
    <2>5. SleepersRead(b)'
      BY <1>3, <2>1, <2>2, <2>3, <2>4, Zenon DEF SleepersRead
    <2>6. ASSUME Rest(q) # <<>> PROVE Awaited(Len(list[b]) + 1, Readers(b)')
      <3>1. q # <<>> /\ Rest(q) = Tail(q)
        BY <2>6, Zenon DEF Rest
      <3>2. PICK h \in Range(q) : Range(q) = Range(Rest(q)) \cup {h} /\ h \notin Range(Rest(q))
        BY <2>1, <3>1, RemoveList, Zenon
      <3>3. Readers(b)' = Readers(b) \cup {h} /\ h \notin Readers(b)
        BY <1>3, <2>1, <2>2, <2>3, <3>2, SMTT(30) DEF Readers
      <3>4. Awaited(Len(list[b]), Readers(b)) /\ Len(list[b]) \in Nat
        BY <1>3, <1>8, <2>1, <3>1, InvSplit DEF ItemsOK
      <3> QED BY <3>3, <3>4, OneMoreReader
    <2>7. list'[b] = Append(list[b], x)
      BY <1>4, Parts, Zenon DEF PostOfficeTypeOK
    <2> QED BY <1>3, <1>8, <2>1, <2>5, <2>6, <2>7, Zenon DEF ItemsOK
  <1>13. \A d \in Box : SleepersRead(d)' /\ ItemsOK(d)'
    BY <1>11, <1>12, Zenon
  <1>14. BufferSignalled'
    BY <1>1, <1>6, <1>10, BufferKept, Zenon DEF LabelMoves
  <1>15. FrameMoves("user")
    BY <1>1, <1>6, Zenon DEF FrameMoves
  <1>16. \A t \in Thread : WhereOK(t)'
    <2>1. WhereOK(Worker)'
      BY <1>1, <1>10, <1>15, Zenon DEF WhereOK, FrameMoves, LabelMoves
    <2> QED BY <1>1, <1>10, <1>15, <2>1, WhereMoved, Names, Zenon
  <1>17. (\A t \in Thread : SendOK(t)') /\ SendIdle'
    BY <1>1, <1>6, <1>10, SendKept, Zenon DEF LabelMoves
  <1>18. WorkerSignals'
    BY <1>1, <1>10, Zenon DEF WorkerSignals, LabelMoves
  <1> QED BY <1>7, <1>9, <1>13, <1>14, <1>16, <1>17, <1>18, Assemble, Zenon

LEMMA PutInv ==
    ASSUME PostInv, Put
    PROVE  PostInv'
  BY PutItemInv, PutUnlockInv, Zenon DEF Put

-----------------------------------------------------------------------------
(***************************************************************************)
(* PostOffice::Receive.                                                    *)
(***************************************************************************)
\* Acquire of the mailbox's lock by a receiver, entered or continued.
LEMMA GetLockMoves ==
    ASSUME PostInv, ThreadsInv', PostOfficeTypeOK', me \in Receivers,
           pc[me] \in {"Receive", "Get"}, DoAcquire(listLock[BoxOf[me]]), LabelMoves("Get"),
           UNCHANGED <<program, list, mail, sent, inbox, sending>>
    PROVE  PostInv'
  <1>1. PICK m \in Thread : m = me
    BY Parts, Zenon
  <1>2. PICK k \in Lock : k = listLock[BoxOf[m]] /\ k # sendLock
    BY <1>1, Names, Zenon
  <1>3. PICK f \in {"user", k} : FrameMoves(f)
    BY <1>1, <1>2, AcquireMoves, Zenon
  <1>4. /\ ConditionsKept /\ value' = value /\ inside'[sendLock] = inside[sendLock]
        /\ \A l \in Lock : Worker \in inside[l] => Worker \in inside'[l]
    BY <1>1, <1>2, AcquireMoves, Names
  <1>5. WhereOK(m)'
    BY <1>1, <1>2, <1>3, Names, Zenon DEF WhereOK, FrameMoves, LabelMoves
  <1> QED BY <1>1, <1>3, <1>4, <1>5, QuietStep, Names, Zenon

\* An empty mailbox: the receiver joins the sleepers and leaves the lock in one step.
LEMMA AwaitItemInv ==
    ASSUME PostInv, At("Get"), AwaitItem(BoxOf[me]),
           UNCHANGED <<pc, received, program, mail, sent, socket, inbox, sending, posted>>
    PROVE  PostInv'
  <1>1. PICK m \in Thread : m = me
    BY Parts, Zenon
  <1>2. pc[me] = "Get" /\ m \in Receivers
    BY <1>1, InvSplit, Zenon DEF At, WhereOK
  <1>3. PICK b \in Box, k \in Lock, c \in Condition :
           b = BoxOf[m] /\ k = listLock[b] /\ c = listEmpty[b] /\ k # sendLock
    BY <1>2, Names, Zenon
  <1>4. list[b] = <<>> /\ Wait(c, k) /\ list' = list
    BY <1>1, <1>3, Zenon DEF AwaitItem
  <1>5. ThreadsInv'
    BY <1>4, WaitInv, Parts, Zenon
  <1>6. CASE ~isHeldByCurrentThread(k)
    <2>1. UNCHANGED <<frame, value, inside>> /\ queue' = queue
      BY <1>4, <1>6, Zenon DEF Wait, schedVars
    <2> QED BY <1>4, <1>5, <2>1, UnmovedInv, Zenon DEF ConditionsKept, postVars
  <1>7. CASE isHeldByCurrentThread(k)
    <2>1. /\ queue' = [queue EXCEPT ![k] = Rest(queue[k]), ![c] = Append(queue[c], m)]
          /\ frame' = [frame EXCEPT ![m] = k] /\ value' = value
          /\ inside' = [inside EXCEPT ![k] = inside[k] \ {m}]
      <3>1. k # c
        BY ThreadsAssumption, Zenon
      <3> QED BY <1>1, <1>4, <1>7, <3>1, Parts, Zenon DEF Wait, FreeLock, me
    <2>2. FrameMoves(k) /\ LabelMoves("Get")
      BY <1>1, <1>2, <2>1, Parts, Zenon DEF FrameMoves, LabelMoves
    <2>3. /\ inside'[sendLock] = inside[sendLock]
          /\ \A l \in Lock : Worker \in inside[l] => Worker \in inside'[l]
      BY <1>2, <1>3, <2>1, Parts, Names, Zenon
    <2>4. PostOfficeTypeOK'
      BY <1>4, Parts, Zenon DEF PostOfficeTypeOK
    <2>5. WhereOK(m)'
      BY <1>1, <1>2, <1>3, <2>2, Names, Zenon DEF WhereOK, FrameMoves, LabelMoves
    <2>6. ASSUME NEW d \in Box, d # b PROVE SleepersRead(d)' /\ ItemsOK(d)'
      <3>1. listEmpty[d] \in WaitList /\ listEmpty[d] # c /\ listEmpty[d] # k
        BY <1>3, <2>6, Names, ThreadsAssumption, Zenon
      <3>2. queue'[listEmpty[d]] = queue[listEmpty[d]]
        BY <2>1, <3>1, Parts, Zenon
      <3> QED BY <1>4, <3>2, BoxKept, Zenon
    <2>7. SleepersRead(b)'
      <3>1. c \in WaitList /\ queue[c] \in Seq(Thread)
        BY Parts, Zenon DEF WaitList
      <3>2. queue'[c] = Append(queue[c], m)
        BY <2>1, <3>1, Parts, Zenon
      <3>3. Range(queue'[c]) = Range(queue[c]) \cup {m}
        BY <3>1, <3>2, AppendList
      <3> QED BY <1>1, <1>2, <1>3, <3>3, InvSplit, SMTT(30) DEF SleepersRead
    <2>8. ItemsOK(b)'
      BY <1>4, NoneAwaited, Zenon DEF ItemsOK
    <2>9. \A d \in Box : SleepersRead(d)' /\ ItemsOK(d)'
      BY <2>6, <2>7, <2>8, Zenon
    <2> QED BY <1>1, <1>2, <1>5, <2>1, <2>2, <2>3, <2>4, <2>5, <2>9, OutsideStep, Names, Zenon
  <1> QED BY <1>6, <1>7, Zenon

\* Remove of an item: the receiver that takes it was one of those on their way to it.
LEMMA TakeItemInv ==
    ASSUME PostInv, At("Get"), TakeItem(BoxOf[me]), Goto("Receive"),
           received' = [received EXCEPT ![BoxOf[me]] = Append(@, Head(list[BoxOf[me]]))],
           UNCHANGED <<program, mail, sent, socket, inbox, sending, posted>>
    PROVE  PostInv'
  <1>1. PICK m \in Thread : m = me
    BY Parts, Zenon
  <1>2. pc[me] = "Get" /\ frame[me] = "user" /\ cpu = "running" /\ m \in Receivers
    BY <1>1, InvSplit, Zenon DEF At, InUser, WhereOK, me
  <1>3. PICK b \in Box, k \in Lock, c \in Condition :
           b = BoxOf[m] /\ k = listLock[b] /\ c = listEmpty[b] /\ k # sendLock
    BY <1>2, Names, Zenon
  <1>4. /\ list[b] # <<>> /\ list' = [list EXCEPT ![b] = Tail(list[b])] /\ Release(k)
        /\ received' = [received EXCEPT ![b] = Append(received[b], Head(list[b]))]
    BY <1>1, <1>3, Zenon DEF TakeItem
  <1>5. ThreadsInv'
    BY <1>4, ReleaseInv, Parts, Zenon
  <1>6. /\ list[b] \in Seq(Mail) /\ Tail(list[b]) \in Seq(Mail)
        /\ Len(list[b]) \in Nat /\ Len(Tail(list[b])) = Len(list[b]) - 1
        /\ Append(received[b], Head(list[b])) \in Seq(Mail)
    <2>1. list[b] \in Seq(Mail) /\ received[b] \in Seq(Mail)
      BY Parts, Zenon DEF PostOfficeTypeOK
    <2> QED BY <1>4, <2>1
  <1>7. PostOfficeTypeOK'
    BY <1>4, <1>6, Parts, SMTT(30) DEF Goto, PostOfficeTypeOK, Label
  <1>8. LabelMoves("Receive")
    BY Parts, Zenon DEF Goto, LabelMoves, PostOfficeTypeOK
  <1>9. /\ FrameMoves("user") /\ value' = value /\ ConditionsKept
        /\ inside'[sendLock] = inside[sendLock]
        /\ \A l \in Lock : Worker \in inside[l] => Worker \in inside'[l]
    <2>1. /\ frame' = frame /\ value' = value /\ ConditionsKept
          /\ \A l \in Lock : inside'[l] = IF l = k THEN inside[k] \ {me} ELSE inside[l]
      BY <1>4, ReleaseMoves, Zenon
    <2> QED BY <1>1, <1>2, <1>3, <2>1, Names, Zenon DEF FrameMoves
  <1>10. WhereOK(m)'
    BY <1>1, <1>2, <1>8, <1>9, Names, Zenon DEF WhereOK, FrameMoves, LabelMoves
  <1>11. ASSUME NEW d \in Box, d # b PROVE SleepersRead(d)' /\ ItemsOK(d)'
    <2>1. queue'[listEmpty[d]] = queue[listEmpty[d]]
      BY <1>9, Zenon DEF ConditionsKept
    <2>2. list'[d] = list[d]
      BY <1>4, <1>11, Parts, Zenon DEF PostOfficeTypeOK
    <2> QED BY <1>1, <1>3, <1>8, <1>11, <2>1, <2>2, BoxKept, Names, SMTT(60) DEF LabelMoves
  <1>12. SleepersRead(b)' /\ ItemsOK(b)'
    <2>1. queue'[c] = queue[c] /\ c \in WaitList
      BY <1>3, <1>9, Zenon DEF ConditionsKept, WaitList
    <2>2. m \notin Range(queue[c])
      BY <1>1, <1>2, <2>1, Parts, Zenon DEF ThreadsInv, NoThreadLost, me
    <2>3. \A t \in Receivers : t # m => pc'[t] = pc[t]
      BY <1>1, <1>8, Names, Zenon DEF LabelMoves
    <2>4. SleepersRead(b)'
      BY <1>3, <2>1, <2>2, <2>3, InvSplit, Zenon DEF SleepersRead
    <2>5. Readers(b)' = Readers(b) \ {m}
      BY <1>1, <1>2, <1>3, <1>8, <2>1, <2>2, <2>3, Zenon DEF Readers, LabelMoves
    <2>6. queue[c] # <<>> => Awaited(Len(list[b]), Readers(b))
      BY <1>3, InvSplit, Zenon DEF ItemsOK
    <2>7. list'[b] = Tail(list[b]) /\ Len(list[b]) # 0
      BY <1>4, <1>6, Parts DEF PostOfficeTypeOK
    <2>8. queue[c] # <<>> => Awaited(Len(list[b]) - 1, Readers(b) \ {m})
      BY <1>6, <2>6, <2>7, OneReaderLess, Zenon
    <2> QED BY <1>3, <1>6, <2>1, <2>4, <2>5, <2>7, <2>8, Zenon DEF ItemsOK
  <1>13. \A d \in Box : SleepersRead(d)' /\ ItemsOK(d)'
    BY <1>11, <1>12, Zenon
  <1> QED BY <1>1, <1>2, <1>5, <1>7, <1>8, <1>9, <1>10, <1>13, OutsideStep, Names, SMTT(30)

LEMMA GetInv ==
    ASSUME PostInv, Get
    PROVE  PostInv'
  <1>1. CASE At("Receive") /\ LockList(BoxOf[me]) /\ Goto("Get") /\ UNCHANGED received
    <2>1. pc[me] = "Receive" /\ me \in Receivers /\ listLock[BoxOf[me]] \in Lock
      BY <1>1, InvSplit, Parts, Names, Zenon DEF At, WhereOK
    <2>2. ThreadsInv'
      BY <1>1, <2>1, DoAcquireInv, Parts, Zenon DEF LockList, Acquire, InUser
    <2>3. PostOfficeTypeOK'
      BY <1>1, TypeKept, Zenon DEF Get, LockList, Goto, Label
    <2>4. LabelMoves("Get")
      BY <1>1, Parts, Zenon DEF Goto, LabelMoves, PostOfficeTypeOK
    <2> QED BY <1>1, <2>1, <2>2, <2>3, <2>4, GetLockMoves, Zenon DEF Get, LockList, Acquire
  <1>2. CASE At("Get") /\ AwaitItem(BoxOf[me]) /\ UNCHANGED <<pc, received>>
    BY <1>2, AwaitItemInv, Zenon DEF Get
  <1>3. CASE /\ At("Get") /\ TakeItem(BoxOf[me])
             /\ received' = [received EXCEPT ![BoxOf[me]] = Append(@, Head(list[BoxOf[me]]))]
             /\ Goto("Receive")
    BY <1>3, TakeItemInv, Zenon DEF Get
  <1> QED BY <1>1, <1>2, <1>3, Zenon DEF Get

-----------------------------------------------------------------------------
(***************************************************************************)
(* The kernel's own steps, and the theorem.                                *)
(***************************************************************************)
LEMMA ResumePMoves ==
    ASSUME PostInv, NEW s \in Semaphore, ResumeP(s), UNCHANGED <<list, postVars>>
    PROVE  PostInv'
  <1>1. ThreadsInv'
    BY ResumeInv, Parts, Zenon DEF Resume
  <1>2. PostOfficeTypeOK' /\ LabelMoves(pc[me])
    BY Parts, Zenon DEF PostOfficeTypeOK, LabelMoves, postVars
  <1>3. DoP(s) /\ frame[me] = s
    BY Zenon DEF ResumeP, me
  <1>4. CASE pc[me] = "NetworkReceive" /\ s = messageAvailable
    <2>1. me = Worker
      BY <1>4, InvSplit, Parts, Zenon DEF WhereOK
    <2>2. Len(inbox) = value[messageAvailable]
      BY <1>3, <1>4, <2>1, InvSplit, Parts, Names DEF BufferSignalled
    <2> QED BY <1>1, <1>2, <1>3, <1>4, <2>1, <2>2, AwaitMoves, Zenon DEF postVars
  <1>5. CASE pc[me] = "SendUnlock" /\ s = messageSent
    <2>1. /\ me \in Senders /\ me \in inside[sendLock] /\ sent[me] < program.mails[me]
          /\ sending + value[messageSent] = 1
      BY <1>3, <1>5, InvSplit, Parts, Names, Zenon DEF WhereOK, SendOK
    <2> QED BY <1>1, <1>2, <1>3, <1>5, <2>1, SentMoves, Zenon DEF postVars
  <1> QED BY <1>3, <1>4, <1>5, WhereItSleeps, Parts, Zenon

LEMMA ResumeAcquireMoves ==
    ASSUME PostInv, NEW l \in Lock, ResumeAcquire(l), UNCHANGED <<list, postVars>>
    PROVE  PostInv'
  <1>1. ThreadsInv'
    BY ResumeInv, Parts, Zenon DEF Resume
  <1>2. PostOfficeTypeOK' /\ LabelMoves(pc[me])
    BY Parts, Zenon DEF PostOfficeTypeOK, LabelMoves, postVars
  <1>3. DoAcquire(l) /\ frame[me] = l
    BY Zenon DEF ResumeAcquire, me
  <1>4. WhereOK(me) /\ SendOK(me)
    BY InvSplit, Parts, Zenon
  <1>5. CASE pc[me] = "Put" /\ l = listLock[mail[me].to]
    <2>1. me = Worker /\ mail[me] \in Mail
      BY <1>4, <1>5, Zenon DEF WhereOK
    <2>2. value' = value
      BY <1>3, AcquireMoves, Zenon
    <2>3. BufferSignalled'
      BY <1>2, <1>5, <2>1, <2>2, BufferKept, Zenon DEF LabelMoves, postVars
    <2> QED BY <1>1, <1>2, <1>3, <1>5, <2>1, <2>3, PutLockMoves, Zenon DEF postVars
  <1>6. CASE pc[me] = "Get" /\ l = listLock[BoxOf[me]]
    <2>1. me \in Receivers
      BY <1>4, <1>6, Zenon DEF WhereOK
    <2> QED BY <1>1, <1>2, <1>3, <1>6, <2>1, GetLockMoves, Zenon DEF postVars
  <1>7. CASE pc[me] = "NetworkSend" /\ l = sendLock
    <2>1. mail[me] \in Mail /\ sent[me] < program.mails[me]
      BY <1>4, <1>7, Zenon DEF SendOK
    <2> QED BY <1>1, <1>2, <1>3, <1>7, <2>1, LockMoves, Zenon DEF postVars
  <1> QED BY <1>3, <1>5, <1>6, <1>7, WhereItSleeps, Parts, Zenon

LEMMA KernelInv ==
    ASSUME PostInv, Kernel
    PROVE  PostInv'
  <1>1. CASE ThreadRoot
    BY <1>1, ThreadRootMoves, Zenon DEF Kernel
  <1>2. CASE \E s \in Semaphore : ResumeP(s)
    BY <1>2, ResumePMoves, Zenon DEF Kernel
  <1>3. CASE \E l \in Lock : ResumeAcquire(l)
    BY <1>3, ResumeAcquireMoves, Zenon DEF Kernel
  <1>4. CASE WakeFromIdle
    BY <1>4, UnmovedInv, WakeFromIdleInv, Parts, Zenon
       DEF Kernel, WakeFromIdle, ConditionsKept, syncVars
  <1> QED BY <1>1, <1>2, <1>3, <1>4, Zenon DEF Kernel, Resume

LEMMA TimeSliceInv ==
    ASSUME PostInv, TimeSlice
    PROVE  PostInv'
  BY UnmovedInv, YieldInv, Parts, Zenon DEF TimeSlice, Yield, ConditionsKept, syncVars

LEMMA UnchangedInv ==
    ASSUME PostInv, UNCHANGED vars
    PROVE  PostInv'
  <1>1. ThreadsInv'
    BY StutterInv, Parts, Zenon DEF vars
  <1>2. UNCHANGED <<list, postVars, frame, value, inside>> /\ queue' = queue
    BY Zenon DEF vars, threadVars, schedVars, syncVars
  <1> QED BY <1>1, <1>2, UnmovedInv, Zenon DEF ConditionsKept

LEMMA PostStep ==
    ASSUME PostInv, [Next]_vars
    PROVE  PostInv'
  <1>1. CASE Step
    BY <1>1, NewPostOfficeInv, ForkUsersInv, SendLockInv, SendPacketInv, SendUnlockInv,
       SenderFinishesInv, AwaitPacketInv, NetworkReceiveInv, PutInv, GetInv, Zenon DEF Step
  <1>2. CASE ~Step
    BY <1>2, PacketSentInv, IncomingPacketInv, KernelInv, TimeSliceInv, UnchangedInv, Zenon
       DEF Next
  <1> QED BY <1>1, <1>2, Zenon

LEMMA PostInit ==
    ASSUME Init
    PROVE  PostInv
  <1>1. ThreadsInv
    <2>1. [s \in Semaphore |-> 0] \in [Semaphore -> Nat]
      BY Zenon
    <2> QED BY <2>1, ThreadsInitInv, Zenon DEF Init
  <1>2. /\ frame = [t \in Thread |-> IF t = MainThread THEN "user" ELSE "start"]
        /\ value = [s \in Semaphore |-> 0] /\ inside = [l \in Lock |-> {}]
        /\ queue = [q \in WaitList |-> <<>>]
    BY Zenon DEF Init, ThreadsInit
  <1>3. /\ program \in Program /\ Worker \notin program.receivers
        /\ program.receivers \subseteq Receivers
    BY Names, PostOfficeAssumption, Zenon DEF Init, Program
  <1>4. \A t \in Thread :
          /\ pc[t] = "NewWorker" <=> t = MainThread
          /\ pc[t] = "AwaitPacket" <=> t = Worker
          /\ pc[t] = "Receive" => t \in Receivers
          /\ pc[t] = "Send" => t \in Senders
          /\ pc[t] \in {"NewWorker", "AwaitPacket", "Receive", "Send", "Unused"}
    BY <1>3, Names, PostOfficeAssumption, Zenon DEF Init
  <1>5. PostOfficeTypeOK
    <2>1. pc \in [Thread -> Label]
      BY <1>4, Zenon DEF Init, Label
    <2> QED BY <1>3, <2>1, PostOfficeAssumption DEF Init, SynchListInit, PostOfficeTypeOK, Box
  <1>6. ASSUME NEW t \in Thread PROVE WhereOK(t) /\ SendOK(t)
    <2>1. frame[t] = (IF t = MainThread THEN "user" ELSE "start") /\ t \notin inside[sendLock]
      BY <1>2, Names, Zenon
    <2> QED BY <1>4, <2>1, Names, Zenon DEF WhereOK, SendOK
  <1>7. SendIdle /\ WorkerSignals /\ BufferSignalled
    <2>1. value[messageSent] = 0 /\ value[messageAvailable] = 0 /\ pc[Worker] = "AwaitPacket"
      BY <1>2, <1>4, Names, Zenon
    <2>2. sending = 0 /\ Len(inbox) = 0
      BY Zenon DEF Init
    <2> QED BY <2>1, <2>2 DEF SendIdle, WorkerSignals, BufferSignalled
  <1>8. \A b \in Box : SleepersRead(b) /\ ItemsOK(b)
    BY <1>2, Names DEF SleepersRead, ItemsOK, Range
  <1>9. OneSendAtATime
    BY <1>1, <1>5, <1>6, <1>7, OneSend, Zenon
  <1> QED BY <1>1, <1>5, <1>6, <1>7, <1>8, <1>9, InvSplit, Zenon

\* Whatever the threads, the interrupts and the lossy network do: a packet in the one-place
\* buffer is announced to the postal worker exactly once, a thread in Network::Send finds no
\* other send under way and no stale unit of messageSent, and while a receiver sleeps in
\* MailBox::Get every mail in its box has another receiver awake and on its way to it.
THEOREM PostOfficeCorrect == Spec => []PostOfficeInv
  <1>1. Init => PostInv
    BY PostInit, Zenon
  <1>2. PostInv /\ [Next]_vars => PostInv'
    BY PostStep, Zenon
  <1>3. PostInv => PostOfficeInv
    BY Zenon DEF PostInv
  <1> QED BY <1>1, <1>2, <1>3, PTL DEF Spec

-----------------------------------------------------------------------------
(***************************************************************************)
(* The order of the mail.                                                  *)
(***************************************************************************)
\* Lists taken apart and put together in another way.
LEMMA ConcatEmpty ==
    ASSUME NEW S, NEW s \in Seq(S)
    PROVE  s \o <<>> = s /\ <<>> \o s = s
  OBVIOUS

LEMMA ConcatAppend ==
    ASSUME NEW S, NEW s \in Seq(S), NEW t \in Seq(S), NEW x \in S
    PROVE  s \o Append(t, x) = Append(s \o t, x)
  OBVIOUS

LEMMA TakeHead ==
    ASSUME NEW S, NEW s \in Seq(S), NEW t \in Seq(S), t # <<>>
    PROVE  Append(s, Head(t)) \o Tail(t) = s \o t
  BY SMTT(30)

LEMMA MoveHead ==
    ASSUME NEW S, NEW s \in Seq(S), NEW t \in Seq(S), t # <<>>
    PROVE  (s \o <<>>) \o t = (s \o <<Head(t)>>) \o Tail(t)
  OBVIOUS

\* Before anything is posted, empty boxes are in order.
LEMMA NothingPosted ==
    ASSUME NEW b, NEW p
    PROVE  InOrder(<<>>, b, p, 0)
  <1> DEFINE at == [i \in 1..0 |-> i]
  <1>1. at \in [1..Len(<<>>) -> 1..0] /\ Range(at) = {k \in 1..0 : p[k].to = b}
    BY DEF Range
  <1>2. \A i \in 1..Len(<<>>) : FALSE
    OBVIOUS
  <1> QED BY <1>1, <1>2, Zenon DEF InOrder

\* A later mail changes nothing about those before it.
LEMMA LaterPosted ==
    ASSUME NEW s \in Seq(Mail), NEW b, NEW p \in Seq(Mail), NEW n \in 0..Len(p), NEW x \in Mail,
           InOrder(s, b, p, n)
    PROVE  InOrder(s, b, Append(p, x), n)
  <1>1. \A k \in 1..n : Append(p, x)[k] = p[k]
    OBVIOUS
  <1>2. {k \in 1..n : p[k].to = b} = {k \in 1..n : Append(p, x)[k].to = b}
    BY <1>1, Zenon
  <1>3. PICK at \in [1..Len(s) -> 1..n] :
           /\ \A i, j \in 1..Len(s) : i < j => at[i] < at[j]
           /\ Range(at) = {k \in 1..n : p[k].to = b}
           /\ \A i \in 1..Len(s) : s[i] = p[at[i]]
    BY Zenon DEF InOrder
  <1>4. \A i \in 1..Len(s) : s[i] = Append(p, x)[at[i]]
    BY <1>1, <1>3, Zenon
  <1> QED BY <1>2, <1>3, <1>4, Zenon DEF InOrder

\* The next mail is delivered to another box.
LEMMA OtherDelivered ==
    ASSUME NEW s \in Seq(Mail), NEW b, NEW p \in Seq(Mail), NEW n \in Nat,
           n + 1 \in 1..Len(p), p[n + 1].to # b, InOrder(s, b, p, n)
    PROVE  InOrder(s, b, p, n + 1)
  <1>1. PICK at \in [1..Len(s) -> 1..n] :
           /\ \A i, j \in 1..Len(s) : i < j => at[i] < at[j]
           /\ Range(at) = {k \in 1..n : p[k].to = b}
           /\ \A i \in 1..Len(s) : s[i] = p[at[i]]
    BY Zenon DEF InOrder
  <1>2. 1..n + 1 = (1..n) \cup {n + 1}
    OBVIOUS
  <1>3. at \in [1..Len(s) -> 1..n + 1]
    BY <1>2, Zenon
  <1>4. Range(at) = {k \in 1..n + 1 : p[k].to = b}
    BY <1>1, <1>2, Zenon
  <1> QED BY <1>1, <1>3, <1>4, Zenon DEF InOrder

\* The next mail is delivered to the box.
LEMMA Delivered ==
    ASSUME NEW s \in Seq(Mail), NEW b, NEW p \in Seq(Mail), NEW n \in Nat,
           n + 1 \in 1..Len(p), p[n + 1].to = b, InOrder(s, b, p, n)
    PROVE  InOrder(Append(s, p[n + 1]), b, p, n + 1)
  <1>1. PICK at \in [1..Len(s) -> 1..n] :
           /\ \A i, j \in 1..Len(s) : i < j => at[i] < at[j]
           /\ Range(at) = {k \in 1..n : p[k].to = b}
           /\ \A i \in 1..Len(s) : s[i] = p[at[i]]
    BY Zenon DEF InOrder
  <1>2. PICK l \in Nat : l = Len(s)
    OBVIOUS
  <1>3. PICK e : e = [i \in 1..l + 1 |-> IF i = l + 1 THEN n + 1 ELSE at[i]]
    BY Zenon
  <1>4. 1..n + 1 = (1..n) \cup {n + 1} /\ 1..l + 1 = (1..l) \cup {l + 1} /\ l + 1 \notin 1..l
    <2>1. 1..n + 1 = (1..n) \cup {n + 1}
      OBVIOUS
    <2>2. 1..l + 1 = (1..l) \cup {l + 1}
      OBVIOUS
    <2>3. l + 1 \notin 1..l
      OBVIOUS
    <2> QED BY <2>1, <2>2, <2>3, Zenon
  <1>5. e[l + 1] = n + 1 /\ \A i \in 1..l : e[i] = at[i] /\ at[i] \in 1..n
    <2>1. e[l + 1] = n + 1
      BY <1>3, <1>4, Zenon
    <2>2. ASSUME NEW i \in 1..l PROVE e[i] = at[i] /\ at[i] \in 1..n
      <3>1. i \in 1..l + 1 /\ i # l + 1
        BY <1>4, Zenon
      <3>2. at[i] \in 1..n
        BY <1>2, Zenon
      <3> QED BY <1>3, <3>1, <3>2, Zenon
    <2> QED BY <2>1, <2>2, Zenon
  <1>6. e \in [1..l + 1 -> 1..n + 1]
    <2>1. DOMAIN e = 1..l + 1 /\ e = [i \in 1..l + 1 |-> e[i]]
      BY <1>3, Zenon
    <2>2. \A i \in 1..l + 1 : e[i] \in 1..n + 1
      BY <1>4, <1>5, Zenon
    <2> QED BY <2>1, <2>2, Zenon
  <1>7. \A i, j \in 1..l + 1 : i < j => e[i] < e[j]
    <2>1. ASSUME NEW i \in 1..l + 1, NEW j \in 1..l + 1, i < j PROVE e[i] < e[j]
      <3>1. i \in 1..l /\ e[i] = at[i] /\ at[i] \in 1..n
        BY <1>2, <1>5, <2>1
      <3>2. CASE j = l + 1
        BY <1>5, <3>1, <3>2
      <3>3. CASE j # l + 1
        BY <1>1, <1>2, <1>4, <1>5, <2>1, <3>1, <3>3, Zenon
      <3> QED BY <3>2, <3>3, Zenon
    <2> QED BY <2>1, Zenon
  <1>8. Range(e) = {k \in 1..n + 1 : p[k].to = b}
    <2>1. Range(e) = Range(at) \cup {n + 1}
      <3>1. DOMAIN e = 1..l + 1 /\ DOMAIN at = 1..l
        BY <1>2, <1>6, Zenon
      <3>2. Range(e) = {e[i] : i \in 1..l} \cup {e[l + 1]}
        BY <1>4, <3>1, Zenon DEF Range
      <3>3. {e[i] : i \in 1..l} = {at[i] : i \in 1..l}
        BY <1>5, Zenon
      <3> QED BY <1>5, <3>1, <3>2, <3>3, Zenon DEF Range
    <2> QED BY <1>1, <1>4, <2>1, Zenon
  <1>9. Append(s, p[n + 1])[l + 1] = p[n + 1] /\ \A i \in 1..l : Append(s, p[n + 1])[i] = s[i]
    BY <1>2
  <1>10. Len(Append(s, p[n + 1])) = l + 1
    BY <1>2
  <1>11. \A i \in 1..l + 1 : Append(s, p[n + 1])[i] = p[e[i]]
    BY <1>1, <1>2, <1>4, <1>5, <1>9, Zenon
  <1> QED BY <1>6, <1>7, <1>8, <1>10, <1>11, Zenon DEF InOrder

\* What MailInOrder says of the mail underway u, the mail posted p and the mail d delivered.
Ordered(u, p, d) ==
    /\ Len(u) <= Len(p)
    /\ \A i \in 1..Len(u) : u[i] = p[Len(p) - Len(u) + i]
    /\ \A b \in Box : InOrder(d[b], b, p, Len(p) - Len(u))

OnBoxes == [b \in Box |-> received[b] \o list[b]]

\* MailInOrder in this form, now and in the next state.
LEMMA InOrderSplit ==
    MailInOrder <=> Ordered(Underway, posted, OnBoxes)
  BY Zenon DEF MailInOrder, Ordered, OnBoxes

LEMMA InOrderSplitNext ==
    (MailInOrder <=> Ordered(Underway, posted, OnBoxes))'
  BY InOrderSplit, PTL

\* The mail in the worker's hands.
LEMMA MailHeld ==
    ASSUME PostInv
    PROVE  \E h \in Seq(Mail) : h = IF pc[Worker] = "Put" THEN <<mail[Worker]>> ELSE <<>>
  <1>1. pc[Worker] = "Put" => mail[Worker] \in Mail
    BY InvSplit, Names, Zenon DEF WhereOK
  <1>2. <<>> \in Seq(Mail) /\ \A x \in Mail : <<x>> \in Seq(Mail)
    OBVIOUS
  <1> QED BY <1>1, <1>2, Zenon

\* The types of the lists the mail goes through.
LEMMA MailTypes ==
    ASSUME PostInv
    PROVE  /\ Underway \in Seq(Mail) /\ posted \in Seq(Mail) /\ socket \in Seq(Mail)
           /\ inbox \in Seq(Mail) /\ OnBoxes \in [Box -> Seq(Mail)]
           /\ list \in [Box -> Seq(Mail)] /\ received \in [Box -> Seq(Mail)]
  <1>1. /\ posted \in Seq(Mail) /\ socket \in Seq(Mail)
        /\ list \in [Box -> Seq(Mail)] /\ received \in [Box -> Seq(Mail)]
        /\ inbox \in {<<>>} \cup [1..1 -> Mail]
    BY Parts, Zenon DEF PostOfficeTypeOK
  <1>2. inbox \in Seq(Mail)
    <2>1. ASSUME NEW f \in [1..1 -> Mail] PROVE f = <<f[1]>> /\ f[1] \in Mail
      OBVIOUS
    <2>2. <<>> \in Seq(Mail) /\ \A x \in Mail : <<x>> \in Seq(Mail)
      OBVIOUS
    <2> QED BY <1>1, <2>1, <2>2, Zenon
  <1>3. PICK h \in Seq(Mail) : h = IF pc[Worker] = "Put" THEN <<mail[Worker]>> ELSE <<>>
    BY MailHeld, Zenon
  <1>4. Underway = h \o inbox \o socket
    BY <1>3, Zenon DEF Underway
  <1>5. Underway \in Seq(Mail)
    BY <1>1, <1>2, <1>3, <1>4
  <1>6. \A b \in Box : received[b] \o list[b] \in Seq(Mail)
    BY <1>1
  <1> QED BY <1>1, <1>2, <1>5, <1>6, Zenon DEF OnBoxes

\* Network::Send passes a mail on.
LEMMA OrderedSent ==
    ASSUME NEW u \in Seq(Mail), NEW p \in Seq(Mail), NEW d \in [Box -> Seq(Mail)],
           NEW x \in Mail, Ordered(u, p, d)
    PROVE  Ordered(Append(u, x), Append(p, x), d)
  <1>1. PICK n \in Nat : n = Len(p) - Len(u)
    <2>1. Len(u) <= Len(p)
      BY Zenon DEF Ordered
    <2>2. Len(p) - Len(u) \in Nat
      BY <2>1
    <2> QED BY <2>2, Zenon
  <1>2. Len(Append(p, x)) - Len(Append(u, x)) = n
    BY <1>1
  <1>3. ASSUME NEW i \in 1..Len(Append(u, x)) PROVE Append(u, x)[i] = Append(p, x)[n + i]
    <2>1. CASE i \in 1..Len(u)
      <3>1. u[i] = p[n + i]
        BY <1>1, <2>1, Zenon DEF Ordered
      <3>2. n + i \in 1..Len(p)
        BY <1>1, <2>1
      <3> QED BY <2>1, <3>1, <3>2
    <2>2. CASE i = Len(u) + 1
      <3>1. n + i = Len(p) + 1
        BY <1>1, <2>2
      <3> QED BY <2>2, <3>1
    <2>3. Len(Append(u, x)) = Len(u) + 1 /\ Len(u) \in Nat
      OBVIOUS
    <2>4. i \in 1..Len(u) \/ i = Len(u) + 1
      BY <2>3
    <2> QED BY <2>1, <2>2, <2>4, Zenon
  <1>4. ASSUME NEW b \in Box PROVE InOrder(d[b], b, Append(p, x), n)
    <2>1. InOrder(d[b], b, p, n) /\ n \in 0..Len(p) /\ d[b] \in Seq(Mail)
      <3>1. n \in 0..Len(p)
        BY <1>1
      <3> QED BY <1>1, <3>1, Zenon DEF Ordered
    <2> QED BY <2>1, LaterPosted, Zenon
  <1>5. Len(Append(u, x)) <= Len(Append(p, x))
    BY <1>1
  <1> QED BY <1>2, <1>3, <1>4, <1>5, Zenon DEF Ordered

\* The postal worker puts a mail into its box.
LEMMA OrderedPut ==
    ASSUME NEW u \in Seq(Mail), NEW p \in Seq(Mail), NEW d \in [Box -> Seq(Mail)],
           NEW x \in Mail, Ordered(<<x>> \o u, p, d)
    PROVE  Ordered(u, p, [d EXCEPT ![x.to] = Append(d[x.to], x)])
  <1>1. PICK v \in Seq(Mail) : v = <<x>> \o u
    <2>1. <<x>> \o u \in Seq(Mail)
      OBVIOUS
    <2> QED BY <2>1, Zenon
  <1>2. Len(v) = Len(u) + 1 /\ v[1] = x /\ \A i \in 1..Len(u) : v[i + 1] = u[i]
    BY <1>1
  <1>3. PICK n \in Nat : n = Len(p) - Len(v)
    <2>1. Len(v) <= Len(p)
      BY <1>1, Zenon DEF Ordered
    <2>2. Len(p) - Len(v) \in Nat
      BY <2>1
    <2> QED BY <2>2, Zenon
  <1>4. Len(p) - Len(u) = n + 1 /\ n + 1 \in 1..Len(p)
    BY <1>2, <1>3
  <1>5. \A i \in 1..Len(v) : v[i] = p[n + i]
    BY <1>1, <1>3, Zenon DEF Ordered
  <1>6. p[n + 1] = x
    BY <1>2, <1>5
  <1>7. ASSUME NEW i \in 1..Len(u) PROVE u[i] = p[n + 1 + i]
    <2>1. i + 1 \in 1..Len(v) /\ n + (i + 1) = n + 1 + i
      BY <1>2
    <2> QED BY <1>2, <1>5, <2>1, Zenon
  <1>8. x.to \in Box
    BY DEF Mail
  <1>9. ASSUME NEW b \in Box
        PROVE  InOrder([d EXCEPT ![x.to] = Append(d[x.to], x)][b], b, p, n + 1)
    <2>1. InOrder(d[b], b, p, n) /\ d[b] \in Seq(Mail)
      BY <1>1, <1>3, Zenon DEF Ordered
    <2>2. CASE b = x.to
      BY <1>4, <1>6, <2>1, <2>2, Delivered, Zenon
    <2>3. CASE b # x.to
      BY <1>4, <1>6, <2>1, <2>3, OtherDelivered, Zenon
    <2> QED BY <2>2, <2>3, Zenon
  <1>10. Len(u) <= Len(p)
    BY <1>4
  <1> QED BY <1>4, <1>7, <1>9, <1>10, Zenon DEF Ordered

\* A step that moves no mail.
LEMMA NoMailMoves ==
    ASSUME MailInOrder, UNCHANGED <<inbox, socket, posted, received, list>>,
           \/ pc'[Worker] # "Put" /\ pc[Worker] # "Put"
           \/ pc'[Worker] = "Put" /\ pc[Worker] = "Put" /\ mail'[Worker] = mail[Worker]
    PROVE  MailInOrder'
  <1>1. Underway' = Underway
    BY Zenon DEF Underway
  <1>2. OnBoxes' = OnBoxes
    BY Zenon DEF OnBoxes
  <1> QED BY <1>1, <1>2, InOrderSplit, InOrderSplitNext, Zenon

\* Network::Send: the mail leaves, or the network loses it.
LEMMA SendPacketInOrder ==
    ASSUME PostInv, MailInOrder, SendPacket
    PROVE  MailInOrder'
  <1>1. me # Worker /\ mail[me] \in Mail
    BY InvSplit, Parts, Names, Zenon DEF SendPacket, At, InUser, WhereOK, SendOK
  <1>2. pc'[Worker] = pc[Worker] /\ UNCHANGED <<mail, inbox, received, list>>
    BY <1>1, Parts, Names, Zenon DEF SendPacket, Goto, PostOfficeTypeOK
  <1>3. CASE UNCHANGED <<socket, posted>>
    BY <1>2, <1>3, NoMailMoves, Zenon
  <1>4. CASE socket' = Append(socket, mail[me]) /\ posted' = Append(posted, mail[me])
    <2>1. PICK h \in Seq(Mail) : h = IF pc[Worker] = "Put" THEN <<mail[Worker]>> ELSE <<>>
      BY MailHeld, Zenon
    <2>2. Underway = h \o inbox \o socket /\ Underway' = h \o inbox \o socket'
      BY <1>2, <2>1, Zenon DEF Underway
    <2>3. Underway' = Append(Underway, mail[me])
      <3>1. inbox \in Seq(Mail) /\ socket \in Seq(Mail)
        BY MailTypes, Zenon
      <3>2. h \o inbox \in Seq(Mail)
        BY <3>1, ConcatList, Zenon
      <3>3. (h \o inbox) \o Append(socket, mail[me]) = Append(h \o inbox \o socket, mail[me])
        BY <1>1, <3>1, <3>2, ConcatAppend
      <3> QED BY <1>4, <2>2, <3>3, Zenon
    <2>4. OnBoxes' = OnBoxes
      BY <1>2, Zenon DEF OnBoxes
    <2>5. Ordered(Underway, posted, OnBoxes)
      BY InOrderSplit, Zenon
    <2>6. Ordered(Append(Underway, mail[me]), Append(posted, mail[me]), OnBoxes)
      BY <1>1, <2>5, MailTypes, OrderedSent, Zenon
    <2> QED BY <1>4, <2>3, <2>4, <2>6, InOrderSplitNext, Zenon
  <1> QED BY <1>3, <1>4, Zenon DEF SendPacket, NetworkSend

\* A packet moves from the socket into the empty buffer.
LEMMA IncomingPacketInOrder ==
    ASSUME PostInv, MailInOrder, IncomingPacket
    PROVE  MailInOrder'
  <1>1. PICK h \in Seq(Mail) : h = IF pc[Worker] = "Put" THEN <<mail[Worker]>> ELSE <<>>
    BY MailHeld, Zenon
  <1>2. Underway = h \o <<>> \o socket /\ Underway' = h \o <<Head(socket)>> \o Tail(socket)
    BY <1>1, Zenon DEF Underway, IncomingPacket
  <1>3. socket \in Seq(Mail) /\ socket # <<>>
    BY MailTypes, Zenon DEF IncomingPacket
  <1>4. (h \o <<>>) \o socket = (h \o <<Head(socket)>>) \o Tail(socket)
    <2>1. PICK s \in Seq(Mail) : s = socket /\ s # <<>>
      BY <1>3, Zenon
    <2>2. (h \o <<>>) \o s = (h \o <<Head(s)>>) \o Tail(s)
      BY <2>1, MoveHead
    <2> QED BY <2>1, <2>2, Zenon
  <1>5. OnBoxes' = OnBoxes /\ posted' = posted
    BY Zenon DEF OnBoxes, IncomingPacket
  <1> QED BY <1>2, <1>4, <1>5, InOrderSplit, InOrderSplitNext, Zenon

\* The worker takes the packet out of the buffer, which it finds full.
LEMMA NetworkReceiveInOrder ==
    ASSUME PostInv, MailInOrder, NetworkReceive
    PROVE  MailInOrder'
  <1>1. pc[me] = "NetworkReceive" /\ frame[me] = "user" /\ me = Worker
    BY InvSplit, Parts, Zenon DEF NetworkReceive, At, InUser, WhereOK, me
  <1>2. inbox = <<inbox[1]>>
    <2>1. Len(inbox) = value[messageAvailable] + 1
      BY <1>1, InvSplit, Zenon DEF BufferSignalled
    <2>2. value[messageAvailable] \in Nat /\ inbox \in {<<>>} \cup [1..1 -> Mail]
      BY Parts, Names, Zenon DEF PostOfficeTypeOK
    <2>3. inbox \in [1..1 -> Mail]
      BY <2>1, <2>2
    <2> QED BY <2>3
  <1>3. pc'[Worker] = "Put" /\ mail'[Worker] = inbox[1]
    BY <1>1, Parts, Zenon DEF NetworkReceive, Goto, PostOfficeTypeOK
  <1>4. Underway = <<>> \o inbox \o socket /\ Underway' = inbox \o <<>> \o socket
    BY <1>1, <1>2, <1>3, Zenon DEF Underway, NetworkReceive
  <1>5. Underway' = Underway
    <2>1. <<>> \o inbox = inbox /\ inbox \o <<>> = inbox
      BY MailTypes, ConcatEmpty, Zenon
    <2> QED BY <1>4, <2>1, Zenon
  <1>6. OnBoxes' = OnBoxes /\ posted' = posted
    BY Zenon DEF OnBoxes, NetworkReceive, LockList
  <1> QED BY <1>5, <1>6, InOrderSplit, InOrderSplitNext, Zenon

\* MailBox::Put moves the worker's mail to the end of its list.
LEMMA PutInOrder ==
    ASSUME PostInv, MailInOrder, Put
    PROVE  MailInOrder'
  <1>1. CASE At("PutUnlock")
    <2>1. pc[me] = "PutUnlock" /\ me = Worker
      BY <1>1, InvSplit, Parts, Zenon DEF At, WhereOK
    <2>2. pc'[Worker] = "AwaitPacket" /\ UNCHANGED <<inbox, socket, posted, received, list>>
      BY <2>1, Parts, Zenon DEF Put, At, Goto, PostOfficeTypeOK, UnlockList
    <2> QED BY <2>1, <2>2, NoMailMoves, Zenon
  <1>2. CASE At("Put")
    <2>1. pc[me] = "Put" /\ me = Worker /\ mail[me] \in Mail
      BY <1>2, InvSplit, Parts, Zenon DEF At, WhereOK
    <2>2. PICK x \in Mail, b \in Box : x = mail[Worker] /\ b = x.to
      BY <2>1, Zenon DEF Mail
    <2>3. /\ list' = [list EXCEPT ![b] = Append(list[b], x)] /\ pc'[Worker] = "PutUnlock"
          /\ UNCHANGED <<mail, socket, inbox, posted, received>>
      BY <2>1, <2>2, Parts, Zenon DEF Put, At, Goto, PostOfficeTypeOK, AppendItem
    <2>4. PICK rest \in Seq(Mail) :
             rest = (<<>> \o inbox) \o socket /\ (<<x>> \o inbox) \o socket = <<x>> \o rest
      <3>1. PICK i \in Seq(Mail), s \in Seq(Mail) : i = inbox /\ s = socket
        BY MailTypes, Zenon
      <3>2. /\ (<<>> \o i) \o s \in Seq(Mail)
            /\ (<<x>> \o i) \o s = <<x>> \o ((<<>> \o i) \o s)
        BY SMTT(30)
      <3> QED BY <3>1, <3>2, Zenon
    <2>5. Underway = <<x>> \o rest
      BY <2>1, <2>2, <2>4, Zenon DEF Underway
    <2>6. Underway' = rest
      BY <2>3, <2>4, Zenon DEF Underway
    <2>7. OnBoxes' = [OnBoxes EXCEPT ![b] = Append(OnBoxes[b], x)]
      <3>1. received[b] \o Append(list[b], x) = Append(received[b] \o list[b], x)
        <4>1. PICK r \in Seq(Mail), l \in Seq(Mail) : r = received[b] /\ l = list[b]
          BY MailTypes, Zenon
        <4>2. r \o Append(l, x) = Append(r \o l, x)
          BY ConcatAppend
        <4> QED BY <4>1, <4>2, Zenon
      <3>2. \A c \in Box : list'[c] = IF c = b THEN Append(list[b], x) ELSE list[c]
        BY <2>3, MailTypes, Zenon
      <3>3. ASSUME NEW c \in Box
            PROVE  received[c] \o list'[c] = IF c = b THEN Append(OnBoxes[b], x) ELSE OnBoxes[c]
        <4>1. CASE c = b
          BY <3>1, <3>2, <4>1, Zenon DEF OnBoxes
        <4>2. CASE c # b
          BY <3>2, <4>2, Zenon DEF OnBoxes
        <4> QED BY <4>1, <4>2, Zenon
      <3>4. OnBoxes' = [c \in Box |-> received[c] \o list'[c]]
        <4>1. received' = received
          BY <2>3, Zenon
        <4> QED BY <4>1, Zenon DEF OnBoxes
      <3>5. OnBoxes \in [Box -> Seq(Mail)]
        BY MailTypes, Zenon
      <3> QED BY <3>3, <3>4, <3>5, Zenon
    <2>8. Ordered(<<x>> \o rest, posted, OnBoxes)
      BY <2>5, InOrderSplit, Zenon
    <2>9. Ordered(rest, posted, [OnBoxes EXCEPT ![b] = Append(OnBoxes[b], x)])
      BY <2>2, <2>8, MailTypes, OrderedPut, Zenon
    <2> QED BY <2>3, <2>6, <2>7, <2>9, InOrderSplitNext, Zenon
  <1> QED BY <1>1, <1>2, Zenon DEF Put

\* MailBox::Get moves the first mail of a list to its reader.
LEMMA GetInOrder ==
    ASSUME PostInv, MailInOrder, Get
    PROVE  MailInOrder'
  <1>1. PICK m \in Thread : m = me /\ m # Worker
    BY InvSplit, Parts, Names, Zenon DEF Get, At, WhereOK
  <1>2. pc'[Worker] = pc[Worker] /\ UNCHANGED <<mail, inbox, socket, posted>>
    BY <1>1, Parts, Names, Zenon DEF Get, Goto, PostOfficeTypeOK
  <1>3. CASE UNCHANGED <<list, received>>
    BY <1>2, <1>3, NoMailMoves, Zenon
  <1>4. CASE /\ At("Get") /\ TakeItem(BoxOf[me])
             /\ received' = [received EXCEPT ![BoxOf[me]] = Append(@, Head(list[BoxOf[me]]))]
    <2>1. PICK b \in Box : b = BoxOf[m]
      BY <1>1, <1>4, InvSplit, Parts, Names, Zenon DEF At, WhereOK
    <2>2. /\ list[b] # <<>> /\ list' = [list EXCEPT ![b] = Tail(list[b])]
          /\ received' = [received EXCEPT ![b] = Append(received[b], Head(list[b]))]
      BY <1>1, <1>4, <2>1, Zenon DEF TakeItem
    <2>3. PICK r \in Seq(Mail), l \in Seq(Mail) : r = received[b] /\ l = list[b] /\ l # <<>>
      BY <2>2, MailTypes, Zenon
    <2>4. Append(r, Head(l)) \o Tail(l) = r \o l
      BY <2>3, TakeHead, Zenon
    <2>5. \A c \in Box : received'[c] \o list'[c] = received[c] \o list[c]
      <3>1. received'[b] = Append(r, Head(l)) /\ list'[b] = Tail(l)
        BY <2>2, <2>3, MailTypes, Zenon
      <3>2. \A c \in Box : c # b => received'[c] = received[c] /\ list'[c] = list[c]
        BY <2>2, MailTypes, Zenon
      <3> QED BY <2>3, <2>4, <3>1, <3>2, Zenon
    <2>6. OnBoxes' = OnBoxes
      BY <2>5, Zenon DEF OnBoxes
    <2>7. Underway' = Underway
      BY <1>2, Zenon DEF Underway
    <2> QED BY <1>2, <2>6, <2>7, InOrderSplit, InOrderSplitNext, Zenon
  <1> QED BY <1>3, <1>4, Zenon DEF Get, LockList, AwaitItem

\* Every other step leaves the mail where it is.
LEMMA OtherStepInOrder ==
    ASSUME PostInv, MailInOrder, [Next]_vars,
           ~(SendPacket \/ IncomingPacket \/ NetworkReceive \/ Put \/ Get)
    PROVE  MailInOrder'
  <1>1. CASE UNCHANGED <<list, postVars>>
    BY <1>1, NoMailMoves, Zenon DEF postVars
  <1>2. CASE NewPostOffice \/ AwaitPacket
    <2>1. /\ pc[me] \in {"NewWorker", "AwaitPacket"} /\ pc' = [pc EXCEPT ![me] = pc'[me]]
          /\ pc'[me] \in {"ForkUsers", "NetworkReceive"}
      BY <1>2, Parts, Zenon DEF NewPostOffice, AwaitPacket, At, Goto, PostOfficeTypeOK
    <2>2. \/ pc'[Worker] = pc[Worker]
          \/ pc'[Worker] # "Put" /\ pc[Worker] # "Put"
      BY <2>1, Parts, Names, Zenon DEF PostOfficeTypeOK
    <2> QED BY <1>2, <2>2, NoMailMoves, Zenon DEF NewPostOffice, AwaitPacket
  <1>3. CASE (\E b \in Box : SendLock(b)) \/ SendUnlock
    <2>1. me # Worker
      BY <1>3, InvSplit, Parts, Names, Zenon DEF SendLock, SendUnlock, At, WhereOK
    <2>2. pc'[Worker] = pc[Worker] /\ mail'[Worker] = mail[Worker]
      BY <1>3, <2>1, Parts, Names, Zenon DEF SendLock, SendUnlock, Goto, PostOfficeTypeOK
    <2> QED BY <1>3, <2>2, NoMailMoves, Zenon DEF SendLock, SendUnlock
  <1>4. CASE PacketSent
    BY <1>4, NoMailMoves, Zenon DEF PacketSent
  <1>5. CASE ForkUsers \/ SenderFinishes \/ Kernel \/ TimeSlice \/ UNCHANGED vars
    BY <1>1, <1>5, Zenon DEF ForkUsers, SenderFinishes, Kernel, TimeSlice, vars
  <1> QED BY <1>2, <1>3, <1>4, <1>5, Zenon DEF Next, Step

\* The network may lose mail; what it does not lose is neither lost, duplicated nor overtaken
\* on its way through socket, buffer, postal worker and mailbox to the threads that call
\* PostOffice::Receive, whoever sends, receives and is interrupted meanwhile.
THEOREM MailStaysInOrder == Spec => []MailInOrder
  <1>1. Init => PostInv /\ MailInOrder
    <2>1. ASSUME Init PROVE MailInOrder
      <3>1. Underway = <<>> /\ posted = <<>>
        <4>1. pc[Worker] # "Put"
          BY <2>1, Names, Zenon DEF Init
        <4> QED BY <2>1, <4>1 DEF Init, Underway
      <3>2. OnBoxes = [b \in Box |-> <<>>]
        BY <2>1 DEF Init, OnBoxes, SynchListInit, Box
      <3>3. \A b \in Box : InOrder(OnBoxes[b], b, posted, 0)
        BY <3>2, NothingPosted, Zenon
      <3>4. Ordered(Underway, posted, OnBoxes)
        BY <3>1, <3>3 DEF Ordered
      <3> QED BY <3>4, InOrderSplit, Zenon
    <2> QED BY <2>1, PostInit, Zenon
  <1>2. PostInv /\ MailInOrder /\ [Next]_vars => PostInv' /\ MailInOrder'
    BY PostStep, SendPacketInOrder, IncomingPacketInOrder, NetworkReceiveInOrder,
       PutInOrder, GetInOrder, OtherStepInOrder, Zenon
  <1> QED BY <1>1, <1>2, PTL DEF Spec

=============================================================================
