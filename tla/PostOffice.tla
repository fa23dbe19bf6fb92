----------------------------- MODULE PostOffice -----------------------------
(***************************************************************************)
(* The post office of one machine (network/post.cc) over the emulated      *)
(* network (machine/network.cc).  Threads send mail to the machine's own   *)
(* address and receive from its mailboxes; the postal worker moves the     *)
(* packets that arrive into the mailboxes.  Packets may be lost.           *)
(*                                                                         *)
(* A thread's pc names its next kernel call; an action is the code since   *)
(* the previous call returned, then that call.                             *)
(***************************************************************************)
EXTENDS SynchList

CONSTANTS
    Worker,                          \* the postal worker
    Senders, Receivers,              \* threads that call Send and Receive
    BoxOf,                           \* the mailbox a receiver reads
    MaxMail,                         \* bound: mails a sender sends
    Programs,                        \* the programs tried
    Reliable,                        \* reliability = 1: no packet is lost
    Preemptive,                      \* nachos was started with -rs
    messageAvailable, messageSent,   \* PostOffice's semaphores
    sendLock

Box == List

\* How many mails every sender sends, and which receivers there are.
Program == [mails : [Senders -> 0..MaxMail], receivers : SUBSET Receivers]

ASSUME PostOfficeAssumption ==
    /\ Worker \in Thread
    /\ Senders \subseteq Thread
    /\ Receivers \subseteq Thread
    /\ BoxOf \in [Receivers -> Box]
    /\ MaxMail \in Nat
    /\ Programs \subseteq Program
    /\ Reliable \in BOOLEAN
    /\ Preemptive \in BOOLEAN
    /\ Worker # MainThread
    /\ {Worker, MainThread} \cap (Senders \cup Receivers) = {}
    /\ {messageAvailable, messageSent} \subseteq Semaphore
    /\ messageAvailable # messageSent
    /\ sendLock \in Lock \ Range(listLock)

VARIABLES
    program,    \* the program that runs
    pc,         \* the next call of every thread
    mail,       \* the mail a sender or the worker handles
    sent,       \* mails each sender has sent
    socket,     \* packets in the machine's socket, in order
    inbox,      \* Network::inHdr and inbox: at most one packet
    sending,    \* pending NetworkSendInt interrupts
    posted,     \* history: mails the network did not lose, in order
    received    \* history: mails read from each box, in order

postVars == <<program, pc, mail, sent, socket, inbox, sending, posted, received>>
vars == <<threadVars, list, postVars>>

Mail == [from : Senders, number : 1..MaxMail, to : Box]
NoMail == [from |-> NULL]

Label == {"NewWorker", "ForkUsers", "AwaitPacket", "NetworkReceive", "Put", "PutUnlock",
          "Send", "NetworkSend", "SendUnlock", "Receive", "Get", "Unused"}

Init ==
    /\ ThreadsInit([s \in Semaphore |-> 0])
    /\ SynchListInit
    /\ program \in Programs
    /\ pc = [t \in Thread |-> CASE t = MainThread -> "NewWorker"
                                [] t = Worker -> "AwaitPacket"
                                [] t \in program.receivers -> "Receive"
                                [] t \in Senders \ program.receivers -> "Send"
                                [] OTHER -> "Unused"]
    /\ mail = [t \in Thread |-> NoMail]
    /\ sent = [t \in Senders |-> 0]
    /\ socket = <<>>
    /\ inbox = <<>>
    /\ sending = 0
    /\ posted = <<>>
    /\ received = [b \in Box |-> <<>>]

me == currentThread
At(label) == InUser /\ pc[me] = label
Goto(label) == pc' = [pc EXCEPT ![me] = label]

-----------------------------------------------------------------------------
(***************************************************************************)
(* Main creates the post office, which forks the postal worker, and then   *)
(* the threads that use it.                                                *)
(***************************************************************************)
NewPostOffice ==
    /\ At("NewWorker")
    /\ Fork(Worker)
    /\ Goto("ForkUsers")
    /\ UNCHANGED <<program, list, mail, sent, socket, inbox, sending, posted, received>>

Users == {t \in Senders : program.mails[t] > 0} \cup program.receivers

ForkUsers ==
    /\ At("ForkUsers")
    /\ LET new == {t \in Users : status[t] = "NONE"}
       IN  IF new = {} THEN Finish ELSE Fork(CHOOSE t \in new : TRUE)
    /\ UNCHANGED <<list, postVars>>

-----------------------------------------------------------------------------
(***************************************************************************)
(* PostOffice::Send.  Network::Send schedules its interrupt, then drops    *)
(* the packet or passes it to the socket.                                  *)
(***************************************************************************)
SendLock(b) ==
    /\ At("Send")
    /\ sent[me] < program.mails[me]
    /\ mail' = [mail EXCEPT ![me] = [from |-> me, number |-> sent[me] + 1, to |-> b]]
    /\ Acquire(sendLock)
    /\ Goto("NetworkSend")
    /\ UNCHANGED <<program, list, sent, socket, inbox, sending, posted, received>>

NetworkSend ==
    /\ sending' = sending + 1
    /\ \/ /\ ~Reliable
          /\ UNCHANGED <<socket, posted>>
       \/ /\ socket' = Append(socket, mail[me])
          /\ posted' = Append(posted, mail[me])

SendPacket ==
    /\ At("NetworkSend")
    /\ NetworkSend
    /\ P(messageSent)
    /\ Goto("SendUnlock")
    /\ UNCHANGED <<program, list, mail, sent, inbox, received>>

SendUnlock ==
    /\ At("SendUnlock")
    /\ Release(sendLock)
    /\ sent' = [sent EXCEPT ![me] = @ + 1]
    /\ Goto("Send")
    /\ UNCHANGED <<program, list, mail, socket, inbox, sending, posted, received>>

\* PostOffice::PacketSent, called by Network::SendDone.
PacketSent ==
    /\ sending > 0
    /\ sending' = sending - 1
    /\ Handler(messageSent)
    /\ UNCHANGED <<program, list, pc, mail, sent, socket, inbox, posted, received>>

-----------------------------------------------------------------------------
(***************************************************************************)
(* Network::CheckPktAvail and PostOffice::IncomingPacket.                  *)
(***************************************************************************)
IncomingPacket ==
    /\ inbox = <<>>
    /\ socket # <<>>
    /\ inbox' = <<Head(socket)>>
    /\ socket' = Tail(socket)
    /\ Handler(messageAvailable)
    /\ UNCHANGED <<program, list, pc, mail, sent, sending, posted, received>>

-----------------------------------------------------------------------------
(***************************************************************************)
(* PostOffice::PostalDelivery, the worker's loop; MailBox::Put is an       *)
(* Append to the mailbox's list.                                           *)
(***************************************************************************)
AwaitPacket ==
    /\ At("AwaitPacket")
    /\ P(messageAvailable)
    /\ Goto("NetworkReceive")
    /\ UNCHANGED <<program, list, mail, sent, socket, inbox, sending, posted, received>>

\* Mutant of NetworkReceive: the packet is copied out and stays in the buffer.
NetworkReceiveKeeps ==
    /\ At("NetworkReceive")
    /\ mail' = [mail EXCEPT ![me] = inbox[1]]
    /\ LockList(inbox[1].to)
    /\ Goto("Put")
    /\ UNCHANGED <<program, sent, socket, inbox, sending, posted, received>>

NetworkReceive ==
    /\ At("NetworkReceive")
    /\ mail' = [mail EXCEPT ![me] = inbox[1]]
    /\ inbox' = <<>>
    /\ LockList(inbox[1].to)
    /\ Goto("Put")
    /\ UNCHANGED <<program, sent, socket, sending, posted, received>>

Put ==
    \/ /\ At("Put")
       /\ AppendItem(mail[me].to, mail[me])
       /\ Goto("PutUnlock")
       /\ UNCHANGED <<program, mail, sent, socket, inbox, sending, posted, received>>
    \/ /\ At("PutUnlock")
       /\ UnlockList(mail[me].to)
       /\ mail' = [mail EXCEPT ![me] = NoMail]
       /\ Goto("AwaitPacket")
       /\ UNCHANGED <<program, sent, socket, inbox, sending, posted, received>>

-----------------------------------------------------------------------------
(***************************************************************************)
(* PostOffice::Receive: MailBox::Get is a Remove from the mailbox's list.  *)
(***************************************************************************)
\* Mutant of Get: an empty list is tested with "if", not again after the wait.
GetWithoutRetest ==
    /\ \/ At("Receive") /\ LockList(BoxOf[me]) /\ Goto("Get") /\ UNCHANGED received
       \/ At("Get") /\ AwaitItem(BoxOf[me]) /\ Goto("Take") /\ UNCHANGED received
       \/ /\ At("Get") \/ At("Take")
          /\ TakeItem(BoxOf[me])
          /\ received' = [received EXCEPT ![BoxOf[me]] = Append(@, Head(list[BoxOf[me]]))]
          /\ Goto("Receive")
    /\ UNCHANGED <<program, mail, sent, socket, inbox, sending, posted>>

Get ==
    /\ \/ At("Receive") /\ LockList(BoxOf[me]) /\ Goto("Get") /\ UNCHANGED received
       \/ At("Get") /\ AwaitItem(BoxOf[me]) /\ UNCHANGED <<pc, received>>
       \/ /\ At("Get")
          /\ TakeItem(BoxOf[me])
          /\ received' = [received EXCEPT ![BoxOf[me]] = Append(@, Head(list[BoxOf[me]]))]
          /\ Goto("Receive")
    /\ UNCHANGED <<program, mail, sent, socket, inbox, sending, posted>>

-----------------------------------------------------------------------------
SenderFinishes ==
    /\ At("Send")
    /\ sent[me] = program.mails[me]
    /\ Finish
    /\ UNCHANGED <<list, postVars>>

Step ==
    \/ NewPostOffice \/ ForkUsers
    \/ \E b \in Box : SendLock(b)
    \/ SendPacket \/ SendUnlock \/ SenderFinishes
    \/ AwaitPacket \/ NetworkReceive \/ Put
    \/ Get

\* The poll for packets is always pending, so that an idle machine does not halt.
Kernel == (Resume \/ WakeFromIdle) /\ UNCHANGED <<list, postVars>>

TimeSlice == Preemptive /\ readyList # <<>> /\ Yield /\ UNCHANGED <<list, postVars>>

Next == Step \/ PacketSent \/ IncomingPacket \/ Kernel \/ TimeSlice

Spec == Init /\ [][Next]_vars

(***************************************************************************)
(* Interrupts come at their due time and the network is polled again and   *)
(* again; the processor does not stop, and a thread that gets it again and *)
(* again goes on (slices have random lengths, timer.cc).                   *)
(***************************************************************************)
FairSpec ==
    /\ Spec
    /\ WF_vars(Kernel)
    /\ WF_vars(PacketSent)
    /\ WF_vars(IncomingPacket)
    /\ \A t \in Thread : SF_vars(currentThread = t /\ Step)

-----------------------------------------------------------------------------
(***************************************************************************)
(* Properties.                                                             *)
(***************************************************************************)
\* Type invariant.
PostOfficeTypeOK ==
    /\ program \in Program
    /\ pc \in [Thread -> Label]
    /\ list \in [Box -> Seq(Mail)]
    /\ mail \in [Thread -> Mail \cup {NoMail}]
    /\ sent \in [Senders -> 0..MaxMail]
    /\ socket \in Seq(Mail)
    /\ inbox \in {<<>>} \cup [1..1 -> Mail]
    /\ sending \in {0, 1}
    /\ posted \in Seq(Mail)
    /\ received \in [Box -> Seq(Mail)]

\* The mail that the network did not lose and that is on no list yet, oldest first.
Underway ==
    LET held == IF pc[Worker] = "Put" THEN <<mail[Worker]>> ELSE <<>>
    IN  held \o inbox \o socket

\* s is the mail for box b among the first n of p, in the order of p.
InOrder(s, b, p, n) ==
    \E at \in [1..Len(s) -> 1..n] :
        /\ \A i, j \in 1..Len(s) : i < j => at[i] < at[j]
        /\ Range(at) = {k \in 1..n : p[k].to = b}
        /\ \A i \in 1..Len(s) : s[i] = p[at[i]]

\* No mail is lost, duplicated or overtaken between Network::Send and Receive, whatever
\* interrupts, worker and receivers do meanwhile: the last mails posted are those underway,
\* and what was read from a box and is on its list are all earlier ones to it, in order.
MailInOrder ==
    LET n == Len(posted) - Len(Underway)
    IN  /\ Len(Underway) <= Len(posted)
        /\ \A i \in 1..Len(Underway) : Underway[i] = posted[n + i]
        /\ \A b \in Box : InOrder(received[b] \o list[b], b, posted, n)

\* The one-packet buffer of the network and messageAvailable agree: the worker finds a
\* packet in the buffer exactly as often as its P returns.
BufferSignalled ==
    Len(inbox) = value[messageAvailable]
                 + (IF pc[Worker] = "NetworkReceive" /\ frame[Worker] = "user" THEN 1 ELSE 0)

\* "only one message can be sent to the network at any one time" (post.cc): a thread that
\* is about to send finds no other send in progress and none of its own interrupts early.
OneSendAtATime ==
    \A t \in Senders : pc[t] = "NetworkSend" /\ frame[t] = "user" =>
        sending = 0 /\ value[messageSent] = 0

\* No Signal of SynchList::Append is lost: while receivers sleep on an empty list, each item
\* on it has another receiver of its own on its way to the list, whoever overtakes whom.
ItemsAwaited ==
    \A b \in Box :
        queue[listEmpty[b]] # <<>> =>
            Injection(1..Len(list[b]), {t \in Receivers :
                /\ BoxOf[t] = b
                /\ pc[t] = "Get"
                /\ t \notin Range(queue[listEmpty[b]])}) # {}

\* Every thread is in its own part of the program, and sleeps only in the call it has made.
WhereThreadsAre ==
    \A t \in Thread :
        /\ pc[t] \in {"NewWorker", "ForkUsers"} =>
              t = MainThread /\ frame[t] \in {"user", "finish"}
        /\ pc[t] \in {"AwaitPacket", "NetworkReceive", "Put", "PutUnlock"} <=> t = Worker
        /\ pc[t] \in {"Send", "NetworkSend", "SendUnlock"} => t \in Senders
        /\ pc[t] \in {"Receive", "Get"} => t \in Receivers
        /\ pc[t] \in {"AwaitPacket", "Receive"} => frame[t] \in {"start", "user"}
        /\ pc[t] = "NetworkReceive" => frame[t] \in {"user", messageAvailable}
        /\ pc[t] = "Put" => frame[t] \in {"user", listLock[mail[t].to]} /\ mail[t] \in Mail
        /\ pc[t] = "PutUnlock" => frame[t] = "user" /\ mail[t] \in Mail
        /\ pc[t] \in {"Send", "Unused"} => frame[t] \in {"start", "user", "finish"}
        /\ pc[t] = "Get" => frame[t] \in {"user", listLock[BoxOf[t]]}

\* A send happens under sendLock: the holder is between NetworkSend and SendUnlock, and what
\* is missing of its interrupt or of its P is either pending or a unit of messageSent.
SendUnderLock ==
    /\ \A t \in Thread :
         IF pc[t] = "NetworkSend"
         THEN /\ frame[t] \in {"user", sendLock}
              /\ frame[t] = "user" <=> t \in inside[sendLock]
              /\ mail[t] \in Mail /\ sent[t] < program.mails[t]
         ELSE IF pc[t] = "SendUnlock"
         THEN /\ frame[t] \in {"user", messageSent} /\ t \in inside[sendLock]
              /\ sent[t] < program.mails[t]
              /\ sending + value[messageSent] = IF frame[t] = "user" THEN 0 ELSE 1
         ELSE t \notin inside[sendLock]
    /\ (\A t \in Thread : pc[t] # "SendUnlock") => sending + value[messageSent] = 0

\* The worker signals under the lock of the list, and who sleeps on listEmpty is a receiver
\* of that list inside its Remove.
SignalsReachReaders ==
    /\ pc[Worker] = "Put" /\ frame[Worker] = "user" =>
          Worker \in inside[listLock[mail[Worker].to]]
    /\ \A b \in Box : \A t \in Range(queue[listEmpty[b]]) :
          t \in Receivers /\ BoxOf[t] = b /\ pc[t] = "Get"

\* The inductive invariant of the post office: a full buffer is announced to the postal
\* worker, one send is in progress at a time, and no reader sleeps on a box that holds
\* unclaimed mail.
PostOfficeInv ==
    /\ PostOfficeTypeOK
    /\ BufferSignalled
    /\ OneSendAtATime
    /\ ItemsAwaited
    /\ WhereThreadsAre
    /\ SendUnderLock
    /\ SignalsReachReaders

For(b, s) == SelectSeq(s, LAMBDA x : x.to = b)

\* Every Send returns, and all mail to a box that somebody receives from is read in the
\* end: no arrival is missed and no wakeup of a sender, the worker or a receiver is lost.
MailIsRead ==
    <>[](/\ \A t \in Senders : sent[t] = program.mails[t]
         /\ \A b \in {BoxOf[t] : t \in program.receivers} : received[b] = For(b, posted))

=============================================================================
