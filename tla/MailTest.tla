------------------------------ MODULE MailTest ------------------------------
(***************************************************************************)
(* The network test (network/nettest.cc): machines run MailTest against    *)
(* each other.  Every machine sends a message to its peer, waits for one,  *)
(* acknowledges it and waits for its own acknowledgement, then halts.      *)
(*                                                                         *)
(* Post offices and network are taken by what module PostOffice shows of   *)
(* them: mail between two machines is not reordered or duplicated, Send    *)
(* does not wait for the receiver, and a packet may be lost.               *)
(***************************************************************************)
EXTENDS Naturals, Sequences, Functions

CONSTANTS
    Machine,
    Reliabilities  \* whether packets may be lost (-n), not, or both

ASSUME MailTestAssumption == Reliabilities \subseteq BOOLEAN

VARIABLES
    reliable,  \* reliability = 1: no packet is lost
    farAddr,   \* MailTest's argument on every machine
    pc,        \* the next step of MailTest
    replyTo,   \* inPktHdr.from of the message it has received
    socket,    \* packets under way to each machine, in order
    box,       \* its mailboxes 0 and 1
    read       \* history: the machines whose message each machine has read

vars == <<reliable, farAddr, pc, replyTo, socket, box, read>>

\* Peers name each other; a machine may be its own peer.
Init ==
    /\ reliable \in Reliabilities
    /\ farAddr \in {f \in [Machine -> Machine] : \A m \in Machine : f[f[m]] = m}
    /\ pc = [m \in Machine |-> "SendMessage"]
    /\ replyTo = [m \in Machine |-> m]
    /\ socket = [m \in Machine |-> <<>>]
    /\ box = [m \in Machine |-> [b \in {0, 1} |-> <<>>]]
    /\ read = [m \in Machine |-> {}]

Goto(m, label) == pc' = [pc EXCEPT ![m] = label]

Send(m, to, b) ==
    \/ socket' = [socket EXCEPT ![to] = Append(@, [from |-> m, to |-> b])]
    \/ ~reliable /\ UNCHANGED socket

SendMessage(m) ==
    /\ pc[m] = "SendMessage"
    /\ Send(m, farAddr[m], 0)
    /\ Goto(m, "AwaitMessage")
    /\ UNCHANGED <<reliable, farAddr, replyTo, box, read>>

\* Mutant of AwaitMessage: it does not wait for the message of the peer.
AwaitMessageInVain(m) ==
    /\ pc[m] = "AwaitMessage"
    /\ replyTo' = [replyTo EXCEPT ![m] = farAddr[m]]
    /\ Goto(m, "SendAck")
    /\ UNCHANGED <<reliable, farAddr, socket, box, read>>

AwaitMessage(m) ==
    /\ pc[m] = "AwaitMessage"
    /\ box[m][0] # <<>>
    /\ replyTo' = [replyTo EXCEPT ![m] = Head(box[m][0]).from]
    /\ read' = [read EXCEPT ![m] = @ \cup {Head(box[m][0]).from}]
    /\ box' = [box EXCEPT ![m][0] = Tail(@)]
    /\ Goto(m, "SendAck")
    /\ UNCHANGED <<reliable, farAddr, socket>>

\* Mutant of SendAck: the acknowledgement goes to the box the message came to.
SendAckToBoxZero(m) ==
    /\ pc[m] = "SendAck"
    /\ Send(m, replyTo[m], 0)
    /\ Goto(m, "AwaitAck")
    /\ UNCHANGED <<reliable, farAddr, replyTo, box, read>>

SendAck(m) ==
    /\ pc[m] = "SendAck"
    /\ Send(m, replyTo[m], 1)
    /\ Goto(m, "AwaitAck")
    /\ UNCHANGED <<reliable, farAddr, replyTo, box, read>>

AwaitAck(m) ==
    /\ pc[m] = "AwaitAck"
    /\ box[m][1] # <<>>
    /\ box' = [box EXCEPT ![m][1] = Tail(@)]
    /\ Goto(m, "Halted")
    /\ UNCHANGED <<reliable, farAddr, replyTo, socket, read>>

\* The postal worker of a machine that has not halted.
Deliver(m) ==
    /\ pc[m] # "Halted"
    /\ socket[m] # <<>>
    /\ box' = [box EXCEPT ![m][Head(socket[m]).to] = Append(@, Head(socket[m]))]
    /\ socket' = [socket EXCEPT ![m] = Tail(@)]
    /\ UNCHANGED <<reliable, farAddr, pc, replyTo, read>>

Step(m) == SendMessage(m) \/ AwaitMessage(m) \/ SendAck(m) \/ AwaitAck(m) \/ Deliver(m)

Next == \E m \in Machine : Step(m)

Spec == Init /\ [][Next]_vars

\* Every machine goes on while it can: the machines are separate UNIX processes.
FairSpec == Spec /\ \A m \in Machine : WF_vars(Step(m))

-----------------------------------------------------------------------------
Packet == [from : Machine, to : {0, 1}]

\* Type invariant.
MailTestTypeOK ==
    /\ reliable \in BOOLEAN
    /\ farAddr \in [Machine -> Machine]
    /\ \A m \in Machine : farAddr[farAddr[m]] = m
    /\ pc \in [Machine -> {"SendMessage", "AwaitMessage", "SendAck", "AwaitAck", "Halted"}]
    /\ replyTo \in [Machine -> Machine]
    /\ socket \in [Machine -> Seq(Packet)]
    /\ box \in [Machine -> [{0, 1} -> Seq(Packet)]]
    /\ read \in [Machine -> SUBSET Machine]

\* Mail comes from the peer only, a machine about to acknowledge has read the message of
\* its peer, and so has every machine whose acknowledgement is under way or in a box.
AcksFollowReads ==
    \A m \in Machine :
        /\ \A p \in Range(socket[m]) : /\ p.from = farAddr[m]
                                       /\ p.to = 1 => m \in read[farAddr[m]]
        /\ \A p \in Range(box[m][0]) : p.from = farAddr[m]
        /\ box[m][1] # <<>> => m \in read[farAddr[m]]
        /\ pc[m] = "SendAck" => replyTo[m] = farAddr[m] /\ farAddr[m] \in read[m]

\* "wait for an acknowledgement from the other machine to our original message": a machine
\* that has halted knows that its peer has read its message, even if packets are lost.
HaltedMeansRead ==
    \A m \in Machine : pc[m] = "Halted" => m \in read[farAddr[m]]

\* The invariant of MailTest: nobody acknowledges what it has not read, so that a machine
\* that has halted knows that its peer has read its message, even if packets are lost.
MailTestInv == MailTestTypeOK /\ AcksFollowReads /\ HaltedMeansRead

\* With a reliable network every machine finishes the test.  (With losses it may wait for
\* ever: nothing is sent twice.)
EverybodyHalts == <>(~reliable \/ \A m \in Machine : pc[m] = "Halted")

=============================================================================
