--------------------------- MODULE MailTestProofs ----------------------------
(***************************************************************************)
(* The network test: a machine that halts has been read, for any number of *)
(* machines and whatever packets are lost.                                 *)
(***************************************************************************)
EXTENDS MailTest, TLAPS

\* A packet that joins a list is on it; the others stay.
LEMMA AppendPacket ==
    ASSUME NEW s \in Seq(Packet), NEW e \in Packet
    PROVE  /\ Append(s, e) \in Seq(Packet)
           /\ Range(Append(s, e)) = Range(s) \cup {e}
  <1>1. /\ Append(s, e) \in Seq(Packet)
        /\ DOMAIN Append(s, e) = 1..(Len(s) + 1)
        /\ \A i \in 1..Len(s) : Append(s, e)[i] = s[i]
        /\ Append(s, e)[Len(s) + 1] = e
    OBVIOUS
  <1>2. Len(s) \in Nat /\ DOMAIN s = 1..Len(s)
    OBVIOUS
  <1> QED BY <1>1, <1>2 DEF Range

\* The first packet of a list is taken off; the others were on it.
LEMMA RemovePacket ==
    ASSUME NEW s \in Seq(Packet), s # <<>>
    PROVE  /\ Head(s) \in Packet /\ Head(s) \in Range(s)
           /\ Tail(s) \in Seq(Packet) /\ Range(Tail(s)) \subseteq Range(s)
  <1>1. /\ Head(s) \in Packet /\ Tail(s) \in Seq(Packet)
        /\ Len(Tail(s)) = Len(s) - 1
        /\ \A i \in 1..Len(Tail(s)) : Tail(s)[i] = s[i + 1]
    OBVIOUS
  <1>2. Len(s) \in Nat \ {0} /\ DOMAIN s = 1..Len(s) /\ DOMAIN Tail(s) = 1..(Len(s) - 1)
    BY <1>1
  <1>3. Head(s) = s[1]
    OBVIOUS
  <1> QED BY <1>1, <1>2, <1>3 DEF Range

\* What AcksFollowReads says of machine m.
MailOK(m) ==
    /\ \A p \in Range(socket[m]) : /\ p.from = farAddr[m]
                                   /\ p.to = 1 => m \in read[farAddr[m]]
    /\ \A p \in Range(box[m][0]) : p.from = farAddr[m]
    /\ box[m][1] # <<>> => m \in read[farAddr[m]]
    /\ pc[m] = "SendAck" => replyTo[m] = farAddr[m] /\ farAddr[m] \in read[m]

LEMMA MailParts ==
    /\ AcksFollowReads <=> \A m \in Machine : MailOK(m)
    /\ AcksFollowReads' <=> \A m \in Machine : MailOK(m)'
  BY Zenon DEF AcksFollowReads, MailOK

\* A packet is lost or joins the ones under way to its receiver; the sender is the
\* receiver's peer, and sends an acknowledgement only of what it has read.
LEMMA SendOK ==
    ASSUME MailTestTypeOK, AcksFollowReads,
           NEW m \in Machine, NEW b \in {0, 1}, Send(m, farAddr[m], b),
           b = 1 => farAddr[m] \in read[m],
           NEW label \in {"AwaitMessage", "AwaitAck"}, Goto(m, label),
           UNCHANGED <<reliable, farAddr, replyTo, box, read>>
    PROVE  MailTestTypeOK' /\ AcksFollowReads'
  <1>1. farAddr[m] \in Machine /\ [from |-> m, to |-> b] \in Packet
    BY Zenon DEF MailTestTypeOK, Packet
  <1>2. /\ socket' \in [Machine -> Seq(Packet)]
        /\ \A n \in Machine : \A p \in Range(socket'[n]) :
              \/ p \in Range(socket[n])
              \/ n = farAddr[m] /\ p = [from |-> m, to |-> b]
    <2>1. CASE UNCHANGED socket
      BY <2>1, Zenon DEF MailTestTypeOK
    <2>2. CASE socket' = [socket EXCEPT ![farAddr[m]] = Append(@, [from |-> m, to |-> b])]
      <3>1. socket[farAddr[m]] \in Seq(Packet)
        BY <1>1, Zenon DEF MailTestTypeOK
      <3>2. /\ Append(socket[farAddr[m]], [from |-> m, to |-> b]) \in Seq(Packet)
            /\ Range(Append(socket[farAddr[m]], [from |-> m, to |-> b]))
                  = Range(socket[farAddr[m]]) \cup {[from |-> m, to |-> b]}
        BY <1>1, <3>1, AppendPacket, Zenon
      <3> QED BY <1>1, <2>2, <3>2, Zenon DEF MailTestTypeOK
    <2> QED BY <2>1, <2>2, Zenon DEF Send
  <1>3. MailTestTypeOK'
    BY <1>2, Zenon DEF MailTestTypeOK, Goto
  <1>4. ASSUME NEW n \in Machine PROVE MailOK(n)'
    <2>1. MailOK(n)
      BY MailParts, Zenon
    <2>2. pc'[n] = "SendAck" => pc[n] = "SendAck"
      BY Zenon DEF Goto, MailTestTypeOK
    <2>3. ASSUME NEW p \in Range(socket'[n])
          PROVE  p.from = farAddr[n] /\ (p.to = 1 => n \in read[farAddr[n]])
      <3>1. CASE p \in Range(socket[n])
        BY <2>1, <3>1, Zenon DEF MailOK
      <3>2. CASE n = farAddr[m] /\ p = [from |-> m, to |-> b]
        BY <3>2, Zenon DEF MailTestTypeOK
      <3> QED BY <1>2, <3>1, <3>2, Zenon
    <2> QED BY <2>1, <2>2, <2>3, Zenon DEF MailOK
  <1> QED BY <1>3, <1>4, MailParts, Zenon

LEMMA AwaitMessageOK ==
    ASSUME MailTestTypeOK, AcksFollowReads, NEW m \in Machine, AwaitMessage(m)
    PROVE  MailTestTypeOK' /\ AcksFollowReads'
  <1> DEFINE from == Head(box[m][0]).from
  <1>1. /\ box[m][0] \in Seq(Packet) /\ box[m][0] # <<>> /\ box[m][1] \in Seq(Packet)
    BY Zenon DEF MailTestTypeOK, AwaitMessage
  <1>2. /\ Head(box[m][0]) \in Packet /\ Head(box[m][0]) \in Range(box[m][0])
        /\ Tail(box[m][0]) \in Seq(Packet)
        /\ Range(Tail(box[m][0])) \subseteq Range(box[m][0])
    BY <1>1, RemovePacket, Zenon
  <1>3. from = farAddr[m] /\ from \in Machine
    BY <1>2, MailParts, Zenon DEF MailOK, Packet
  <1> HIDE DEF from
  <1>4. /\ UNCHANGED <<reliable, farAddr, socket>>
        /\ replyTo' = [replyTo EXCEPT ![m] = from]
        /\ read' = [read EXCEPT ![m] = @ \cup {from}]
        /\ pc' = [pc EXCEPT ![m] = "SendAck"]
        /\ box' = [box EXCEPT ![m][0] = Tail(@)]
    BY Zenon DEF AwaitMessage, Goto, from
  <1>5. /\ box' \in [Machine -> [{0, 1} -> Seq(Packet)]]
        /\ \A n \in Machine : /\ Range(box'[n][0]) \subseteq Range(box[n][0])
                              /\ box'[n][1] = box[n][1]
    BY <1>1, <1>2, <1>4 DEF MailTestTypeOK
  <1>6. MailTestTypeOK'
    BY <1>3, <1>4, <1>5 DEF MailTestTypeOK
  <1>7. ASSUME NEW n \in Machine PROVE MailOK(n)'
    <2>1. MailOK(n) /\ farAddr[n] \in Machine
      BY MailParts, Zenon DEF MailTestTypeOK
    <2>2. \A k \in Machine : read[k] \subseteq read'[k]
      BY <1>4, Zenon DEF MailTestTypeOK
    <2>3. pc'[n] = "SendAck" => replyTo'[n] = farAddr[n] /\ farAddr[n] \in read'[n]
      BY <1>3, <1>4, <2>1, <2>2 DEF MailTestTypeOK, MailOK
    <2> QED BY <1>4, <1>5, <2>1, <2>2, <2>3, Zenon DEF MailOK
  <1> QED BY <1>6, <1>7, MailParts, Zenon

LEMMA AwaitAckOK ==
    ASSUME MailTestTypeOK, AcksFollowReads, NEW m \in Machine, AwaitAck(m)
    PROVE  MailTestTypeOK' /\ AcksFollowReads' /\ m \in read[farAddr[m]]
  <1>1. /\ box[m][0] \in Seq(Packet) /\ box[m][1] \in Seq(Packet) /\ box[m][1] # <<>>
    BY Zenon DEF MailTestTypeOK, AwaitAck
  <1>2. Tail(box[m][1]) \in Seq(Packet)
    BY <1>1, RemovePacket, Zenon
  <1>3. /\ UNCHANGED <<reliable, farAddr, replyTo, socket, read>>
        /\ pc' = [pc EXCEPT ![m] = "Halted"]
        /\ box' = [box EXCEPT ![m][1] = Tail(@)]
    BY Zenon DEF AwaitAck, Goto
  <1>4. /\ box' \in [Machine -> [{0, 1} -> Seq(Packet)]]
        /\ \A n \in Machine : /\ box'[n][0] = box[n][0]
                              /\ box'[n][1] # <<>> => box[n][1] # <<>>
    BY <1>1, <1>2, <1>3 DEF MailTestTypeOK
  <1>5. MailTestTypeOK'
    BY <1>3, <1>4, Zenon DEF MailTestTypeOK
  <1>6. ASSUME NEW n \in Machine PROVE MailOK(n)'
    <2>1. MailOK(n) /\ (pc'[n] = "SendAck" => pc[n] = "SendAck")
      BY <1>3, MailParts, Zenon DEF MailTestTypeOK
    <2> QED BY <1>3, <1>4, <2>1, Zenon DEF MailOK
  <1>7. m \in read[farAddr[m]]
    BY <1>1, Zenon DEF AcksFollowReads
  <1> QED BY <1>5, <1>6, <1>7, MailParts, Zenon

LEMMA DeliverOK ==
    ASSUME MailTestTypeOK, AcksFollowReads, NEW m \in Machine, Deliver(m)
    PROVE  MailTestTypeOK' /\ AcksFollowReads'
  <1> DEFINE p == Head(socket[m])
  <1>1. socket[m] \in Seq(Packet) /\ socket[m] # <<>>
    BY Zenon DEF MailTestTypeOK, Deliver
  <1>2. /\ p \in Packet /\ p \in Range(socket[m])
        /\ Tail(socket[m]) \in Seq(Packet)
        /\ Range(Tail(socket[m])) \subseteq Range(socket[m])
    BY <1>1, RemovePacket, Zenon
  <1>3. p.to \in {0, 1} /\ p.from = farAddr[m] /\ (p.to = 1 => m \in read[farAddr[m]])
    BY <1>2, Zenon DEF Packet, AcksFollowReads
  <1>4. /\ UNCHANGED <<reliable, farAddr, pc, replyTo, read>>
        /\ box' = [box EXCEPT ![m][p.to] = Append(@, p)]
        /\ socket' = [socket EXCEPT ![m] = Tail(@)]
    BY Zenon DEF Deliver
  <1> HIDE DEF p
  <1>5. box[m][p.to] \in Seq(Packet)
    BY <1>3, Zenon DEF MailTestTypeOK
  <1>6. /\ Append(box[m][p.to], p) \in Seq(Packet)
        /\ Range(Append(box[m][p.to], p)) = Range(box[m][p.to]) \cup {p}
    BY <1>2, <1>5, AppendPacket, Zenon
  <1>7. box' \in [Machine -> [{0, 1} -> Seq(Packet)]]
    BY <1>3, <1>4, <1>6, Zenon DEF MailTestTypeOK
  <1>8. \A n \in Machine, b \in {0, 1} :
           box'[n][b] = IF n = m /\ b = p.to THEN Append(box[m][p.to], p) ELSE box[n][b]
    BY <1>3, <1>4, Zenon DEF MailTestTypeOK
  <1>9. MailTestTypeOK'
    BY <1>2, <1>4, <1>7, Zenon DEF MailTestTypeOK
  <1>10. ASSUME NEW n \in Machine PROVE MailOK(n)'
    <2>1. MailOK(n)
      BY MailParts, Zenon
    <2>2. Range(socket'[n]) \subseteq Range(socket[n])
      BY <1>2, <1>4, Zenon DEF MailTestTypeOK
    <2>3. \A q \in Range(box'[n][0]) : q.from = farAddr[n]
      BY <1>3, <1>6, <1>8, <2>1, Zenon DEF MailOK
    <2>4. box'[n][1] # <<>> => n \in read[farAddr[n]]
      BY <1>3, <1>8, <2>1, Zenon DEF MailOK
    <2> QED BY <1>4, <2>1, <2>2, <2>3, <2>4, Zenon DEF MailOK
  <1> QED BY <1>9, <1>10, MailParts, Zenon

LEMMA MailTestStep ==
    ASSUME MailTestInv, [Next]_vars
    PROVE  MailTestInv'
  <1>0. MailTestTypeOK /\ AcksFollowReads /\ HaltedMeansRead
    BY Zenon DEF MailTestInv
  <1>1. ASSUME NEW m \in Machine, Step(m) PROVE MailTestInv'
    <2>1. CASE SendMessage(m)
      <3>1. MailTestTypeOK' /\ AcksFollowReads'
        BY <1>0, <2>1, SendOK DEF SendMessage
      <3>2. HaltedMeansRead'
        BY <1>0, <2>1, Zenon DEF HaltedMeansRead, SendMessage, Goto, MailTestTypeOK
      <3> QED BY <3>1, <3>2, Zenon DEF MailTestInv
    <2>2. CASE AwaitMessage(m)
      <3>1. MailTestTypeOK' /\ AcksFollowReads'
        BY <1>0, <2>2, AwaitMessageOK, Zenon
      <3>2. \A k \in Machine : read[k] \subseteq read'[k]
        BY <1>0, <2>2, Zenon DEF AwaitMessage, MailTestTypeOK
      <3>3. HaltedMeansRead'
        BY <1>0, <2>2, <3>2 DEF HaltedMeansRead, AwaitMessage, Goto, MailTestTypeOK
      <3> QED BY <3>1, <3>3, Zenon DEF MailTestInv
    <2>3. CASE SendAck(m)
      <3>1. replyTo[m] = farAddr[m] /\ farAddr[m] \in read[m]
        BY <1>0, <2>3, Zenon DEF AcksFollowReads, SendAck
      <3>2. MailTestTypeOK' /\ AcksFollowReads'
        BY <1>0, <2>3, <3>1, SendOK, Zenon DEF SendAck
      <3>3. HaltedMeansRead'
        BY <1>0, <2>3, Zenon DEF HaltedMeansRead, SendAck, Goto, MailTestTypeOK
      <3> QED BY <3>2, <3>3, Zenon DEF MailTestInv
    <2>4. CASE AwaitAck(m)
      <3>1. MailTestTypeOK' /\ AcksFollowReads' /\ m \in read[farAddr[m]]
        BY <1>0, <2>4, AwaitAckOK, Zenon
      <3>2. HaltedMeansRead'
        BY <1>0, <2>4, <3>1 DEF HaltedMeansRead, AwaitAck, Goto, MailTestTypeOK
      <3> QED BY <3>1, <3>2, Zenon DEF MailTestInv
    <2>5. CASE Deliver(m)
      <3>1. MailTestTypeOK' /\ AcksFollowReads'
        BY <1>0, <2>5, DeliverOK, Zenon
      <3>2. HaltedMeansRead'
        BY <1>0, <2>5, Zenon DEF HaltedMeansRead, Deliver
      <3> QED BY <3>1, <3>2, Zenon DEF MailTestInv
    <2> QED BY <1>1, <2>1, <2>2, <2>3, <2>4, <2>5, Zenon DEF Step
  <1>2. CASE UNCHANGED vars
    BY <1>0, <1>2, Zenon
       DEF vars, MailTestInv, MailTestTypeOK, AcksFollowReads, HaltedMeansRead
  <1> QED BY <1>1, <1>2, Zenon DEF Next

\* nettest.cc: on any number of machines, and whatever packets the network loses, a machine
\* that has halted has had its message read by its peer.
THEOREM MailTestCorrect == Spec => []MailTestInv
  <1>1. Init => MailTestInv
    <2> SUFFICES ASSUME Init PROVE MailTestInv
      BY Zenon
    <2>1. <<>> \in Seq(Packet) /\ Range(<<>>) = {}
      BY DEF Range
    <2>2. MailTestTypeOK
      BY <2>1, MailTestAssumption, Zenon DEF Init, MailTestTypeOK
    <2>3. AcksFollowReads
      BY <2>1, Zenon DEF Init, AcksFollowReads
    <2> QED BY <2>2, <2>3, Zenon DEF Init, MailTestInv, HaltedMeansRead
  <1>2. MailTestInv /\ [Next]_vars => MailTestInv'
    BY MailTestStep, Zenon
  <1> QED BY <1>1, <1>2, PTL DEF Spec

=============================================================================
