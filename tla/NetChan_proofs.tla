---------------------------- MODULE NetChan_proofs ----------------------------
(***************************************************************************)
(* Proofs about the network channel, for every bound on packets and items: *)
(* its invariant, the in-order exactly-once delivery of reliable data, and  *)
(* the refinement of ReliableStream.                                       *)
(***************************************************************************)
EXTENDS NetChan, SequenceTheorems, TLAPS

(* A peer's remote is the other peer. *)
LEMMA RemoteFacts ==
  /\ \A p \in Peer : Remote(p) \in Peer /\ Remote(p) # p /\ Remote(Remote(p)) = p
  /\ \A p, q \in Peer : q # p => q = Remote(p)
BY DEF Peer, Remote

(* Flipping an even/odd bit gives the other one. *)
LEMMA FlipBit ==
  /\ 0 \in Bit /\ 1 \in Bit
  /\ \A b \in Bit : 1 - b \in Bit /\ 1 - b # b
  /\ \A a, b \in Bit : a # b <=> a = 1 - b
BY DEF Bit

(* The variables keep their types: net_types.h's NetChan, and packets of its shape. *)
LEMMA TypeStep == TypeOK /\ [Next]_vars => TypeOK'
<1> SUFFICES ASSUME TypeOK, [Next]_vars PROVE TypeOK'
  OBVIOUS
<1> USE RemoteFacts, FlipBit DEF TypeOK
<1>1. ASSUME NEW p \in Peer, WriteReliable(p) PROVE TypeOK'
  BY <1>1 DEF WriteReliable
<1>2. ASSUME NEW p \in Peer, Send(p) PROVE TypeOK'
  <2>1. ASSUME NEW b \in Bit, NEW d \in Seq(Nat)
        PROVE  PacketFrom(p, b, d) \in Packet
    BY DEF PacketFrom, Packet
  <2>2. /\ PacketFrom(p, 0, <<>>) \in Packet
        /\ PacketFrom(p, 1, reliableBuffer[p]) \in Packet
        /\ PacketFrom(p, 1, message[p]) \in Packet
    BY <2>1, EmptySeq
  <2>3. outgoingSequence' \in [Peer -> Nat]
    BY <1>2 DEF Send, Transmit
  <2>4. network' \subseteq Packet
    BY <1>2, <2>2 DEF Send, PacketSent
  <2>5. CASE TransmitUnreliable(p)
    BY <1>2, <2>3, <2>4, <2>5 DEF Send, Transmit, TransmitUnreliable
  <2>6. CASE Retransmit(p)
    <3>1. reliableOutgoing' \in [Peer -> Nat]
      BY <2>6 DEF Retransmit
    <3> QED
      BY <1>2, <2>3, <2>4, <2>6, <3>1 DEF Send, Transmit, Retransmit
  <2>7. CASE TransmitMessage(p)
    <3>1. reliableOutgoing' \in [Peer -> Nat]
      BY <2>7 DEF TransmitMessage
    <3>2. reliableSequence' \in [Peer -> Bit]
      BY <2>7 DEF TransmitMessage
    <3>3. reliableBuffer' \in [Peer -> Seq(Nat)]
      BY <2>7 DEF TransmitMessage
    <3>4. message' \in [Peer -> Seq(Nat)]
      <4>1. <<>> \in Seq(Nat)
        BY EmptySeq
      <4>2. message' = [message EXCEPT ![p] = <<>>]
        BY <2>7 DEF TransmitMessage
      <4> QED
        BY <4>1, <4>2
    <3> QED
      BY <1>2, <2>3, <2>4, <2>7, <3>1, <3>2, <3>3, <3>4 DEF Send, Transmit
  <2> QED
    BY <1>2, <2>5, <2>6, <2>7 DEF Send, Transmit
<1>3. ASSUME NEW p \in Peer, NEW m \in network, Process(p, m) PROVE TypeOK'
  <2>1. m \in Packet
    OBVIOUS
  <2>2. /\ m.sequence \in Nat /\ m.ack \in Nat /\ m.reliableAck \in Bit
        /\ m.payload \in Seq(Nat)
    BY <2>1 DEF Packet
  <2>3. delivered[p] \o m.payload \in Seq(Nat)
    BY <2>2, ConcatProperties
  <2>4. delivered' \in [Peer -> Seq(Nat)]
    BY <1>3, <2>3 DEF Process
  <2>5. reliableBuffer' \in [Peer -> Seq(Nat)]
    BY <1>3, EmptySeq DEF Process
  <2>6. incomingSequence' \in [Peer -> Nat]
    BY <1>3, <2>2 DEF Process
  <2>7. incomingAcknowledged' \in [Peer -> Nat]
    BY <1>3, <2>2 DEF Process
  <2>8. reliableAcknowledged' \in [Peer -> Bit]
    BY <1>3, <2>2 DEF Process
  <2>9. reliableIncoming' \in [Peer -> Bit]
    <3>1. CASE m.reliable = 1
      BY <1>3, <3>1 DEF Process
    <3>2. CASE m.reliable # 1
      BY <1>3, <3>2 DEF Process
    <3> QED
      BY <3>1, <3>2
  <2>10. UNCHANGED <<outgoingSequence, reliableOutgoing, reliableSequence, message,
                     network, sent>>
    BY <1>3 DEF Process
  <2> QED
    BY <2>4, <2>5, <2>6, <2>7, <2>8, <2>9, <2>10
<1>4. CASE UNCHANGED vars
  BY <1>4 DEF vars, chanVars
<1> QED
  BY <1>1, <1>2, <1>3, <1>4 DEF Next

-------------------------------------------------------------------------------

(* Each packet's fields have their types. *)
LEMMA PacketFacts ==
  ASSUME TypeOK, NEW m \in network
  PROVE  /\ m \in Packet /\ m.from \in Peer /\ m.sequence \in Nat
         /\ m.reliable \in Bit /\ m.ack \in Nat /\ m.reliableAck \in Bit
         /\ m.payload \in Seq(Nat)
BY DEF TypeOK, Packet

\* The invariant holds at the start.
LEMMA InvInit == Init => Inv
<1> SUFFICES ASSUME Init PROVE Inv
  OBVIOUS
<1> USE RemoteFacts DEF Init
<1>1. TypeOK
  BY EmptySeq DEF TypeOK, Bit
<1>2. PacketsInThePast
  BY DEF PacketsInThePast
<1>3. BufferMatchesAcknowledgement
  BY DEF BufferMatchesAcknowledgement, Accepted
<1>4. LiveReliable /\ LiveAcknowledgements /\ AcknowledgementsMonotone
  BY DEF LiveReliable, LiveAcknowledgements, AcknowledgementsMonotone
<1>5. AcceptedNotPassed
  BY DEF AcceptedNotPassed
<1>6. StreamConserved
  <2>1. <<>> \o (<<>> \o <<>>) = <<>>
    OBVIOUS
  <2> QED
    BY <2>1 DEF StreamConserved, InFlight, Accepted
<1> QED
  BY <1>1, <1>2, <1>3, <1>4, <1>5, <1>6 DEF Inv

(* Appending to a concatenation appends to its last part. *)
LEMMA AppendLast ==
  ASSUME NEW s \in Seq(Nat), NEW t \in Seq(Nat), NEW u \in Seq(Nat), NEW x \in Nat
  PROVE  Append(s \o (t \o u), x) = s \o (t \o Append(u, x))
<1>1. <<x>> \in Seq(Nat) /\ t \o u \in Seq(Nat) /\ s \o (t \o u) \in Seq(Nat)
  BY ConcatProperties
<1>2. Append(s \o (t \o u), x) = (s \o (t \o u)) \o <<x>>
  BY <1>1, AppendIsConcat
<1>3. (s \o (t \o u)) \o <<x>> = s \o ((t \o u) \o <<x>>)
  BY <1>1, ConcatAssociative
<1>4. (t \o u) \o <<x>> = t \o (u \o <<x>>)
  BY <1>1, ConcatAssociative, SMTT(30)
<1>5. u \o <<x>> = Append(u, x)
  BY AppendIsConcat
<1> QED
  BY <1>2, <1>3, <1>4, <1>5

(* Writing only appends to the waiting message. *)
LEMMA WriteStep ==
  ASSUME Inv, NEW p \in Peer, WriteReliable(p)
  PROVE  Inv'
<1>1. TypeOK /\ TypeOK'
  BY TypeStep DEF Inv, Next
<1>2. /\ UNCHANGED <<outgoingSequence, incomingSequence, incomingAcknowledged,
                     reliableAcknowledged, reliableIncoming, reliableOutgoing,
                     reliableSequence, reliableBuffer, network, delivered>>
      /\ \A r \in Peer : Accepted(r)' = Accepted(r)
  BY RemoteFacts DEF WriteReliable, Accepted
<1>3. /\ PacketsInThePast' /\ BufferMatchesAcknowledgement' /\ LiveReliable'
      /\ LiveAcknowledgements' /\ AcknowledgementsMonotone' /\ AcceptedNotPassed'
  BY <1>2, RemoteFacts
  DEF Inv, PacketsInThePast, BufferMatchesAcknowledgement, LiveReliable, Live,
      LiveAcknowledgements, AcknowledgementsMonotone, AcceptedNotPassed, Accepted
<1>4. StreamConserved'
  <2> SUFFICES ASSUME NEW r \in Peer
               PROVE  sent'[r] = delivered'[Remote(r)] \o (InFlight(r)' \o message'[r])
    BY DEF StreamConserved
  <2>1. /\ delivered[Remote(r)] \in Seq(Nat) /\ InFlight(r) \in Seq(Nat)
        /\ message[r] \in Seq(Nat) /\ sent[r] \in Seq(Nat)
    BY <1>1, EmptySeq, RemoteFacts DEF TypeOK, InFlight
  <2>2. sent[r] = delivered[Remote(r)] \o (InFlight(r) \o message[r])
    BY DEF Inv, StreamConserved
  <2>3. InFlight(r)' = InFlight(r) /\ delivered' = delivered
    BY <1>2 DEF InFlight
  <2>4. CASE r # p
    BY <1>1, <2>2, <2>3, <2>4 DEF WriteReliable, TypeOK
  <2>5. CASE r = p
    <3>1. Len(sent[r]) + 1 \in Nat
      BY <2>1, LenProperties
    <3>2. /\ message'[r] = Append(message[r], Len(sent[r]) + 1)
          /\ sent'[r] = Append(sent[r], Len(sent[r]) + 1)
      BY <1>1, <2>5 DEF WriteReliable, TypeOK
    <3>3. Append(delivered[Remote(r)] \o (InFlight(r) \o message[r]), Len(sent[r]) + 1)
          = delivered[Remote(r)]
              \o (InFlight(r) \o Append(message[r], Len(sent[r]) + 1))
      <4> DEFINE d == delivered[Remote(r)]
                 f == InFlight(r)
                 m == message[r]
                 x == Len(sent[r]) + 1
      <4>1. d \in Seq(Nat) /\ f \in Seq(Nat) /\ m \in Seq(Nat) /\ x \in Nat
        BY <2>1, <3>1
      <4> HIDE DEF d, f, m, x
      <4>2. Append(d \o (f \o m), x) = d \o (f \o Append(m, x))
        BY <4>1, AppendLast
      <4> QED
        BY <4>2 DEF d, f, m, x
    <3> QED
      BY <2>2, <2>3, <3>2, <3>3
  <2> QED
    BY <2>4, <2>5
<1> QED
  BY <1>1, <1>3, <1>4 DEF Inv

(* What every packet sent has in common, whether or not it carries reliable data. *)
LEMMA TransmitFacts ==
  ASSUME Inv, NEW p \in Peer, NEW q \in Peer, q # p, Send(p)
  PROVE  \E b \in Bit, d \in Seq(Nat) :
           LET n == PacketFrom(p, b, d) IN
           /\ network' = network \cup {n}
           /\ b = 0 => d = <<>>
           /\ b = 1 => /\ n.payload = reliableBuffer'[p]
                       /\ n.sequence + 1 = reliableOutgoing'[p]
                       /\ ~ Accepted(p)'
                       /\ reliableBuffer'[p] # <<>>
                       /\ reliableAcknowledged[p] # reliableSequence'[p]
                       /\ \A m \in network : m.from = p /\ Live(m) => m.reliable = 0
                       /\ \A m \in network : m.from = q /\ Live(m) =>
                            m.reliableAck # reliableSequence'[p]
           /\ b = 0 => UNCHANGED <<reliableOutgoing, reliableSequence, message,
                                   reliableBuffer>>
<1> USE FlipBit
<1>1. TypeOK
  BY DEF Inv
<1>2. Remote(p) = q /\ Remote(q) = p
  BY RemoteFacts
<1>3. CASE TransmitUnreliable(p)
  <2>1. 0 \in Bit /\ <<>> \in Seq(Nat)
    BY EmptySeq
  <2>2. network' = network \cup {PacketFrom(p, 0, <<>>)}
    BY <1>3 DEF Send, PacketSent, TransmitUnreliable
  <2>3. UNCHANGED <<reliableOutgoing, reliableSequence, message, reliableBuffer>>
    BY <1>3 DEF TransmitUnreliable
  <2> WITNESS 0 \in Bit, <<>> \in Seq(Nat)
  <2> QED
    BY <2>2, <2>3
<1>4. CASE Retransmit(p)
  <2>1. ~ Accepted(p)
    <3>1. /\ incomingAcknowledged[p] > reliableOutgoing[p]
          /\ reliableAcknowledged[p] # reliableSequence[p]
      BY <1>4 DEF Retransmit, CheckRetransmit
    <3>2. reliableBuffer[p] # <<>>
      BY <3>1 DEF Inv, BufferMatchesAcknowledgement
    <3>3. incomingAcknowledged[p] \in Nat /\ reliableOutgoing[p] \in Nat
      BY <1>1 DEF TypeOK
    <3> QED
      BY <3>1, <3>2, <3>3 DEF Inv, AcceptedNotPassed
  <2>2. ~ Accepted(p)'
    BY <1>2, <1>4, <2>1 DEF Send, Transmit, Retransmit, Accepted
  <2>3. reliableOutgoing[p] < incomingSequence[q]
    BY <1>1, <1>2, <1>4
    DEF Inv, Retransmit, CheckRetransmit, PacketsInThePast, TypeOK
  <2>4. ASSUME NEW m \in network, m.from = p, Live(m) PROVE m.reliable = 0
    <3>1. m.sequence \in Nat /\ m.reliable \in Bit
      BY <1>1, PacketFacts
    <3>2. m.sequence > incomingSequence[q]
      BY <1>2, <2>4 DEF Live
    <3>3. m.reliable = 1 => m.sequence + 1 = reliableOutgoing[p]
      BY <2>4 DEF Inv, LiveReliable
    <3>4. incomingSequence[q] \in Nat /\ reliableOutgoing[p] \in Nat
      BY <1>1 DEF TypeOK
    <3> QED
      BY <2>3, <3>1, <3>2, <3>3, <3>4 DEF Bit
  <2>5. reliableBuffer[p] \in Seq(Nat) /\ reliableBuffer'[p] = reliableBuffer[p]
    BY <1>1, <1>4 DEF Retransmit, TypeOK
  <2>6. reliableOutgoing'[p] = outgoingSequence[p] + 1
    BY <1>1, <1>4 DEF Retransmit, TypeOK
  <2>7. reliableAcknowledged[p] # reliableSequence'[p] /\ reliableBuffer'[p] # <<>>
    BY <1>4, <2>5 DEF Inv, Retransmit, CheckRetransmit, BufferMatchesAcknowledgement
  <2>8. ASSUME NEW m \in network, m.from = q, Live(m)
        PROVE  m.reliableAck # reliableSequence'[p]
    BY <1>2, <1>4, <2>1, <2>8 DEF Inv, Retransmit, LiveAcknowledgements
  <2>9. network' = network \cup {PacketFrom(p, 1, reliableBuffer[p])}
    BY <1>4 DEF Send, PacketSent, Retransmit
  <2>10. 1 \in Bit /\ reliableBuffer[p] \in Seq(Nat)
    BY <2>5
  <2> USE <2>10
  <2> WITNESS 1 \in Bit, reliableBuffer[p] \in Seq(Nat)
  <2> QED
    BY <2>2, <2>4, <2>5, <2>6, <2>7, <2>8, <2>9 DEF PacketFrom
<1>5. CASE TransmitMessage(p)
  <2>1. Accepted(p)
    BY <1>5 DEF Inv, TransmitMessage, LoadsMessage, BufferMatchesAcknowledgement
  <2>2. ~ Accepted(p)'
    BY <1>1, <1>2, <1>5, <2>1 DEF Send, Transmit, TransmitMessage, Accepted, TypeOK
  <2>3. ASSUME NEW m \in network, m.from = p, Live(m) PROVE m.reliable = 0
    BY <1>1, <2>1, <2>3, PacketFacts DEF Inv, LiveReliable, Bit
  <2>4. message[p] \in Seq(Nat) /\ reliableBuffer'[p] = message[p]
    BY <1>1, <1>5 DEF TransmitMessage, TypeOK
  <2>5. reliableOutgoing'[p] = outgoingSequence[p] + 1
    BY <1>1, <1>5 DEF TransmitMessage, TypeOK
  <2>6. /\ reliableBuffer[p] = <<>> /\ message[p] # <<>>
        /\ reliableSequence'[p] = 1 - reliableSequence[p]
        /\ network' = network \cup {PacketFrom(p, 1, message[p])}
    BY <1>1, <1>5 DEF Send, PacketSent, TransmitMessage, LoadsMessage, TypeOK
  <2>7. reliableSequence[p] \in Bit /\ reliableSequence'[p] # reliableSequence[p]
    BY <1>1, <2>6 DEF TypeOK
  <2>8. reliableAcknowledged[p] # reliableSequence'[p]
    BY <2>6, <2>7 DEF Inv, BufferMatchesAcknowledgement
  <2>9. ASSUME NEW m \in network, m.from = q, Live(m)
        PROVE  m.reliableAck # reliableSequence'[p]
    BY <1>2, <2>6, <2>7, <2>9 DEF Inv, LiveAcknowledgements
  <2>10. 1 \in Bit /\ message[p] \in Seq(Nat)
    BY <2>4
  <2> USE <2>10
  <2> WITNESS 1 \in Bit, message[p] \in Seq(Nat)
  <2> QED
    BY <2>2, <2>3, <2>4, <2>5, <2>6, <2>8, <2>9 DEF PacketFrom
<1> QED
  BY <1>3, <1>4, <1>5 DEF Send, Transmit

(* NetChan_Transmit keeps every written item where it was, or puts it in flight. *)
LEMMA TransmitConserves ==
  ASSUME Inv, NEW p \in Peer, Send(p)
  PROVE  StreamConserved'
<1>1. TypeOK
  BY DEF Inv
<1> SUFFICES ASSUME NEW r \in Peer
             PROVE  sent'[r] = delivered'[Remote(r)] \o (InFlight(r)' \o message'[r])
  BY DEF StreamConserved
<1>2. Remote(p) \in Peer /\ Remote(r) \in Peer
  BY RemoteFacts
<1>3. sent[r] = delivered[Remote(r)] \o (InFlight(r) \o message[r])
  BY DEF Inv, StreamConserved
<1>4. sent' = sent /\ delivered' = delivered /\ reliableIncoming' = reliableIncoming
  BY DEF Send, Transmit
<1>5. CASE ~ TransmitMessage(p) \/ r # p
  <2>1. /\ reliableBuffer'[r] = reliableBuffer[r] /\ message'[r] = message[r]
        /\ reliableSequence'[r] = reliableSequence[r]
    BY <1>1, <1>5 DEF Send, Transmit, TransmitUnreliable, Retransmit, TransmitMessage, TypeOK
  <2>2. InFlight(r)' = InFlight(r)
    BY <1>4, <2>1 DEF InFlight, Accepted
  <2> QED
    BY <1>3, <1>4, <2>1, <2>2
<1>6. CASE TransmitMessage(p) /\ r = p
  <2>1. /\ reliableBuffer[r] = <<>> /\ reliableBuffer'[r] = message[r]
        /\ message'[r] = <<>> /\ reliableSequence'[r] = 1 - reliableSequence[r]
    BY <1>1, <1>6 DEF TransmitMessage, LoadsMessage, TypeOK
  <2>2. Accepted(r)
    BY <2>1 DEF Inv, BufferMatchesAcknowledgement
  <2>3. ~ Accepted(r)'
    BY <1>1, <1>4, <2>1, <2>2, FlipBit DEF Accepted, TypeOK
  <2>4. InFlight(r) = <<>> /\ InFlight(r)' = message[r]
    BY <2>1, <2>2, <2>3 DEF InFlight
  <2>5. message[r] \in Seq(Nat)
    BY <1>1 DEF TypeOK
  <2>6. <<>> \o message[r] = message[r] \o <<>>
    BY <2>5, ConcatEmptySeq
  <2> QED
    BY <1>3, <1>4, <2>1, <2>4, <2>6
<1> QED
  BY <1>5, <1>6

(* NetChan_Transmit keeps the protocol invariant. *)
LEMMA TransmitStep ==
  ASSUME Inv, NEW p \in Peer, Send(p)
  PROVE  Inv'
<1> DEFINE q == Remote(p)
<1>1. TypeOK /\ TypeOK'
  BY TypeStep DEF Inv, Next
<1>2. /\ q \in Peer /\ q # p /\ Remote(p) = q /\ Remote(q) = p
      /\ \A r \in Peer : r = p \/ r = q
  BY RemoteFacts
<1> HIDE DEF q
<1>from. \A m \in network' : m.from \in Peer /\ m.sequence \in Nat
  BY <1>1 DEF TypeOK, Packet
<1>3. PICK b \in Bit, d \in Seq(Nat) :
        LET n == PacketFrom(p, b, d) IN
        /\ network' = network \cup {n}
        /\ b = 0 => d = <<>>
        /\ b = 1 => /\ n.payload = reliableBuffer'[p]
                    /\ n.sequence + 1 = reliableOutgoing'[p]
                    /\ ~ Accepted(p)'
                    /\ reliableBuffer'[p] # <<>>
                    /\ reliableAcknowledged[p] # reliableSequence'[p]
                    /\ \A m \in network : m.from = p /\ Live(m) => m.reliable = 0
                    /\ \A m \in network : m.from = q /\ Live(m) =>
                         m.reliableAck # reliableSequence'[p]
        /\ b = 0 => UNCHANGED <<reliableOutgoing, reliableSequence, message,
                                reliableBuffer>>
  BY <1>2, TransmitFacts
<1> DEFINE n == PacketFrom(p, b, d)
<1>4. /\ n.from = p /\ n.sequence = outgoingSequence[p] /\ n.reliable = b
      /\ n.ack = incomingSequence[p] /\ n.reliableAck = reliableIncoming[p]
      /\ n.payload = d
  BY DEF PacketFrom
<1> HIDE DEF n
<1>5. /\ outgoingSequence'[p] = outgoingSequence[p] + 1
      /\ outgoingSequence'[q] = outgoingSequence[q]
      /\ UNCHANGED <<incomingSequence, incomingAcknowledged, reliableAcknowledged,
                     reliableIncoming, sent, delivered>>
  BY <1>1, <1>2 DEF Send, Transmit, TypeOK
<1>6. /\ reliableOutgoing'[q] = reliableOutgoing[q]
      /\ reliableSequence'[q] = reliableSequence[q]
      /\ reliableBuffer'[q] = reliableBuffer[q]
  <2>1. CASE TransmitUnreliable(p)
    BY <2>1 DEF TransmitUnreliable
  <2>2. CASE Retransmit(p)
    BY <1>1, <1>2, <2>2 DEF Retransmit, TypeOK
  <2>3. CASE TransmitMessage(p)
    BY <1>1, <1>2, <2>3 DEF TransmitMessage, TypeOK
  <2> QED
    BY <2>1, <2>2, <2>3 DEF Send, Transmit
<1>7. \A m : Live(m)' <=> Live(m)
  BY <1>5 DEF Live
<1>8. (Accepted(q)' <=> Accepted(q)) /\ (b = 0 => (Accepted(p)' <=> Accepted(p)))
  BY <1>2, <1>3, <1>5, <1>6 DEF Accepted
<1>9. b = 0 \/ b = 1
  BY DEF Bit
<1>10. \A r \in Peer : /\ outgoingSequence[r] \in Nat /\ incomingSequence[r] \in Nat
                       /\ reliableIncoming[r] \in Bit /\ reliableSequence[r] \in Bit
  BY <1>1 DEF TypeOK
<1>11. PacketsInThePast'
  <2>1. ASSUME NEW m \in network'
        PROVE  /\ m.sequence < outgoingSequence'[m.from]
               /\ m.ack <= incomingSequence'[m.from]
               /\ m.reliable = 0 => m.payload = <<>>
    <3>1. CASE m \in network
      <4>1. /\ m.sequence < outgoingSequence[m.from]
            /\ m.ack <= incomingSequence[m.from]
            /\ m.reliable = 0 => m.payload = <<>>
        BY <3>1 DEF Inv, PacketsInThePast
      <4>2. m.from \in {p, q} /\ m.sequence \in Nat
        BY <1>2, <1>from
      <4> QED
        BY <1>2, <1>5, <1>10, <4>1, <4>2
    <3>2. CASE m = n
      BY <1>2, <1>3, <1>4, <1>5, <1>10, <3>2 DEF n
    <3> QED
      BY <1>3, <3>1, <3>2 DEF n
  <2>2. \A r \in Peer : incomingSequence'[r] < outgoingSequence'[Remote(r)]
    BY <1>2, <1>5, <1>10 DEF Inv, PacketsInThePast, q
  <2>3. \A r \in Peer : incomingAcknowledged'[r] <= incomingSequence'[Remote(r)]
    BY <1>5 DEF Inv, PacketsInThePast
  <2> QED
    BY <2>1, <2>2, <2>3 DEF PacketsInThePast
<1>12. BufferMatchesAcknowledgement'
  BY <1>2, <1>3, <1>5, <1>6, <1>8, <1>9 DEF Inv, BufferMatchesAcknowledgement
<1>13. LiveReliable'
  <2> SUFFICES ASSUME NEW m \in network', Live(m), m.reliable = 1
               PROVE  /\ ~ Accepted(m.from)'
                      /\ m.sequence + 1 = reliableOutgoing'[m.from]
                      /\ m.payload = reliableBuffer'[m.from]
    BY <1>7 DEF LiveReliable
  <2>1. CASE m \in network /\ m.from = q
    BY <1>6, <1>8, <2>1 DEF Inv, LiveReliable
  <2>2. CASE m \in network /\ m.from = p
    BY <1>3, <1>8, <1>9, <2>2 DEF Inv, LiveReliable
  <2>3. CASE m = n
    BY <1>3, <1>4, <2>3 DEF n
  <2> QED
    BY <1>1, <1>2, <1>3, <2>1, <2>2, <2>3, PacketFacts DEF n
<1>14. LiveAcknowledgements'
  <2> SUFFICES ASSUME NEW m \in network', Live(m), NEW r \in Peer, r = Remote(m.from)
               PROVE  /\ ~ Accepted(r)' => m.reliableAck # reliableSequence'[r]
                      /\ reliableBuffer'[r] = <<>> =>
                           m.reliableAck = reliableSequence'[r]
                      /\ m.reliableAck # reliableSequence'[r] /\ Accepted(r)' =>
                           m.ack < reliableOutgoing'[r]
    BY <1>2, <1>7, <1>from DEF LiveAcknowledgements
  <2>1. CASE m \in network /\ r = q
    BY <1>6, <1>8, <2>1 DEF Inv, LiveAcknowledgements
  <2>2. CASE m \in network /\ r = p
    <3>1. m.from = q
      BY <1>2, <1>from, <2>2
    <3>2. CASE b = 1
      BY <1>3, <2>2, <3>1, <3>2
    <3>3. CASE b = 0
      BY <1>3, <1>8, <2>2, <3>3 DEF Inv, LiveAcknowledgements
    <3> QED
      BY <1>9, <3>2, <3>3
  <2>3. CASE m = n
    <3>1. r = q
      BY <1>2, <1>4, <2>3
    <3>2. Accepted(q) <=> m.reliableAck = reliableSequence[q]
      BY <1>2, <1>4, <2>3 DEF Accepted
    <3> QED
      BY <1>2, <1>6, <1>8, <3>1, <3>2 DEF Inv, BufferMatchesAcknowledgement
  <2> QED
    BY <1>2, <1>3, <2>1, <2>2, <2>3 DEF n
<1>15. AcknowledgementsMonotone'
  <2> SUFFICES ASSUME NEW m \in network', NEW k \in network', NEW r \in Peer,
                      r = Remote(m.from), Live(m),
                      m.reliableAck = reliableSequence'[r],
                      k.from = m.from, k.sequence > m.sequence
               PROVE  k.reliableAck = reliableSequence'[r]
    BY <1>2, <1>7, <1>from DEF AcknowledgementsMonotone
  <2>1. m \in network
    <3> SUFFICES ASSUME m = n PROVE FALSE
      BY <1>3 DEF n
    <3>1. k \in network => k.sequence < outgoingSequence[k.from] /\ k.sequence \in Nat
      BY <1>1, PacketFacts DEF Inv, PacketsInThePast
    <3> QED
      BY <1>3, <1>4, <1>10, <3>1 DEF n
  <2>2. CASE r = q
    <3>1. m.reliableAck = reliableSequence[q] /\ Accepted(q)
      BY <1>6, <2>1, <2>2 DEF Inv, LiveAcknowledgements
    <3>2. CASE k = n
      BY <1>2, <1>4, <1>6, <2>2, <3>1, <3>2 DEF Accepted
    <3>3. CASE k \in network
      BY <1>6, <2>1, <2>2, <3>1, <3>3 DEF Inv, AcknowledgementsMonotone
    <3> QED
      BY <1>3, <3>2, <3>3 DEF n
  <2>3. CASE r = p
    <3>1. m.from = q
      BY <1>2, <1>from, <2>3
    <3>2. k \in network
      BY <1>2, <1>3, <1>4, <3>1 DEF n
    <3>3. b = 0
      BY <1>3, <1>9, <2>1, <2>3, <3>1
    <3> QED
      BY <1>3, <2>1, <2>3, <3>2, <3>3 DEF Inv, AcknowledgementsMonotone
  <2> QED
    BY <1>2, <2>2, <2>3
<1>16. AcceptedNotPassed'
  BY <1>2, <1>3, <1>5, <1>6, <1>8, <1>9 DEF Inv, AcceptedNotPassed
<1> QED
  BY <1>1, <1>11, <1>12, <1>13, <1>14, <1>15, <1>16, TransmitConserves DEF Inv

(* Moving the items of an accepted packet from "in flight" to "read". *)
LEMMA MoveInFlight ==
  ASSUME NEW s \in Seq(Nat), NEW t \in Seq(Nat), NEW u \in Seq(Nat)
  PROVE  s \o (t \o u) = (s \o t) \o (<<>> \o u)
<1>1. <<>> \o u = u
  BY ConcatEmptySeq
<1>2. (s \o t) \o u = s \o (t \o u)
  BY ConcatAssociative
<1> QED
  BY <1>1, <1>2

(* NetChan_Process keeps the protocol invariant. *)
LEMMA ProcessStep ==
  ASSUME Inv, NEW p \in Peer, NEW m \in network, Process(p, m)
  PROVE  Inv'
<1> DEFINE q == Remote(p)
<1>1. TypeOK /\ TypeOK'
  BY TypeStep DEF Inv, Next
<1>2. /\ q \in Peer /\ q # p /\ Remote(p) = q /\ Remote(q) = p
      /\ \A r \in Peer : r = p \/ r = q
  BY RemoteFacts
<1>3. m.from = q /\ Live(m)
  BY DEF Process
<1> HIDE DEF q
<1>4. /\ m.sequence \in Nat /\ m.ack \in Nat /\ m.reliable \in Bit
      /\ m.reliableAck \in Bit /\ m.payload \in Seq(Nat)
      /\ \A k \in network : k.from \in Peer /\ k.sequence \in Nat /\ k.ack \in Nat
  BY <1>1, PacketFacts
<1>5. UNCHANGED <<outgoingSequence, reliableOutgoing, reliableSequence, message,
                  network, sent>>
  BY DEF Process
<1>6. /\ incomingSequence'[p] = m.sequence /\ incomingSequence[p] < m.sequence
      /\ incomingSequence'[q] = incomingSequence[q]
      /\ incomingAcknowledged'[p] = m.ack
      /\ incomingAcknowledged'[q] = incomingAcknowledged[q]
  BY <1>1, <1>2, <1>3 DEF Process, Live, TypeOK
<1>7. /\ reliableAcknowledged'[p] = m.reliableAck
      /\ reliableAcknowledged'[q] = reliableAcknowledged[q]
      /\ delivered'[p] = delivered[p] \o m.payload /\ delivered'[q] = delivered[q]
  BY <1>1, <1>2 DEF Process, TypeOK
<1>8. /\ reliableBuffer'[q] = reliableBuffer[q]
      /\ m.reliableAck = reliableSequence[p] => reliableBuffer'[p] = <<>>
      /\ m.reliableAck # reliableSequence[p] => reliableBuffer'[p] = reliableBuffer[p]
  <2>1. CASE m.reliableAck = reliableSequence[p]
    BY <1>1, <1>2, <2>1 DEF Process, TypeOK
  <2>2. CASE m.reliableAck # reliableSequence[p]
    BY <2>2 DEF Process
  <2> QED
    BY <2>1, <2>2
<1>9. /\ reliableIncoming'[q] = reliableIncoming[q]
      /\ m.reliable = 1 => reliableIncoming'[p] = 1 - reliableIncoming[p]
      /\ m.reliable # 1 => reliableIncoming'[p] = reliableIncoming[p]
  <2>1. CASE m.reliable = 1
    BY <1>1, <1>2, <2>1 DEF Process, TypeOK
  <2>2. CASE m.reliable # 1
    BY <2>2 DEF Process
  <2> QED
    BY <2>1, <2>2
<1>10. \A r \in Peer : /\ outgoingSequence[r] \in Nat /\ incomingSequence[r] \in Nat
                       /\ incomingAcknowledged[r] \in Nat /\ reliableOutgoing[r] \in Nat
                       /\ reliableIncoming[r] \in Bit /\ reliableSequence[r] \in Bit
  BY <1>1 DEF TypeOK
<1>11. m.reliable = 0 \/ m.reliable = 1
  BY <1>4 DEF Bit
<1>12. (Accepted(p)' <=> Accepted(p)) /\ (m.reliable = 0 => (Accepted(q)' <=> Accepted(q)))
  BY <1>2, <1>5, <1>9 DEF Accepted
<1>13. m.reliable = 1 =>
         /\ ~ Accepted(q) /\ Accepted(q)'
         /\ m.sequence + 1 = reliableOutgoing[q] /\ m.payload = reliableBuffer[q]
  <2> SUFFICES ASSUME m.reliable = 1
               PROVE  /\ ~ Accepted(q) /\ Accepted(q)'
                      /\ m.sequence + 1 = reliableOutgoing[q]
                      /\ m.payload = reliableBuffer[q]
    OBVIOUS
  <2>1. /\ ~ Accepted(q) /\ m.sequence + 1 = reliableOutgoing[q]
        /\ m.payload = reliableBuffer[q]
    BY <1>3 DEF Inv, LiveReliable
  <2>2. reliableIncoming[p] # reliableSequence[q]
    BY <1>2, <2>1 DEF Accepted
  <2>3. reliableIncoming'[p] = reliableSequence[q]
    BY <1>2, <1>9, <1>10, <2>2, FlipBit
  <2> QED
    BY <1>2, <1>5, <2>1, <2>3 DEF Accepted
<1>14. /\ ~ Accepted(p) => m.reliableAck # reliableSequence[p]
       /\ reliableBuffer[p] = <<>> => m.reliableAck = reliableSequence[p]
       /\ m.reliableAck # reliableSequence[p] /\ Accepted(p) =>
            m.ack < reliableOutgoing[p]
  BY <1>2, <1>3 DEF Inv, LiveAcknowledgements
<1>15. \A k \in network :
         Live(k)' => Live(k) /\ (k.from = q => k.sequence > m.sequence)
  BY <1>2, <1>4, <1>6, <1>10 DEF Live
<1>16. PacketsInThePast'
  <2>1. ASSUME NEW k \in network
        PROVE  /\ k.sequence < outgoingSequence'[k.from]
               /\ k.ack <= incomingSequence'[k.from]
               /\ k.reliable = 0 => k.payload = <<>>
    <3>1. /\ k.sequence < outgoingSequence[k.from] /\ k.ack <= incomingSequence[k.from]
          /\ k.reliable = 0 => k.payload = <<>>
      BY DEF Inv, PacketsInThePast
    <3>2. k.from \in {p, q} /\ k.ack \in Nat
      BY <1>2, <1>4
    <3> QED
      BY <1>2, <1>4, <1>5, <1>6, <1>10, <3>1, <3>2
  <2>2. /\ m.sequence < outgoingSequence[q] /\ m.ack <= incomingSequence[q]
        /\ incomingSequence[q] < outgoingSequence[p]
        /\ incomingAcknowledged[q] <= incomingSequence[p]
    BY <1>2, <1>3 DEF Inv, PacketsInThePast
  <2>3. /\ incomingSequence'[p] < outgoingSequence'[q]
        /\ incomingSequence'[q] < outgoingSequence'[p]
        /\ incomingAcknowledged'[p] <= incomingSequence'[q]
        /\ incomingAcknowledged'[q] <= incomingSequence'[p]
    BY <1>2, <1>4, <1>5, <1>6, <1>10, <2>2
  <2> QED
    BY <1>2, <1>5, <2>1, <2>3 DEF PacketsInThePast
<1>17. BufferMatchesAcknowledgement'
  <2>1. /\ reliableBuffer'[p] = <<>> <=> reliableAcknowledged'[p] = reliableSequence'[p]
        /\ reliableBuffer'[p] = <<>> => Accepted(p)'
    BY <1>5, <1>7, <1>8, <1>12, <1>14
  <2>2. /\ reliableBuffer'[q] = <<>> <=> reliableAcknowledged'[q] = reliableSequence'[q]
        /\ reliableBuffer'[q] = <<>> => Accepted(q)'
    BY <1>2, <1>5, <1>7, <1>8, <1>11, <1>12, <1>13
    DEF Inv, BufferMatchesAcknowledgement
  <2> QED
    BY <1>2, <2>1, <2>2 DEF BufferMatchesAcknowledgement
<1>18. LiveReliable'
  <2> SUFFICES ASSUME NEW k \in network, Live(k)', k.reliable = 1
               PROVE  /\ ~ Accepted(k.from)'
                      /\ k.sequence + 1 = reliableOutgoing'[k.from]
                      /\ k.payload = reliableBuffer'[k.from]
    BY <1>5 DEF LiveReliable
  <2>1. /\ Live(k) /\ ~ Accepted(k.from)
        /\ k.sequence + 1 = reliableOutgoing[k.from]
        /\ k.payload = reliableBuffer[k.from]
    BY <1>15 DEF Inv, LiveReliable
  <2>2. CASE k.from = p
    BY <1>5, <1>8, <1>12, <1>14, <2>1, <2>2
  <2>3. CASE k.from = q
    <3>1. m.reliable = 0
      BY <1>4, <1>11, <1>13, <1>15, <2>1, <2>3
    <3> QED
      BY <1>5, <1>8, <1>12, <2>1, <2>3, <3>1
  <2> QED
    BY <1>2, <1>4, <2>2, <2>3
<1>19. LiveAcknowledgements'
  <2> SUFFICES ASSUME NEW k \in network, Live(k)', NEW r \in Peer, r = Remote(k.from)
               PROVE  /\ ~ Accepted(r)' => k.reliableAck # reliableSequence'[r]
                      /\ reliableBuffer'[r] = <<>> =>
                           k.reliableAck = reliableSequence'[r]
                      /\ k.reliableAck # reliableSequence'[r] /\ Accepted(r)' =>
                           k.ack < reliableOutgoing'[r]
    BY <1>2, <1>4, <1>5 DEF LiveAcknowledgements
  <2>1. /\ Live(k)
        /\ ~ Accepted(r) => k.reliableAck # reliableSequence[r]
        /\ reliableBuffer[r] = <<>> => k.reliableAck = reliableSequence[r]
        /\ k.reliableAck # reliableSequence[r] /\ Accepted(r) =>
             k.ack < reliableOutgoing[r]
    BY <1>15 DEF Inv, LiveAcknowledgements
  <2>2. CASE r = p
    <3>1. k.from = m.from /\ k.sequence > m.sequence
      BY <1>2, <1>3, <1>4, <1>15, <2>2
    <3>2. m.reliableAck = reliableSequence[p] => k.reliableAck = reliableSequence[p]
      BY <1>2, <1>3, <3>1 DEF Inv, AcknowledgementsMonotone
    <3> QED
      BY <1>5, <1>8, <1>12, <2>1, <2>2, <3>2
  <2>3. CASE r = q /\ m.reliable = 0
    BY <1>5, <1>8, <1>12, <2>1, <2>3
  <2>4. CASE r = q /\ m.reliable = 1
    <3>1. reliableBuffer'[q] # <<>>
      BY <1>2, <1>8, <1>13, <2>4 DEF Inv, BufferMatchesAcknowledgement
    <3>2. k.from = p
      BY <1>2, <1>4, <2>4
    <3>3. k.ack <= incomingSequence[p] /\ k.ack \in Nat
      BY <1>4, <3>2 DEF Inv, PacketsInThePast
    <3>4. k.ack < reliableOutgoing[q]
      BY <1>2, <1>4, <1>6, <1>10, <1>13, <2>4, <3>3
    <3> QED
      BY <1>5, <1>13, <2>4, <3>1, <3>4
  <2> QED
    BY <1>2, <1>11, <2>2, <2>3, <2>4
<1>20. AcknowledgementsMonotone'
  BY <1>5, <1>15 DEF Inv, AcknowledgementsMonotone
<1>21. AcceptedNotPassed'
  <2>1. Accepted(p)' /\ reliableBuffer'[p] # <<>> =>
          incomingAcknowledged'[p] < reliableOutgoing'[p]
    BY <1>5, <1>6, <1>8, <1>12, <1>14
  <2>2. CASE m.reliable = 0
    BY <1>2, <1>5, <1>6, <1>8, <1>12, <2>1, <2>2 DEF Inv, AcceptedNotPassed
  <2>3. CASE m.reliable = 1
    <3>1. incomingAcknowledged[q] <= incomingSequence[p]
      BY <1>2 DEF Inv, PacketsInThePast
    <3>2. incomingAcknowledged'[q] < reliableOutgoing'[q]
      BY <1>2, <1>4, <1>5, <1>6, <1>10, <1>13, <2>3, <3>1
    <3> QED
      BY <1>2, <2>1, <3>2 DEF AcceptedNotPassed
  <2> QED
    BY <1>11, <2>2, <2>3
<1>22. StreamConserved'
  <2>1. /\ sent[p] = delivered[q] \o (InFlight(p) \o message[p])
        /\ sent[q] = delivered[p] \o (InFlight(q) \o message[q])
    BY <1>2 DEF Inv, StreamConserved
  <2>2. InFlight(p)' = InFlight(p)
    BY <1>8, <1>12, <1>14 DEF InFlight
  <2>3. sent'[p] = delivered'[q] \o (InFlight(p)' \o message'[p])
    BY <1>5, <1>7, <2>1, <2>2
  <2>4. sent'[q] = delivered'[p] \o (InFlight(q)' \o message'[q])
    <3>1. delivered[p] \in Seq(Nat) /\ message[q] \in Seq(Nat)
      BY <1>1, <1>2 DEF TypeOK
    <3>2. CASE m.reliable = 0
      <4>1. m.payload = <<>>
        BY <3>2 DEF Inv, PacketsInThePast
      <4>2. delivered'[p] = delivered[p]
        BY <1>7, <3>1, <4>1, ConcatEmptySeq
      <4>3. InFlight(q)' = InFlight(q)
        BY <1>8, <1>12, <3>2 DEF InFlight
      <4> QED
        BY <1>5, <2>1, <4>2, <4>3
    <3>3. CASE m.reliable = 1
      <4>1. InFlight(q) = m.payload /\ InFlight(q)' = <<>>
        BY <1>13, <3>3 DEF InFlight
      <4>2. sent'[q] = delivered[p] \o (m.payload \o message[q])
        BY <1>5, <2>1, <4>1
      <4>3. delivered[p] \o (m.payload \o message[q])
            = (delivered[p] \o m.payload) \o (<<>> \o message[q])
        BY <1>4, <3>1, MoveInFlight
      <4> QED
        BY <1>5, <1>7, <4>1, <4>2, <4>3
    <3> QED
      BY <1>11, <3>2, <3>3
  <2> QED
    BY <1>2, <2>3, <2>4 DEF StreamConserved
<1> QED
  BY <1>1, <1>16, <1>17, <1>18, <1>19, <1>20, <1>21, <1>22 DEF Inv

-------------------------------------------------------------------------------

(* Every reachable state of the two channels satisfies the protocol invariant. *)
THEOREM Invariance == Spec => []Inv
<1>1. Inv /\ [Next]_vars => Inv'
  <2> SUFFICES ASSUME Inv, [Next]_vars PROVE Inv'
    OBVIOUS
  <2>1. ASSUME NEW p \in Peer, WriteReliable(p) PROVE Inv'
    BY <2>1, WriteStep
  <2>2. ASSUME NEW p \in Peer, Send(p) PROVE Inv'
    BY <2>2, TransmitStep
  <2>3. ASSUME NEW p \in Peer, NEW m \in network, Process(p, m) PROVE Inv'
    BY <2>3, ProcessStep
  <2>4. CASE UNCHANGED vars
    <3>1. TypeOK'
      BY TypeStep DEF Inv
    <3>2. UNCHANGED <<outgoingSequence, incomingSequence, incomingAcknowledged,
                      reliableAcknowledged, reliableIncoming, reliableOutgoing,
                      reliableSequence, message, reliableBuffer, network, sent,
                      delivered>>
      BY <2>4 DEF vars, chanVars
    <3>3. /\ PacketsInThePast' /\ BufferMatchesAcknowledgement' /\ AcceptedNotPassed'
          /\ LiveReliable' /\ LiveAcknowledgements' /\ AcknowledgementsMonotone'
          /\ StreamConserved'
      BY <3>2
      DEF Inv, PacketsInThePast, BufferMatchesAcknowledgement, AcceptedNotPassed,
          LiveReliable, LiveAcknowledgements, AcknowledgementsMonotone,
          StreamConserved, InFlight, Accepted, Live
    <3> QED
      BY <3>1, <3>3 DEF Inv
  <2> QED
    BY <2>1, <2>2, <2>3, <2>4 DEF Next
<1> QED
  BY <1>1, InvInit, PTL DEF Spec

(* The variables of both channels, and every packet, keep their types. *)
THEOREM TypeCorrectness == Spec => []TypeOK
<1>1. Inv => TypeOK
  BY DEF Inv
<1> QED
  BY <1>1, Invariance, PTL

(* The first part of a concatenation is the prefix of its length. *)
LEMMA PrefixOfConcat ==
  ASSUME NEW s \in Seq(Nat), NEW t \in Seq(Nat)
  PROVE  /\ Len(s) \in Nat /\ Len(s \o t) \in Nat /\ Len(s) <= Len(s \o t)
         /\ SubSeq(s \o t, 1, Len(s)) = s /\ SubSeq(s, 1, Len(s)) = s
         /\ IsPrefix(s, s \o t)
<1>1. /\ Len(s) \in Nat /\ Len(t) \in Nat /\ Len(s \o t) = Len(s) + Len(t)
  BY LenProperties, ConcatProperties
<1>2. SubSeq(s, 1, Len(s)) = s
  BY SubSeqFull
<1>3. SubSeq(s \o t, 1, Len(s)) = s
  <2>1. CASE Len(s) = 0
    <3>1. s = <<>>
      BY <2>1, EmptySeq
    <3>2. SubSeq(s \o t, 1, 0) = <<>>
      BY SubSeqEmpty
    <3> QED
      BY <2>1, <3>1, <3>2
  <2>2. CASE Len(s) # 0
    <3>1. 1 \in 1 .. Len(s) /\ Len(s) \in 1 .. Len(s)
      BY <1>1, <2>2
    <3>2. SubSeq(s \o t, 1, Len(s)) = SubSeq(s, 1, Len(s))
      BY <3>1, SubSeqOfConcat1
    <3> QED
      BY <1>2, <3>2
  <2> QED
    BY <2>1, <2>2
<1> QED
  BY <1>1, <1>2, <1>3 DEF IsPrefix

(* What a peer has read is where its remote's stream begins. *)
LEMMA ReadIsPrefix ==
  ASSUME Inv, NEW p \in Peer
  PROVE  \E rest \in Seq(Nat) : sent[Remote(p)] = delivered[p] \o rest
<1> DEFINE q == Remote(p)
<1>1. q \in Peer /\ Remote(q) = p
  BY RemoteFacts
<1>2. /\ InFlight(q) \in Seq(Nat) /\ message[q] \in Seq(Nat)
  BY <1>1, EmptySeq DEF Inv, TypeOK, InFlight
<1>3. InFlight(q) \o message[q] \in Seq(Nat)
  BY <1>2, ConcatProperties
<1>4. sent[q] = delivered[p] \o (InFlight(q) \o message[q])
  BY <1>1 DEF Inv, StreamConserved
<1> QED
  BY <1>3, <1>4

(* Reliable data is read in order, without gaps and without repetition, for every
   number of packets and items, whatever the network does to the packets. *)
THEOREM InOrderDelivery == Spec => []InOrderExactlyOnce
<1>1. Inv => InOrderExactlyOnce
  <2> SUFFICES ASSUME Inv, NEW p \in Peer PROVE IsPrefix(delivered[p], sent[Remote(p)])
    BY DEF InOrderExactlyOnce
  <2>1. PICK rest \in Seq(Nat) : sent[Remote(p)] = delivered[p] \o rest
    BY ReadIsPrefix
  <2>2. delivered[p] \in Seq(Nat)
    BY DEF Inv, TypeOK
  <2> QED
    BY <2>1, <2>2, PrefixOfConcat
<1> QED
  BY <1>1, Invariance, PTL

(* The reliable buffer is freed only once the remote has read everything in it. *)
THEOREM FreedBufferWasDelivered == Spec => []FreedOnlyWhenDelivered
<1>1. Inv => FreedOnlyWhenDelivered
  <2> SUFFICES ASSUME Inv, NEW p \in Peer, reliableBuffer[p] = <<>>
               PROVE  delivered[Remote(p)] \o message[p] = sent[p]
    BY DEF FreedOnlyWhenDelivered
  <2>1. InFlight(p) = <<>>
    BY DEF InFlight
  <2>2. message[p] \in Seq(Nat)
    BY DEF Inv, TypeOK
  <2>3. sent[p] = delivered[Remote(p)] \o (<<>> \o message[p])
    BY <2>1 DEF Inv, StreamConserved
  <2>4. <<>> \o message[p] = message[p]
    BY <2>2, ConcatEmptySeq
  <2> QED
    BY <2>3, <2>4
<1> QED
  BY <1>1, Invariance, PTL

(* NetChan_CheckRetransmit never asks to repeat what the remote already accepted. *)
THEOREM RetransmissionIsNeeded == Spec => []NoSpuriousRetransmit
<1>1. Inv => NoSpuriousRetransmit
  <2> SUFFICES ASSUME Inv, NEW p \in Peer, CheckRetransmit(p), Accepted(p)
               PROVE  FALSE
    BY DEF NoSpuriousRetransmit, Accepted
  <2>1. reliableBuffer[p] # <<>>
    BY DEF Inv, BufferMatchesAcknowledgement, CheckRetransmit
  <2>2. incomingAcknowledged[p] < reliableOutgoing[p]
    BY <2>1 DEF Inv, AcceptedNotPassed
  <2>3. incomingAcknowledged[p] \in Nat /\ reliableOutgoing[p] \in Nat
    BY DEF Inv, TypeOK
  <2> QED
    BY <2>2, <2>3 DEF CheckRetransmit
<1> QED
  BY <1>1, Invariance, PTL

(* A chunk that is not empty ends beyond what was read and within what was written. *)
LEMMA InRange ==
  ASSUME NEW n \in Nat, NEW old \in Nat, NEW chunk \in Nat, NEW written \in Nat,
         n = old + chunk, chunk # 0, n <= written
  PROVE  n \in old + 1 .. written
OBVIOUS

(* The channel implements ReliableStream: its initial state maps to the empty streams
   and each of its steps to a write, to a read, or to no step at all. *)
THEOREM ImplementsStream == Spec => StreamSpec
<1>1. Init => Stream!StreamInit
  BY DEF Init, Stream!StreamInit, Peer, Stream!Peer
<1>2. Inv /\ Inv' /\ [Next]_vars => [Stream!StreamNext]_(Stream!streamVars)
  <2> SUFFICES ASSUME Inv, Inv', [Next]_vars
               PROVE  [Stream!StreamNext]_(Stream!streamVars)
    OBVIOUS
  <2> USE DEF Stream!StreamNext, Stream!streamVars, Stream!Peer, Peer
  <2>1. ASSUME NEW p \in Peer, WriteReliable(p) PROVE Stream!Write(p)
    BY <2>1 DEF WriteReliable, Stream!Write
  <2>2. ASSUME NEW p \in Peer, Send(p) PROVE UNCHANGED Stream!streamVars
    BY <2>2 DEF Send, Transmit
  <2>3. ASSUME NEW p \in Peer, NEW m \in network, Process(p, m)
        PROVE  Stream!Read(p) \/ UNCHANGED Stream!streamVars
    <3>1. /\ sent' = sent
          /\ delivered' = [delivered EXCEPT ![p] = @ \o m.payload]
      BY <2>3 DEF Process
    <3>2. delivered[p] \in Seq(Nat) /\ m.payload \in Seq(Nat)
      BY PacketFacts DEF Inv, TypeOK
    <3>3. delivered'[p] = delivered[p] \o m.payload /\ delivered'[p] \in Seq(Nat)
      BY <3>1, <3>2, ConcatProperties DEF Inv, TypeOK
    <3> DEFINE q == Remote(p)
               n == Len(delivered'[p])
    <3>4. PICK rest \in Seq(Nat) : sent[q] = delivered'[p] \o rest
      <4>1. /\ q \in Peer /\ Remote(q) = p
        BY RemoteFacts
      <4>2. InFlight(q)' \in Seq(Nat) /\ message'[q] \in Seq(Nat)
        BY <4>1, EmptySeq DEF Inv, TypeOK, InFlight
      <4>3. InFlight(q)' \o message'[q] \in Seq(Nat)
        BY <4>2, ConcatProperties
      <4>4. sent'[q] = delivered'[p] \o (InFlight(q)' \o message'[q])
        BY <4>1 DEF Inv, StreamConserved
      <4> QED
        BY <3>1, <4>3, <4>4
    <3>5. CASE m.payload = <<>>
      <4>1. delivered[p] \o <<>> = delivered[p]
        BY <3>2, ConcatEmptySeq
      <4>2. delivered' = delivered
        BY <3>1, <3>5, <4>1 DEF Inv, TypeOK
      <4> QED
        BY <3>1, <4>2
    <3>6. CASE m.payload # <<>>
      <4>1. n \in Nat /\ n <= Len(sent[q]) /\ SubSeq(sent[q], 1, n) = delivered'[p]
        BY <3>3, <3>4, PrefixOfConcat
      <4>2. /\ Len(delivered[p]) \in Nat /\ Len(m.payload) \in Nat
            /\ n = Len(delivered[p]) + Len(m.payload)
        BY <3>2, <3>3, LenProperties, ConcatProperties
      <4>3. Len(m.payload) # 0
        BY <3>2, <3>6, EmptySeq
      <4>4. sent[q] \in Seq(Nat) /\ Len(sent[q]) \in Nat
        BY RemoteFacts, LenProperties DEF Inv, TypeOK
      <4>5. n \in Len(delivered[p]) + 1 .. Len(sent[q])
        BY <4>1, <4>2, <4>3, <4>4, InRange
      <4>6. delivered' = [delivered EXCEPT ![p] = SubSeq(sent[q], 1, n)]
        BY <3>1, <3>3, <4>1 DEF Inv, TypeOK
      <4>7. Stream!Remote(p) = q
        BY DEF Stream!Remote, Remote
      <4> QED
        BY <3>1, <4>5, <4>6, <4>7 DEF Stream!Read
    <3> QED
      BY <3>5, <3>6
  <2> QED
    BY <2>1, <2>2, <2>3 DEF Next, vars
<1> QED
  BY <1>1, <1>2, Invariance, PTL DEF Spec, StreamSpec, Stream!StreamSpec

===============================================================================
