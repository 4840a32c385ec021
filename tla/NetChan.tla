------------------------------- MODULE NetChan -------------------------------
(***************************************************************************)
(* The network channel (net/net_chan.c): a stop-and-wait, alternating-bit   *)
(* reliable stream carried by sequenced packets over a network that may     *)
(* lose, delay, duplicate and reorder them.  Both ends run the same code,   *)
(* so every variable is indexed by the peer that owns it.                   *)
(*                                                                         *)
(* Reliable data is identified by its position in the sender's stream.      *)
(* The unreliable payload, the addresses, the qport and the time stamps     *)
(* do not take part in the protocol and are left out.                       *)
(***************************************************************************)
EXTENDS Naturals, Sequences, SequencesExt

CONSTANTS
  MaxSequence,  \* bound: peer p sends sequence numbers below MaxSequence[p]
  MaxReliable   \* bound: peer p writes at most MaxReliable[p] reliable items

Peer == {"client", "server"}

Remote(p) == IF p = "client" THEN "server" ELSE "client"

\* Sequence numbers travel in 31 bits; within the bound the mask keeps them whole.
ASSUME BoundAssumption ==
  /\ MaxSequence \in [Peer -> 1 .. 2147483647]
  /\ MaxReliable \in [Peer -> Nat]

VARIABLES
  outgoingSequence,      \* the sequence number of the next packet sent
  incomingSequence,      \* the newest sequence number accepted from the remote
  incomingAcknowledged,  \* the newest of our packets the remote says it accepted
  reliableAcknowledged,  \* the remote's even/odd bit, as last acknowledged
  reliableIncoming,      \* the even/odd bit of the reliable data we accepted
  reliableOutgoing,      \* outgoingSequence just after reliable data was last sent
  reliableSequence,      \* the even/odd bit of the reliable data in flight
  message,               \* reliable items written, not yet in flight
  reliableBuffer,        \* the reliable items in flight; empty iff reliableSize is 0
  network,               \* every packet ever sent: any of them may yet arrive
  sent,                  \* history: every reliable item written
  delivered              \* history: every reliable item handed to the parser

chanVars == <<outgoingSequence, incomingSequence, incomingAcknowledged,
              reliableAcknowledged, reliableIncoming, reliableOutgoing,
              reliableSequence, message, reliableBuffer>>

vars == <<chanVars, network, sent, delivered>>

Bit == {0, 1}

Packet == [from : Peer, sequence : Nat, reliable : Bit,
           ack : Nat, reliableAck : Bit, payload : Seq(Nat)]

TypeOK ==
  /\ outgoingSequence \in [Peer -> Nat]
  /\ incomingSequence \in [Peer -> Nat]
  /\ incomingAcknowledged \in [Peer -> Nat]
  /\ reliableAcknowledged \in [Peer -> Bit]
  /\ reliableIncoming \in [Peer -> Bit]
  /\ reliableOutgoing \in [Peer -> Nat]
  /\ reliableSequence \in [Peer -> Bit]
  /\ message \in [Peer -> Seq(Nat)]
  /\ reliableBuffer \in [Peer -> Seq(Nat)]
  /\ network \subseteq Packet
  /\ sent \in [Peer -> Seq(Nat)]
  /\ delivered \in [Peer -> Seq(Nat)]

-------------------------------------------------------------------------------

\* NetChan_Setup, at both ends of a channel on which nothing has been sent.
Init ==
  /\ outgoingSequence = [p \in Peer |-> 1]
  /\ incomingSequence = [p \in Peer |-> 0]
  /\ incomingAcknowledged = [p \in Peer |-> 0]
  /\ reliableAcknowledged = [p \in Peer |-> 0]
  /\ reliableIncoming = [p \in Peer |-> 0]
  /\ reliableOutgoing = [p \in Peer |-> 0]
  /\ reliableSequence = [p \in Peer |-> 0]
  /\ message = [p \in Peer |-> <<>>]
  /\ reliableBuffer = [p \in Peer |-> <<>>]
  /\ network = {}
  /\ sent = [p \in Peer |-> <<>>]
  /\ delivered = [p \in Peer |-> <<>>]

\* Net_Write*(&netChan->message, ...): the user adds to the reliable message.
WriteReliable(p) ==
  /\ Len(sent[p]) < MaxReliable[p]
  /\ message' = [message EXCEPT ![p] = Append(@, Len(sent[p]) + 1)]
  /\ sent' = [sent EXCEPT ![p] = Append(@, Len(@) + 1)]
  /\ UNCHANGED <<outgoingSequence, incomingSequence, incomingAcknowledged,
                 reliableAcknowledged, reliableIncoming, reliableOutgoing,
                 reliableSequence, reliableBuffer, network, delivered>>

\* Mutant: retransmits only when the acknowledgement is of one particular packet.
CheckRetransmitWhenEqual(p) ==
  /\ incomingAcknowledged[p] = reliableOutgoing[p]
  /\ reliableAcknowledged[p] # reliableSequence[p]

\* Mutant: retransmits at once, not waiting for an acknowledgement past the reliable.
CheckRetransmitAtOnce(p) == reliableAcknowledged[p] # reliableSequence[p]

\* The remote accepted a packet newer than our reliable one, yet not the reliable one.
CheckRetransmit(p) ==
  /\ incomingAcknowledged[p] > reliableOutgoing[p]
  /\ reliableAcknowledged[p] # reliableSequence[p]

\* Mutant: the message replaces whatever is in flight.
LoadsMessageAnyTime(p) == message[p] # <<>>

\* Nothing is in flight and something waits, so the message becomes the reliable buffer.
LoadsMessage(p) == reliableBuffer[p] = <<>> /\ message[p] # <<>>

\* The packet peer p sends next, reliable part first.
PacketFrom(p, reliable, payload) ==
  [from |-> p, sequence |-> outgoingSequence[p], reliable |-> reliable,
   ack |-> incomingSequence[p], reliableAck |-> reliableIncoming[p],
   payload |-> payload]

\* The datagram that NetChan_Transmit sends.
PacketSent(p) ==
  IF LoadsMessage(p) THEN PacketFrom(p, 1, message[p])
  ELSE IF CheckRetransmit(p) THEN PacketFrom(p, 1, reliableBuffer[p])
  ELSE PacketFrom(p, 0, <<>>)

\* A packet without a reliable part.
TransmitUnreliable(p) ==
  /\ ~ CheckRetransmit(p) /\ ~ LoadsMessage(p)
  /\ UNCHANGED <<reliableOutgoing, reliableSequence, message, reliableBuffer>>

\* A packet that sends the reliable buffer again.
Retransmit(p) ==
  /\ CheckRetransmit(p) /\ ~ LoadsMessage(p)
  /\ reliableOutgoing' = [reliableOutgoing EXCEPT ![p] = outgoingSequence[p] + 1]
  /\ UNCHANGED <<reliableSequence, message, reliableBuffer>>

\* Mutant: the bit counts up where it should alternate.
TransmitMessageCounting(p) ==
  /\ LoadsMessage(p)
  /\ reliableBuffer' = [reliableBuffer EXCEPT ![p] = message[p]]
  /\ message' = [message EXCEPT ![p] = <<>>]
  /\ reliableSequence' = [reliableSequence EXCEPT ![p] = @ + 1]
  /\ reliableOutgoing' = [reliableOutgoing EXCEPT ![p] = outgoingSequence[p] + 1]

\* A packet that puts new reliable data in flight under the other even/odd bit.
TransmitMessage(p) ==
  /\ LoadsMessage(p)
  /\ reliableBuffer' = [reliableBuffer EXCEPT ![p] = message[p]]
  /\ message' = [message EXCEPT ![p] = <<>>]
  /\ reliableSequence' = [reliableSequence EXCEPT ![p] = 1 - @]
  /\ reliableOutgoing' = [reliableOutgoing EXCEPT ![p] = outgoingSequence[p] + 1]

\* NetChan_Transmit, but for where the datagram goes.
Transmit(p) ==
  /\ outgoingSequence[p] < MaxSequence[p]
  /\ TransmitUnreliable(p) \/ Retransmit(p) \/ TransmitMessage(p)
  /\ outgoingSequence' = [outgoingSequence EXCEPT ![p] = @ + 1]
  /\ UNCHANGED <<incomingSequence, incomingAcknowledged, reliableAcknowledged,
                 reliableIncoming, sent, delivered>>

\* The datagram joins those that may arrive, at any time and any number of times.
Send(p) == Transmit(p) /\ network' = network \cup {PacketSent(p)}

\* Mutants: a duplicate, or anything at all, is taken for a new packet.
LiveOrDuplicate(m) == m.sequence >= incomingSequence[Remote(m.from)]
LiveOrStale(m) == m.sequence > 0

\* Stale and duplicated packets are discarded and change nothing.
Live(m) == m.sequence > incomingSequence[Remote(m.from)]

\* NetChan_Process of a packet that is not discarded, and the parse that follows it.
Process(p, m) ==
  /\ m.from = Remote(p) /\ Live(m)
  /\ reliableBuffer' = IF m.reliableAck = reliableSequence[p]
                       THEN [reliableBuffer EXCEPT ![p] = <<>>]
                       ELSE reliableBuffer
  /\ incomingSequence' = [incomingSequence EXCEPT ![p] = m.sequence]
  /\ incomingAcknowledged' = [incomingAcknowledged EXCEPT ![p] = m.ack]
  /\ reliableAcknowledged' = [reliableAcknowledged EXCEPT ![p] = m.reliableAck]
  /\ reliableIncoming' = IF m.reliable = 1
                         THEN [reliableIncoming EXCEPT ![p] = 1 - @]
                         ELSE reliableIncoming
  /\ delivered' = [delivered EXCEPT ![p] = @ \o m.payload]
  /\ UNCHANGED <<outgoingSequence, reliableOutgoing, reliableSequence, message,
                 network, sent>>

Next ==
  \E p \in Peer :
    \/ WriteReliable(p)
    \/ Send(p)
    \/ \E m \in network : Process(p, m)

Spec == Init /\ [][Next]_vars

-------------------------------------------------------------------------------

\* The promise to the users of the channel: each side reads the other's stream
\* in order, without gaps or repetitions, whatever the network does to packets.
Stream == INSTANCE ReliableStream WITH sent <- sent, delivered <- delivered
StreamSpec == Stream!StreamSpec

\* At any time what a peer has read is a prefix of what its remote wrote: a
\* retransmission that races its own acknowledgement is never applied twice, and
\* new reliable data never overtakes old (NetChan_Transmit, NetChan_Process).
InOrderExactlyOnce ==
  \A p \in Peer : IsPrefix(delivered[p], sent[Remote(p)])

\* Reliable data leaves the reliable buffer only once the remote has read it: when
\* the buffer is free, everything but the unsent message has been delivered.
FreedOnlyWhenDelivered ==
  \A p \in Peer :
    reliableBuffer[p] = <<>> => delivered[Remote(p)] \o message[p] = sent[p]

\* The sender never retransmits reliable data that the remote has already accepted
\* (the comment at the top of net_chan.c: "a sequence acknowledge higher than the
\* last reliable sequence, but without the correct even/odd bit").
NoSpuriousRetransmit ==
  \A p \in Peer : CheckRetransmit(p) => reliableIncoming[Remote(p)] # reliableSequence[p]

-------------------------------------------------------------------------------

(***************************************************************************)
(* The inductive strengthening of the properties above.  "Accepted" is the  *)
(* state the sender cannot see: whether its remote holds the even/odd bit   *)
(* of the newest reliable data.                                            *)
(***************************************************************************)
Accepted(p) == reliableIncoming[Remote(p)] = reliableSequence[p]

\* No packet claims more than its sender knew, and no sender trails its own packets.
PacketsInThePast ==
  /\ \A m \in network :
       /\ m.sequence < outgoingSequence[m.from]
       /\ m.ack <= incomingSequence[m.from]
       /\ m.reliable = 0 => m.payload = <<>>
  /\ \A p \in Peer : incomingSequence[p] < outgoingSequence[Remote(p)]
  /\ \A p \in Peer : incomingAcknowledged[p] <= incomingSequence[Remote(p)]

\* The buffer is occupied exactly while the bit we last saw acknowledged is not ours.
BufferMatchesAcknowledgement ==
  \A p \in Peer :
    /\ reliableBuffer[p] = <<>> <=> reliableAcknowledged[p] = reliableSequence[p]
    /\ reliableBuffer[p] = <<>> => Accepted(p)

\* Whatever reliable packet could still be accepted is the newest one, it carries the
\* buffer, and the remote lacks it.
LiveReliable ==
  \A m \in network :
    Live(m) /\ m.reliable = 1 =>
      /\ ~ Accepted(m.from)
      /\ m.sequence + 1 = reliableOutgoing[m.from]
      /\ m.payload = reliableBuffer[m.from]

\* What the acknowledgements still under way can tell sender p.
LiveAcknowledgements ==
  \A m \in network :
    Live(m) =>
      LET p == Remote(m.from) IN
      /\ ~ Accepted(p) => m.reliableAck # reliableSequence[p]
      /\ reliableBuffer[p] = <<>> => m.reliableAck = reliableSequence[p]
      /\ m.reliableAck # reliableSequence[p] /\ Accepted(p) =>
           m.ack < reliableOutgoing[p]

\* Once an acknowledgement says "accepted", so do all later ones.
AcknowledgementsMonotone ==
  \A m, n \in network :
    /\ Live(m) /\ m.reliableAck = reliableSequence[Remote(m.from)]
    /\ n.from = m.from /\ n.sequence > m.sequence
    => n.reliableAck = reliableSequence[Remote(m.from)]

\* After the remote accepted the data, no acknowledgement reaches past it unnoticed.
AcceptedNotPassed ==
  \A p \in Peer :
    Accepted(p) /\ reliableBuffer[p] # <<>> =>
      incomingAcknowledged[p] < reliableOutgoing[p]

\* The items the sender has put in flight and the remote has not accepted.
InFlight(p) == IF Accepted(p) THEN <<>> ELSE reliableBuffer[p]

\* Where every written item is: read, in flight, or waiting.
StreamConserved ==
  \A p \in Peer : sent[p] = delivered[Remote(p)] \o (InFlight(p) \o message[p])

\* The whole protocol state, kept by NetChan_Transmit and NetChan_Process.
Inv ==
  /\ TypeOK
  /\ PacketsInThePast
  /\ BufferMatchesAcknowledgement
  /\ LiveReliable
  /\ LiveAcknowledgements
  /\ AcknowledgementsMonotone
  /\ AcceptedNotPassed
  /\ StreamConserved

===============================================================================
