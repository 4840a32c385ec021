----------------------------- MODULE NetChanReopen -----------------------------
(***************************************************************************)
(* A client that connects again while packets of its former channel are    *)
(* still under way.  Both ends run NetChan_Setup, the server when the       *)
(* connect request is granted and the client when it hears of that; packets *)
(* are matched to a channel by address and qport, which stay the same.      *)
(***************************************************************************)
EXTENDS NetChan

CONSTANTS
  MaxConnects,    \* bound: how often the client connects again
  TimeoutPackets  \* the packets a peer sends in the time its remote waits for one

VARIABLES
  phase,     \* "open", "connecting" (client CL_CONNECTING), "granted" (server set up)
  connects   \* how often the client has connected again

reopenVars == <<vars, phase, connects>>

ReopenInit == Init /\ phase = "open" /\ connects = 0

\* NetChan_Setup at one end: a new channel, with nothing sent or read on it yet.
Setup(p) ==
  /\ outgoingSequence' = [outgoingSequence EXCEPT ![p] = 1]
  /\ incomingSequence' = [incomingSequence EXCEPT ![p] = 0]
  /\ incomingAcknowledged' = [incomingAcknowledged EXCEPT ![p] = 0]
  /\ reliableAcknowledged' = [reliableAcknowledged EXCEPT ![p] = 0]
  /\ reliableIncoming' = [reliableIncoming EXCEPT ![p] = 0]
  /\ reliableOutgoing' = [reliableOutgoing EXCEPT ![p] = 0]
  /\ reliableSequence' = [reliableSequence EXCEPT ![p] = 0]
  /\ message' = [message EXCEPT ![p] = <<>>]
  /\ reliableBuffer' = [reliableBuffer EXCEPT ![p] = <<>>]
  /\ sent' = [sent EXCEPT ![p] = <<>>]
  /\ delivered' = [delivered EXCEPT ![p] = <<>>]
  /\ UNCHANGED network

\* Cl_Connect: the client sends "disconnect", leaves its channel and asks for another.
Connect ==
  /\ phase = "open" /\ connects < MaxConnects
  /\ phase' = "connecting" /\ connects' = connects + 1
  /\ Send("client")

\* Sv_Connect_f, for the address and qport of the slot the client holds already.
GrantConnect ==
  /\ phase = "connecting" /\ phase' = "granted"
  /\ Setup("server")
  /\ UNCHANGED connects

\* Cl_ConnectionlessPacket: "clientConnect".
ClientConnect ==
  /\ phase = "granted" /\ phase' = "open"
  /\ Setup("client")
  /\ UNCHANGED connects

\* A client that is connecting neither sends nor reads sequenced packets.
Use(p) ==
  /\ p = "client" => phase = "open"
  /\ WriteReliable(p) \/ Send(p) \/ \E m \in network : Process(p, m)
  /\ UNCHANGED <<phase, connects>>

ReopenNext == Connect \/ GrantConnect \/ ClientConnect \/ \E p \in Peer : Use(p)

ReopenSpec == ReopenInit /\ [][ReopenNext]_reopenVars

\* net_chan.c: "Illogical packet sequence numbers cause the packet to be dropped, but do
\* not kill the connection": once both ends have the channel open, neither peer is deaf
\* to its remote for so long that the connection times out.
ConnectionSurvives ==
  phase = "open" => \A p \in Peer :
    incomingSequence[Remote(p)] < outgoingSequence[p] + TimeoutPackets
================================================================================
