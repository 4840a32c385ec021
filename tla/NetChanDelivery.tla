---------------------------- MODULE NetChanDelivery ----------------------------
(***************************************************************************)
(* NetChan over a network that may lose only so many packets: whatever is  *)
(* written to the channel is then delivered in the end.  Packets arrive in *)
(* order; one that a newer packet overtakes is discarded on arrival, which *)
(* is what losing it here stands for.                                      *)
(***************************************************************************)
EXTENDS NetChan

CONSTANTS
  MaxLosses,  \* bound: packets the network loses
  Window,     \* bound: packets of one peer under way at a time
  MaxLead,    \* bound: how many packets one peer sends ahead of the other
  LastWrite   \* bound: writes stop LastWrite packets into the channel's life

ASSUME DeliveryAssumption ==
  /\ MaxLosses \in Nat
  /\ Window \in Nat \ {0}
  /\ MaxLead \in Nat \ {0}
  /\ LastWrite \in Nat

VARIABLES
  wire,   \* wire[p]: the packets of peer p under way, oldest first
  losses  \* how many packets were lost

deliveryVars == <<vars, wire, losses>>

DeliveryInit ==
  /\ Init
  /\ wire = [p \in Peer |-> <<>>]
  /\ losses = 0

WriteMessage(p) ==
  /\ outgoingSequence[p] <= LastWrite
  /\ WriteReliable(p)
  /\ UNCHANGED <<wire, losses>>

SendInOrder(p) ==
  /\ Len(wire[p]) < Window
  /\ outgoingSequence[p] < outgoingSequence[Remote(p)] + MaxLead
  /\ Transmit(p)
  /\ wire' = [wire EXCEPT ![p] = Append(@, PacketSent(p))]
  /\ UNCHANGED <<network, losses>>

Receive(p) ==
  /\ wire[Remote(p)] # <<>>
  /\ Process(p, Head(wire[Remote(p)]))
  /\ wire' = [wire EXCEPT ![Remote(p)] = Tail(@)]
  /\ UNCHANGED losses

Lose(p) ==
  /\ wire[p] # <<>> /\ losses < MaxLosses
  /\ wire' = [wire EXCEPT ![p] = Tail(@)]
  /\ losses' = losses + 1
  /\ UNCHANGED vars

DeliveryNext == \E p \in Peer : WriteMessage(p) \/ SendInOrder(p) \/ Receive(p) \/ Lose(p)

\* Each frame of either program sends (Cl_SendCommands, Sv_SendClientPackets) and reads
\* whatever arrived (Cl_Frame, Sv_ReadPackets).
DeliverySpec ==
  /\ DeliveryInit /\ [][DeliveryNext]_deliveryVars
  /\ \A p \in Peer : WF_deliveryVars(SendInOrder(p)) /\ WF_deliveryVars(Receive(p))

\* Whatever is written is read in the end, and the writer learns of it: the wait for an
\* acknowledgement that goes past the reliable packet (NetChan_CheckRetransmit) never becomes
\* a wait for ever, and the reliable buffer never stays occupied for good.
EventuallyDelivered ==
  \A p \in Peer :
    /\ \A n \in 1 .. MaxReliable[p] : (Len(sent[p]) >= n) ~> (Len(delivered[Remote(p)]) >= n)
    /\ (reliableBuffer[p] # <<>>) ~> (reliableBuffer[p] = <<>>)
================================================================================
