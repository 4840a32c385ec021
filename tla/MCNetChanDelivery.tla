-------------------------- MODULE MCNetChanDelivery --------------------------
(* Bounds for checking NetChanDelivery; README.md says why they are enough. *)
EXTENDS NetChanDelivery

Sequence == [p \in Peer |-> 20]
Reliable == [p \in Peer |-> IF p = "client" THEN 2 ELSE 0]
==============================================================================
