---------------------------- MODULE MCNetChanReopen ----------------------------
(* Bounds for checking NetChanReopen. *)
EXTENDS NetChanReopen

Sequence == [p \in Peer |-> 5]
Reliable == [p \in Peer |-> 0]
================================================================================
