------------------------------ MODULE MCNetChan ------------------------------
(* Bounds for checking NetChan; README.md says why they are enough. *)
EXTENDS NetChan

\* The client writes twice and the server once; each side can lose a reliable packet
\* and send it again, and the even/odd bit of the client comes back to 0.
ClientFirst(client, server) == [p \in Peer |-> IF p = "client" THEN client ELSE server]
Sequence == ClientFirst(6, 4)
Reliable == ClientFirst(2, 1)
===============================================================================
