---------------------------- MODULE ReliableStream ----------------------------
(***************************************************************************)
(* What the reliable half of a network channel promises its two users:     *)
(* each peer writes a stream of items, and its remote reads that stream     *)
(* in order, without a gap and without a repetition, in chunks of any       *)
(* size.  There are no packets, acknowledgements or losses here; NetChan    *)
(* is shown to implement this specification.                               *)
(***************************************************************************)
EXTENDS Naturals, Sequences

VARIABLES
  sent,      \* sent[p]: every item peer p wrote, in order
  delivered  \* delivered[p]: every item peer p read from its remote, in order

streamVars == <<sent, delivered>>

Peer == {"client", "server"}

Remote(p) == IF p = "client" THEN "server" ELSE "client"

StreamInit ==
  /\ sent = [p \in Peer |-> <<>>]
  /\ delivered = [p \in Peer |-> <<>>]

Write(p) ==
  /\ sent' = [sent EXCEPT ![p] = Append(@, Len(@) + 1)]
  /\ UNCHANGED delivered

\* Peer p reads the next chunk, whatever its length, of its remote's stream.
Read(p) ==
  /\ \E n \in Len(delivered[p]) + 1 .. Len(sent[Remote(p)]) :
       delivered' = [delivered EXCEPT ![p] = SubSeq(sent[Remote(p)], 1, n)]
  /\ UNCHANGED sent

StreamNext == \E p \in Peer : Write(p) \/ Read(p)

StreamSpec == StreamInit /\ [][StreamNext]_streamVars
===============================================================================
