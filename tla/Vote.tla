-------------------------------- MODULE Vote --------------------------------
(***************************************************************************)
(* The vote that the clients of a level have open (game/common/g_vote.c).  *)
(* What a vote that passed does to the game is applied in module Game.     *)
(* The cooldown only delays the next call of a client, and the published   *)
(* tally is text: neither is modelled.                                     *)
(***************************************************************************)
EXTENDS GameClients

CONSTANTS
  Nobody,      \* the name that no client has
  Threshold    \* g_voteThreshold, in percent

ASSUME VoteAssumption == Nobody \notin Clients /\ Threshold \in 0 .. 100

VARIABLES
  vote    \* the open vote: its type, whom it names, and the ballots; or NoVote

\* The types whose effect the model has: the others set a variable, or mute.
VoteType == {"map", "spectate"}

Ballot == {"none", "yes", "no"}
NoBallots == [c \in Clients |-> "none"]

\* Nobody looks at the ballots of a vote that ended: the next call clears them.
NoVote == [type |-> "none", target |-> Nobody, ballots |-> NoBallots]

VoteTypeOK ==
  vote \in [type : VoteType \cup {"none"}, target : Clients \cup {Nobody},
            ballots : [Clients -> Ballot]]

VoteInit == vote = NoVote

\* G_Vote_Count.
Count(v, eligible, ballot) == Cardinality({c \in eligible : v.ballots[c] = ballot})

\* G_Vote_Check, of those who may vote now; late once the deadline is over.
Verdict(v, eligible, late) ==
  LET needed == (Cardinality(eligible) * Threshold) \div 100 + 1
  IN IF Count(v, eligible, "yes") >= needed THEN "passed"
     ELSE IF late \/ Cardinality(eligible) - Count(v, eligible, "no") < needed THEN "failed"
     ELSE "open"

\* G_Vote_Call: the caller is for it.
Called(c, type, target) ==
  [type |-> type, target |-> target, ballots |-> [NoBallots EXCEPT ![c] = "yes"]]

\* G_Vote_Cast: the last ballot counts.
Cast(c, ballot) == [vote EXCEPT !.ballots[c] = ballot]

\* Mutant: the ballot stays.
KeepBallot(c) == vote

\* G_ClientWillDisconnect_Vote, and the name is gone with the client.
ClearBallot(c) ==
  [vote EXCEPT !.ballots[c] = "none", !.target = IF @ = c THEN Nobody ELSE @]

=============================================================================
