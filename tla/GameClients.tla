---------------------------- MODULE GameClients ----------------------------
(***************************************************************************)
(* The clients of the game, as far as rules, votes and flags look at them  *)
(* (GameClient in game/common/g_types.h, and g_client.c).                  *)
(***************************************************************************)
EXTENDS Integers, FiniteSets

CONSTANTS
  Clients,     \* the client slots of the game
  Bots,        \* those that bots take
  Teams,
  NoTeam       \* persistent.team of a client that plays for none

ASSUME ClientsAssumption ==
  IsFiniteSet(Clients) /\ Bots \subseteq Clients /\ NoTeam \notin Teams

VARIABLES
  players    \* each client's status, persistent.team and .spectator, and entity->dead

\* inUse and entity are both false, inUse only, both while the client connects again,
\* and both when it has begun.
Status == {"gone", "connecting", "returning", "playing"}

Player == [status : Status, team : Teams \cup {NoTeam}, spectator : BOOLEAN, dead : BOOLEAN]

\* What memset leaves of a GameClient.
Gone == [status |-> "gone", team |-> NoTeam, spectator |-> FALSE, dead |-> FALSE]

ClientsInit == players = [c \in Clients |-> Gone]

InUse(c) == players[c].status # "gone"
HasEntity(c) == players[c].status \in {"returning", "playing"}

\* In the level, and neither dead nor a spectator.
Alive(c) == HasEntity(c) /\ ~players[c].dead

\* G_Vote_Eligible: also before the client has begun.
Eligible == {c \in Clients \ Bots : InUse(c)}

\* G_ClientRespawn_ of a client with an entity: a spectator leaves its team.
Respawned(p) ==
  IF p.status \in {"gone", "connecting"} THEN p
  ELSE IF p.spectator THEN [p EXCEPT !.dead = TRUE, !.team = NoTeam]
  ELSE [p EXCEPT !.dead = FALSE]

\* G_ClientToIntermission.
ToIntermission(p) == IF p.status \in {"gone", "connecting"} THEN p ELSE [p EXCEPT !.dead = TRUE]

=============================================================================
