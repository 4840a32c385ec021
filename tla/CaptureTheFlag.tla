--------------------------- MODULE CaptureTheFlag ---------------------------
(***************************************************************************)
(* The flags (game/common/g_ctf.c, and what g_item.c does to them).  A     *)
(* flag is an item that always stays at its base and is hidden while it is *)
(* away; what a carrier has is a bit of the inventory, and what lies in    *)
(* the world is an item of its own.  Who plays for which team is known to  *)
(* module Game, which composes these actions.                              *)
(***************************************************************************)
EXTENDS GameClients

CONSTANT
  CaptureLimit   \* gameLevel.captureLimit, at which nobody captures any more here

ASSUME FlagAssumption == CaptureLimit \in Nat \ {0}

VARIABLES
  base,       \* the teams whose flag is visible at its base (SOLID_TRIGGER)
  carries,    \* the flags in each client's inventory
  dropped,    \* the number of dropped items of each flag
  captures    \* GameTeam.captures

flagVars == <<base, carries, dropped, captures>>

FlagTypeOK ==
  /\ base \subseteq Teams
  /\ carries \in [Clients -> SUBSET Teams]
  /\ dropped \in [Teams -> Nat]
  /\ captures \in [Teams -> 0 .. CaptureLimit]

\* G_SpawnEntities and G_ResetItems: every flag is visible, and what was dropped is freed.
FlagsReset ==
  /\ base' = Teams
  /\ dropped' = [t \in Teams |-> 0]
  /\ captures' = [t \in Teams |-> 0]

FlagInit ==
  /\ base = Teams
  /\ carries = [c \in Clients |-> {}]
  /\ dropped = [t \in Teams |-> 0]
  /\ captures = [t \in Teams |-> 0]

\* G_GetFlag: a client carries the flags of other teams than its own.
GetFlag(c, team) == carries[c] \ {team}

\* G_DropItem: it lies in the world, or in a bad spot is returned at once.
DropItem(t) ==
  \/ dropped' = [dropped EXCEPT ![t] = @ + 1] /\ UNCHANGED base
  \/ base' = base \cup {t} /\ UNCHANGED dropped

\* Mutant: the flag stays in the inventory.
TossFlagCopied(c, team) ==
  /\ IF GetFlag(c, team) = {} THEN UNCHANGED <<base, dropped>>
     ELSE \E t \in GetFlag(c, team) : DropItem(t)
  /\ UNCHANGED <<carries, captures>>

\* Mutant: nothing is tossed.
TossFlagNever(c, team) == UNCHANGED flagVars

\* G_TossFlag.
TossFlag(c, team) ==
  /\ IF GetFlag(c, team) = {} THEN UNCHANGED <<base, carries, dropped>>
     ELSE \E t \in GetFlag(c, team) : DropItem(t) /\ carries' = [carries EXCEPT ![c] = @ \ {t}]
  /\ UNCHANGED captures

\* G_TossInventory, and then G_ClientRespawn or G_ClientDisconnect, which clear the client.
TossAndClear(c, team) ==
  /\ IF GetFlag(c, team) = {} THEN UNCHANGED <<base, dropped>>
     ELSE \E t \in GetFlag(c, team) : DropItem(t)
  /\ carries' = [carries EXCEPT ![c] = {}]
  /\ UNCHANGED captures

\* Mutant: the flag at its base is taken for a dropped one.
ReturnFlagAtBase(team) ==
  /\ dropped[team] > 0 \/ team \in base
  /\ base' = base \cup {team}
  /\ dropped' = [dropped EXCEPT ![team] = @ - 1]
  /\ UNCHANGED <<carries, captures>>

\* G_PickupFlag, of a dropped flag of the client's team.
ReturnFlag(team) ==
  /\ dropped[team] > 0
  /\ base' = base \cup {team}
  /\ dropped' = [dropped EXCEPT ![team] = @ - 1]
  /\ UNCHANGED <<carries, captures>>

\* G_PickupFlag, of the client's own flag at its base.
CaptureFlag(c, team) ==
  /\ team \in base /\ captures[team] < CaptureLimit
  /\ \E t \in GetFlag(c, team) :
       /\ base' = base \cup {t}
       /\ carries' = [carries EXCEPT ![c] = @ \ {t}]
  /\ captures' = [captures EXCEPT ![team] = @ + 1]
  /\ UNCHANGED dropped

\* G_PickupFlag, of the flag t of another team, at its base or dropped.
StealFlag(c, team, t) ==
  /\ t # team /\ GetFlag(c, team) = {}
  /\ \/ t \in base /\ UNCHANGED dropped
     \/ dropped[t] > 0 /\ dropped' = [dropped EXCEPT ![t] = @ - 1]
  /\ base' = base \ {t}
  /\ carries' = [carries EXCEPT ![c] = @ \cup {t}]
  /\ UNCHANGED captures

\* G_PickupFlag: the client touches a flag.
PickupFlag(c, team) ==
  \/ ReturnFlag(team)
  \/ CaptureFlag(c, team)
  \/ \E t \in Teams : StealFlag(c, team, t)

\* G_ResetDroppedFlag, when a dropped flag was not touched for a while.
ResetDroppedFlag(t) ==
  /\ dropped[t] > 0
  /\ base' = base \cup {t}
  /\ dropped' = [dropped EXCEPT ![t] = @ - 1]
  /\ UNCHANGED <<carries, captures>>

\* G_CheckWinner_Ctf.
CheckWinner == \E t \in Teams : captures[t] >= CaptureLimit

\* In how many places a flag is.
Places(t) ==
  Cardinality({t} \cap base) + Cardinality({c \in Clients : t \in carries[c]}) + dropped[t]

=============================================================================
