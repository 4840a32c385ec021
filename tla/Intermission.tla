---------------------------- MODULE Intermission ----------------------------
(***************************************************************************)
(* The vote for the next map between two levels                            *)
(* (game/common/g_intermission.c), and the one map change it decides       *)
(* (server/sv_map_list.c).  When a level has one candidate only, or        *)
(* g_voteNextMap is off, nobody votes: Candidates is 1.                    *)
(***************************************************************************)
EXTENDS GameClients

CONSTANT
  Candidates    \* module.numMaps, of which the first is what the rotation would have played

ASSUME IntermissionAssumption == Candidates \in Nat \ {0}

VARIABLES
  offering,    \* module.active
  mapBallots,  \* module.ballots: 0 is BALLOT_NONE
  nextMap      \* svs.maps.next: 0 when the rotation decides

mapVars == <<offering, mapBallots, nextMap>>

Map == 1 .. Candidates
NoMapBallots == [c \in Clients |-> 0]

MapTypeOK ==
  /\ offering \in BOOLEAN
  /\ mapBallots \in [Clients -> 0 .. Candidates]
  /\ nextMap \in 0 .. Candidates

MapInit == offering = FALSE /\ mapBallots = NoMapBallots /\ nextMap = 0

\* G_Intermission_Count.
Votes(m, eligible) == Cardinality({c \in eligible : mapBallots[c] = m})

\* G_Intermission_Begin.
BeginOffer ==
  /\ offering' = TRUE
  /\ mapBallots' = NoMapBallots
  /\ UNCHANGED nextMap

\* The first of the candidates with the most ballots.
Winner(eligible) ==
  CHOOSE m \in Map :
    \A n \in Map : \/ Votes(n, eligible) < Votes(m, eligible)
                   \/ Votes(n, eligible) = Votes(m, eligible) /\ m <= n

\* G_Intermission_End.  The ballots are cleared at the next beginning.
EndOffer(eligible) ==
  /\ offering' = FALSE
  /\ mapBallots' = NoMapBallots
  /\ nextMap' = Winner(eligible)

\* G_Intermission_Cast.
CastMap(c, m) ==
  /\ offering /\ Candidates > 1
  /\ mapBallots' = [mapBallots EXCEPT ![c] = m]
  /\ UNCHANGED <<offering, nextMap>>

\* G_ClientWillDisconnect_Intermission.
ClearMapBallot(c) == [mapBallots EXCEPT ![c] = 0]

\* G_ConfigureLevel_Intermission.
CloseOffer == offering' = FALSE /\ mapBallots' = NoMapBallots

\* G_FrameDidEnd_Intermission, in a frame at whose end there is an intermission.
ContinueOffer == IF offering THEN UNCHANGED mapVars ELSE BeginOffer

=============================================================================
