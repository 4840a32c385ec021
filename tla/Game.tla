-------------------------------- MODULE Game --------------------------------
(***************************************************************************)
(* A level of capture the flag: clients that come, play, watch and leave,  *)
(* the votes they call, the end of the level and the way to the next       *)
(* (game/common/g_main.c, g_client.c, g_cmd.c, with the modules that this  *)
(* one composes, and Sv_Frame and Cbuf_Execute that drive them).           *)
(*                                                                         *)
(* Main_Frame executes the queued commands, reads what clients sent, and   *)
(* then runs the frames of the game that are due.  Time limits, the frags  *)
(* and movement that decide who touches what, and which team is smallest,  *)
(* are left open.                                                          *)
(***************************************************************************)
EXTENDS CaptureTheFlag, Vote, Intermission

CONSTANTS
  AutoJoin,          \* g_autoJoin
  Backlog,           \* whether Sv_Frame may have several frames of the game to run
  CarriersAtChange   \* whether a human may have a flag when the level changes

ASSUME GameAssumption == {AutoJoin, Backlog, CarriersAtChange} \subseteq BOOLEAN

VARIABLES
  intermission,   \* gameLevel.intermissionTime # 0
  posts,          \* how often G_PostStats ran since gameLevel.frags was allocated
  levelChange,    \* a map or nextMap command waits in the command buffer
  step            \* of Main_Frame: "read", "ticks" or "execute"

levelVars == <<intermission, posts, levelChange>>
vars == <<players, flagVars, vote, mapVars, levelVars, step>>

TypeOK ==
  /\ players \in [Clients -> Player]
  /\ FlagTypeOK /\ VoteTypeOK /\ MapTypeOK
  /\ intermission \in BOOLEAN /\ levelChange \in BOOLEAN
  /\ posts \in 0 .. 2
  /\ step \in {"read", "ticks", "execute"}

Init ==
  /\ ClientsInit /\ FlagInit /\ VoteInit /\ MapInit
  /\ intermission = FALSE /\ posts = 0 /\ levelChange = FALSE
  /\ step = "read"

Reading == step = "read" /\ UNCHANGED step
SetPlayer(c, p) == players' = [players EXCEPT ![c] = p]

-------------------------------------------------------------------------------
\* Clients come and go.

\* G_ClientConnect: a new client, whose name may be the one that a vote is about; or the
\* one that has the slot connects again, after a change of level or without a disconnect.
ClientConnect(c) ==
  /\ Reading /\ c \notin Bots
  /\ SetPlayer(c, [players[c] EXCEPT !.status = IF HasEntity(c) THEN "returning" ELSE "connecting",
                                     !.team = NoTeam, !.spectator = FALSE])
  /\ vote' \in {vote} \cup {[vote EXCEPT !.target = c] :
                              i \in IF vote.type = "spectate" /\ vote.target = Nobody THEN {1} ELSE {}}
  /\ UNCHANGED <<flagVars, mapVars, levelVars>>

\* What G_ClientBegin makes of p: with a new entity, in a team or as a spectator.
Begun(p, t) ==
  LET joined == [p EXCEPT !.status = "playing", !.team = t, !.spectator = FALSE]
      watching == [p EXCEPT !.status = "playing", !.spectator = TRUE]
      begun == Respawned(IF t = NoTeam THEN watching ELSE joined)
  IN IF intermission THEN ToIntermission(begun) ELSE begun

\* G_ClientBegin.  G_AddClientToTeam tosses what a client that did not watch still has.
ClientBegin(c) ==
  LET p == players[c]
  IN /\ Reading /\ p.status \in {"connecting", "returning"}
     /\ IF AutoJoin
        THEN \E t \in Teams : /\ SetPlayer(c, Begun(p, t))
                              /\ IF p.team = t \/ p.spectator
                                 THEN /\ carries' = [carries EXCEPT ![c] = {}]
                                      /\ UNCHANGED <<base, dropped, captures>>
                                 ELSE TossAndClear(c, p.team)
        ELSE /\ SetPlayer(c, Begun(p, NoTeam))
             /\ carries' = [carries EXCEPT ![c] = {}]
             /\ UNCHANGED <<base, dropped, captures>>
     /\ UNCHANGED <<vote, mapVars, levelVars>>

\* G_ClientDisconnect: of a human that left, timed out or was kicked, or of a bot.
ClientDisconnect(c) ==
  /\ Reading /\ InUse(c)
  /\ SetPlayer(c, Gone)
  /\ IF HasEntity(c) THEN TossAndClear(c, players[c].team)
     ELSE carries' = [carries EXCEPT ![c] = {}] /\ UNCHANGED <<base, dropped, captures>>
  /\ vote' = ClearBallot(c)
  /\ mapBallots' = ClearMapBallot(c)
  /\ UNCHANGED <<offering, nextMap, levelVars>>

\* G_Ai_Connect, from G_Ai_Frame.
BotConnect(c) ==
  /\ step # "execute" /\ ~intermission
  /\ c \in Bots /\ ~InUse(c)
  /\ \E t \in Teams : SetPlayer(c, Begun(Gone, t))
  /\ UNCHANGED <<flagVars, vote, mapVars, levelVars, step>>

-------------------------------------------------------------------------------
\* Clients play: in ClientThink, in commands, or in a frame of the game.

InPlay == step # "execute" /\ ~intermission /\ UNCHANGED <<vote, mapVars, levelVars, step>>

\* G_TouchItem: the dead pick up nothing, nor does who has no team; a client moves, and
\* so touches things, with the commands it sends.
Touch(c) ==
  /\ InPlay /\ players[c].status = "playing" /\ Alive(c) /\ players[c].team # NoTeam
  /\ PickupFlag(c, players[c].team)
  /\ UNCHANGED players

\* G_ClientDie, by whatever kills: G_Kill_f, damage, G_KillBox.
Die(c) ==
  /\ InPlay /\ Alive(c)
  /\ SetPlayer(c, [players[c] EXCEPT !.dead = TRUE])
  /\ TossFlag(c, players[c].team)

\* G_ClientBeginFrame.
Respawn(c) ==
  /\ InPlay /\ HasEntity(c) /\ players[c].dead /\ ~players[c].spectator
  /\ SetPlayer(c, Respawned(players[c]))
  /\ carries' = [carries EXCEPT ![c] = {}]
  /\ UNCHANGED <<base, dropped, captures>>

\* G_Drop_f.
DropFlag(c) ==
  /\ InPlay /\ players[c].status = "playing" /\ Alive(c)
  /\ GetFlag(c, players[c].team) # {}
  /\ TossFlag(c, players[c].team)
  /\ UNCHANGED players

\* G_Team_f.
Team(c, t) ==
  LET p == players[c]
  IN /\ InPlay /\ step = "read" /\ p.status = "playing" /\ p.team # t
     /\ SetPlayer(c, Respawned([p EXCEPT !.team = t, !.spectator = FALSE]))
     /\ IF p.spectator THEN /\ carries' = [carries EXCEPT ![c] = {}]
                            /\ UNCHANGED <<base, dropped, captures>>
        ELSE TossAndClear(c, p.team)

\* What makes a client a spectator.
ToSpectator(c) ==
  /\ SetPlayer(c, Respawned([players[c] EXCEPT !.spectator = TRUE]))
  /\ TossAndClear(c, players[c].team)

\* G_Spectate_f, "spectate".  ("join" leaves a spectator what it is: g_autoJoin adds it to
\* a team, and the toggle at the end takes that back; without g_autoJoin it asks for team.)
Spectate(c) ==
  /\ InPlay /\ step = "read"
  /\ players[c].status = "playing" /\ ~players[c].spectator
  /\ ToSpectator(c)

\* G_ResetDroppedItem_Ctf.
FlagTimeout(t) ==
  /\ step # "execute"
  /\ ResetDroppedFlag(t)
  /\ UNCHANGED <<players, vote, mapVars, levelVars, step>>

-------------------------------------------------------------------------------
\* Votes.

\* Whom a vote can make a spectator.
NotWatching == {c \in Eligible : ~players[c].spectator}

\* G_ApplyVote_Common: what the vote v does once it has passed.
ApplyVote(v) ==
  \/ v.type = "map" /\ levelChange' = TRUE /\ UNCHANGED <<players, flagVars>>
  \/ /\ v.type = "spectate" /\ v.target \in NotWatching
     /\ ToSpectator(v.target)
     /\ UNCHANGED levelChange
  \/ /\ v.type = "spectate" /\ v.target \notin NotWatching
     /\ UNCHANGED <<players, flagVars, levelChange>>

\* G_Vote_Check of the vote v.
CheckVote(v, late) ==
  IF intermission
  THEN vote' = NoVote /\ UNCHANGED <<players, flagVars, levelChange>>
  ELSE \/ /\ Verdict(v, Eligible, late) = "open"
          /\ vote' = v
          /\ UNCHANGED <<players, flagVars, levelChange>>
       \/ /\ Verdict(v, Eligible, late) = "failed"
          /\ vote' = NoVote
          /\ UNCHANGED <<players, flagVars, levelChange>>
       \/ /\ Verdict(v, Eligible, late) = "passed"
          /\ vote' = NoVote
          /\ ApplyVote(v)

Voter(c) == c \notin Bots /\ players[c].status = "playing"

\* G_HandleClientCommand_Vote.  Time does not pass between two frames of the game.
CallVote(c, type, target) ==
  /\ Reading /\ Voter(c) /\ vote = NoVote /\ ~intermission
  /\ target \in IF type = "spectate" THEN Eligible ELSE {Nobody}
  /\ CheckVote(Called(c, type, target), FALSE)
  /\ UNCHANGED <<mapVars, intermission, posts>>

CastVote(c, ballot) ==
  /\ Reading /\ Voter(c) /\ vote # NoVote
  /\ CheckVote(Cast(c, ballot), FALSE)
  /\ UNCHANGED <<mapVars, intermission, posts>>

\* G_HandleClientCommand_Intermission.
VoteMap(c, m) ==
  /\ Reading /\ Voter(c)
  /\ CastMap(c, m)
  /\ UNCHANGED <<players, flagVars, vote, levelVars>>

-------------------------------------------------------------------------------
\* G_RestartGame: everybody respawns, and who has no team is given one.

Restarted(p, t) ==
  Respawned(IF AutoJoin THEN [p EXCEPT !.team = t, !.spectator = FALSE]
            ELSE [p EXCEPT !.team = NoTeam, !.spectator = TRUE])

RestartGame(keepTeams) ==
  LET keeps == {c \in Clients : keepTeams /\ players[c].team # NoTeam}
  IN \E t \in [{c \in Clients : InUse(c)} \ keeps -> Teams] :
       players' = [c \in Clients |-> IF c \in DOMAIN t THEN Restarted(players[c], t[c])
                                     ELSE Respawned(players[c])]
  /\ carries' = [c \in Clients |-> IF HasEntity(c) THEN {} ELSE carries[c]]
  /\ FlagsReset
  /\ vote' = NoVote

\* G_Restart_f, at the server's console: also in an intermission, which offers again.
ConsoleRestart ==
  /\ Reading
  /\ RestartGame(TRUE)
  /\ CloseOffer
  /\ UNCHANGED <<nextMap, levelVars>>

-------------------------------------------------------------------------------
\* G_Frame, with the hooks of G_FrameDidEnd.

\* Sv_Frame runs another frame of the game, or Main_Frame goes on.
FrameEnds ==
  /\ step \in {"read", "ticks"}
  /\ step' \in (IF Backlog THEN {"ticks"} ELSE {})
                 \cup {IF levelChange' THEN "execute" ELSE "read"}

\* G_BeginIntermission.
BeginIntermission ==
  /\ intermission' = TRUE
  /\ posts' = posts + 1
  /\ players' = [c \in Clients |-> ToIntermission(Respawned(players[c]))]
  /\ carries' = [c \in Clients |-> IF HasEntity(c) THEN {} ELSE carries[c]]
  /\ UNCHANGED <<base, dropped, captures>>

\* G_CheckRules, with a winner or at the time limit.
FrameEndsLevel ==
  /\ ~intermission /\ posts < 2
  /\ BeginIntermission
  /\ vote' = NoVote
  /\ ContinueOffer
  /\ UNCHANGED levelChange
  /\ FrameEnds

\* G_CheckRules, after a change of g_gameplay or g_numTeams; at the time limit the level
\* has ended all the same.
FrameRestarts ==
  /\ ~intermission /\ ~CheckWinner
  /\ RestartGame(FALSE)
  /\ \/ UNCHANGED <<intermission, posts>> /\ CloseOffer /\ UNCHANGED nextMap
     \/ /\ posts < 2
        /\ intermission' = TRUE /\ posts' = posts + 1
        /\ BeginOffer
  /\ UNCHANGED <<levelChange>>
  /\ FrameEnds

\* G_CheckRules finds nothing to do.
FramePlays ==
  /\ ~intermission /\ ~CheckWinner /\ ~offering
  /\ IF vote = NoVote THEN UNCHANGED <<players, flagVars, vote, levelChange>>
     ELSE \E late \in BOOLEAN : CheckVote(vote, late)
  /\ UNCHANGED <<mapVars, intermission, posts>>
  /\ FrameEnds

\* The intermission goes on.
FrameOfIntermission ==
  /\ intermission
  /\ vote' = NoVote
  /\ ContinueOffer
  /\ UNCHANGED <<players, flagVars, levelVars>>
  /\ FrameEnds

\* Mutant: G_Frame goes on to the rules, and finds the winner again.
FrameEndsIntermissionTwice ==
  /\ intermission /\ CheckWinner /\ posts < 2
  /\ BeginIntermission
  /\ levelChange' = TRUE
  /\ EndOffer(Eligible)
  /\ UNCHANGED vote
  /\ FrameEnds

\* The intermission is over: G_Frame returns before it looks at the rules.
FrameEndsIntermission ==
  /\ intermission
  /\ intermission' = FALSE
  /\ levelChange' = TRUE
  /\ EndOffer(Eligible)
  /\ UNCHANGED <<players, flagVars, vote, posts>>
  /\ FrameEnds

Frame ==
  \/ FrameEndsLevel \/ FrameRestarts \/ FramePlays
  \/ FrameOfIntermission \/ FrameEndsIntermission

\* Cbuf_Execute: Sv_InitServer and G_SpawnEntities.  Humans keep what they had in their
\* inventory until they begin, bots go, and the override of the next map is used up.
NewLevel ==
  /\ step = "execute"
  /\ CarriersAtChange \/ \A c \in Clients \ Bots : carries[c] = {}
  /\ players' = [c \in Clients |-> IF c \in Bots \/ ~InUse(c) THEN Gone
                                   ELSE [players[c] EXCEPT !.status = "connecting", !.team = NoTeam]]
  /\ carries' = [c \in Clients |-> IF c \in Bots THEN {} ELSE carries[c]]
  /\ FlagsReset
  /\ vote' = NoVote
  /\ CloseOffer /\ nextMap' = 0
  /\ intermission' = FALSE /\ posts' = 0 /\ levelChange' = FALSE
  /\ step' = "read"

-------------------------------------------------------------------------------

Next ==
  \/ \E c \in Clients :
       \/ ClientConnect(c) \/ ClientBegin(c) \/ ClientDisconnect(c) \/ BotConnect(c)
       \/ Touch(c) \/ Die(c) \/ Respawn(c) \/ DropFlag(c) \/ Spectate(c)
       \/ \E t \in Teams : Team(c, t)
       \/ \E type \in VoteType : \E target \in Clients \cup {Nobody} :
            CallVote(c, type, target)
       \/ \E ballot \in {"yes", "no"} : CastVote(c, ballot)
       \/ \E m \in Map : VoteMap(c, m)
  \/ \E t \in Teams : FlagTimeout(t)
  \/ ConsoleRestart \/ Frame \/ NewLevel

Spec == Init /\ [][Next]_vars

-------------------------------------------------------------------------------

\* While a level is played each flag is in one place: at its base, with one client, or
\* dropped; and no flag is ever in two (g_ctf.c, with all that kills, moves or clears clients).
OneFlagEach ==
  \A t \in Teams :
    IF intermission \/ posts > 0 THEN Places(t) <= 1 ELSE Places(t) = 1

\* Who is in the game and carries a flag is alive and plays for another team.  A client
\* that connects again has no team until it begins.
CarrierPlays ==
  \A c \in Clients : HasEntity(c) /\ carries[c] # {} =>
    /\ ~players[c].dead /\ ~players[c].spectator
    /\ players[c].team \notin carries[c]
    /\ players[c].team # NoTeam \/ players[c].status = "returning"

\* Only those who are in the game decide a vote or the next map, and no vote is open once
\* the level has ended (G_ClientWillDisconnect_Vote, G_Vote_Check).
VotesOfPresent ==
  /\ \A c \in Clients \ Eligible : vote.ballots[c] = "none" /\ mapBallots[c] = 0
  /\ intermission => vote = NoVote

\* The results of a level are posted once (G_BeginIntermission), and its intermission
\* offers maps only while it lasts.
LevelEndsOnce == posts <= 1 /\ (offering => intermission)

=============================================================================
