----------------------------- MODULE Game_proofs -----------------------------
(***************************************************************************)
(* Proofs about a level of capture the flag, for any clients, bots, teams,  *)
(* limits and thresholds: no flag is ever in two places and none is lost    *)
(* while a level is played, who carries one is alive and plays for another  *)
(* team, only those who are in the game decide, and a level ends once.      *)
(*                                                                         *)
(* A flag leaves a client in one way (G_TossInventory, which tosses one     *)
(* flag), but what clears a client's inventory is written in many places.   *)
(* Flags are kept because nobody ever carries two, nor their own, and       *)
(* because who has no entity, is dead or watches carries nothing: that is   *)
(* CarrierInv, which no property states in full.                            *)
(*                                                                         *)
(* Inv holds whatever the constants are.  That flags are not doubled rests  *)
(* on no change of level under a carrier, that none is lost also on         *)
(* g_autoJoin, and that a level ends once on one frame of the game at a     *)
(* time: what happens otherwise is in the README.                           *)
(***************************************************************************)
EXTENDS Game, FiniteSetTheorems, WellFoundedInduction, TLAPS

\* What a client p with the flags S in its inventory is like.
CarrierOK(p, S) ==
  /\ \A t, u \in S : t = u
  /\ p.status = "gone" => S = {}
  /\ p.status \in {"returning", "playing"} /\ S # {} =>
       /\ ~ p.dead /\ ~ p.spectator
       /\ p.team \notin S
       /\ p.team = NoTeam <=> p.status = "returning"
  /\ p.status \in {"returning", "playing"} /\ p.spectator => p.team = NoTeam

\* What is true of every client and what it carries.
CarrierInv == \A c \in Clients : CarrierOK(players[c], carries[c])

\* Clients and flags.
PlayInv == players \in [Clients -> Player] /\ FlagTypeOK /\ CarrierInv

\* The course of a level.
LevelInv ==
  /\ intermission \in BOOLEAN /\ levelChange \in BOOLEAN
  /\ step \in {"read", "ticks", "execute"}
  /\ posts \in 0 .. 2
  /\ intermission => posts > 0
  /\ offering => intermission

\* The inductive invariant, whatever the constants are.
Inv == PlayInv /\ VoteTypeOK /\ MapTypeOK /\ VotesOfPresent /\ LevelInv

\* Nobody has a flag from before the level.
NothingKept == \A c \in Clients : players[c].status = "connecting" => carries[c] = {}

\* No flag is in two places.
FlagsOnce ==
  \A t \in Teams :
    /\ dropped[t] \in {0, 1}
    /\ t \in base => dropped[t] = 0
    /\ \A c \in Clients : t \in carries[c] =>
         /\ t \notin base /\ dropped[t] = 0
         /\ \A d \in Clients : t \in carries[d] => d = c

\* Every flag is somewhere.
FlagsPresent ==
  \A t \in Teams : t \in base \/ dropped[t] > 0 \/ \E c \in Clients : t \in carries[c]

\* Every flag is somewhere until the level has ended.
FlagsInPlay == intermission \/ posts > 0 \/ FlagsPresent

\* A level that has ended waits for the next one.
EndsOnce ==
  /\ step \in {"read", "execute"}
  /\ posts \in {0, 1}
  /\ posts = 1 => intermission \/ step = "execute"

\* What a step keeps of the clients and flags.
FlagsKept ==
  /\ NothingKept => NothingKept'
  /\ FlagsOnce => FlagsOnce'
  /\ AutoJoin /\ NothingKept /\ FlagsPresent => FlagsPresent'

\* A step after which nobody is gone.
PlayKept ==
  /\ PlayInv' /\ FlagsKept
  /\ \A c \in Clients : players[c].status # "gone" => players'[c].status # "gone"

\* What every step keeps.
Kept ==
  /\ Inv'
  /\ ~ CarriersAtChange /\ NothingKept /\ FlagsOnce => NothingKept' /\ FlagsOnce'
  /\ AutoJoin /\ NothingKept /\ FlagsInPlay => FlagsInPlay'

-------------------------------------------------------------------------------
\* What the game makes of a client.

\* A client stays where it was in the game, and has no team when it watches.
LEMMA RespawnedFacts ==
  ASSUME NEW p \in Player
  PROVE  /\ Respawned(p) \in Player
         /\ Respawned(p).status = p.status /\ Respawned(p).spectator = p.spectator
         /\ CarrierOK(Respawned(p), {})
         /\ p.status \in {"gone", "connecting"} => Respawned(p) = p
<1>1. CASE p.status \in {"gone", "connecting"}
  <2>1. Respawned(p) = p
    BY <1>1 DEF Respawned
  <2> QED
    BY <1>1, <2>1 DEF CarrierOK
<1>2. CASE p.status \notin {"gone", "connecting"} /\ p.spectator
  <2>1. Respawned(p) = [p EXCEPT !.dead = TRUE, !.team = NoTeam]
    BY <1>2 DEF Respawned
  <2> QED
    BY <1>2, <2>1 DEF CarrierOK, Player
<1>3. CASE p.status \notin {"gone", "connecting"} /\ ~ p.spectator
  <2>1. Respawned(p) = [p EXCEPT !.dead = FALSE]
    BY <1>3 DEF Respawned
  <2> QED
    BY <1>3, <2>1 DEF CarrierOK, Player
<1> QED
  BY <1>1, <1>2, <1>3

\* Who is sent to the intermission carries nothing.
LEMMA ToIntermissionFacts ==
  ASSUME NEW p \in Player, CarrierOK(p, {})
  PROVE  /\ ToIntermission(p) \in Player /\ ToIntermission(p).status = p.status
         /\ CarrierOK(ToIntermission(p), {})
<1>1. CASE ToIntermission(p) = p
  BY <1>1
<1>2. CASE ToIntermission(p) = [p EXCEPT !.dead = TRUE]
  BY <1>2 DEF CarrierOK, Player
<1> QED
  BY <1>1, <1>2 DEF ToIntermission

\* Nobody is in a free slot.
LEMMA GoneFacts == Gone \in Player /\ CarrierOK(Gone, {}) /\ Gone.status = "gone"
  BY DEF Gone, Player, Status, CarrierOK

\* Who begins plays, and carries nothing.
LEMMA BegunFacts ==
  ASSUME NEW p \in Player, NEW t \in Teams \cup {NoTeam}
  PROVE  /\ Begun(p, t) \in Player /\ Begun(p, t).status = "playing"
         /\ CarrierOK(Begun(p, t), {})
<1> DEFINE joined == IF t = NoTeam THEN [p EXCEPT !.status = "playing", !.spectator = TRUE]
                     ELSE [p EXCEPT !.status = "playing", !.team = t, !.spectator = FALSE]
<1>1. joined \in Player /\ joined.status = "playing"
  BY DEF Player, Status
<1>2. Begun(p, t) = IF intermission THEN ToIntermission(Respawned(joined)) ELSE Respawned(joined)
  BY DEF Begun
<1> HIDE DEF joined
<1> QED
  BY <1>1, <1>2, RespawnedFacts, ToIntermissionFacts

\* A restart leaves everybody in the game, with nothing.
LEMMA RestartedFacts ==
  ASSUME NEW p \in Player, NEW t \in Teams
  PROVE  /\ Restarted(p, t) \in Player /\ Restarted(p, t).status = p.status
         /\ CarrierOK(Restarted(p, t), {})
<1> DEFINE q == IF AutoJoin THEN [p EXCEPT !.team = t, !.spectator = FALSE]
                ELSE [p EXCEPT !.team = NoTeam, !.spectator = TRUE]
<1>1. q \in Player /\ q.status = p.status
  BY DEF Player
<1>2. Restarted(p, t) = Respawned(q)
  BY DEF Restarted
<1> HIDE DEF q
<1> QED
  BY <1>1, <1>2, RespawnedFacts

-------------------------------------------------------------------------------
\* What is done to flags.

\* Another client does not change.
LEMMA SetPlayerFacts ==
  ASSUME NEW c \in Clients, NEW p \in Player, players \in [Clients -> Player],
         SetPlayer(c, p)
  PROVE  /\ players' \in [Clients -> Player] /\ players'[c] = p
         /\ \A d \in Clients : d # c => players'[d] = players[d]
  BY DEF SetPlayer

\* A client that is cleared loses at most one flag, which is tossed unless it is its own.
LEMMA Tossed ==
  ASSUME PlayInv, NEW c \in Clients, NEW team \in Teams \cup {NoTeam},
         TossAndClear(c, team) \/ (TossFlag(c, team) /\ team \notin carries[c])
  PROVE  /\ FlagTypeOK' /\ (FlagsOnce => FlagsOnce')
         /\ team \notin carries[c] /\ FlagsPresent => FlagsPresent'
         /\ carries'[c] = {} /\ \A d \in Clients : d # c => carries'[d] = carries[d]
<1>1. /\ carries \in [Clients -> SUBSET Teams] /\ dropped \in [Teams -> Nat] /\ base \subseteq Teams
      /\ \A t, u \in carries[c] : t = u
  BY DEF PlayInv, FlagTypeOK, CarrierInv, CarrierOK
<1>2. GetFlag(c, team) = carries[c] \/ (GetFlag(c, team) = {} /\ TossAndClear(c, team))
  BY <1>1 DEF GetFlag
<1>3. UNCHANGED captures
  BY DEF TossAndClear, TossFlag
<1>4. /\ carries' \in [Clients -> SUBSET Teams]
      /\ carries'[c] = {} /\ \A d \in Clients : d # c => carries'[d] = carries[d]
  <2>1. CASE TossAndClear(c, team)
    BY <1>1, <2>1 DEF TossAndClear
  <2>2. CASE TossFlag(c, team) /\ team \notin carries[c]
    <3>0. GetFlag(c, team) = carries[c]
      BY <2>2 DEF GetFlag
    <3>1. CASE carries[c] = {}
      BY <1>1, <3>0, <2>2, <3>1 DEF TossFlag
    <3>2. CASE carries[c] # {}
      BY <1>1, <3>0, <2>2, <3>2 DEF TossFlag
    <3> QED
      BY <3>1, <3>2
  <2> QED
    BY <2>1, <2>2
<1>a. CASE GetFlag(c, team) = {}
  <2>1. UNCHANGED <<base, dropped>>
    BY <1>a DEF TossAndClear, TossFlag
  <2>2. FlagTypeOK' /\ (FlagsOnce => FlagsOnce')
    BY <1>3, <1>4, <2>1 DEF PlayInv, FlagTypeOK, FlagsOnce
  <2>3. team \notin carries[c] => carries[c] = {}
    BY <1>a DEF GetFlag
  <2>4. team \notin carries[c] /\ FlagsPresent => FlagsPresent'
    BY <1>4, <2>1, <2>3 DEF FlagsPresent
  <2> QED
    BY <1>4, <2>2, <2>4
<1>b. CASE GetFlag(c, team) # {}
  <2>1. PICK t \in carries[c] : DropItem(t)
    BY <1>b, <1>2 DEF TossAndClear, TossFlag
  <2>2. t \in Teams /\ carries[c] = {t}
    BY <1>1, <2>1
  <2>3. /\ base' \subseteq Teams /\ dropped' \in [Teams -> Nat]
        /\ \A u \in Teams : u # t => (u \in base' <=> u \in base) /\ dropped'[u] = dropped[u]
        /\ \/ t \in base' /\ dropped'[t] = dropped[t]
           \/ (t \in base' <=> t \in base) /\ dropped'[t] = dropped[t] + 1
    BY <1>1, <2>1, <2>2 DEF DropItem
  <2>4. FlagTypeOK'
    BY <1>3, <1>4, <2>3 DEF PlayInv, FlagTypeOK
  <2>5. FlagsOnce => FlagsOnce'
    <3> SUFFICES ASSUME FlagsOnce PROVE FlagsOnce'
      OBVIOUS
    <3>1. t \notin base /\ dropped[t] = 0 /\ \A d \in Clients : d # c => t \notin carries[d]
      BY <2>2 DEF FlagsOnce
    <3>2. \/ t \in base' /\ dropped'[t] = 0
          \/ t \notin base' /\ dropped'[t] = 1
      BY <2>3, <3>1
    <3> QED
      BY <1>4, <2>2, <2>3, <3>1, <3>2 DEF FlagsOnce
  <2>6. FlagsPresent => FlagsPresent'
    BY <1>1, <1>4, <2>2, <2>3 DEF FlagsPresent
  <2> QED
    BY <1>4, <2>4, <2>5, <2>6
<1> QED
  BY <1>a, <1>b

\* A client is cleared: a flag that it had is lost.
LEMMA Cleared ==
  ASSUME PlayInv, NEW c \in Clients,
         carries' = [carries EXCEPT ![c] = {}], UNCHANGED <<base, dropped, captures>>
  PROVE  /\ FlagTypeOK' /\ (FlagsOnce => FlagsOnce')
         /\ carries[c] = {} /\ FlagsPresent => FlagsPresent'
         /\ carries'[c] = {} /\ \A d \in Clients : d # c => carries'[d] = carries[d]
<1>1. /\ carries' \in [Clients -> SUBSET Teams]
      /\ carries'[c] = {} /\ \A d \in Clients : d # c => carries'[d] = carries[d]
  BY DEF PlayInv, FlagTypeOK
<1> QED
  BY <1>1 DEF PlayInv, FlagTypeOK, FlagsOnce, FlagsPresent

\* One client changes, and has no flag any more.
LEMMA OneChanges ==
  ASSUME PlayInv, NEW c \in Clients, NEW p \in Player, SetPlayer(c, p),
         CarrierOK(p, {}), FlagTypeOK', FlagsOnce => FlagsOnce',
         AutoJoin /\ NothingKept /\ FlagsPresent => FlagsPresent',
         carries'[c] = {}, \A d \in Clients : d # c => carries'[d] = carries[d]
  PROVE  /\ PlayInv' /\ FlagsKept
         /\ p.status # "gone" => PlayKept
<1>1. /\ players' \in [Clients -> Player] /\ players'[c] = p
      /\ \A d \in Clients : d # c => players'[d] = players[d]
  BY SetPlayerFacts DEF PlayInv
<1>2. CarrierInv' /\ (NothingKept => NothingKept')
  BY <1>1 DEF PlayInv, CarrierInv, NothingKept
<1> QED
  BY <1>1, <1>2 DEF PlayKept, FlagsKept, PlayInv

-------------------------------------------------------------------------------
\* Steps of clients.

\* What makes a client a spectator takes its flag from it.
LEMMA ToSpectatorKept ==
  ASSUME PlayInv, NEW c \in Clients, players[c].status # "gone", ToSpectator(c)
  PROVE  PlayKept
<1> DEFINE q == [players[c] EXCEPT !.spectator = TRUE]
<1>1. players[c] \in Player /\ players[c].team \in Teams \cup {NoTeam}
      /\ CarrierOK(players[c], carries[c])
  BY DEF PlayInv, Player, CarrierInv
<1>2. q \in Player /\ q.status = players[c].status
  BY <1>1 DEF Player
<1>3. SetPlayer(c, Respawned(q)) /\ TossAndClear(c, players[c].team)
  BY DEF ToSpectator
<1> HIDE DEF q
<1>4. NothingKept => players[c].team \notin carries[c]
  BY <1>1 DEF CarrierOK, NothingKept, Player, Status
<1> QED
  BY <1>1, <1>2, <1>3, <1>4, RespawnedFacts, Tossed, OneChanges

\* Who connects still has what the last client of the slot had, and begins without it.
LEMMA ClientConnectKept ==
  ASSUME PlayInv, NEW c \in Clients, ClientConnect(c)
  PROVE  PlayKept
<1> DEFINE p == players[c]
           q == [p EXCEPT !.status = IF HasEntity(c) THEN "returning" ELSE "connecting",
                          !.team = NoTeam, !.spectator = FALSE]
<1>1. p \in Player /\ CarrierOK(p, carries[c]) /\ carries[c] \subseteq Teams
  BY DEF PlayInv, CarrierInv, FlagTypeOK
<1>2. /\ q \in Player /\ q.dead = p.dead /\ q.team = NoTeam /\ ~ q.spectator
      /\ q.status = IF HasEntity(c) THEN "returning" ELSE "connecting"
  BY <1>1 DEF Player, Status
<1>3. CarrierOK(q, carries[c])
  BY <1>1, <1>2, ClientsAssumption DEF CarrierOK, HasEntity, Player, Status
<1>4. SetPlayer(c, q) /\ UNCHANGED <<base, carries, dropped, captures>>
  BY DEF ClientConnect, flagVars
<1> HIDE DEF q
<1>5. /\ players' \in [Clients -> Player] /\ players'[c] = q
      /\ \A d \in Clients : d # c => players'[d] = players[d]
  BY <1>2, <1>4, SetPlayerFacts DEF PlayInv
<1>6. CarrierInv'
  BY <1>3, <1>4, <1>5 DEF PlayInv, CarrierInv
<1>7. NothingKept => NothingKept'
  <2>1. NothingKept /\ ~ HasEntity(c) => carries[c] = {}
    BY <1>1 DEF CarrierOK, HasEntity, NothingKept, Player, Status
  <2> QED
    BY <1>2, <1>4, <1>5, <2>1 DEF NothingKept
<1>8. FlagTypeOK' /\ (FlagsOnce => FlagsOnce') /\ (FlagsPresent => FlagsPresent')
  BY <1>4 DEF PlayInv, FlagTypeOK, FlagsOnce, FlagsPresent
<1> QED
  BY <1>2, <1>5, <1>6, <1>7, <1>8 DEF PlayKept, FlagsKept, PlayInv

\* G_ClientBegin clears the inventory.
LEMMA ClientBeginKept ==
  ASSUME PlayInv, NEW c \in Clients, ClientBegin(c)
  PROVE  PlayKept
<1> DEFINE p == players[c]
<1>1. p \in Player /\ p.team \in Teams \cup {NoTeam} /\ CarrierOK(p, carries[c])
  BY DEF PlayInv, Player, CarrierInv
<1>2. p.status \in {"connecting", "returning"}
  BY DEF ClientBegin
<1>3. NothingKept => p.team \notin carries[c] /\ (p.team \in Teams \/ p.spectator => carries[c] = {})
  BY <1>1, <1>2, ClientsAssumption DEF NothingKept, CarrierOK
<1>a. CASE AutoJoin
  <2>1. PICK t \in Teams :
          /\ SetPlayer(c, Begun(p, t))
          /\ IF p.team = t \/ p.spectator
             THEN /\ carries' = [carries EXCEPT ![c] = {}]
                  /\ UNCHANGED <<base, dropped, captures>>
             ELSE TossAndClear(c, p.team)
    BY <1>a DEF ClientBegin
  <2>2. /\ FlagTypeOK' /\ (FlagsOnce => FlagsOnce')
        /\ NothingKept /\ FlagsPresent => FlagsPresent'
        /\ carries'[c] = {} /\ \A d \in Clients : d # c => carries'[d] = carries[d]
    <3>1. CASE p.team = t \/ p.spectator
      BY <1>3, <2>1, <3>1, Cleared
    <3>2. CASE ~ (p.team = t \/ p.spectator)
      BY <1>1, <1>3, <2>1, <3>2, Tossed
    <3> QED
      BY <3>1, <3>2
  <2> QED
    BY <1>1, <2>1, <2>2, BegunFacts, OneChanges
<1>b. CASE ~ AutoJoin
  <2>1. SetPlayer(c, Begun(p, NoTeam))
    BY <1>b DEF ClientBegin
  <2>2. /\ FlagTypeOK' /\ (FlagsOnce => FlagsOnce')
        /\ carries'[c] = {} /\ \A d \in Clients : d # c => carries'[d] = carries[d]
    BY <1>b, Cleared DEF ClientBegin
  <2> QED
    BY <1>1, <1>b, <2>1, <2>2, BegunFacts, OneChanges
<1> QED
  BY <1>a, <1>b

\* The only client of which nothing is left.
LEMMA ClientDisconnectKept ==
  ASSUME PlayInv, NEW c \in Clients, ClientDisconnect(c)
  PROVE  /\ PlayInv' /\ FlagsKept
         /\ \A d \in Clients : d # c => players'[d] = players[d]
<1>1. /\ players[c] \in Player /\ players[c].team \in Teams \cup {NoTeam}
      /\ CarrierOK(players[c], carries[c]) /\ players[c].status # "gone"
  BY DEF PlayInv, Player, CarrierInv, ClientDisconnect, InUse
<1>2. /\ HasEntity(c) => players[c].team \notin carries[c]
      /\ NothingKept /\ ~ HasEntity(c) => carries[c] = {}
  BY <1>1 DEF CarrierOK, HasEntity, NothingKept, Player, Status
<1>3. /\ FlagTypeOK' /\ (FlagsOnce => FlagsOnce')
      /\ NothingKept /\ FlagsPresent => FlagsPresent'
      /\ carries'[c] = {} /\ \A d \in Clients : d # c => carries'[d] = carries[d]
  <2>1. CASE HasEntity(c)
    BY <1>1, <1>2, <2>1, Tossed DEF ClientDisconnect
  <2>2. CASE ~ HasEntity(c)
    BY <1>2, <2>2, Cleared DEF ClientDisconnect
  <2> QED
    BY <2>1, <2>2
<1>4. SetPlayer(c, Gone)
  BY DEF ClientDisconnect
<1>5. PlayInv' /\ FlagsKept
  BY <1>3, <1>4, GoneFacts, OneChanges
<1>6. \A d \in Clients : d # c => players'[d] = players[d]
  BY <1>4, GoneFacts, SetPlayerFacts DEF PlayInv
<1> QED
  BY <1>5, <1>6

\* A bot takes a slot only when it is free.
LEMMA BotConnectKept ==
  ASSUME PlayInv, NEW c \in Clients, BotConnect(c)
  PROVE  PlayKept
<1>1. CarrierOK(players[c], carries[c]) /\ players[c].status = "gone"
  BY DEF PlayInv, CarrierInv, BotConnect, InUse
<1>2. carries[c] = {}
  BY <1>1 DEF CarrierOK
<1>3. PICK t \in Teams : SetPlayer(c, Begun(Gone, t))
  BY DEF BotConnect
<1>4. UNCHANGED <<base, carries, dropped, captures>>
  BY DEF BotConnect, flagVars
<1>5. FlagTypeOK' /\ (FlagsOnce => FlagsOnce') /\ (FlagsPresent => FlagsPresent')
  BY <1>4 DEF PlayInv, FlagTypeOK, FlagsOnce, FlagsPresent
<1>6. /\ Begun(Gone, t) \in Player /\ Begun(Gone, t).status = "playing"
      /\ CarrierOK(Begun(Gone, t), {})
  BY BegunFacts, GoneFacts
<1> QED
  BY <1>2, <1>3, <1>4, <1>5, <1>6, OneChanges

\* Who dies tosses the one flag it has.
LEMMA DieKept ==
  ASSUME PlayInv, NEW c \in Clients, Die(c)
  PROVE  PlayKept
<1> DEFINE q == [players[c] EXCEPT !.dead = TRUE]
<1>1. /\ players[c] \in Player /\ players[c].team \in Teams \cup {NoTeam}
      /\ CarrierOK(players[c], carries[c])
  BY DEF PlayInv, Player, CarrierInv
<1>2. players[c].team \notin carries[c]
  BY <1>1 DEF CarrierOK, Die, Alive, HasEntity
<1>3. SetPlayer(c, q) /\ TossFlag(c, players[c].team) /\ players[c].status \in {"returning", "playing"}
  BY DEF Die, Alive, HasEntity
<1>4. q \in Player /\ q.status # "gone" /\ CarrierOK(q, {})
  BY <1>1, <1>3 DEF Player, CarrierOK
<1> HIDE DEF q
<1> QED
  BY <1>1, <1>2, <1>3, <1>4, Tossed, OneChanges

\* Who respawns carried nothing.
LEMMA RespawnKept ==
  ASSUME PlayInv, NEW c \in Clients, Respawn(c)
  PROVE  PlayKept
<1>1. players[c] \in Player /\ CarrierOK(players[c], carries[c])
  BY DEF PlayInv, CarrierInv
<1>2. carries[c] = {} /\ players[c].status # "gone"
  BY <1>1 DEF CarrierOK, Respawn, HasEntity
<1>3. SetPlayer(c, Respawned(players[c]))
  BY DEF Respawn
<1>4. FlagTypeOK' /\ (FlagsOnce => FlagsOnce') /\ (FlagsPresent => FlagsPresent') /\ carries' = carries
  <2>1. carries' = [carries EXCEPT ![c] = {}] /\ UNCHANGED <<base, dropped, captures>>
    BY DEF Respawn
  <2>2. carries' = carries
    BY <1>2, <2>1 DEF PlayInv, FlagTypeOK
  <2> QED
    BY <1>2, <2>1, <2>2, Cleared
<1> QED
  BY <1>1, <1>2, <1>3, <1>4, RespawnedFacts, OneChanges

\* Who changes its team tosses the flag first, so it never has its own.
LEMMA TeamKept ==
  ASSUME PlayInv, NEW c \in Clients, NEW t \in Teams, Team(c, t)
  PROVE  PlayKept
<1> DEFINE q == [players[c] EXCEPT !.team = t, !.spectator = FALSE]
<1>1. /\ players[c] \in Player /\ players[c].team \in Teams \cup {NoTeam}
      /\ CarrierOK(players[c], carries[c])
  BY DEF PlayInv, Player, CarrierInv
<1>2. players[c].team \notin carries[c] /\ (players[c].spectator => carries[c] = {})
  BY <1>1 DEF CarrierOK, Team
<1>3. SetPlayer(c, Respawned(q)) /\ players[c].status = "playing"
  BY DEF Team
<1>4. q \in Player /\ q.status = "playing"
  BY <1>1, <1>3 DEF Player
<1>5. /\ FlagTypeOK' /\ (FlagsOnce => FlagsOnce') /\ (FlagsPresent => FlagsPresent')
      /\ carries'[c] = {} /\ \A d \in Clients : d # c => carries'[d] = carries[d]
  BY <1>1, <1>2, Tossed, Cleared DEF Team
<1> HIDE DEF q
<1> QED
  BY <1>3, <1>4, <1>5, RespawnedFacts, OneChanges

\* Flags change hands, and nothing else changes about the clients.
LEMMA TouchKept ==
  ASSUME PlayInv, NEW c \in Clients, Touch(c)
  PROVE  PlayKept
<1> DEFINE p == players[c]
           team == p.team
<1>1. /\ p \in Player /\ CarrierOK(p, carries[c]) /\ carries[c] \subseteq Teams
      /\ p.status = "playing" /\ ~ p.dead /\ team \in Teams /\ PickupFlag(c, team)
  BY DEF PlayInv, CarrierInv, FlagTypeOK, Touch, Alive, Player
<1>2. UNCHANGED players /\ ~ p.spectator /\ team # NoTeam /\ GetFlag(c, team) = carries[c]
  BY <1>1 DEF Touch, CarrierOK, GetFlag
<1>3. /\ base \subseteq Teams /\ carries \in [Clients -> SUBSET Teams]
      /\ dropped \in [Teams -> Nat]
      /\ captures \in [Teams -> 0 .. CaptureLimit] /\ CaptureLimit \in Nat
  BY FlagAssumption DEF PlayInv, FlagTypeOK
<1>a. CASE ReturnFlag(team)
  <2>1. /\ UNCHANGED <<carries, captures>> /\ dropped[team] > 0
        /\ base' = base \cup {team} /\ dropped'[team] = dropped[team] - 1
        /\ \A t \in Teams : t # team => dropped'[t] = dropped[t]
        /\ dropped' \in [Teams -> Nat]
    BY <1>1, <1>3, <1>a DEF ReturnFlag
  <2>2. (FlagsOnce => FlagsOnce') /\ (FlagsPresent => FlagsPresent')
    BY <1>1, <1>3, <2>1 DEF FlagsOnce, FlagsPresent
  <2>3. NothingKept => NothingKept'
    BY <1>2, <2>1 DEF NothingKept
  <2> QED
    BY <1>1, <1>2, <1>3, <2>1, <2>2, <2>3 DEF PlayKept, FlagsKept, PlayInv, FlagTypeOK, CarrierInv
<1>b. CASE CaptureFlag(c, team)
  <2>1. PICK t \in carries[c] :
          /\ base' = base \cup {t}
          /\ carries' = [carries EXCEPT ![c] = @ \ {t}]
    BY <1>2, <1>b DEF CaptureFlag
  <2>2. /\ carries[c] = {t} /\ t \in Teams /\ UNCHANGED dropped
        /\ FlagsOnce => dropped[t] = 0 /\ \A d \in Clients : d # c => t \notin carries[d]
    BY <1>1, <1>b, <2>1 DEF CaptureFlag, CarrierOK, FlagsOnce
  <2>3. /\ carries'[c] = {} /\ \A d \in Clients : d # c => carries'[d] = carries[d]
        /\ carries' \in [Clients -> SUBSET Teams]
    BY <1>3, <2>1, <2>2
  <2>4. captures' \in [Teams -> 0 .. CaptureLimit]
    BY <1>1, <1>3, <1>b DEF CaptureFlag
  <2>5. (FlagsOnce => FlagsOnce') /\ (FlagsPresent => FlagsPresent')
    BY <2>1, <2>2, <2>3 DEF FlagsOnce, FlagsPresent
  <2>6. CarrierOK(p, {}) /\ (NothingKept => NothingKept')
    BY <1>1, <1>2, <2>3 DEF CarrierOK, NothingKept
  <2> QED
    BY <1>2, <1>3, <2>1, <2>2, <2>3, <2>4, <2>5, <2>6
       DEF PlayKept, FlagsKept, PlayInv, FlagTypeOK, CarrierInv
<1>c. ASSUME NEW t \in Teams, StealFlag(c, team, t)
      PROVE  PlayKept
  <2>1. carries[c] = {} /\ t # team
    BY <1>2, <1>c DEF StealFlag
  <2>2. /\ base' = base \ {t} /\ UNCHANGED captures
        /\ carries' \in [Clients -> SUBSET Teams]
        /\ carries'[c] = {t} /\ \A d \in Clients : d # c => carries'[d] = carries[d]
    BY <1>3, <1>c, <2>1 DEF StealFlag
  <2>3. /\ dropped' \in [Teams -> Nat]
        /\ \/ t \in base /\ dropped' = dropped
           \/ dropped[t] > 0 /\ dropped'[t] = dropped[t] - 1
        /\ \A u \in Teams : u # t => dropped'[u] = dropped[u]
        /\ FlagsOnce => dropped'[t] = 0 /\ \A d \in Clients : t \notin carries[d]
    <3>1. CASE t \in base /\ UNCHANGED dropped
      BY <1>3, <3>1 DEF FlagsOnce
    <3>2. CASE dropped[t] > 0 /\ dropped' = [dropped EXCEPT ![t] = @ - 1]
      BY <1>3, <3>2 DEF FlagsOnce
    <3> QED
      BY <1>c, <3>1, <3>2 DEF StealFlag
  <2>4. (FlagsOnce => FlagsOnce') /\ (FlagsPresent => FlagsPresent')
    BY <2>1, <2>2, <2>3 DEF FlagsOnce, FlagsPresent
  <2>5. CarrierOK(p, {t}) /\ (NothingKept => NothingKept')
    BY <1>1, <1>2, <2>1, <2>2 DEF CarrierOK, NothingKept
  <2> QED
    BY <1>2, <1>3, <2>2, <2>3, <2>4, <2>5 DEF PlayKept, FlagsKept, PlayInv, FlagTypeOK, CarrierInv
<1> QED
  BY <1>1, <1>a, <1>b, <1>c DEF PickupFlag

\* A flag that is dropped is in the world.
LEMMA DropFlagKept ==
  ASSUME PlayInv, NEW c \in Clients, DropFlag(c)
  PROVE  PlayKept
<1>1. /\ players[c] \in Player /\ players[c].team \in Teams \cup {NoTeam}
      /\ CarrierOK(players[c], carries[c])
  BY DEF PlayInv, Player, CarrierInv
<1>2. players[c].team \notin carries[c] /\ CarrierOK(players[c], {})
  BY <1>1 DEF CarrierOK, DropFlag
<1>3. TossFlag(c, players[c].team) /\ UNCHANGED players
  BY DEF DropFlag
<1>4. /\ FlagTypeOK' /\ (FlagsOnce => FlagsOnce') /\ (FlagsPresent => FlagsPresent')
      /\ carries'[c] = {} /\ \A d \in Clients : d # c => carries'[d] = carries[d]
  BY <1>1, <1>2, <1>3, Tossed
<1>5. CarrierInv' /\ (NothingKept => NothingKept')
  BY <1>2, <1>3, <1>4 DEF PlayInv, CarrierInv, NothingKept
<1> QED
  BY <1>3, <1>4, <1>5 DEF PlayKept, FlagsKept, PlayInv

\* A flag in the world goes home after a while.
LEMMA FlagTimeoutKept ==
  ASSUME PlayInv, NEW t \in Teams, FlagTimeout(t)
  PROVE  PlayKept
<1>1. /\ UNCHANGED <<players, carries, captures>> /\ base' = base \cup {t} /\ dropped[t] > 0
      /\ dropped \in [Teams -> Nat] /\ dropped' = [dropped EXCEPT ![t] = @ - 1]
  BY DEF FlagTimeout, ResetDroppedFlag, PlayInv, FlagTypeOK
<1>2. /\ dropped' \in [Teams -> Nat] /\ dropped'[t] = dropped[t] - 1
      /\ \A u \in Teams : u # t => dropped'[u] = dropped[u]
  BY <1>1
<1>3. (FlagsOnce => FlagsOnce') /\ (FlagsPresent => FlagsPresent') /\ (NothingKept => NothingKept')
  BY <1>1, <1>2 DEF FlagsOnce, FlagsPresent, NothingKept
<1> QED
  BY <1>1, <1>2, <1>3 DEF PlayKept, FlagsKept, PlayInv, FlagTypeOK, CarrierInv

\* A step that only clients and flags take part in.
LEMMA PlayStep ==
  ASSUME Inv, PlayKept, UNCHANGED <<vote, mapVars, levelVars, step>>
  PROVE  Kept
<1>1. UNCHANGED <<vote, offering, mapBallots, nextMap, intermission, posts, levelChange, step>>
  BY DEF mapVars, levelVars
<1>2. \A c \in Clients : c \notin Eligible' => c \notin Eligible
  BY DEF PlayKept, Eligible, InUse
<1>3. VotesOfPresent'
  BY <1>1, <1>2 DEF Inv, VotesOfPresent
<1> QED
  BY <1>1, <1>3 DEF Inv, Kept, PlayKept, FlagsKept, FlagsInPlay, VoteTypeOK, MapTypeOK, LevelInv

\* Every step of one client keeps the invariants.
LEMMA ClientSteps ==
  ASSUME Inv, NEW c \in Clients,
         \/ ClientBegin(c) \/ BotConnect(c) \/ Touch(c) \/ Die(c) \/ Respawn(c)
         \/ DropFlag(c) \/ Spectate(c) \/ \E t \in Teams : Team(c, t)
         \/ \E t \in Teams : FlagTimeout(t)
  PROVE  Kept
<1>1. PlayInv
  BY DEF Inv
<1>2. UNCHANGED <<vote, mapVars, levelVars, step>>
  BY DEF ClientBegin, BotConnect, Touch, Die, Respawn, DropFlag, Spectate, Team, FlagTimeout,
         InPlay, Reading
<1>3. PlayKept
  <2>1. Spectate(c) => PlayKept
    BY <1>1, ToSpectatorKept DEF Spectate
  <2> QED
    BY <1>1, <2>1, ClientBeginKept, BotConnectKept, TouchKept, DieKept, RespawnKept,
       DropFlagKept, TeamKept, FlagTimeoutKept
<1> QED
  BY <1>2, <1>3, PlayStep

-------------------------------------------------------------------------------
\* Votes.

\* A vote that only those who are there have a say in.
VoteOf(v, eligible) ==
  /\ v \in [type : VoteType \cup {"none"}, target : Clients \cup {Nobody},
            ballots : [Clients -> Ballot]]
  /\ \A c \in Clients \ eligible : v.ballots[c] = "none"

\* Without a vote, there is no ballot.
LEMMA NoVoteFacts ==
  ASSUME NEW eligible
  PROVE  VoteOf(NoVote, eligible) /\ NoVote.type = "none" /\ NoVote.target = Nobody
         /\ \A c \in Clients : NoVote.ballots[c] = "none"
  BY DEF VoteOf, NoVote, NoBallots, Ballot

\* What the invariant says of votes.
LEMMA VoteFacts ==
  ASSUME Inv
  PROVE  /\ VoteOf(vote, Eligible) /\ (intermission => vote = NoVote)
         /\ \A c \in Clients \ Eligible : mapBallots[c] = 0
  BY DEF Inv, VoteTypeOK, VotesOfPresent, VoteOf

\* A new client has no say yet, and may get the name that a vote was about.
LEMMA ClientConnectStep ==
  ASSUME Inv, NEW c \in Clients, ClientConnect(c)
  PROVE  Kept
<1>1. PlayKept
  BY ClientConnectKept DEF Inv
<1>2. UNCHANGED <<offering, mapBallots, nextMap, intermission, posts, levelChange, step>>
  BY DEF ClientConnect, Reading, mapVars, levelVars
<1>3. \A d \in Clients : d \notin Eligible' => d \notin Eligible
  BY <1>1 DEF PlayKept, Eligible, InUse
<1>4. VoteOf(vote', Eligible') /\ (intermission => vote' = NoVote)
  <2>1. CASE vote' = vote
    BY <1>3, <2>1, VoteFacts DEF VoteOf
  <2>2. CASE vote' = [vote EXCEPT !.target = c] /\ vote.type = "spectate"
    BY <1>3, <2>2, VoteFacts, NoVoteFacts DEF VoteOf
  <2> QED
    BY <2>1, <2>2 DEF ClientConnect
<1>5. VoteTypeOK' /\ VotesOfPresent'
  BY <1>2, <1>3, <1>4, VoteFacts DEF VoteOf, VoteTypeOK, VotesOfPresent
<1> QED
  BY <1>1, <1>2, <1>5 DEF Inv, Kept, PlayKept, FlagsKept, FlagsInPlay, MapTypeOK, LevelInv

\* Whoever leaves has no say any more.
LEMMA ClientDisconnectStep ==
  ASSUME Inv, NEW c \in Clients, ClientDisconnect(c)
  PROVE  Kept
<1>1. /\ PlayInv' /\ FlagsKept
      /\ \A d \in Clients : d # c => players'[d] = players[d]
  BY ClientDisconnectKept DEF Inv
<1>2. /\ UNCHANGED <<offering, nextMap, intermission, posts, levelChange, step>>
      /\ vote' = ClearBallot(c) /\ mapBallots' = [mapBallots EXCEPT ![c] = 0]
  BY DEF ClientDisconnect, Reading, levelVars, ClearMapBallot
<1>3. \A d \in Clients : d # c => (d \in Eligible' <=> d \in Eligible)
  BY <1>1 DEF Eligible, InUse
<1>4. VoteOf(vote', Eligible')
  <2>1. /\ vote' = [type |-> vote.type, target |-> IF vote.target = c THEN Nobody ELSE vote.target,
                    ballots |-> [vote.ballots EXCEPT ![c] = "none"]]
        /\ vote.ballots \in [Clients -> Ballot]
    BY <1>2, VoteFacts DEF ClearBallot, VoteOf
  <2> QED
    BY <1>3, <2>1, VoteFacts DEF VoteOf, Ballot
<1>5. intermission => vote' = NoVote
  <2>1. vote' = [vote EXCEPT !.ballots[c] = "none",
                             !.target = IF @ = c THEN Nobody ELSE @]
    BY <1>2 DEF ClearBallot
  <2> SUFFICES ASSUME vote = NoVote PROVE vote' = NoVote
    BY VoteFacts
  <2>2. vote' = [type |-> "none", target |-> IF Nobody = c THEN Nobody ELSE Nobody,
                 ballots |-> [NoBallots EXCEPT ![c] = "none"]]
    BY <2>1 DEF NoVote
  <2>3. [NoBallots EXCEPT ![c] = "none"] = NoBallots
    BY DEF NoBallots
  <2> QED
    BY <2>2, <2>3 DEF NoVote
<1>6. /\ mapBallots' \in [Clients -> 0 .. Candidates]
      /\ \A d \in Clients \ Eligible' : mapBallots'[d] = 0
  BY <1>2, <1>3, VoteFacts, IntermissionAssumption DEF Inv, MapTypeOK
<1>7. VoteTypeOK' /\ VotesOfPresent' /\ MapTypeOK'
  BY <1>2, <1>4, <1>5, <1>6 DEF VoteOf, VoteTypeOK, VotesOfPresent, Inv, MapTypeOK
<1> QED
  BY <1>1, <1>2, <1>7 DEF Inv, Kept, FlagsKept, FlagsInPlay, LevelInv

\* What comes of a vote: it stays open or ends, and whom it names may become a spectator.
LEMMA CheckVoteFacts ==
  ASSUME Inv, NEW v, VoteOf(v, Eligible), NEW late, CheckVote(v, late)
  PROVE  PlayKept /\ vote' \in {NoVote, v} /\ levelChange' \in BOOLEAN
         /\ (intermission => vote' = NoVote)
<1>1. vote' \in {NoVote, v} /\ (intermission => vote' = NoVote)
  BY DEF CheckVote
<1>2. levelChange' \in BOOLEAN
  BY DEF CheckVote, ApplyVote, Inv, LevelInv
<1>3. UNCHANGED <<players, flagVars>> => PlayKept
  BY DEF PlayKept, FlagsKept, Inv, PlayInv, flagVars, FlagTypeOK, CarrierInv, NothingKept,
         FlagsOnce, FlagsPresent
<1>4. v.target \in NotWatching /\ ToSpectator(v.target) => PlayKept
  <2> SUFFICES ASSUME v.target \in NotWatching, ToSpectator(v.target)
               PROVE  PlayKept
    OBVIOUS
  <2>1. v.target \in Clients /\ players[v.target].status # "gone"
    BY DEF NotWatching, Eligible, InUse
  <2> QED
    BY <2>1, ToSpectatorKept DEF Inv
<1> QED
  BY <1>1, <1>2, <1>3, <1>4 DEF CheckVote, ApplyVote

\* After a vote was looked at, while nothing else of the level changes.
LEMMA VoteChecked ==
  ASSUME Inv, NEW v, VoteOf(v, Eligible), NEW late, CheckVote(v, late),
         UNCHANGED <<mapVars, intermission, posts>>,
         step' \in {"read", "ticks", "execute"}
  PROVE  Kept
<1>1. PlayKept /\ vote' \in {NoVote, v} /\ levelChange' \in BOOLEAN
      /\ (intermission => vote' = NoVote)
  BY CheckVoteFacts
<1>2. UNCHANGED <<offering, mapBallots, nextMap>>
  BY DEF mapVars
<1>3. \A d \in Clients : d \notin Eligible' => d \notin Eligible
  BY <1>1 DEF PlayKept, Eligible, InUse
<1>4. VoteOf(vote', Eligible')
  BY <1>1, <1>3, NoVoteFacts DEF VoteOf
<1>5. VoteTypeOK' /\ VotesOfPresent'
  BY <1>1, <1>2, <1>3, <1>4, VoteFacts DEF VoteOf, VoteTypeOK, VotesOfPresent
<1>6. LevelInv' /\ (FlagsInPlay /\ ~ FlagsPresent => FlagsInPlay')
  BY <1>1, <1>2 DEF Inv, LevelInv, FlagsInPlay
<1> QED
  BY <1>1, <1>2, <1>5, <1>6 DEF Inv, Kept, PlayKept, FlagsKept, FlagsInPlay, MapTypeOK

\* Whoever votes is counted.
LEMMA VoterFacts ==
  ASSUME NEW c \in Clients, Voter(c)
  PROVE  c \in Eligible
  BY DEF Voter, Eligible, InUse

\* A vote that is called is of a client that is there ...
LEMMA CallVoteStep ==
  ASSUME Inv, NEW c \in Clients, NEW type \in VoteType, NEW target \in Clients \cup {Nobody},
         CallVote(c, type, target)
  PROVE  Kept
<1>1. c \in Eligible /\ CheckVote(Called(c, type, target), FALSE)
      /\ UNCHANGED <<mapVars, intermission, posts, step>>
  BY VoterFacts DEF CallVote, Reading
<1>2. VoteOf(Called(c, type, target), Eligible)
  BY <1>1 DEF Called, VoteOf, NoBallots, Ballot
<1> QED
  BY <1>1, <1>2, VoteChecked DEF Inv, LevelInv

\* ... so is a ballot ...
LEMMA CastVoteStep ==
  ASSUME Inv, NEW c \in Clients, NEW ballot \in {"yes", "no"}, CastVote(c, ballot)
  PROVE  Kept
<1>1. c \in Eligible /\ CheckVote(Cast(c, ballot), FALSE)
      /\ UNCHANGED <<mapVars, intermission, posts, step>>
  BY VoterFacts DEF CastVote, Reading
<1>2. VoteOf(Cast(c, ballot), Eligible)
  <2>1. /\ Cast(c, ballot) = [type |-> vote.type, target |-> vote.target,
                              ballots |-> [vote.ballots EXCEPT ![c] = ballot]]
        /\ vote.ballots \in [Clients -> Ballot]
    BY VoteFacts DEF Cast, VoteOf
  <2> QED
    BY <1>1, <2>1, VoteFacts DEF VoteOf, Ballot
<1> QED
  BY <1>1, <1>2, VoteChecked DEF Inv, LevelInv

\* ... and one for the next map.
LEMMA VoteMapStep ==
  ASSUME Inv, NEW c \in Clients, NEW m \in Map, VoteMap(c, m)
  PROVE  Kept
<1>1. /\ c \in Eligible /\ mapBallots' = [mapBallots EXCEPT ![c] = m]
      /\ UNCHANGED <<players, base, carries, dropped, captures, vote, intermission, posts,
                     levelChange, step, offering, nextMap>>
  BY VoterFacts DEF VoteMap, Reading, CastMap, flagVars, levelVars
<1>2. Eligible' = Eligible
  BY <1>1 DEF Eligible, InUse
<1>3. /\ mapBallots' \in [Clients -> 0 .. Candidates]
      /\ \A d \in Clients \ Eligible : mapBallots'[d] = 0
  BY <1>1, VoteFacts, IntermissionAssumption DEF Inv, MapTypeOK, Map
<1>4. VotesOfPresent' /\ MapTypeOK'
  BY <1>1, <1>2, <1>3 DEF Inv, VotesOfPresent, MapTypeOK
<1> QED
  BY <1>1, <1>4 DEF Inv, Kept, PlayInv, FlagTypeOK, CarrierInv, NothingKept, FlagsOnce,
                    FlagsPresent, FlagsInPlay, VoteTypeOK, LevelInv

-------------------------------------------------------------------------------
\* The end of a level, and the next one.

\* The vote for the next map has a winner: the first of those with the most ballots.
LEMMA WinnerFacts == Winner(Eligible) \in Map
<1> DEFINE votes(m) == Votes(m, Eligible)
           most == Cardinality(Clients)
<1>1. most \in Nat /\ \A m \in Map : votes(m) \in 0 .. most
  <2> SUFFICES ASSUME NEW m \in Map PROVE votes(m) \in 0 .. most /\ most \in Nat
    BY ClientsAssumption, FS_CardinalityType
  <2>1. {c \in Eligible : mapBallots[c] = m} \in SUBSET Clients
    BY DEF Eligible
  <2> QED
    BY <2>1, ClientsAssumption, FS_CardinalityType, FS_Subset DEF Votes
<1>2. 1 \in Map /\ Map \subseteq Nat
  BY IntermissionAssumption DEF Map
<1>3. ASSUME NEW S, S \subseteq Nat, S # {}
      PROVE  \E s \in S : \A u \in S : s <= u
  <2> DEFINE less == {ss \in Nat \X Nat : ss[1] < ss[2]}
  <2>1. IsWellFoundedOn(less, Nat)
    BY NatLessThanWellFounded DEF OpToRel
  <2> HIDE DEF less
  <2>2. PICK s \in S : \A u \in S : <<u, s>> \notin less
    BY <1>3, <2>1, WFMin
  <2>3. ASSUME NEW u \in S, u < s
        PROVE  FALSE
    <3>1. s \in Nat /\ u \in Nat
      BY <1>3
    <3>2. <<u, s>> \in less
      BY <2>3, <3>1 DEF less
    <3> QED
      BY <2>2, <3>2
  <2> QED
    BY <1>3, <2>3
<1> HIDE DEF votes, most
<1>4. PICK best \in Map : \A n \in Map : votes(n) <= votes(best)
  <2> DEFINE missing == {most - votes(m) : m \in Map}
  <2>1. missing \subseteq Nat /\ missing # {}
    BY <1>1, <1>2
  <2> HIDE DEF missing
  <2>2. PICK s \in missing : \A u \in missing : s <= u
    BY <1>3, <2>1
  <2>3. PICK m \in Map : s = most - votes(m)
    BY DEF missing
  <2>4. ASSUME NEW n \in Map
        PROVE  votes(n) <= votes(m)
    <3>1. most - votes(n) \in missing
      BY DEF missing
    <3> QED
      BY <1>1, <2>2, <2>3, <3>1
  <2> QED
    BY <2>4
<1>5. PICK m \in Map : votes(m) = votes(best)
                       /\ \A n \in Map : votes(n) = votes(best) => m <= n
  <2> DEFINE equals == {n \in Map : votes(n) = votes(best)}
  <2>1. PICK m \in equals : \A n \in equals : m <= n
    <3>1. equals \subseteq Nat /\ equals # {}
      BY <1>2
    <3> HIDE DEF equals
    <3> QED
      BY <1>3, <3>1
  <2> QED
    BY <2>1
<1>6. \A n \in Map : \/ votes(n) < votes(m)
                     \/ votes(n) = votes(m) /\ m <= n
  BY <1>1, <1>4, <1>5
<1> QED
  BY <1>6 DEF Winner, votes

\* Everybody respawns, and who is in the level has no flag any more.
LEMMA EveryoneRespawns ==
  ASSUME PlayInv,
         \A c \in Clients : /\ players'[c] \in Player /\ players'[c].status = players[c].status
                            /\ CarrierOK(players'[c], {}),
         players' = [c \in Clients |-> players'[c]],
         carries' = [c \in Clients |-> IF HasEntity(c) THEN {} ELSE carries[c]],
         FlagsReset \/ UNCHANGED <<base, dropped, captures>>
  PROVE  /\ PlayInv' /\ Eligible' = Eligible
         /\ NothingKept => NothingKept'
         /\ NothingKept /\ FlagsOnce => FlagsOnce'
<1>1. /\ players \in [Clients -> Player] /\ carries \in [Clients -> SUBSET Teams]
      /\ \A c \in Clients : CarrierOK(players[c], carries[c])
  BY DEF PlayInv, FlagTypeOK, CarrierInv
<1>2. ASSUME NEW c \in Clients
      PROVE  /\ CarrierOK(players'[c], carries'[c]) /\ carries'[c] \subseteq carries[c]
             /\ carries'[c] # {} => players[c].status = "connecting"
  <2>1. CASE HasEntity(c)
    BY <1>1, <2>1
  <2>2. CASE ~ HasEntity(c)
    <3>1. carries'[c] = carries[c] /\ players[c].status \in {"gone", "connecting"}
      BY <1>1, <2>2 DEF HasEntity, Player, Status
    <3> QED
      BY <1>1, <3>1 DEF CarrierOK
  <2> QED
    BY <2>1, <2>2
<1>3. players' \in [Clients -> Player] /\ carries' \in [Clients -> SUBSET Teams]
  <2>1. DOMAIN players' = Clients /\ \A c \in Clients : players'[c] \in Player
    OBVIOUS
  <2> QED
    BY <1>1, <1>2, <2>1
<1>4. FlagTypeOK'
  <2>1. 0 \in 0 .. CaptureLimit
    BY FlagAssumption
  <2>2. CASE FlagsReset
    BY <1>3, <2>1, <2>2 DEF FlagsReset, FlagTypeOK
  <2>3. CASE UNCHANGED <<base, dropped, captures>>
    BY <1>3, <2>3 DEF PlayInv, FlagTypeOK
  <2> QED
    BY <2>2, <2>3
<1>5. CarrierInv' /\ Eligible' = Eligible /\ (NothingKept => NothingKept')
  BY <1>2 DEF CarrierInv, Eligible, InUse, NothingKept
<1>6. NothingKept /\ FlagsOnce => FlagsOnce'
  <2> SUFFICES ASSUME NothingKept, FlagsOnce PROVE FlagsOnce'
    OBVIOUS
  <2>1. \A c \in Clients : carries'[c] = {}
    BY <1>2 DEF NothingKept
  <2>2. CASE FlagsReset
    BY <2>1, <2>2 DEF FlagsReset, FlagsOnce
  <2>3. CASE UNCHANGED <<base, dropped, captures>>
    BY <2>1, <2>3 DEF FlagsOnce
  <2> QED
    BY <2>2, <2>3
<1> QED
  BY <1>3, <1>4, <1>5, <1>6 DEF PlayInv

\* Every flag is back at its base.
LEMMA RestartGameKept ==
  ASSUME PlayInv, NEW keepTeams \in BOOLEAN, RestartGame(keepTeams)
  PROVE  /\ PlayInv' /\ FlagsPresent' /\ Eligible' = Eligible /\ vote' = NoVote
         /\ NothingKept => NothingKept'
         /\ NothingKept /\ FlagsOnce => FlagsOnce'
<1>1. players \in [Clients -> Player]
  BY DEF PlayInv
<1> DEFINE keeps == {c \in Clients : keepTeams /\ players[c].team # NoTeam}
<1>2. PICK t \in [{c \in Clients : InUse(c)} \ keeps -> Teams] :
        players' = [c \in Clients |-> IF c \in DOMAIN t THEN Restarted(players[c], t[c])
                                      ELSE Respawned(players[c])]
  BY DEF RestartGame
<1>3. /\ carries' = [c \in Clients |-> IF HasEntity(c) THEN {} ELSE carries[c]]
      /\ FlagsReset /\ vote' = NoVote
  BY DEF RestartGame
<1>4. ASSUME NEW c \in Clients
      PROVE  /\ players'[c] \in Player /\ players'[c].status = players[c].status
             /\ CarrierOK(players'[c], {})
  <2>1. CASE c \in DOMAIN t
    <3>1. t[c] \in Teams /\ players'[c] = Restarted(players[c], t[c])
      BY <1>2, <2>1
    <3> QED
      BY <1>1, <3>1, RestartedFacts
  <2>2. CASE c \notin DOMAIN t
    <3>1. players'[c] = Respawned(players[c])
      BY <1>2, <2>2
    <3> QED
      BY <1>1, <3>1, RespawnedFacts
  <2> QED
    BY <2>1, <2>2
<1>5. players' = [c \in Clients |-> players'[c]]
  BY <1>2
<1>6. FlagsPresent'
  BY <1>3 DEF FlagsReset, FlagsPresent
<1> QED
  BY <1>3, <1>4, <1>5, <1>6, EveryoneRespawns

\* What a frame of the game begins with, and where Main_Frame goes after it.
LEMMA FrameFacts ==
  ASSUME Inv, FrameEnds
  PROVE  /\ step' \in {"read", "ticks", "execute"}
         /\ intermission \in BOOLEAN /\ levelChange \in BOOLEAN /\ posts \in 0 .. 2
         /\ ~ intermission => ~ offering
  BY DEF FrameEnds, Inv, LevelInv

\* The offer of maps begins with no ballots.
LEMMA OfferFacts ==
  ASSUME MapTypeOK
  PROVE  /\ NoMapBallots \in [Clients -> 0 .. Candidates] /\ \A c \in Clients : NoMapBallots[c] = 0
         /\ nextMap \in 0 .. Candidates /\ Map \subseteq 0 .. Candidates
  BY IntermissionAssumption DEF MapTypeOK, NoMapBallots, Map

\* A step after which no vote is open.
LEMMA NoVoteStep ==
  ASSUME Inv, PlayInv', Eligible \subseteq Eligible', vote' = NoVote, LevelInv',
         offering' \in BOOLEAN, mapBallots' \in {mapBallots, NoMapBallots},
         nextMap' \in {nextMap, 0} \cup Map
  PROVE  Inv'
<1>1. VoteTypeOK' /\ \A c \in Clients : vote'.ballots[c] = "none"
  BY NoVoteFacts DEF VoteOf, VoteTypeOK
<1>2. MapTypeOK
  BY DEF Inv
<1>3. mapBallots' \in [Clients -> 0 .. Candidates]
      /\ \A c \in Clients \ Eligible' : mapBallots'[c] = 0
  <2>1. CASE mapBallots' = mapBallots
    BY <1>2, <2>1, VoteFacts DEF MapTypeOK
  <2>2. CASE mapBallots' = NoMapBallots
    BY <1>2, <2>2, OfferFacts
  <2> QED
    BY <2>1, <2>2
<1>4. nextMap' \in 0 .. Candidates
  BY <1>2, OfferFacts, IntermissionAssumption
<1>5. MapTypeOK'
  BY <1>3, <1>4 DEF MapTypeOK
<1> QED
  BY <1>1, <1>3, <1>5 DEF Inv, VotesOfPresent

\* A restart from the console, with flags carried or in the world.
LEMMA ConsoleRestartStep ==
  ASSUME Inv, ConsoleRestart
  PROVE  Kept
<1>1. /\ PlayInv' /\ FlagsPresent' /\ Eligible' = Eligible /\ vote' = NoVote
      /\ NothingKept => NothingKept'
      /\ NothingKept /\ FlagsOnce => FlagsOnce'
  BY RestartGameKept DEF ConsoleRestart, Inv
<1>2. /\ mapBallots' = NoMapBallots
      /\ UNCHANGED <<nextMap, intermission, posts, levelChange, step>>
  BY DEF ConsoleRestart, CloseOffer, levelVars, Reading
<1>3. offering' \in BOOLEAN /\ ~ offering'
  BY DEF ConsoleRestart, CloseOffer
<1>4. LevelInv'
  BY <1>2, <1>3 DEF Inv, LevelInv
<1>5. Inv'
  BY <1>1, <1>2, <1>3, <1>4, NoVoteStep
<1> QED
  BY <1>1, <1>5 DEF Kept, FlagsInPlay

\* The level ends: everybody respawns and dies, and who carried a flag has it no more.
LEMMA FrameEndsLevelStep ==
  ASSUME Inv, FrameEndsLevel
  PROVE  Kept
<1>1. players \in [Clients -> Player] /\ PlayInv
  BY DEF Inv, PlayInv
<1>2. /\ players' = [c \in Clients |-> ToIntermission(Respawned(players[c]))]
      /\ carries' = [c \in Clients |-> IF HasEntity(c) THEN {} ELSE carries[c]]
      /\ UNCHANGED <<base, dropped, captures, levelChange>>
      /\ intermission' = TRUE /\ posts' = posts + 1 /\ vote' = NoVote /\ posts < 2
  BY DEF FrameEndsLevel, BeginIntermission
<1>3. ASSUME NEW c \in Clients
      PROVE  /\ players'[c] \in Player /\ players'[c].status = players[c].status
             /\ CarrierOK(players'[c], {})
  BY <1>1, <1>2, RespawnedFacts, ToIntermissionFacts
<1>4. /\ PlayInv' /\ Eligible' = Eligible
      /\ NothingKept => NothingKept'
      /\ NothingKept /\ FlagsOnce => FlagsOnce'
  <2>1. players' = [c \in Clients |-> players'[c]]
    BY <1>2
  <2> QED
    BY <1>1, <1>2, <1>3, <2>1, EveryoneRespawns
<1>5. offering' = TRUE /\ mapBallots' = NoMapBallots /\ nextMap' = nextMap
  BY FrameFacts DEF FrameEndsLevel, ContinueOffer, BeginOffer
<1>6. LevelInv' /\ offering' \in BOOLEAN /\ posts' > 0
  BY <1>2, <1>5, FrameFacts DEF LevelInv, FrameEndsLevel
<1>7. Inv'
  BY <1>2, <1>4, <1>5, <1>6, NoVoteStep
<1> QED
  BY <1>4, <1>6, <1>7 DEF Kept, FlagsInPlay

\* A frame that restarts the level.
LEMMA FrameRestartsStep ==
  ASSUME Inv, FrameRestarts
  PROVE  Kept
<1>1. /\ PlayInv' /\ FlagsPresent' /\ Eligible' = Eligible /\ vote' = NoVote
      /\ NothingKept => NothingKept'
      /\ NothingKept /\ FlagsOnce => FlagsOnce'
  BY RestartGameKept DEF FrameRestarts, Inv
<1>2. /\ ~ intermission /\ step' \in {"read", "ticks", "execute"} /\ levelChange' \in BOOLEAN
      /\ mapBallots' = NoMapBallots /\ UNCHANGED nextMap
      /\ \/ UNCHANGED <<intermission, posts>> /\ offering' = FALSE
         \/ posts < 2 /\ intermission' = TRUE /\ posts' = posts + 1 /\ offering' = TRUE
  BY FrameFacts DEF FrameRestarts, CloseOffer, BeginOffer
<1>3. /\ intermission' \in BOOLEAN /\ offering' \in BOOLEAN /\ (offering' => intermission')
      /\ posts' \in 0 .. 2 /\ (intermission' => posts' > 0)
  <2>1. CASE UNCHANGED <<intermission, posts>> /\ offering' = FALSE
    <3>1. offering' \in BOOLEAN /\ ~ offering' /\ intermission' \in BOOLEAN
      BY <2>1, FrameFacts DEF FrameRestarts
    <3> QED
      BY <1>2, <2>1, <3>1, FrameFacts DEF FrameRestarts
  <2>2. CASE posts < 2 /\ intermission' = TRUE /\ posts' = posts + 1 /\ offering' = TRUE
    BY <2>2, FrameFacts DEF FrameRestarts
  <2> QED
    BY <1>2, <2>1, <2>2
<1>4. LevelInv'
  BY <1>2, <1>3 DEF LevelInv
<1>5. Inv'
  BY <1>1, <1>2, <1>3, <1>4, NoVoteStep
<1> QED
  BY <1>1, <1>5 DEF Kept, FlagsInPlay

\* A frame in which the level goes on.
LEMMA FramePlaysStep ==
  ASSUME Inv, FramePlays
  PROVE  Kept
<1>1. /\ UNCHANGED <<mapVars, intermission, posts>> /\ ~ intermission
      /\ step' \in {"read", "ticks", "execute"}
  BY FrameFacts DEF FramePlays
<1>a. CASE vote = NoVote
  <2>1. UNCHANGED <<players, base, carries, dropped, captures, vote, levelChange,
                    offering, mapBallots, nextMap>>
    BY <1>1, <1>a DEF FramePlays, flagVars, mapVars
  <2>2. /\ PlayInv' /\ Eligible' = Eligible /\ (NothingKept => NothingKept')
        /\ (FlagsOnce => FlagsOnce') /\ (FlagsPresent => FlagsPresent')
    BY <2>1 DEF Inv, PlayInv, FlagTypeOK, CarrierInv, NothingKept, FlagsOnce, FlagsPresent,
                Eligible, InUse
  <2>3. LevelInv'
    BY <1>1, <2>1 DEF Inv, LevelInv
  <2>4. Inv'
    BY <1>1, <2>1, <2>2, <2>3 DEF Inv, VoteTypeOK, MapTypeOK, VotesOfPresent
  <2> QED
    BY <1>1, <2>2, <2>4 DEF Kept, FlagsInPlay
<1>b. CASE vote # NoVote
  <2>1. PICK late \in BOOLEAN : CheckVote(vote, late)
    BY <1>b DEF FramePlays
  <2> QED
    BY <1>1, <2>1, VoteFacts, VoteChecked
<1> QED
  BY <1>a, <1>b

\* Only the ballots for the next map may change before the intermission is over.
LEMMA FrameOfIntermissionStep ==
  ASSUME Inv, FrameOfIntermission
  PROVE  Kept
<1>1. /\ UNCHANGED <<players, base, carries, dropped, captures, intermission, posts, levelChange>>
      /\ vote' = NoVote /\ intermission /\ step' \in {"read", "ticks", "execute"}
  BY FrameFacts DEF FrameOfIntermission, flagVars, levelVars
<1>2. /\ PlayInv' /\ Eligible' = Eligible /\ (NothingKept => NothingKept')
      /\ (FlagsOnce => FlagsOnce')
  BY <1>1 DEF Inv, PlayInv, FlagTypeOK, CarrierInv, NothingKept, FlagsOnce, Eligible, InUse
<1>3. /\ offering' \in BOOLEAN /\ mapBallots' \in {mapBallots, NoMapBallots}
      /\ nextMap' = nextMap
  BY DEF FrameOfIntermission, ContinueOffer, BeginOffer, mapVars, Inv, MapTypeOK
<1>4. LevelInv'
  BY <1>1 DEF Inv, LevelInv
<1>5. Inv'
  BY <1>1, <1>2, <1>3, <1>4, NoVoteStep
<1> QED
  BY <1>1, <1>2, <1>5 DEF Kept, FlagsInPlay

\* A frame that ends the intermission.
LEMMA FrameEndsIntermissionStep ==
  ASSUME Inv, FrameEndsIntermission
  PROVE  Kept
<1>1. /\ UNCHANGED <<players, base, carries, dropped, captures, vote, posts>>
      /\ intermission /\ intermission' = FALSE /\ levelChange' = TRUE
      /\ step' \in {"read", "ticks", "execute"}
      /\ offering' = FALSE /\ mapBallots' = NoMapBallots /\ nextMap' = Winner(Eligible)
  BY FrameFacts DEF FrameEndsIntermission, flagVars, EndOffer
<1>2. /\ PlayInv' /\ Eligible' = Eligible /\ posts' > 0 /\ vote' = NoVote
      /\ (NothingKept => NothingKept') /\ (FlagsOnce => FlagsOnce')
  BY <1>1 DEF Inv, PlayInv, FlagTypeOK, CarrierInv, NothingKept, FlagsOnce, Eligible, InUse,
              LevelInv, VotesOfPresent
<1>3. offering' \in BOOLEAN /\ ~ offering' /\ intermission' \in BOOLEAN /\ ~ intermission'
  BY <1>1
<1>4. LevelInv' /\ nextMap' \in Map
  BY <1>1, <1>2, <1>3, WinnerFacts DEF Inv, LevelInv
<1>5. Inv'
  BY <1>1, <1>2, <1>3, <1>4, NoVoteStep
<1> QED
  BY <1>2, <1>5 DEF Kept, FlagsInPlay

\* Humans stay, without a team; a flag that one still has is one too many.
LEMMA NewLevelStep ==
  ASSUME Inv, NewLevel
  PROVE  Kept
<1>1. /\ players \in [Clients -> Player] /\ carries \in [Clients -> SUBSET Teams]
      /\ \A c \in Clients : CarrierOK(players[c], carries[c])
  BY DEF Inv, PlayInv, FlagTypeOK, CarrierInv
<1>2. /\ players' = [c \in Clients |-> IF c \in Bots \/ ~InUse(c) THEN Gone
                       ELSE [players[c] EXCEPT !.status = "connecting", !.team = NoTeam]]
      /\ carries' = [c \in Clients |-> IF c \in Bots THEN {} ELSE carries[c]]
      /\ base' = Teams /\ dropped' = [u \in Teams |-> 0] /\ captures' = [u \in Teams |-> 0]
      /\ vote' = NoVote /\ offering' = FALSE /\ mapBallots' = NoMapBallots /\ nextMap' = 0
      /\ intermission' = FALSE /\ posts' = 0 /\ levelChange' = FALSE /\ step' = "read"
  BY DEF NewLevel, FlagsReset, CloseOffer
<1>3. ASSUME NEW c \in Clients
      PROVE  /\ players'[c] \in Player /\ CarrierOK(players'[c], carries'[c])
             /\ c \in Eligible => players'[c].status # "gone"
  <2>1. CASE c \in Bots \/ ~ InUse(c)
    <3>1. carries'[c] = {}
      BY <1>1, <1>2, <2>1 DEF CarrierOK, InUse
    <3> QED
      BY <1>2, <2>1, <3>1, GoneFacts DEF Eligible
  <2>2. CASE ~ (c \in Bots \/ ~ InUse(c))
    <3>1. /\ players'[c] = [players[c] EXCEPT !.status = "connecting", !.team = NoTeam]
          /\ carries'[c] = carries[c]
      BY <1>2, <2>2
    <3>2. players'[c] \in Player /\ players'[c].status = "connecting"
      BY <1>1, <3>1 DEF Player, Status
    <3> QED
      BY <1>1, <3>1, <3>2 DEF CarrierOK
  <2> QED
    BY <2>1, <2>2
<1>4. PlayInv' /\ FlagsPresent' /\ Eligible \subseteq Eligible'
  <2>1. players' \in [Clients -> Player]
    BY <1>2, <1>3
  <2>2. carries' \in [Clients -> SUBSET Teams]
    BY <1>1, <1>2
  <2>3. CarrierInv' /\ FlagsPresent' /\ Eligible \subseteq Eligible'
    BY <1>2, <1>3 DEF CarrierInv, FlagsPresent, Eligible, InUse
  <2>4. 0 \in 0 .. CaptureLimit
    BY FlagAssumption
  <2> QED
    BY <1>2, <2>1, <2>2, <2>3, <2>4 DEF PlayInv, FlagTypeOK
<1>5. ~ CarriersAtChange => NothingKept' /\ FlagsOnce'
  <2> SUFFICES ASSUME ~ CarriersAtChange PROVE NothingKept' /\ FlagsOnce'
    OBVIOUS
  <2>1. \A c \in Clients : carries'[c] = {}
    BY <1>2 DEF NewLevel
  <2> QED
    BY <1>2, <2>1 DEF NothingKept, FlagsOnce
<1>6. LevelInv'
  <2>1. /\ intermission' \in BOOLEAN /\ levelChange' \in BOOLEAN
        /\ ~ intermission' /\ ~ offering' /\ posts' = 0 /\ step' = "read"
    BY <1>2
  <2> QED
    BY <2>1 DEF LevelInv
<1>7. Inv'
  <2>1. offering' \in BOOLEAN
    BY <1>2
  <2> QED
    BY <1>2, <1>4, <1>6, <2>1, NoVoteStep
<1> QED
  BY <1>4, <1>5, <1>7 DEF Kept, FlagsInPlay

-------------------------------------------------------------------------------
\* The theorems.

\* The invariants hold at the start.
LEMMA Initially == Init => Inv /\ NothingKept /\ FlagsOnce /\ FlagsInPlay /\ EndsOnce
<1> SUFFICES ASSUME Init PROVE Inv /\ NothingKept /\ FlagsOnce /\ FlagsInPlay /\ EndsOnce
  OBVIOUS
<1>1. /\ players = [c \in Clients |-> Gone] /\ carries = [c \in Clients |-> {}]
      /\ base = Teams /\ dropped = [t \in Teams |-> 0] /\ captures = [t \in Teams |-> 0]
      /\ vote = NoVote /\ ~ offering /\ mapBallots = NoMapBallots /\ nextMap = 0
      /\ ~ intermission /\ posts = 0 /\ ~ levelChange /\ step = "read"
  BY DEF Init, ClientsInit, FlagInit, VoteInit, MapInit
<1>2. /\ players \in [Clients -> Player] /\ CarrierInv /\ NothingKept /\ FlagsOnce
      /\ FlagsPresent
  BY <1>1, GoneFacts DEF CarrierInv, NothingKept, FlagsOnce, FlagsPresent
<1>3. 0 \in 0 .. CaptureLimit
  BY FlagAssumption
<1>4. FlagTypeOK
  BY <1>1, <1>3 DEF FlagTypeOK
<1>5. VoteTypeOK /\ VotesOfPresent
  BY <1>1, NoVoteFacts DEF VoteOf, VoteTypeOK, VotesOfPresent, NoMapBallots
<1>6. MapTypeOK
  <2>1. offering \in BOOLEAN
    BY DEF Init, MapInit
  <2>2. mapBallots \in [Clients -> 0 .. Candidates] /\ nextMap \in 0 .. Candidates
    BY <1>1, IntermissionAssumption DEF NoMapBallots
  <2> QED
    BY <2>1, <2>2 DEF MapTypeOK
<1>7. LevelInv /\ EndsOnce
  <2>1. intermission \in BOOLEAN /\ levelChange \in BOOLEAN
    BY DEF Init
  <2> QED
    BY <1>1, <2>1 DEF LevelInv, EndsOnce
<1> QED
  BY <1>2, <1>4, <1>5, <1>6, <1>7 DEF Inv, PlayInv, FlagsInPlay

\* Every step keeps the invariant, and with the constants that it needs each addition to it.
LEMMA NextStep ==
  ASSUME Inv, [Next]_vars
  PROVE  Kept
<1>1. CASE UNCHANGED vars
  <2>1. UNCHANGED <<players, base, carries, dropped, captures, vote, offering, mapBallots,
                    nextMap, intermission, posts, levelChange, step>>
    BY <1>1 DEF vars, flagVars, mapVars, levelVars
  <2>2. Inv'
    BY <2>1 DEF Inv, PlayInv, FlagTypeOK, CarrierInv, VoteTypeOK, MapTypeOK, VotesOfPresent,
                Eligible, InUse, LevelInv
  <2> QED
    BY <2>1, <2>2 DEF Kept, NothingKept, FlagsOnce, FlagsPresent, FlagsInPlay
<1>2. ASSUME NEW c \in Clients,
             \/ ClientConnect(c) \/ ClientBegin(c) \/ ClientDisconnect(c) \/ BotConnect(c)
             \/ Touch(c) \/ Die(c) \/ Respawn(c) \/ DropFlag(c) \/ Spectate(c)
             \/ \E t \in Teams : Team(c, t)
      PROVE  Kept
  BY <1>2, ClientConnectStep, ClientDisconnectStep, ClientSteps
<1>3. ASSUME NEW c \in Clients,
             \/ \E type \in VoteType : \E target \in Clients \cup {Nobody} :
                  CallVote(c, type, target)
             \/ \E ballot \in {"yes", "no"} : CastVote(c, ballot)
             \/ \E m \in Map : VoteMap(c, m)
      PROVE  Kept
  BY <1>3, CallVoteStep, CastVoteStep, VoteMapStep
<1>4. ASSUME NEW t \in Teams, FlagTimeout(t)
      PROVE  Kept
  BY <1>4, FlagTimeoutKept, PlayStep DEF FlagTimeout, Inv
<1>5. CASE ConsoleRestart \/ NewLevel
  BY <1>5, ConsoleRestartStep, NewLevelStep
<1>6. CASE Frame
  BY <1>6, FrameEndsLevelStep, FrameRestartsStep, FramePlaysStep, FrameOfIntermissionStep,
     FrameEndsIntermissionStep DEF Frame
<1> QED
  BY <1>1, <1>2, <1>3, <1>4, <1>5, <1>6 DEF Next

\* One frame at a time, the change of level follows the frame that ended the intermission.
LEMMA EndsOnceStep ==
  ASSUME ~ Backlog, Inv, EndsOnce, [Next]_vars
  PROVE  EndsOnce'
<1>1. CASE UNCHANGED <<intermission, posts, step>>
  BY <1>1 DEF EndsOnce
<1>2. CASE NewLevel
  <2>1. posts' = 0 /\ step' = "read"
    BY <1>2 DEF NewLevel
  <2> QED
    BY <2>1 DEF EndsOnce
<1>3. CASE Frame
  <2>1. step = "read" /\ step' \in {"read", "execute"} /\ (levelChange' => step' = "execute")
    BY <1>3 DEF Frame, FrameEndsLevel, FrameRestarts, FramePlays, FrameOfIntermission,
                FrameEndsIntermission, FrameEnds, EndsOnce
  <2>2. CASE FrameEndsLevel
    BY <2>1, <2>2 DEF FrameEndsLevel, BeginIntermission, EndsOnce
  <2>3. CASE FrameRestarts
    BY <2>1, <2>3 DEF FrameRestarts, EndsOnce
  <2>4. CASE FramePlays
    BY <2>1, <2>4 DEF FramePlays, EndsOnce
  <2>5. CASE FrameOfIntermission
    BY <2>1, <2>5 DEF FrameOfIntermission, levelVars, EndsOnce
  <2>6. CASE FrameEndsIntermission
    BY <2>1, <2>6 DEF FrameEndsIntermission, EndsOnce
  <2> QED
    BY <1>3, <2>2, <2>3, <2>4, <2>5, <2>6 DEF Frame
<1>4. CASE UNCHANGED vars
  BY <1>1, <1>4 DEF vars, levelVars
<1>5. ASSUME NEW c \in Clients,
             \/ ClientConnect(c) \/ ClientBegin(c) \/ ClientDisconnect(c) \/ BotConnect(c)
             \/ Touch(c) \/ Die(c) \/ Respawn(c) \/ DropFlag(c) \/ Spectate(c)
             \/ \E t \in Teams : Team(c, t)
      PROVE  EndsOnce'
  BY <1>1, <1>5 DEF ClientConnect, ClientBegin, ClientDisconnect, BotConnect, Touch, Die, Respawn,
                    DropFlag, Spectate, Team, InPlay, Reading, levelVars
<1>6. ASSUME NEW c \in Clients,
             \/ \E type \in VoteType : \E target \in Clients \cup {Nobody} :
                  CallVote(c, type, target)
             \/ \E ballot \in {"yes", "no"} : CastVote(c, ballot)
             \/ \E m \in Map : VoteMap(c, m)
      PROVE  EndsOnce'
  BY <1>1, <1>6 DEF CallVote, CastVote, VoteMap, Reading, levelVars
<1>7. CASE ConsoleRestart \/ \E t \in Teams : FlagTimeout(t)
  BY <1>1, <1>7 DEF ConsoleRestart, FlagTimeout, Reading, levelVars
<1> QED
  BY <1>2, <1>3, <1>4, <1>5, <1>6, <1>7 DEF Next

\* What is true of clients, votes and levels however the game is set up.
THEOREM Invariance == Spec => []Inv
<1>1. Init => Inv
  BY Initially
<1>2. Inv /\ [Next]_vars => Inv'
  BY NextStep DEF Kept
<1> QED
  BY <1>1, <1>2, PTL DEF Spec

\* Every variable keeps its type; the flags of a team in the world are never fewer than none.
THEOREM TypeCorrectness == Spec => []TypeOK
<1>1. Inv => TypeOK
  BY DEF Inv, PlayInv, LevelInv, TypeOK
<1> QED
  BY <1>1, Invariance, PTL

\* Who is in the game and carries a flag is alive and plays for another team, in any game
\* and after any reconnect.
THEOREM CarriersPlay == Spec => []CarrierPlays
<1>1. Inv => CarrierPlays
  BY DEF Inv, PlayInv, CarrierInv, CarrierOK, CarrierPlays, HasEntity
<1> QED
  BY <1>1, Invariance, PTL

\* Votes and ballots for the next map are of clients that are there, and no vote is open
\* in an intermission.
THEOREM OnlyPresentDecide == Spec => []VotesOfPresent
<1>1. Inv => VotesOfPresent
  BY DEF Inv
<1> QED
  BY <1>1, Invariance, PTL

\* When the level changes only while no human has a flag, no flag is in two places.
THEOREM NoFlagTwice ==
  ASSUME ~ CarriersAtChange
  PROVE  Spec => [](NothingKept /\ FlagsOnce)
<1>1. Init => NothingKept /\ FlagsOnce
  BY Initially
<1>2. Inv /\ (NothingKept /\ FlagsOnce) /\ [Next]_vars => (NothingKept /\ FlagsOnce)'
  BY NextStep DEF Kept
<1> QED
  BY <1>1, <1>2, Invariance, PTL DEF Spec

\* With g_autoJoin too, none is lost while a level is played: each flag is at its base, with
\* one client, or in the world.
THEOREM FlagsAreOne ==
  ASSUME AutoJoin, ~ CarriersAtChange
  PROVE  Spec => []OneFlagEach
<1>1. ASSUME FlagsOnce, NEW t \in Teams
      PROVE  Places(t) <= 1 /\ (FlagsPresent => Places(t) = 1)
  <2> DEFINE at == {t} \cap base
             with == {c \in Clients : t \in carries[c]}
  <2>1. FlagsOnce /\ dropped[t] \in {0, 1}
    BY <1>1 DEF FlagsOnce
  <2>2. Cardinality(at) = IF t \in base THEN 1 ELSE 0
    <3>1. CASE t \in base
      <4>1. at = {t}
        BY <3>1
      <4> QED
        BY <3>1, <4>1, FS_Singleton
    <3>2. CASE t \notin base
      <4>1. at = {}
        BY <3>2
      <4> QED
        BY <3>2, <4>1, FS_EmptySet
    <3> QED
      BY <3>1, <3>2
  <2>3. \/ with = {} /\ Cardinality(with) = 0
        \/ with # {} /\ Cardinality(with) = 1 /\ t \notin base /\ dropped[t] = 0
    <3>1. CASE with = {}
      BY <3>1, FS_EmptySet
    <3>2. CASE with # {}
      <4>1. PICK c \in Clients : t \in carries[c]
        BY <3>2
      <4>2. with = {c} /\ t \notin base /\ dropped[t] = 0
        BY <2>1, <4>1 DEF FlagsOnce
      <4> QED
        BY <3>2, <4>2, FS_Singleton
    <3> QED
      BY <3>1, <3>2
  <2>4. Places(t) = Cardinality(at) + Cardinality(with) + dropped[t]
    BY DEF Places
  <2>5. FlagsPresent => t \in base \/ dropped[t] = 1 \/ with # {}
    BY <2>1 DEF FlagsPresent
  <2>6. t \in base => dropped[t] = 0
    BY <2>1 DEF FlagsOnce
  <2> HIDE DEF at, with
  <2> QED
    BY <2>1, <2>2, <2>3, <2>4, <2>5, <2>6
<1>2. FlagsOnce /\ FlagsInPlay => OneFlagEach
  BY <1>1 DEF FlagsInPlay, OneFlagEach
<1>3. Init => FlagsInPlay
  BY Initially
<1>4. Inv /\ (NothingKept /\ FlagsOnce) /\ FlagsInPlay /\ [Next]_vars => FlagsInPlay'
  BY NextStep DEF Kept
<1> QED
  BY <1>2, <1>3, <1>4, Invariance, NoFlagTwice, PTL DEF Spec

\* When one frame of the game runs at a time, a level ends once, and its intermission offers
\* maps only while it lasts.
THEOREM LevelsEndOnce ==
  ASSUME ~ Backlog
  PROVE  Spec => []LevelEndsOnce
<1>1. Init => EndsOnce
  BY Initially
<1>2. Inv /\ EndsOnce /\ [Next]_vars => EndsOnce'
  BY EndsOnceStep
<1>3. Inv /\ EndsOnce => LevelEndsOnce
  BY DEF Inv, LevelInv, EndsOnce, LevelEndsOnce
<1> QED
  BY <1>1, <1>2, <1>3, Invariance, PTL DEF Spec

=============================================================================
