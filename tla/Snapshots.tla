------------------------------ MODULE Snapshots ------------------------------
(***************************************************************************)
(* Delta-compressed frames.  Each server frame is built for each client     *)
(* from the entities it can see (server/sv_entity.c), and written as the    *)
(* difference from the newest frame that the client says it has.  The       *)
(* states of the entities of all frames of all clients share one circular   *)
(* buffer, svs.entityStates.  The client applies the difference to its own  *)
(* copy of that frame (client/cl_entity.c).                                *)
(*                                                                         *)
(* An entity's state is its number and a value that stands for all its      *)
(* other fields.  The player state is kept in each client's own frames and  *)
(* is left out.  Packets are those of the channel: they may be lost, and    *)
(* one that is older than the last one read is discarded.                  *)
(***************************************************************************)
EXTENDS Integers, Sequences

CONSTANTS
  PACKET_BACKUP,  \* the frames kept for each client, and by each: 128 in the code
  MAX_ENTITIES,   \* how many entities there are, numbered from 0
  MaxClients,     \* sv_maxClients: how many clients play
  MaxFrame,       \* bound: the last frame that the server runs
  MaxChanges,     \* bound: how many times an entity changes
  MaxInFlight     \* bound: a frame that many frames late is lost

ASSUME SnapshotAssumption ==
  /\ PACKET_BACKUP \in Nat /\ PACKET_BACKUP > 3
  /\ MAX_ENTITIES \in Nat \ {0}
  /\ MaxClients \in Nat \ {0}
  /\ MaxFrame \in Nat /\ MaxChanges \in Nat /\ MaxInFlight \in Nat \ {0}

VARIABLES
  world,            \* the value of each entity that is visible; 0 for one that is not
  changes,          \* how many times an entity changed
  frameNum,         \* sv.frameNum
  turn,             \* the client whose frame is sent next; 0 when the tick is over
  entityStates,     \* svs.entityStates: the circular buffer
  nextEntityState,  \* svs.nextEntityState: not yet reduced modulo the buffer's length
  frames,           \* ServerClient.frames of each client: where its states begin, how many
  lastFrame,        \* ServerClient.lastFrame of each client, as last acknowledged
  network,          \* the frames on their way to each client
  clFrames,         \* cl.frames of each client
  clFrame,          \* cl.frame of each client: the number of the newest; 0 for none
  entityState,      \* cl.entityState of each client: how many states it has read
  dropped           \* clients that ended the game with an error in Cl_ParseFrame

serverVars == <<world, changes, frameNum, turn, entityStates, nextEntityState, frames>>
clientVars == <<clFrames, clFrame, entityState, dropped>>
vars == <<serverVars, lastFrame, network, clientVars>>

Client == 1 .. MaxClients
Entity == 0 .. MAX_ENTITIES - 1
Value == {1, 2}

Slot(n) == n % PACKET_BACKUP                    \* n & PACKET_MASK

\* Sv_InitEntityState: the length of the buffer that the clients share.
numEntityStates == PACKET_BACKUP * MAX_ENTITIES
StateSlot(n) == n % numEntityStates

EntityState == [number : Entity, value : Value]
NoState == [number |-> 0, value |-> 1]
NoFrame == [valid |-> FALSE, frameNum |-> 0, entityState |-> 0,
            entities |-> <<>>, built |-> <<>>]

TypeOK ==
  /\ world \in [Entity -> Value \cup {0}]
  /\ changes \in 0 .. MaxChanges
  /\ frameNum \in 0 .. MaxFrame /\ turn \in 0 .. MaxClients
  /\ entityStates \in [0 .. numEntityStates - 1 -> EntityState]
  /\ nextEntityState \in 0 .. MaxFrame * MaxClients * MAX_ENTITIES
  /\ \A c \in Client : \A s \in 0 .. PACKET_BACKUP - 1 :
       /\ frames[c][s].entityState \in 0 .. nextEntityState
       /\ frames[c][s].numEntities \in 0 .. MAX_ENTITIES
       /\ clFrames[c][s].frameNum \in 0 .. MaxFrame
       /\ clFrames[c][s].entities \in Seq(EntityState)
  /\ lastFrame \in [Client -> -1 .. MaxFrame]
  /\ clFrame \in [Client -> 0 .. MaxFrame]
  /\ entityState \in [Client -> Nat]
  /\ dropped \subseteq Client

\* The level starts with any entities visible.
Init ==
  /\ world \in [Entity -> {0, 1}] /\ changes = 0
  /\ frameNum = 0 /\ turn = 0
  /\ entityStates = [i \in 0 .. numEntityStates - 1 |-> NoState]
  /\ nextEntityState = 0
  /\ frames = [c \in Client |->
                 [s \in 0 .. PACKET_BACKUP - 1 |-> [entityState |-> 0, numEntities |-> 0]]]
  /\ lastFrame = [c \in Client |-> -1]
  /\ network = [c \in Client |-> {}]
  /\ clFrames = [c \in Client |-> [s \in 0 .. PACKET_BACKUP - 1 |-> NoFrame]]
  /\ clFrame = [c \in Client |-> 0]
  /\ entityState = [c \in Client |-> 0]
  /\ dropped = {}

-------------------------------------------------------------------------------

\* Sv_BuildClientFrame: the states of the visible entities, by number.
Built ==
  LET built[n \in 0 .. MAX_ENTITIES] ==
        IF n = 0 THEN <<>>
        ELSE IF world[n - 1] = 0 THEN built[n - 1]
        ELSE Append(built[n - 1], [number |-> n - 1, value |-> world[n - 1]])
  IN built[MAX_ENTITIES]

\* The buffer once those states were added to it.
Added(states) ==
  [i \in DOMAIN entityStates |->
     IF \E k \in 1 .. Len(states) : StateSlot(nextEntityState + k - 1) = i
     THEN states[CHOOSE k \in 1 .. Len(states) : StateSlot(nextEntityState + k - 1) = i]
     ELSE entityStates[i]]

\* The entity states of a frame, as the buffer holds them now.
StatesOf(buffer, frame) ==
  [k \in 1 .. frame.numEntities |-> buffer[StateSlot(frame.entityState + k - 1)]]

\* Mutant: any frame the client once had is good enough.
DeltaFrameNumOfAnyAge(c) == lastFrame[c]

\* Sv_WriteClientFrame: the frame to delta from, or -1 to send the frame whole.
DeltaFrameNum(c) ==
  IF lastFrame[c] < 0 \/ frameNum - lastFrame[c] >= PACKET_BACKUP - 3
  THEN -1
  ELSE lastFrame[c]

\* Mutant: what is gone is not told.
WriteEntitiesWithoutRemovals(from, to) ==
  LET old(s) == \E i \in 1 .. Len(from) : from[i] = s
      new == SelectSeq(to, LAMBDA s : ~ old(s))
  IN [i \in 1 .. Len(new) |-> [state |-> new[i], remove |-> FALSE]]

\* Sv_WriteEntities: both lists merged by number.  An entity in both is written where it
\* differs, a new one whole, and one that is gone as a removal.
WriteEntities(from, to) ==
  LET write[p \in (1 .. Len(from) + 1) \X (1 .. Len(to) + 1)] ==
        LET i == p[1]
            j == p[2]
            old == i <= Len(from)
            new == j <= Len(to)
        IN CASE old /\ new /\ from[i].number = to[j].number ->
                  (IF from[i] = to[j] THEN <<>> ELSE <<[state |-> to[j], remove |-> FALSE]>>)
                  \o write[<<i + 1, j + 1>>]
             [] new /\ (~ old \/ to[j].number < from[i].number) ->
                  <<[state |-> to[j], remove |-> FALSE]>> \o write[<<i, j + 1>>]
             [] old /\ (~ new \/ from[i].number < to[j].number) ->
                  <<[state |-> from[i], remove |-> TRUE]>> \o write[<<i + 1, j>>]
             [] ~ old /\ ~ new -> <<>>
  IN write[<<1, 1>>]

\* Sv_SendClientDatagram: build the frame, write it and send it.
SendFrame(c) ==
  LET buffer == Added(Built)
      frame == [entityState |-> nextEntityState, numEntities |-> Len(Built)]
      delta == DeltaFrameNum(c)
      from == IF delta = -1 THEN <<>> ELSE StatesOf(buffer, frames[c][Slot(delta)])
  IN /\ entityStates' = buffer
     /\ nextEntityState' = nextEntityState + Len(Built)
     /\ frames' = [frames EXCEPT ![c][Slot(frameNum)] = frame]
     /\ network' = [network EXCEPT ![c] =
          {n \in @ : n.frameNum > frameNum - MaxInFlight} \cup
          {[frameNum |-> frameNum, deltaFrameNum |-> delta,
            entities |-> WriteEntities(from, Built), built |-> Built]}]

\* An entity changes, appears or disappears.
EntityChanges ==
  /\ changes < MaxChanges /\ changes' = changes + 1
  /\ \E e \in Entity : \E v \in (Value \cup {0}) \ {world[e]} :
       world' = [world EXCEPT ![e] = v]

\* Sv_RunGameFrame: the game may or may not change an entity.
RunGameFrame ==
  /\ turn = 0 /\ frameNum < MaxFrame
  /\ frameNum' = frameNum + 1
  /\ EntityChanges \/ UNCHANGED <<world, changes>>
  /\ turn' = 1
  /\ UNCHANGED <<entityStates, nextEntityState, frames, lastFrame, network, clientVars>>

\* Mutant: the loop over the clients goes one too far.
SendClientPacketsPastLast ==
  /\ turn # 0
  /\ SendFrame(turn)
  /\ turn' = IF turn > MaxClients THEN 0 ELSE turn + 1
  /\ UNCHANGED <<world, changes, frameNum, lastFrame, clientVars>>

\* Sv_SendClientPackets: the frame goes to one client after another.
SendClientPackets ==
  /\ turn # 0
  /\ SendFrame(turn)
  /\ turn' = IF turn = MaxClients THEN 0 ELSE turn + 1
  /\ UNCHANGED <<world, changes, frameNum, lastFrame, clientVars>>

-------------------------------------------------------------------------------

\* Cl_ParseEntities: the entities of the old frame, changed as the message says.  Which
\* message item changes which entity is told by the numbers alone, except that a removal
\* always skips an entity of the old frame.
ParseEntities(from, items) ==
  LET parse[p \in (1 .. Len(from) + 1) \X (1 .. Len(items) + 1)] ==
        LET i == p[1]
            j == p[2]
            old == i <= Len(from)
            more == j <= Len(items)
        IN CASE old /\ (~ more \/ from[i].number < items[j].state.number) ->
                  <<from[i]>> \o parse[<<i + 1, j>>]
             [] more /\ items[j].remove /\ ~ old -> parse[<<i, j + 1>>]
             [] more /\ items[j].remove /\ old /\ from[i].number >= items[j].state.number ->
                  parse[<<i + 1, j + 1>>]
             [] more /\ ~ items[j].remove /\ old /\ from[i].number = items[j].state.number ->
                  <<items[j].state>> \o parse[<<i + 1, j + 1>>]
             [] more /\ ~ items[j].remove /\ (~ old \/ from[i].number > items[j].state.number) ->
                  <<items[j].state>> \o parse[<<i, j + 1>>]
             [] ~ more /\ ~ old -> <<>>
  IN parse[<<1, 1>>]

\* The checks that end the game when the frame to delta from is not there any more.
Undecodable(c, m) ==
  LET from == clFrames[c][Slot(m.deltaFrameNum)]
  IN m.deltaFrameNum > 0 /\
       \/ ~ from.valid
       \/ from.frameNum # m.deltaFrameNum
       \/ entityState[c] - from.entityState > numEntityStates - PACKET_BACKUP

\* Cl_ParseFrame of a packet that is not stale.
ParseFrame(c, m) ==
  LET from == IF m.deltaFrameNum <= 0 THEN <<>>
              ELSE clFrames[c][Slot(m.deltaFrameNum)].entities
      entities == ParseEntities(from, m.entities)
  IN /\ turn = 0 /\ c \notin dropped
     /\ IF Undecodable(c, m)
        THEN /\ dropped' = dropped \cup {c}
             /\ UNCHANGED <<clFrames, clFrame, entityState>>
        ELSE /\ clFrames' = [clFrames EXCEPT ![c][Slot(m.frameNum)] =
                  [valid |-> TRUE, frameNum |-> m.frameNum,
                   entityState |-> entityState[c], entities |-> entities,
                   built |-> m.built]]
             /\ clFrame' = [clFrame EXCEPT ![c] = m.frameNum]
             /\ entityState' = [entityState EXCEPT ![c] = @ + Len(entities)]
             /\ UNCHANGED dropped
     /\ network' = [network EXCEPT ![c] = {n \in @ : n.frameNum > m.frameNum}]
     /\ UNCHANGED <<serverVars, lastFrame>>

\* CL_CMD_MOVE: the server learns of the newest frame that the client had when it sent
\* the packet, unless a later packet has told it already.
Acknowledge(c) ==
  /\ turn = 0
  /\ \E s \in DOMAIN clFrames[c] :
       /\ clFrames[c][s].frameNum > lastFrame[c] /\ clFrames[c][s].valid
       /\ lastFrame' = [lastFrame EXCEPT ![c] = clFrames[c][s].frameNum]
  /\ UNCHANGED <<serverVars, network, clientVars>>

Next ==
  \/ RunGameFrame
  \/ SendClientPackets
  \/ \E c \in Client : Acknowledge(c) \/ \E m \in network[c] : ParseFrame(c, m)

Spec == Init /\ [][Next]_vars

-------------------------------------------------------------------------------

\* What a client decodes is what the server built for it, frame by frame, whichever
\* frames and acknowledgements were lost in between.
DecodesWhatWasBuilt ==
  \A c \in Client : \A s \in DOMAIN clFrames[c] :
    clFrames[c][s].entities = clFrames[c][s].built

\* "We have a valid message to delta from" (Sv_WriteClientFrame): the frame that the
\* server takes the difference from is still in the client's backup, and the server's own
\* copy of its entity states is still in the circular buffer.
NeverUndecodable ==
  /\ dropped = {}
  /\ \A c \in Client : \A s \in DOMAIN clFrames[c] :
       /\ clFrames[c][s].valid /\ clFrames[c][s].frameNum = lastFrame[c]
       /\ frameNum - lastFrame[c] < PACKET_BACKUP - 3
       => StatesOf(entityStates, frames[c][Slot(lastFrame[c])]) = clFrames[c][s].built
===============================================================================
