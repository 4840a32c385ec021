----------------------------- MODULE MoveCommands -----------------------------
(***************************************************************************)
(* Player movement commands, from the client's ring of commands             *)
(* (client/cl_cmd.c, cl_predict.c) through packets that repeat the last     *)
(* three of them to their execution by the server (server/sv_client.c), and *)
(* back as the acknowledgement from which the client predicts.              *)
(*                                                                         *)
(* The channel is that of module NetChan, seen from outside: packets may be *)
(* lost and reordered, and what arrives with an old sequence number is      *)
(* discarded.  A change of level opens a new one, whose sequence numbers    *)
(* start again.  A command is named by its id, the number of packets that   *)
(* the client had sent on all its channels when it sent the one the command *)
(* was gathered for; 0 is the zeroed command.                               *)
(***************************************************************************)
EXTENDS Integers, Sequences, SequencesExt

CONSTANTS
  CMD_BACKUP,   \* the commands the client remembers: 256 in the code
  LateMoves,    \* whether the client's packets of a former channel may arrive on a new one
  MaxSequence,  \* bound: the last packet the client sends on a channel
  MaxLevels     \* bound: how many levels the server loads

ASSUME CmdAssumption ==
  /\ CMD_BACKUP \in Nat /\ CMD_BACKUP >= 3
  /\ LateMoves \in BOOLEAN
  /\ MaxSequence \in Nat
  /\ MaxLevels \in Nat \ {0}

VARIABLES
  outgoingSequence,      \* of the client: the packet, and so the command, being gathered
  cmds,                  \* the client's ring of commands, and which have been predicted
  incomingAcknowledged,  \* of the client: the newest of its packets the server accepted
  frame,                 \* the newest command executed in the client's newest frame
  incomingSequence,      \* of the server: the newest packet accepted from the client
  phase,                 \* where client and server are in a change of level
  network,               \* the packets of the client; any may yet arrive
  frames,                \* the packets of the server that may yet arrive
  executed,              \* history: the commands executed in this level
  received,              \* history: the packets accepted on the server's channel
  opened,                \* history: what the client sent before it opened its channel
  levels                 \* how many levels were loaded

clientVars == <<outgoingSequence, cmds, incomingAcknowledged, frame>>
serverVars == <<incomingSequence, executed, received>>
vars == <<clientVars, serverVars, phase, network, frames, opened, levels>>

(***************************************************************************)
(* The phases of a level, told by the state of the client at each end:      *)
(*   connected     client CL_CONNECTED,   server SV_CLIENT_CONNECTED        *)
(*   loading       client CL_LOADING,     server SV_CLIENT_CONNECTED        *)
(*   begun         client CL_LOADING,     server SV_CLIENT_ACTIVE           *)
(*   playing       client CL_ACTIVE,      server SV_CLIENT_ACTIVE           *)
(*   changing      client CL_ACTIVE,      server SV_CLIENT_CONNECTED        *)
(*   reconnecting  client CL_CONNECTING,  server SV_CLIENT_CONNECTED        *)
(*   granted       the same, and the server has set up its new channel      *)
(***************************************************************************)
Phases == {"connected", "loading", "begun", "playing", "changing", "reconnecting", "granted"}

clientActive == phase \in {"playing", "changing"}
serverActive == phase \in {"begun", "playing"}

Slot(n) == n % CMD_BACKUP   \* n & CMD_MASK

Zeroed == [command |-> 0, predicted |-> FALSE]

Packet == [sequence : 1 .. MaxSequence, kind : {"move", "begin", "keepalive"},
           spawnCount : 0 .. MaxLevels, moves : [1 .. 3 -> Nat]]

ServerPacket == [ack : 0 .. MaxSequence, kind : {"frame", "reconnect", "other"}, last : Nat]

TypeOK ==
  /\ outgoingSequence \in 1 .. MaxSequence + 1
  /\ cmds \in [0 .. CMD_BACKUP - 1 -> [command : Nat, predicted : BOOLEAN]]
  /\ incomingAcknowledged \in 0 .. MaxSequence
  /\ frame \in Nat
  /\ incomingSequence \in 0 .. MaxSequence
  /\ phase \in Phases
  /\ network \subseteq Packet
  /\ frames \subseteq ServerPacket
  /\ executed \in Seq(Nat \ {0})
  /\ received \subseteq 1 .. MaxSequence
  /\ opened \in Nat
  /\ levels \in 1 .. MaxLevels

Init ==
  /\ outgoingSequence = 1 /\ incomingSequence = 0 /\ incomingAcknowledged = 0
  /\ cmds = [s \in 0 .. CMD_BACKUP - 1 |-> Zeroed]
  /\ frame = 0 /\ phase = "connected"
  /\ network = {} /\ frames = {}
  /\ executed = <<>> /\ received = {} /\ opened = 0 /\ levels = 1

-------------------------------------------------------------------------------

\* Every packet takes the next sequence number, whatever is in it.
SendPacket(kind, spawnCount, moves) ==
  /\ outgoingSequence <= MaxSequence
  /\ network' = network \cup
       {[sequence |-> outgoingSequence, kind |-> kind, spawnCount |-> spawnCount,
         moves |-> moves]}
  /\ outgoingSequence' = outgoingSequence + 1

\* Cl_SendCommands before the client is active: no command is gathered or written.  The
\* packet may carry "begin", with the spawnCount of the level that the client loaded.
SendKeepalive ==
  /\ \/ phase \in {"loading", "begun"} /\ SendPacket("begin", levels, <<0, 0, 0>>)
     \/ phase \in {"connected", "loading", "begun"} /\ SendPacket("keepalive", 0, <<0, 0, 0>>)
  /\ UNCHANGED <<cmds, incomingAcknowledged, frame, serverVars, phase, frames, opened, levels>>

\* Cl_FinalizeMovementCommand: the command being gathered is complete.
Finalized ==
  [cmds EXCEPT ![Slot(outgoingSequence)].command = opened + outgoingSequence]

\* Cl_WriteMovementCommand: the three newest commands, oldest first.
WrittenMoves ==
  [i \in 1 .. 3 |-> Finalized[Slot(outgoingSequence - 3 + i)].command]

\* Cl_SendCommands of an active client: finalize, write, transmit, and clear the slot of
\* the next command (Cl_InitMovementCommand).
SendMove ==
  /\ clientActive
  /\ SendPacket("move", 0, WrittenMoves)
  /\ cmds' = [Finalized EXCEPT ![Slot(outgoingSequence + 1)] = Zeroed]
  /\ UNCHANGED <<incomingAcknowledged, frame, serverVars, phase, frames, opened, levels>>

\* The commands Cl_PredictMovement replays: those the server has not acknowledged.
Unacknowledged == incomingAcknowledged + 1 .. outgoingSequence

\* Cl_PredictMovement replays them and stamps each, unless it is too far out of date.
PredictMovement ==
  /\ clientActive
  /\ outgoingSequence - incomingAcknowledged < CMD_BACKUP
  /\ cmds' = [s \in DOMAIN cmds |->
                [cmds[s] EXCEPT !.predicted = @ \/ s \in {Slot(n) : n \in Unacknowledged}]]
  /\ UNCHANGED <<outgoingSequence, incomingAcknowledged, frame, serverVars, phase,
                 network, frames, opened, levels>>

-------------------------------------------------------------------------------

\* The packets lost between this one and the last (NetChan_Process).
Dropped(m) == m.sequence - (incomingSequence + 1)

\* Mutant: a zeroed command moves the player like any other.
EffectiveZeroed(command) == <<command>>

\* Sv_ClientThink: a zeroed command lasts no time and moves nothing, and leaves no trace.
Effective(command) == IF command = 0 THEN <<>> ELSE <<command>>

\* Mutants: every packet's commands are all executed; or only one lost packet is made up for.
ThinksAll(m) ==
  IF m.kind = "move" /\ serverActive
  THEN Effective(m.moves[1]) \o Effective(m.moves[2]) \o Effective(m.moves[3])
  ELSE <<>>

ThinksOneBackup(m) ==
  IF m.kind = "move" /\ serverActive
  THEN (IF Dropped(m) > 0 THEN Effective(m.moves[2]) ELSE <<>>) \o Effective(m.moves[3])
  ELSE <<>>

\* CL_CMD_MOVE: the commands of a packet that the server executes, oldest first.
Thinks(m) ==
  IF m.kind = "move" /\ serverActive
  THEN (IF Dropped(m) > 1 THEN Effective(m.moves[1]) ELSE <<>>) \o
       (IF Dropped(m) > 0 THEN Effective(m.moves[2]) ELSE <<>>) \o Effective(m.moves[3])
  ELSE <<>>

\* Sv_Begin_f: the player spawns, unless the client loaded another level than this one.
\* Several packets may carry the one "begin", of which the channel hands over the first.
Begins(m) == m.kind = "begin" /\ m.spawnCount = levels /\ ~ serverActive

\* Sv_ReadPackets: a packet that is not stale is parsed; a move that comes before "begin"
\* or after the level ended is ignored.
Receive(m) ==
  /\ m.sequence > incomingSequence
  /\ incomingSequence' = m.sequence
  /\ received' = received \cup {m.sequence}
  /\ executed' = executed \o Thinks(m)
  /\ phase' = IF Begins(m) THEN "begun" ELSE phase
  /\ UNCHANGED <<clientVars, network, frames, opened, levels>>

\* Sv_SendClientPackets: to a client that is active goes the state after all commands read
\* so far, and an acknowledgement in the same packet.  Messages that do not fit, and what a
\* client is sent before it is active, go in packets that acknowledge as much but have no
\* frame.
SendAcknowledging(sequence) ==
  /\ frames' = frames \cup {[ack |-> sequence, kind |-> "other", last |-> 0]} \cup
       IF serverActive
       THEN {[ack |-> sequence, kind |-> "frame",
              last |-> IF executed = <<>> THEN 0 ELSE Last(executed)]}
       ELSE {}
  /\ UNCHANGED <<clientVars, serverVars, phase, network, opened, levels>>

\* Mutant: acknowledges one packet less than the state includes.
SendFrameAcknowledgingPrevious ==
  incomingSequence > 0 /\ SendAcknowledging(incomingSequence - 1)

\* The acknowledgement is of every packet read so far (NetChan_Transmit).
SendFrame == SendAcknowledging(incomingSequence)

\* Cl_ReadPackets of a packet that is not stale, unless the client is connecting, which drops
\* it.  The first frame makes the client active; SV_CMD_RECONNECT makes it connect again.
ReceiveFrame(f) ==
  /\ phase \notin {"reconnecting", "granted"}
  /\ f.ack >= incomingAcknowledged
  /\ incomingAcknowledged' = f.ack
  /\ frame' = IF f.kind = "frame" THEN f.last ELSE frame
  /\ phase' = CASE f.kind = "reconnect" -> "reconnecting"
                [] f.kind = "frame" /\ phase = "begun" -> "playing"
                [] OTHER -> phase
  /\ frames' = {g \in frames : g.ack >= f.ack}
  /\ UNCHANGED <<outgoingSequence, cmds, serverVars, network, opened, levels>>

-------------------------------------------------------------------------------

\* Sv_InitServer: another level, to which every client has to come again.
ServerLoad ==
  /\ phase = "playing" /\ levels < MaxLevels
  /\ phase' = "changing" /\ levels' = levels + 1
  /\ executed' = <<>>
  /\ frames' = frames \cup {[ack |-> incomingSequence, kind |-> "reconnect", last |-> 0]}
  /\ UNCHANGED <<clientVars, incomingSequence, received, network, opened>>

\* Sv_Connect_f: the client keeps its slot and gets a new channel (NetChan_Setup), on which
\* packets of the former one are late.
GrantConnect ==
  /\ phase = "reconnecting"
  /\ phase' = "granted"
  /\ incomingSequence' = 0 /\ received' = {}
  /\ network' = IF LateMoves THEN network ELSE {}
  /\ frames' = {}
  /\ UNCHANGED <<clientVars, executed, opened, levels>>

\* Cl_ConnectionlessPacket of "clientConnect": the client's new channel.
ClientConnect ==
  /\ phase = "granted"
  /\ phase' = "connected"
  /\ outgoingSequence' = 1 /\ incomingAcknowledged' = 0
  /\ opened' = opened + outgoingSequence - 1
  /\ UNCHANGED <<cmds, frame, serverVars, network, frames, levels>>

\* Mutant: the ring of commands outlives the level.
ClientLoadKeepingCommands ==
  /\ phase = "connected" /\ received # {}
  /\ phase' = "loading"
  /\ frame' = 0
  /\ UNCHANGED <<outgoingSequence, cmds, incomingAcknowledged, serverVars, network, frames,
                 opened, levels>>

\* Cl_ParseServerData, the answer to the "new" of a packet the server has read: the client
\* clears its state, the ring of commands with it.
ClientLoad ==
  /\ phase = "connected" /\ received # {}
  /\ phase' = "loading"
  /\ cmds' = [s \in DOMAIN cmds |-> Zeroed]
  /\ frame' = 0
  /\ UNCHANGED <<outgoingSequence, incomingAcknowledged, serverVars, network, frames, opened,
                 levels>>

Next ==
  \/ SendKeepalive
  \/ SendMove
  \/ PredictMovement
  \/ \E m \in network : Receive(m)
  \/ SendFrame
  \/ \E f \in frames : ReceiveFrame(f)
  \/ ServerLoad
  \/ GrantConnect
  \/ ClientConnect
  \/ ClientLoad

Spec == Init /\ [][Next]_vars

-------------------------------------------------------------------------------

\* Commands repeated in several packets are executed once and in the order they were
\* gathered, whichever of the packets arrive.
ExecutedOnceInOrder ==
  \A i, j \in DOMAIN executed : i < j => executed[i] < executed[j]

\* "Stale in-flight packets from the previous map arrive during level transitions before the
\* client has processed our reconnect message. Ignore them quietly" (Sv_ParseClientMessage):
\* no command gathered in one level is executed in the next, neither from such a packet nor as
\* one of the older commands that the first packets of the level repeat.
NothingFromFormerLevel ==
  serverActive => \A i \in DOMAIN executed : executed[i] > opened

\* "The client sends their 3 most recent movement commands every frame to combat packet
\* loss": a command of this level that the server is past was executed, unless its packet
\* and the two that repeat it were all lost.
LostOnlyAfterThree ==
  phase = "playing" =>
    \A m \in network :
      /\ m.kind = "move" /\ m.moves[3] > opened
      /\ m.sequence <= incomingSequence
      /\ {m.sequence, m.sequence + 1, m.sequence + 2} \cap received # {}
      => Contains(executed, m.moves[3])

\* Prediction starts from a frame whose state includes no command it goes on to replay, and
\* every replayed slot of the ring holds the command that was sent under its number.  The
\* frame is compared with the prediction made for "the last ClientCmd we sent that the server
\* has processed" (Cl_CheckPredictionError), however far the client is behind: a slot that
\* was reused since has no prediction to compare with, and one of a packet without a move
\* has the zeroed command.
PredictsFromFrame ==
  LET acknowledged == cmds[Slot(incomingAcknowledged)] IN
  /\ phase = "playing" =>
       /\ frame <= opened + incomingAcknowledged
       /\ outgoingSequence - incomingAcknowledged < CMD_BACKUP =>
            \A n \in Unacknowledged :
              n < outgoingSequence /\ cmds[Slot(n)].command # 0
                => cmds[Slot(n)].command = opened + n
  /\ clientActive /\ acknowledged.predicted
       => acknowledged.command \in {0, opened + incomingAcknowledged}
===============================================================================
