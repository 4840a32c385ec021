----------------------------- MODULE Connection -----------------------------
(***************************************************************************)
(* How clients connect to a server, load its level, follow it to the next  *)
(* level, and leave (client/cl_main.c, client/cl_parse.c,                  *)
(* server/sv_main.c, server/sv_client.c, server/sv_init.c).                *)
(*                                                                         *)
(* Connectionless packets, and those that are sent once and unreliably     *)
(* (disconnect, drop, reconnect), are in the network: they arrive in any   *)
(* order or not at all.  Reliable commands wait in the message buffer of   *)
(* their channel and are read in order, once: that is what                 *)
(* ReliableStream promises of two ends that were set up for each other.    *)
(* While only one of the ends was set up again a command may also be lost. *)
(* The batches of config strings and of baselines are one command each.    *)
(***************************************************************************)
EXTENDS Integers, Sequences, FiniteSets

CONSTANTS
  Clients,       \* the clients' addresses
  NoClient,      \* the address of a slot that no client has
  MaxClients,    \* sv_maxClients: the slots of the server
  MinClients,    \* sv_minClients: bots fill the slots up to that number
  Challenges,    \* what Randomu may return for a challenge
  MaxSpawn,      \* bound: the levels that the server loads between two restarts
  MaxInFlight,   \* bound: a packet too many for the network is lost
  MaxWaiting     \* bound: the commands that wait in a message buffer

ASSUME ConnectionAssumption ==
  /\ NoClient \notin Clients
  /\ MaxClients \in Nat \ {0} /\ MinClients \in 0 .. MaxClients
  /\ Challenges # {} /\ Challenges \subseteq Nat \ {0}
  /\ MaxSpawn \in Nat \ {0} /\ MaxInFlight \in Nat \ {0} /\ MaxWaiting \in Nat \ {0}

VARIABLES
  clState,      \* cls.state of each client
  clMessage,    \* cls.netChan.message: the commands it has yet to deliver
  clSpawn,      \* cls.server.spawnCount: the level it was told to load
  spawnCount,   \* svs.spawnCount
  challenges,   \* svs.challenges, by address: NoChallenge where there is none
  slots,        \* svs.clients: the state, the address, and netChan.message
  gclients,     \* GameClient.inUse and .ai of each slot: "free", "human" or "bot"
  chan,         \* how the channel's two ends were set up: "fresh" at the server only
  network,      \* the packets on their way: to whom, and what
  late          \* history: a packet that only time could have told from lost was answered
                \* twice, or the one reconnect packet was lost, or all packets for a while

clientVars == <<clState, clMessage, clSpawn>>
serverVars == <<spawnCount, challenges, slots, gclients, chan>>
vars == <<clientVars, serverVars, network, late>>

Slot == 1 .. MaxClients
NoChallenge == -1
Challenge == Challenges \cup {0}                  \* a challenge that was used is 0

ClientState == {"disconnected", "connecting", "connected", "loading", "active"}
Transmitting == {"connected", "loading", "active"}   \* cls.state > CL_CONNECTING
SlotState == {"free", "connected", "active"}

Cmd(name, n) == [cmd |-> name, spawn |-> n]
ToServer(c, name, n) == [to |-> "server", client |-> c, cmd |-> name, value |-> n]
ToClient(c, name, n) == [to |-> "client", client |-> c, cmd |-> name, value |-> n]

Packet ==
  [to : {"server", "client"}, client : Clients, value : Challenge,
   cmd : {"getChallenge", "connect", "disconnect", "challenge", "clientConnect",
          "drop", "reconnect"}]

\* A network to which packets were added.
Sent(packets, added) ==
  IF Cardinality(packets \cup added) <= MaxInFlight THEN packets \cup added ELSE packets

\* What memset leaves of a ServerClient.
FreeSlot == [state |-> "free", client |-> NoClient, message |-> <<>>]

ClientCommand ==
  [cmd : {"new", "configStrings", "baselines", "begin"}, spawn : 0 .. MaxSpawn]
ServerCommand ==
  [cmd : {"serverData", "baselines", "precache"}, spawn : 0 .. MaxSpawn]
ServerClient ==
  [state : SlotState, client : Clients \cup {NoClient}, message : Seq(ServerCommand)]

TypeOK ==
  /\ clState \in [Clients -> ClientState]
  /\ clMessage \in [Clients -> Seq(ClientCommand)]
  /\ clSpawn \in [Clients -> 0 .. MaxSpawn]
  /\ spawnCount \in 1 .. MaxSpawn
  /\ challenges \in [Clients -> Challenge \cup {NoChallenge}]
  /\ slots \in [Slot -> ServerClient]
  /\ gclients \in [Slot -> {"free", "human", "bot"}]
  /\ chan \in [Slot -> {"fresh", "paired", "broken"}]
  /\ network \subseteq Packet
  /\ late \in BOOLEAN

\* Mutant: the count is cleared after it was increased.
ClearedSpawnCount == 0

\* Sv_InitGame clears svs.spawnCount and Sv_InitEntities increases it.
FirstSpawnCount == 1

Init ==
  /\ clState = [c \in Clients |-> "disconnected"]
  /\ clMessage = [c \in Clients |-> <<>>]
  /\ clSpawn = [c \in Clients |-> 0]
  /\ spawnCount = FirstSpawnCount
  /\ challenges = [c \in Clients |-> NoChallenge]
  /\ slots = [s \in Slot |-> FreeSlot]
  /\ gclients = [s \in Slot |-> "free"]
  /\ chan = [s \in Slot |-> "broken"]
  /\ network = {}
  /\ late = FALSE

Used(s) == slots[s].state # "free"
Least(S) == CHOOSE s \in S : \A t \in S : s <= t

\* The slots whose channel has the client's address.
Owned(c) == {s \in Slot : Used(s) /\ slots[s].client = c}

-------------------------------------------------------------------------------
\* The client's own steps.

\* Cl_Disconnect: one packet, unless it is disconnected already.
Disconnected(c) ==
  /\ clState' = [clState EXCEPT ![c] = "disconnected"]
  /\ clMessage' = [clMessage EXCEPT ![c] = <<>>]

\* Cl_Disconnect_f.
Cl_Disconnect(c) ==
  /\ clState[c] # "disconnected"
  /\ Disconnected(c)
  /\ network' = Sent(network, {ToServer(c, "disconnect", 0)})
  /\ UNCHANGED <<clSpawn, serverVars, late>>

\* The packets of the handshake that have not yet arrived.
InHandshake(c) ==
  {p \in network : p.client = c
                   /\ p.cmd \in {"getChallenge", "challenge", "connect", "clientConnect"}}

\* Cl_Connect: from whatever it was doing.
Cl_Connect(c) ==
  /\ clState' = [clState EXCEPT ![c] = "connecting"]
  /\ clMessage' = [clMessage EXCEPT ![c] = <<>>]
  /\ network' = IF clState[c] = "disconnected" THEN network
                ELSE Sent(network, {ToServer(c, "disconnect", 0)})
  /\ UNCHANGED <<clSpawn, serverVars, late>>

\* Cl_AttemptConnect: at once, and again after a second.
Cl_AttemptConnect(c) ==
  /\ clState[c] = "connecting"
  /\ network' = Sent(network, {ToServer(c, "getChallenge", 0)})
  /\ late' = (late \/ InHandshake(c) # {})
  /\ UNCHANGED <<clientVars, serverVars>>

\* Cl_ReadPackets: cl_timeout.  A server that has a slot for the client is only
\* this silent when its packets are lost.
Cl_Timeout(c) ==
  /\ clState[c] \in Transmitting
  /\ Disconnected(c)
  /\ network' = Sent(network, {ToServer(c, "disconnect", 0)})
  /\ late' = (late \/ Owned(c) # {})
  /\ UNCHANGED <<clSpawn, serverVars>>

-------------------------------------------------------------------------------
\* What the client does with a connectionless or unreliable packet p.

\* Cl_SendConnect, once the challenge is known.
Cl_Challenge(p) ==
  /\ p.cmd = "challenge"
  /\ network' = IF clState[p.client] = "connecting"
                THEN Sent(network \ {p}, {ToServer(p.client, "connect", p.value)})
                ELSE network \ {p}
  /\ UNCHANGED <<clientVars, serverVars, late>>

\* Cl_ConnectionlessPacket: a client that is connected takes it for a duplicate.
IgnoresConnect(c) == clState[c] = "connected"

\* NetChan_Setup at the client, and the first command.
Cl_ClientConnect(p) ==
  LET c == p.client
  IN /\ p.cmd = "clientConnect"
     /\ network' = network \ {p}
     /\ IF IgnoresConnect(c) THEN UNCHANGED <<clState, clMessage, chan>>
        ELSE /\ clState' = [clState EXCEPT ![c] = "connected"]
             /\ clMessage' = [clMessage EXCEPT ![c] = <<Cmd("new", 0)>>]
             /\ chan' = [s \in Slot |-> IF s \notin Owned(c) THEN chan[s]
                                        ELSE IF chan[s] = "fresh" THEN "paired" ELSE "broken"]
     /\ UNCHANGED <<clSpawn, spawnCount, challenges, slots, gclients, late>>

\* SV_CMD_DISCONNECT ends with Cl_Disconnect, and SV_CMD_DROP with an error that does.
\* A client that is not yet connected reads neither.
Cl_Dropped(p) ==
  LET c == p.client
  IN /\ p.cmd \in {"drop", "disconnect"} /\ p.to = "client"
     /\ IF clState[c] \in Transmitting
        THEN Disconnected(c) /\ network' = Sent(network \ {p}, {ToServer(c, "disconnect", 0)})
        ELSE UNCHANGED <<clState, clMessage>> /\ network' = network \ {p}
     /\ UNCHANGED <<clSpawn, serverVars, late>>

\* SV_CMD_RECONNECT.
Cl_Reconnect(p) ==
  /\ p.cmd = "reconnect"
  /\ clState' = IF clState[p.client] \in Transmitting
                THEN [clState EXCEPT ![p.client] = "connecting"] ELSE clState
  /\ network' = network \ {p}
  /\ UNCHANGED <<clMessage, clSpawn, serverVars, late>>

-------------------------------------------------------------------------------
\* What the server does with a connectionless or unreliable packet p.

\* Sv_GetChallenge_f: an address keeps the challenge it has, a used one too.
Sv_GetChallenge(p) ==
  /\ p.cmd = "getChallenge"
  /\ IF challenges[p.client] = NoChallenge
     THEN \E n \in Challenges : challenges' = [challenges EXCEPT ![p.client] = n]
     ELSE UNCHANGED challenges
  /\ network' = Sent(network \ {p}, {ToClient(p.client, "challenge", challenges'[p.client])})
  /\ UNCHANGED <<clientVars, spawnCount, slots, gclients, chan, late>>

\* Mutant: the slot of an ungraceful reconnect is not looked for.
ChosenFreeSlots(c) == {s \in Slot : ~Used(s)}

\* Sv_Connect_f: the slot of an ungraceful reconnect, else a free one, else a bot's.
ChosenSlots(c) ==
  LET free == {s \in Slot : ~Used(s)}
      bots == {s \in Slot : gclients[s] = "bot"}
  IN IF Owned(c) # {} THEN Owned(c) ELSE IF free # {} THEN free ELSE bots

\* Sv_Connect_f.  The challenge is good once; "Server is full" answers a client that
\* no slot is found for, and the game may refuse it (a password) after a bot made room.
Sv_Connect(p) ==
  LET c == p.client
      chosen == ChosenSlots(c)
      s == Least(chosen)
  IN /\ p.cmd = "connect"
     /\ IF challenges[c] # p.value
        THEN /\ network' = network \ {p}
             /\ UNCHANGED <<challenges, slots, gclients, chan>>
        ELSE /\ challenges' = [challenges EXCEPT ![c] = 0]
             /\ \/ /\ gclients' = IF chosen # {} /\ gclients[s] = "bot"      \* refused
                                  THEN [gclients EXCEPT ![s] = "free"] ELSE gclients
                   /\ network' = network \ {p}
                   /\ UNCHANGED <<slots, chan>>
                \/ /\ chosen # {}
                   /\ gclients' = [gclients EXCEPT ![s] = "human"]
                   /\ slots' = [slots EXCEPT ![s] = [state |-> "connected", client |-> c,
                                                     message |-> <<>>]]
                   /\ chan' = [chan EXCEPT ![s] = "fresh"]
                   /\ network' = Sent(network \ {p}, {ToClient(c, "clientConnect", 0)})
     /\ UNCHANGED <<clientVars, spawnCount, late>>

\* Mutant: the game is not told.
DropClientUntold(s) ==
  /\ slots' = [slots EXCEPT ![s] = FreeSlot]
  /\ chan' = [chan EXCEPT ![s] = "broken"]
  /\ UNCHANGED gclients

\* Sv_DropClient, for the slot of a human: the packets it adds to the network.
DropClient(s) ==
  /\ slots' = [slots EXCEPT ![s] = FreeSlot]
  /\ gclients' = [gclients EXCEPT ![s] = "free"]
  /\ chan' = [chan EXCEPT ![s] = "broken"]
DropPacket(s) == {ToClient(slots[s].client, "drop", 0)}

\* Sv_Disconnect_f.
Sv_Disconnect(p) ==
  /\ p.cmd = "disconnect" /\ p.to = "server"
  /\ IF Owned(p.client) # {}
     THEN LET s == Least(Owned(p.client))
          IN DropClient(s) /\ network' = Sent(network \ {p}, DropPacket(s))
     ELSE network' = network \ {p} /\ UNCHANGED <<slots, gclients, chan>>
  /\ UNCHANGED <<clientVars, spawnCount, challenges, late>>

-------------------------------------------------------------------------------
\* Reliable commands.

\* Mutant: nobody asks for which level the command was.
NeverStale(m) == FALSE

Stale(m) == m.spawn # spawnCount

Reply(s, name) ==
  slots' = [slots EXCEPT ![s].message = Append(@, Cmd(name, spawnCount))]

\* NetChan_Process of a command that the other end sent before it was set up again.
Mismatched(s) == IF chan[s] = "fresh" THEN "broken" ELSE chan[s]
ServerTakes(c, s) ==
  /\ s \in Owned(c) /\ clState[c] \in Transmitting /\ clMessage[c] # <<>>
  /\ Len(slots[s].message) < MaxWaiting
  /\ clMessage' = [clMessage EXCEPT ![c] = Tail(@)]

\* Sv_New_f, Sv_ConfigStrings_f, Sv_Baselines_f and Sv_Begin_f.
Sv_Command(c, s) ==
  LET m == Head(clMessage[c])
      connected == slots[s].state = "connected"
      dropped == ~connected /\ m.cmd \in {"new", "begin"}
  IN /\ ServerTakes(c, s)
     /\ \/ /\ dropped
           /\ DropClient(s)
           /\ network' = Sent(network, DropPacket(s))
        \/ /\ ~dropped
           /\ \/ ~connected /\ UNCHANGED slots
              \/ connected /\ (m.cmd = "new" \/ Stale(m)) /\ Reply(s, "serverData")
              \/ connected /\ ~Stale(m) /\ m.cmd = "configStrings" /\ Reply(s, "baselines")
              \/ connected /\ ~Stale(m) /\ m.cmd = "baselines" /\ Reply(s, "precache")
              \/ /\ connected /\ ~Stale(m) /\ m.cmd = "begin"
                 /\ slots' = [slots EXCEPT ![s].state = "active"]
           /\ chan' = [chan EXCEPT ![s] = Mismatched(s)]
           /\ UNCHANGED <<gclients, network>>
     /\ UNCHANGED <<clState, clSpawn, spawnCount, challenges, late>>

\* Mutant: asked for at precache, and again when the last download ends.
BeginsTwice(m) == <<Cmd("begin", m.spawn), Cmd("begin", m.spawn)>>

\* Cl_RequestNextDownload, when nothing is left to download.
Begins(m) == <<Cmd("begin", m.spawn)>>

ClientTakes(c, s) ==
  /\ s \in Owned(c) /\ clState[c] \in Transmitting /\ slots[s].message # <<>>
  /\ Len(clMessage[c]) < MaxWaiting
  /\ slots' = [slots EXCEPT ![s].message = Tail(@)]

\* Cl_ParseServerData clears what was not yet sent; each command names the next one,
\* and precache loads the media and asks to begin.
Cl_Command(c, s) ==
  LET m == Head(slots[s].message)
  IN /\ ClientTakes(c, s)
     /\ \/ /\ m.cmd = "serverData"
           /\ clMessage' = [clMessage EXCEPT ![c] = <<Cmd("configStrings", m.spawn)>>]
           /\ UNCHANGED <<clState, clSpawn>>
        \/ /\ m.cmd = "baselines"
           /\ clMessage' = [clMessage EXCEPT ![c] = Append(@, Cmd("baselines", m.spawn))]
           /\ UNCHANGED <<clState, clSpawn>>
        \/ /\ m.cmd = "precache"
           /\ clMessage' = [clMessage EXCEPT ![c] = @ \o Begins(m)]
           /\ clState' = [clState EXCEPT ![c] = "loading"]
           /\ clSpawn' = [clSpawn EXCEPT ![c] = m.spawn]
     /\ chan' = [chan EXCEPT ![s] = Mismatched(s)]
     /\ UNCHANGED <<spawnCount, challenges, gclients, network, late>>

\* A command is lost between an end that was set up again and one that was not.
LoseCommand(c, s) ==
  /\ chan[s] # "paired"
  /\ \/ ServerTakes(c, s) /\ UNCHANGED slots
     \/ ClientTakes(c, s) /\ UNCHANGED clMessage
  /\ chan' = [chan EXCEPT ![s] = "broken"]
  /\ UNCHANGED <<clState, clSpawn, spawnCount, challenges, gclients, network, late>>

\* Cl_ParseFrame: the first valid frame.
Cl_ParseFrame(c) ==
  /\ clState[c] = "loading"
  /\ \E s \in Owned(c) : slots[s].state = "active"
  /\ clState' = [clState EXCEPT ![c] = "active"]
  /\ UNCHANGED <<clMessage, clSpawn, serverVars, network, late>>

-------------------------------------------------------------------------------
\* The server's own steps.

\* Mutant: only clients that have begun time out.
TimesOutWhenActive(s) == slots[s].state = "active" /\ slots[s].client # NoClient

TimesOut(s) == Used(s) /\ slots[s].client # NoClient

\* Sv_CheckTimeouts: a bot never times out, and a client that transmits does only
\* when its packets are lost.
Sv_Timeout(s) ==
  LET c == slots[s].client
  IN /\ TimesOut(s)
     /\ DropClient(s)
     /\ network' = Sent(network, DropPacket(s))
     /\ late' = (late \/ clState[c] \in Transmitting)
     /\ UNCHANGED <<clientVars, spawnCount, challenges>>

\* Sv_SyncGameClients: a slot for each bot that connected, none for what is gone.
Synced(seats) ==
  [s \in Slot |-> IF ~Used(s) /\ seats[s] = "bot" THEN [FreeSlot EXCEPT !.state = "active"]
                  ELSE IF Used(s) /\ seats[s] = "free" THEN FreeSlot
                  ELSE slots[s]]

\* G_Ai_Frame, once a second: the players are the bots and those humans who do not
\* watch.  A level's first frame is never one of these.
Seats(kind) == {s \in Slot : gclients[s] = kind}
G_Ai_Frame ==
  \/ gclients' = gclients
  \/ /\ \A s \in Seats("free") : slots[s].state # "connected"
     /\ \E players \in Cardinality(Seats("bot")) ..
                         Cardinality(Seats("bot") \cup Seats("human")) :
          \/ /\ players < MinClients /\ Seats("free") # {}
             /\ gclients' = [gclients EXCEPT ![Least(Seats("free"))] = "bot"]
          \/ /\ players > MinClients /\ Seats("bot") # {}
             /\ gclients' = [gclients EXCEPT ![Least(Seats("bot"))] = "free"]

\* Sv_RunGameFrame.
Sv_RunGameFrame ==
  /\ G_Ai_Frame
  /\ slots' = Synced(gclients')
  /\ UNCHANGED <<clientVars, spawnCount, challenges, chan, network, late>>

\* Sv_ReconnectClients: whoever had begun has to begin again.
ReconnectClients ==
  [s \in Slot |-> IF slots[s].state = "active" THEN [slots[s] EXCEPT !.state = "connected"]
                  ELSE slots[s]]

HumanSlots == {s \in Slot : Used(s) /\ slots[s].client # NoClient}

\* Mutant: nobody is told of the new level.
ReconnectNobody == {}

\* Sv_ShutdownMessage with a reconnect.
ReconnectPackets == {ToClient(slots[s].client, "reconnect", 0) : s \in HumanSlots}

\* Sv_InitServer for the next level: one reconnect packet to each client, and
\* G_SpawnEntities disconnects the bots.
Sv_InitServer ==
  /\ spawnCount < MaxSpawn
  /\ spawnCount' = spawnCount + 1
  /\ network' = Sent(network, ReconnectPackets)
  /\ late' = (late \/ ~(ReconnectPackets \subseteq network'))
  /\ slots' = ReconnectClients
  /\ gclients' = [s \in Slot |-> IF gclients[s] = "bot" THEN "free" ELSE gclients[s]]
  /\ UNCHANGED <<clientVars, challenges, chan>>

\* The server process ends, with Sv_ShutdownMessage or in a crash, and starts again.
Sv_Restart ==
  /\ slots' = [s \in Slot |-> FreeSlot]
  /\ gclients' = [s \in Slot |-> "free"]
  /\ chan' = [s \in Slot |-> "broken"]
  /\ challenges' = [c \in Clients |-> NoChallenge]
  /\ spawnCount' = FirstSpawnCount
  /\ \/ network' = Sent(network, {ToClient(slots[s].client, "disconnect", 0) : s \in HumanSlots})
     \/ UNCHANGED network
  /\ UNCHANGED <<clientVars, late>>

-------------------------------------------------------------------------------

Receive(p) ==
  \/ Cl_Challenge(p) \/ Cl_ClientConnect(p) \/ Cl_Dropped(p) \/ Cl_Reconnect(p)
  \/ Sv_GetChallenge(p) \/ Sv_Connect(p) \/ Sv_Disconnect(p)

\* The network loses a packet.
Lose(p) ==
  /\ network' = network \ {p}
  /\ late' = (late \/ p.cmd = "reconnect")
  /\ UNCHANGED <<clientVars, serverVars>>

Next ==
  \/ \E p \in network : Receive(p) \/ Lose(p)
  \/ \E c \in Clients :
       \/ Cl_Disconnect(c) \/ Cl_Connect(c) \/ Cl_AttemptConnect(c) \/ Cl_Timeout(c)
       \/ Cl_ParseFrame(c)
       \/ \E s \in Slot : Sv_Command(c, s) \/ Cl_Command(c, s) \/ LoseCommand(c, s)
  \/ \E s \in Slot : Sv_Timeout(s)
  \/ Sv_RunGameFrame \/ Sv_InitServer \/ Sv_Restart

\* Both programs run their frames, which read what arrived, send what waits and look
\* at the timeouts; and no packet is on its way for ever.
Fairness ==
  /\ \A p \in Packet : WF_vars(p \in network /\ (Receive(p) \/ Lose(p)))
  /\ \A c \in Clients :
       /\ WF_vars(Cl_ParseFrame(c))
       /\ WF_vars(Owned(c) = {} /\ Cl_Timeout(c))
       /\ \A s \in Slot : WF_vars(Sv_Command(c, s)) /\ WF_vars(Cl_Command(c, s))
  /\ \A s \in Slot : WF_vars(/\ slots[s].client # NoClient
                             /\ clState[slots[s].client] \notin Transmitting
                             /\ Sv_Timeout(s))

Spec == Init /\ [][Next]_vars /\ Fairness

-------------------------------------------------------------------------------

\* An address has at most one slot, however often it connects, is refused or is dropped,
\* and whichever of its packets arrive late (Sv_Connect_f, Sv_DropClient).
OneSlotPerClient ==
  \A s, t \in Slot : Used(s) /\ Used(t) /\ slots[s].client = slots[t].client
                       => s = t \/ slots[s].client = NoClient

\* A client that is in the game, for itself and for the server, is in the level that the
\* server runs: spawnCount tells the commands of a former level (Sv_Begin_f).
PlaysLoadedLevel ==
  \A c \in Clients : \A s \in Owned(c) :
    slots[s].state = "active" /\ clState[c] \in {"loading", "active"} => clSpawn[c] = spawnCount

\* The server and the game agree who sits where: a human's slot is the game's human, and
\* what is not in the game has at most a slot that the next frame frees, a bot's that made
\* room for someone the game refused, or one of the former level (Sv_SyncGameClients).
SeatsAgree ==
  \A s \in Slot :
    /\ gclients[s] = "human" <=> Used(s) /\ slots[s].client # NoClient
    /\ gclients[s] = "bot" => slots[s].state = "active"

\* A client that is in the game is not dropped for a new or a begin that it sent before,
\* unless a packet was answered twice that only time could have told from lost
\* (Sv_New_f and Sv_Begin_f: "from already spawned client").
NotDroppedWhilePlaying ==
  \A c \in Clients : \A s \in Owned(c) :
    slots[s].state = "active" /\ clMessage[c] # <<>> /\ clState[c] \in Transmitting /\ ~late
      => Head(clMessage[c]).cmd \notin {"new", "begin"}

\* Connected, but not yet in the game.
Halfway(c) ==
  /\ clState[c] \in Transmitting
  /\ ~(clState[c] = "active" /\ \E s \in Owned(c) : slots[s].state = "active")

\* A client that connected comes into the game, or gets to know that it does not: no
\* refusal, level change, restart of the server, or drop leaves it waiting for ever, unless
\* a packet was answered twice that only time could have told from lost.
EventuallyPlays == \A c \in Clients : []~late => (Halfway(c) ~> ~Halfway(c))

\* The slot of a client that went away is free again, however it went (Sv_CheckTimeouts).
EventuallyReclaimed ==
  \A c \in Clients : <>[](clState[c] = "disconnected") => <>[](Owned(c) = {})

=============================================================================
