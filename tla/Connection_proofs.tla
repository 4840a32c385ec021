-------------------------- MODULE Connection_proofs --------------------------
(***************************************************************************)
(* Proofs about connections, for any clients, slots, challenges and bounds: *)
(* an address never has two slots; the server and the game agree who sits   *)
(* where; whoever is in the game is in the level that the server runs; and  *)
(* no command that waits makes the server drop a client that is in the      *)
(* game, unless a packet was answered twice.                                *)
(*                                                                         *)
(* The first two are inductive together with the types: whoever takes a     *)
(* slot is looked for in all of them, and every step that frees a slot or a *)
(* seat frees the other one or leaves it to the next frame.  The third      *)
(* needs to know which commands may wait in the queues of a client and of   *)
(* its slot at the same time (Conversation), and the last that one packet   *)
(* or command of a handshake is under way at a time (Handshakes).           *)
(***************************************************************************)
EXTENDS Connection, WellFoundedInduction, TLAPS

\* The inductive invariant.
Inv == TypeOK /\ SeatsAgree /\ OneSlotPerClient

-------------------------------------------------------------------------------

\* A slot is chosen whenever there is one to choose from.
LEMMA LeastIsOne ==
  ASSUME NEW S, S \subseteq Slot, S # {}
  PROVE  Least(S) \in S
<1>1. S \subseteq Nat
  BY DEF Slot
<1> DEFINE less == {ss \in Nat \X Nat : ss[1] < ss[2]}
<1>2. IsWellFoundedOn(less, Nat)
  BY NatLessThanWellFounded DEF OpToRel
<1> HIDE DEF less
<1>3. PICK s \in S : \A t \in S : <<t, s>> \notin less
  BY <1>1, <1>2, WFMin
<1>4. \A t \in S : s <= t
  <2> SUFFICES ASSUME NEW t \in S, t < s
               PROVE  FALSE
    BY <1>1
  <2>1. s \in Nat /\ t \in Nat
    BY <1>1
  <2>2. <<t, s>> \in less
    BY <2>1 DEF less
  <2> QED
    BY <1>3, <2>2
<1> QED
  BY <1>4 DEF Least

\* The packets that are sent are packets.
LEMMA PacketFacts ==
  ASSUME NEW c \in Clients
  PROVE  /\ ToServer(c, "disconnect", 0) \in Packet /\ ToServer(c, "getChallenge", 0) \in Packet
         /\ \A n \in Challenge : ToServer(c, "connect", n) \in Packet
                                 /\ ToClient(c, "challenge", n) \in Packet
         /\ ToClient(c, "clientConnect", 0) \in Packet /\ ToClient(c, "drop", 0) \in Packet
         /\ ToClient(c, "reconnect", 0) \in Packet /\ ToClient(c, "disconnect", 0) \in Packet
  BY DEF ToServer, ToClient, Packet, Challenge

\* Packets stay packets when some are sent.
LEMMA SentType ==
  ASSUME NEW packets, packets \subseteq Packet, NEW added, added \subseteq Packet
  PROVE  Sent(packets, added) \subseteq Packet
  BY DEF Sent

\* The commands that wait are commands.
LEMMA CommandFacts ==
  ASSUME NEW n \in 0 .. MaxSpawn
  PROVE  /\ Cmd("new", n) \in ClientCommand /\ Cmd("configStrings", n) \in ClientCommand
         /\ Cmd("baselines", n) \in ClientCommand /\ Cmd("begin", n) \in ClientCommand
         /\ Cmd("serverData", n) \in ServerCommand /\ Cmd("baselines", n) \in ServerCommand
         /\ Cmd("precache", n) \in ServerCommand
  BY DEF Cmd, ClientCommand, ServerCommand

\* What the constants are.
LEMMA ConstantFacts ==
  /\ MaxSpawn \in Nat \ {0} /\ 0 \in 0 .. MaxSpawn /\ 1 .. MaxSpawn \subseteq 0 .. MaxSpawn
  /\ NoClient \notin Clients
  /\ 0 \in Challenge /\ Challenges \subseteq Challenge
  /\ 1 \in 1 .. MaxSpawn
  BY ConnectionAssumption DEF Challenge

\* What memset leaves is a free slot.
LEMMA FreeSlotFacts ==
  /\ FreeSlot \in ServerClient /\ [FreeSlot EXCEPT !.state = "active"] \in ServerClient
  /\ FreeSlot.state = "free" /\ FreeSlot.client = NoClient
  /\ [FreeSlot EXCEPT !.state = "active"].state = "active"
  /\ [FreeSlot EXCEPT !.state = "active"].client = NoClient
<1>1. /\ FreeSlot = [state |-> "free", client |-> NoClient, message |-> <<>>]
      /\ [FreeSlot EXCEPT !.state = "active"] =
           [state |-> "active", client |-> NoClient, message |-> <<>>]
  BY DEF FreeSlot
<1>2. <<>> \in Seq(ServerCommand) /\ {"free", "active"} \subseteq SlotState
  BY DEF SlotState
<1>3. FreeSlot \in ServerClient /\ [FreeSlot EXCEPT !.state = "active"] \in ServerClient
  BY <1>1, <1>2 DEF ServerClient
<1>4. /\ FreeSlot.state = "free" /\ FreeSlot.client = NoClient
      /\ [FreeSlot EXCEPT !.state = "active"].state = "active"
      /\ [FreeSlot EXCEPT !.state = "active"].client = NoClient
  BY <1>1
<1> QED
  BY <1>3, <1>4

-------------------------------------------------------------------------------

\* The invariant holds at the start.
LEMMA Initially ==
  ASSUME Init
  PROVE  Inv
<1>1. TypeOK
  <2>1. "disconnected" \in ClientState /\ <<>> \in Seq(ClientCommand)
        /\ NoChallenge \in Challenge \cup {NoChallenge}
    BY DEF ClientState
  <2> QED
    BY <2>1, ConstantFacts, FreeSlotFacts DEF Init, TypeOK, FirstSpawnCount
<1>2. \A s \in Slot : ~ Used(s) /\ gclients[s] = "free"
  BY FreeSlotFacts DEF Init, Used
<1> QED
  BY <1>1, <1>2 DEF Inv, SeatsAgree, OneSlotPerClient

\* Who sits where does not change, or a client begins.
LEMMA SeatsKept ==
  ASSUME SeatsAgree, OneSlotPerClient, gclients' = gclients,
         \A s \in Slot : /\ slots'[s].state = "free" <=> slots[s].state = "free"
                         /\ slots[s].state = "active" => slots'[s].state = "active"
                         /\ slots'[s].client = slots[s].client
  PROVE  SeatsAgree' /\ OneSlotPerClient'
  BY DEF SeatsAgree, OneSlotPerClient, Used

\* A slot is freed, and so is its seat.
LEMMA SeatsDropped ==
  ASSUME Inv, NEW s \in Slot, DropClient(s)
  PROVE  /\ slots' \in [Slot -> ServerClient]
         /\ gclients' \in [Slot -> {"free", "human", "bot"}]
         /\ chan' \in [Slot -> {"fresh", "paired", "broken"}]
         /\ SeatsAgree' /\ OneSlotPerClient'
<1>1. /\ slots' \in [Slot -> ServerClient] /\ slots'[s] = FreeSlot
      /\ \A t \in Slot : t # s => slots'[t] = slots[t]
  BY FreeSlotFacts DEF DropClient, Inv, TypeOK
<1>2. /\ gclients' \in [Slot -> {"free", "human", "bot"}] /\ gclients'[s] = "free"
      /\ \A t \in Slot : t # s => gclients'[t] = gclients[t]
  BY DEF DropClient, Inv, TypeOK
<1>3. chan' \in [Slot -> {"fresh", "paired", "broken"}]
  BY DEF DropClient, Inv, TypeOK
<1>4. SeatsAgree'
  BY <1>1, <1>2, FreeSlotFacts DEF Inv, SeatsAgree, Used
<1>5. OneSlotPerClient'
  BY <1>1, FreeSlotFacts DEF Inv, OneSlotPerClient, Used
<1> QED
  BY <1>1, <1>2, <1>3, <1>4, <1>5

\* What the server tells a client that it drops is a packet.
LEMMA DropPacketType ==
  ASSUME Inv, NEW s \in Slot, slots[s].client \in Clients
  PROVE  DropPacket(s) \subseteq Packet
  BY PacketFacts DEF DropPacket

-------------------------------------------------------------------------------
\* The client's steps: the server's slots and seats stay as they are.

\* A client that starts, asks, gives up or dies keeps the invariant.
LEMMA ClientStep ==
  ASSUME Inv, NEW c \in Clients,
         \/ Cl_Disconnect(c) \/ Cl_Connect(c) \/ Cl_AttemptConnect(c) \/ Cl_Timeout(c)
         \/ Cl_ParseFrame(c)
  PROVE  Inv'
<1> USE DEF Inv
<1>1. UNCHANGED <<clSpawn, spawnCount, challenges, slots, gclients, chan>>
  BY DEF Cl_Disconnect, Cl_Connect, Cl_AttemptConnect, Cl_Timeout, Cl_ParseFrame,
         clientVars, serverVars
<1>2. clState' \in [Clients -> ClientState] /\ clMessage' \in [Clients -> Seq(ClientCommand)]
  <2>1. {"disconnected", "connecting", "active"} \subseteq ClientState
        /\ <<>> \in Seq(ClientCommand)
    BY DEF ClientState
  <2>2. clState \in [Clients -> ClientState] /\ clMessage \in [Clients -> Seq(ClientCommand)]
    BY DEF TypeOK
  <2>3. \/ UNCHANGED <<clState, clMessage>>
        \/ /\ clState' = [clState EXCEPT ![c] = "disconnected"]
           /\ clMessage' = [clMessage EXCEPT ![c] = <<>>]
        \/ /\ clState' = [clState EXCEPT ![c] = "connecting"]
           /\ clMessage' = [clMessage EXCEPT ![c] = <<>>]
        \/ clState' = [clState EXCEPT ![c] = "active"] /\ UNCHANGED clMessage
    BY DEF Cl_Disconnect, Cl_Connect, Cl_AttemptConnect, Cl_Timeout, Cl_ParseFrame,
           Disconnected, clientVars
  <2> QED
    BY <2>1, <2>2, <2>3
<1>3. network' \subseteq Packet
  <2>1. PICK added \in {{}, {ToServer(c, "disconnect", 0)}, {ToServer(c, "getChallenge", 0)}} :
          network' = network \/ network' = Sent(network, added)
    BY DEF Cl_Disconnect, Cl_Connect, Cl_AttemptConnect, Cl_Timeout, Cl_ParseFrame
  <2> QED
    BY <2>1, PacketFacts, SentType DEF TypeOK
<1>4. late' \in BOOLEAN
  BY DEF Cl_Disconnect, Cl_Connect, Cl_AttemptConnect, Cl_Timeout, Cl_ParseFrame, TypeOK
<1>5. TypeOK'
  BY <1>1, <1>2, <1>3, <1>4 DEF TypeOK
<1> QED
  BY <1>1, <1>5, SeatsKept

\* What a client does with a packet leaves the server's slots and seats as they are.
LEMMA ClientReceives ==
  ASSUME Inv, NEW p \in network,
         Cl_Challenge(p) \/ Cl_ClientConnect(p) \/ Cl_Dropped(p) \/ Cl_Reconnect(p)
  PROVE  Inv'
<1> DEFINE c == p.client
<1> USE DEF Inv
<1>0. p \in Packet /\ c \in Clients /\ p.value \in Challenge /\ network \ {p} \subseteq Packet
  BY DEF TypeOK, Packet
<1>1. UNCHANGED <<clSpawn, spawnCount, challenges, slots, gclients, late>>
  BY DEF Cl_Challenge, Cl_ClientConnect, Cl_Dropped, Cl_Reconnect, clientVars, serverVars
<1>2. clState' \in [Clients -> ClientState] /\ clMessage' \in [Clients -> Seq(ClientCommand)]
  <2>1. {"disconnected", "connecting", "connected"} \subseteq ClientState
        /\ <<>> \in Seq(ClientCommand) /\ <<Cmd("new", 0)>> \in Seq(ClientCommand)
    BY CommandFacts, ConstantFacts DEF ClientState
  <2>2. clState \in [Clients -> ClientState] /\ clMessage \in [Clients -> Seq(ClientCommand)]
    BY DEF TypeOK
  <2>3. \/ UNCHANGED <<clState, clMessage>>
        \/ /\ clState' = [clState EXCEPT ![c] = "connected"]
           /\ clMessage' = [clMessage EXCEPT ![c] = <<Cmd("new", 0)>>]
        \/ /\ clState' = [clState EXCEPT ![c] = "disconnected"]
           /\ clMessage' = [clMessage EXCEPT ![c] = <<>>]
        \/ clState' = [clState EXCEPT ![c] = "connecting"] /\ UNCHANGED clMessage
    BY DEF Cl_Challenge, Cl_ClientConnect, Cl_Dropped, Cl_Reconnect, Disconnected, clientVars
  <2> QED
    BY <1>0, <2>1, <2>2, <2>3
<1>3. network' \subseteq Packet
  <2>1. PICK added \in {{ToServer(c, "connect", p.value)}, {ToServer(c, "disconnect", 0)}} :
          network' = network \ {p} \/ network' = Sent(network \ {p}, added)
    BY DEF Cl_Challenge, Cl_ClientConnect, Cl_Dropped, Cl_Reconnect
  <2> QED
    BY <1>0, <2>1, PacketFacts, SentType
<1>4. chan' \in [Slot -> {"fresh", "paired", "broken"}]
  BY DEF Cl_Challenge, Cl_ClientConnect, Cl_Dropped, Cl_Reconnect, serverVars, TypeOK
<1>5. TypeOK'
  BY <1>1, <1>2, <1>3, <1>4 DEF TypeOK
<1> QED
  BY <1>1, <1>5, SeatsKept

-------------------------------------------------------------------------------
\* The server's packets.

\* The server answers with a challenge.
LEMMA GetChallengeStep ==
  ASSUME Inv, NEW p \in network, Sv_GetChallenge(p)
  PROVE  Inv'
<1> DEFINE c == p.client
<1> USE DEF Inv
<1>0. c \in Clients /\ network \ {p} \subseteq Packet
  BY DEF TypeOK, Packet
<1>1. UNCHANGED <<clState, clMessage, clSpawn, spawnCount, slots, gclients, chan, late>>
  BY DEF Sv_GetChallenge, clientVars
<1>2. challenges' \in [Clients -> Challenge \cup {NoChallenge}] /\ challenges'[c] \in Challenge
  BY <1>0, ConstantFacts DEF Sv_GetChallenge, TypeOK
<1>3. network' \subseteq Packet
  <2>1. {ToClient(c, "challenge", challenges'[c])} \subseteq Packet
    BY <1>0, <1>2, PacketFacts
  <2> QED
    BY <1>0, <2>1, SentType DEF Sv_GetChallenge
<1>4. TypeOK'
  BY <1>1, <1>2, <1>3 DEF TypeOK
<1> QED
  BY <1>1, <1>4, SeatsKept

\* The slots to choose from are the client's own, or those of nobody.
LEMMA ChosenFacts ==
  ASSUME Inv, NEW c \in Clients, ChosenSlots(c) # {}
  PROVE  LET s == Least(ChosenSlots(c))
         IN /\ s \in Slot
            /\ \A t \in Slot : t # s /\ Used(t) => slots[t].client # c
<1> DEFINE s == Least(ChosenSlots(c))
<1>1. ChosenSlots(c) \subseteq Slot
  BY DEF ChosenSlots, Owned
<1>2. s \in ChosenSlots(c)
  BY <1>1, LeastIsOne
<1>3. ASSUME NEW t \in Slot, Used(t), slots[t].client = c
      PROVE  t = s
  <2>1. t \in Owned(c)
    BY <1>3 DEF Owned
  <2>2. s \in Owned(c)
    BY <1>2, <2>1 DEF ChosenSlots
  <2> QED
    BY <2>1, <2>2, ConstantFacts DEF Owned, Inv, OneSlotPerClient
<1> QED
  BY <1>1, <1>2, <1>3

\* The server gives a slot: none of another address, and the one of the same address when
\* there is one.
LEMMA ConnectStep ==
  ASSUME Inv, NEW p \in network, Sv_Connect(p)
  PROVE  Inv'
<1> DEFINE c == p.client
           s == Least(ChosenSlots(c))
<1> USE DEF Inv
<1>0. c \in Clients /\ network \ {p} \subseteq Packet
  BY DEF TypeOK, Packet
<1>1. UNCHANGED <<clState, clMessage, clSpawn, spawnCount, late>>
  BY DEF Sv_Connect, clientVars
<1>2. challenges' \in [Clients -> Challenge \cup {NoChallenge}]
  <2>1. challenges' = challenges \/ challenges' = [challenges EXCEPT ![c] = 0]
    BY DEF Sv_Connect
  <2>2. challenges \in [Clients -> Challenge \cup {NoChallenge}]
    BY DEF TypeOK
  <2> QED
    BY <1>0, <2>1, <2>2, ConstantFacts
<1>3. network' \subseteq Packet
  <2>1. {ToClient(c, "clientConnect", 0)} \subseteq Packet
    BY <1>0, PacketFacts
  <2> QED
    BY <1>0, <2>1, SentType DEF Sv_Connect
<1>a. CASE UNCHANGED <<slots, gclients, chan>>
  <2>1. TypeOK'
    BY <1>a, <1>1, <1>2, <1>3 DEF TypeOK
  <2> QED
    BY <1>a, <2>1, SeatsKept
<1>b. CASE /\ UNCHANGED <<slots, chan>> /\ ChosenSlots(c) # {} /\ gclients[s] = "bot"
           /\ gclients' = [gclients EXCEPT ![s] = "free"]
  <2>1. s \in Slot
    BY <1>0, <1>b, ChosenFacts
  <2>2. /\ gclients' \in [Slot -> {"free", "human", "bot"}] /\ gclients'[s] = "free"
        /\ \A t \in Slot : t # s => gclients'[t] = gclients[t]
    BY <1>b, <2>1 DEF TypeOK
  <2>3. TypeOK'
    BY <1>b, <2>2, <1>1, <1>2, <1>3 DEF TypeOK
  <2>4. SeatsAgree'
    BY <1>b, <2>2 DEF SeatsAgree, Used
  <2>5. OneSlotPerClient'
    BY <1>b DEF OneSlotPerClient, Used
  <2> QED
    BY <2>3, <2>4, <2>5
<1>c. CASE /\ ChosenSlots(c) # {}
           /\ gclients' = [gclients EXCEPT ![s] = "human"]
           /\ slots' = [slots EXCEPT ![s] = [state |-> "connected", client |-> c,
                                             message |-> <<>>]]
           /\ chan' = [chan EXCEPT ![s] = "fresh"]
  <2>1. s \in Slot /\ \A t \in Slot : t # s /\ Used(t) => slots[t].client # c
    BY <1>0, <1>c, ChosenFacts
  <2> DEFINE new == [state |-> "connected", client |-> c, message |-> <<>>]
  <2>2. new \in ServerClient /\ new.state = "connected" /\ new.client = c
    <3>1. <<>> \in Seq(ServerCommand)
      OBVIOUS
    <3> QED
      BY <3>1, <1>0 DEF ServerClient, SlotState
  <2> HIDE DEF new
  <2>3. /\ slots' \in [Slot -> ServerClient] /\ slots'[s] = new
        /\ \A t \in Slot : t # s => slots'[t] = slots[t]
    BY <1>c, <2>1, <2>2 DEF TypeOK, new
  <2>4. /\ gclients' \in [Slot -> {"free", "human", "bot"}] /\ gclients'[s] = "human"
        /\ \A t \in Slot : t # s => gclients'[t] = gclients[t]
    BY <1>c, <2>1 DEF TypeOK
  <2>5. chan' \in [Slot -> {"fresh", "paired", "broken"}]
    BY <1>c DEF TypeOK
  <2>6. TypeOK'
    BY <2>3, <2>4, <2>5, <1>1, <1>2, <1>3 DEF TypeOK
  <2>7. SeatsAgree'
    BY <2>2, <2>3, <2>4, <1>0, ConstantFacts DEF SeatsAgree, Used
  <2>8. OneSlotPerClient'
    BY <2>1, <2>2, <2>3, ConstantFacts DEF OneSlotPerClient, Used
  <2> QED
    BY <2>6, <2>7, <2>8
<1> QED
  BY <1>a, <1>b, <1>c DEF Sv_Connect

\* The server drops a client that says so.
LEMMA DisconnectStep ==
  ASSUME Inv, NEW p \in network, Sv_Disconnect(p)
  PROVE  Inv'
<1> DEFINE c == p.client
           s == Least(Owned(c))
<1> USE DEF Inv
<1>0. c \in Clients /\ network \ {p} \subseteq Packet
  BY DEF TypeOK, Packet
<1>1. UNCHANGED <<clState, clMessage, clSpawn, spawnCount, challenges, late>>
  BY DEF Sv_Disconnect, clientVars
<1>a. CASE Owned(c) = {}
  <2>1. UNCHANGED <<slots, gclients, chan>> /\ network' \subseteq Packet
    BY <1>0, <1>a DEF Sv_Disconnect
  <2>2. TypeOK'
    BY <1>1, <2>1 DEF TypeOK
  <2> QED
    BY <2>1, <2>2, SeatsKept
<1>b. CASE Owned(c) # {}
  <2>1. s \in Owned(c)
    BY <1>b, LeastIsOne DEF Owned
  <2>2. s \in Slot /\ slots[s].client \in Clients
    BY <1>0, <2>1 DEF Owned
  <2>3. DropClient(s) /\ network' = Sent(network \ {p}, DropPacket(s))
    BY <1>b DEF Sv_Disconnect
  <2>4. network' \subseteq Packet
    BY <1>0, <2>2, <2>3, DropPacketType, SentType
  <2>5. TypeOK'
    BY <1>1, <2>2, <2>3, <2>4, SeatsDropped DEF TypeOK
  <2> QED
    BY <2>2, <2>3, <2>5, SeatsDropped
<1> QED
  BY <1>a, <1>b

-------------------------------------------------------------------------------
\* Reliable commands.

\* Taking a command leaves commands.
LEMMA Taken ==
  ASSUME NEW S, NEW q \in Seq(S), q # <<>>
  PROVE  Head(q) \in S /\ Tail(q) \in Seq(S)
  OBVIOUS

\* Adding a command leaves commands.
LEMMA Appended ==
  ASSUME NEW S, NEW q \in Seq(S), NEW e \in S
  PROVE  Append(q, e) \in Seq(S) /\ q \o <<e>> \in Seq(S)
  OBVIOUS

\* A slot of the client is a slot with its address.
LEMMA OwnedFacts ==
  ASSUME Inv, NEW c \in Clients, NEW s \in Owned(c)
  PROVE  /\ s \in Slot /\ slots[s] \in ServerClient /\ slots[s].client = c
         /\ slots[s].client \in Clients /\ slots[s].state # "free"
         /\ slots[s].message \in Seq(ServerCommand)
  BY DEF Owned, Used, Inv, TypeOK, ServerClient

\* Other messages in a slot, or another state that is not free, leave everybody where they sit.
LEMMA SlotRewritten ==
  ASSUME Inv, NEW s \in Slot, NEW messages \in Seq(ServerCommand), UNCHANGED gclients,
         \/ slots' = [slots EXCEPT ![s].message = messages]
         \/ slots[s].state # "free" /\ slots' = [slots EXCEPT ![s].state = "active"]
  PROVE  slots' \in [Slot -> ServerClient] /\ SeatsAgree' /\ OneSlotPerClient'
<1>1. slots \in [Slot -> ServerClient] /\ slots[s] \in ServerClient
  BY DEF Inv, TypeOK
<1>2. \A t \in Slot : t # s => slots'[t] = slots[t]
  BY <1>1
<1>3. /\ slots'[s] \in ServerClient
      /\ slots'[s].client = slots[s].client
      /\ slots'[s].state = "free" <=> slots[s].state = "free"
      /\ slots[s].state = "active" => slots'[s].state = "active"
  <2>1. CASE slots' = [slots EXCEPT ![s].message = messages]
    <3>1. slots'[s] = [slots[s] EXCEPT !.message = messages]
      BY <1>1, <2>1
    <3> QED
      BY <1>1, <3>1 DEF ServerClient
  <2>2. CASE slots[s].state # "free" /\ slots' = [slots EXCEPT ![s].state = "active"]
    <3>1. slots'[s] = [slots[s] EXCEPT !.state = "active"]
      BY <1>1, <2>2
    <3> QED
      BY <1>1, <2>2, <3>1 DEF ServerClient, SlotState
  <2> QED
    BY <2>1, <2>2
<1>4. slots' \in [Slot -> ServerClient]
  <2>1. \A t \in Slot : slots'[t] \in ServerClient
    BY <1>1, <1>2, <1>3
  <2>2. DOMAIN slots' = Slot /\ slots' = [t \in Slot |-> slots'[t]]
    BY <1>1
  <2> QED
    BY <2>1, <2>2
<1> QED
  BY <1>2, <1>3, <1>4, SeatsKept DEF Inv

\* The server executes a client's next reliable command.
LEMMA ServerCommandStep ==
  ASSUME Inv, NEW c \in Clients, NEW s \in Slot, Sv_Command(c, s)
  PROVE  Inv'
<1> DEFINE m == Head(clMessage[c])
<1> USE DEF Inv
<1>0. s \in Owned(c) /\ clMessage[c] # <<>>
  BY DEF Sv_Command, ServerTakes
<1>1. UNCHANGED <<clState, clSpawn, spawnCount, challenges, late>>
  BY DEF Sv_Command
<1>2. m \in ClientCommand /\ clMessage' \in [Clients -> Seq(ClientCommand)]
  <2>1. clMessage[c] \in Seq(ClientCommand)
    BY DEF TypeOK
  <2>2. m \in ClientCommand /\ Tail(clMessage[c]) \in Seq(ClientCommand)
    BY <1>0, <2>1, Taken
  <2>3. clMessage' = [clMessage EXCEPT ![c] = Tail(clMessage[c])]
    BY DEF Sv_Command, ServerTakes
  <2> QED
    BY <2>2, <2>3 DEF TypeOK
<1>a. CASE DropClient(s) /\ network' = Sent(network, DropPacket(s))
  <2>1. network' \subseteq Packet
    BY <1>0, <1>a, OwnedFacts, DropPacketType, SentType DEF TypeOK
  <2>2. TypeOK'
    BY <1>1, <1>2, <1>a, <2>1, SeatsDropped DEF TypeOK
  <2> QED
    BY <1>a, <2>2, SeatsDropped
<1>b. CASE /\ chan' = [chan EXCEPT ![s] = Mismatched(s)] /\ UNCHANGED <<gclients, network>>
           /\ \/ UNCHANGED slots
              \/ \E name \in {"serverData", "baselines", "precache"} : Reply(s, name)
              \/ slots' = [slots EXCEPT ![s].state = "active"]
  <2>1. chan' \in [Slot -> {"fresh", "paired", "broken"}]
    BY <1>b DEF TypeOK, Mismatched
  <2>2. slots' \in [Slot -> ServerClient] /\ SeatsAgree' /\ OneSlotPerClient'
    <3>1. CASE UNCHANGED slots
      BY <1>b, <3>1, SeatsKept DEF TypeOK
    <3>2. CASE \E name \in {"serverData", "baselines", "precache"} : Reply(s, name)
      <4>1. PICK name \in {"serverData", "baselines", "precache"} : Reply(s, name)
        BY <3>2
      <4> DEFINE messages == Append(slots[s].message, Cmd(name, spawnCount))
      <4>2. messages \in Seq(ServerCommand)
        BY <1>0, <4>1, OwnedFacts, CommandFacts, ConstantFacts, Appended DEF TypeOK
      <4>3. slots' = [slots EXCEPT ![s].message = messages]
        BY <4>1 DEF Reply
      <4> HIDE DEF messages
      <4> QED
        BY <1>b, <4>2, <4>3, SlotRewritten
    <3>3. CASE slots' = [slots EXCEPT ![s].state = "active"]
      <4>1. slots[s].state # "free" /\ slots[s].message \in Seq(ServerCommand)
        BY <1>0, OwnedFacts
      <4> QED
        BY <1>b, <3>3, <4>1, SlotRewritten
    <3> QED
      BY <1>b, <3>1, <3>2, <3>3
  <2>3. TypeOK'
    BY <1>1, <1>2, <1>b, <2>1, <2>2 DEF TypeOK
  <2> QED
    BY <2>2, <2>3
<1> QED
  BY <1>a, <1>b DEF Sv_Command

\* A client executes the server's next reliable command, or loses it.
LEMMA ClientCommandStep ==
  ASSUME Inv, NEW c \in Clients, NEW s \in Slot, Cl_Command(c, s) \/ LoseCommand(c, s)
  PROVE  Inv'
<1> USE DEF Inv
<1>0. s \in Owned(c)
  BY DEF Cl_Command, LoseCommand, ServerTakes, ClientTakes
<1>1. UNCHANGED <<spawnCount, challenges, gclients, network, late>>
  BY DEF Cl_Command, LoseCommand
<1>2. clMessage[c] \in Seq(ClientCommand) /\ slots[s].message \in Seq(ServerCommand)
  BY <1>0, OwnedFacts DEF TypeOK
<1>3. chan' \in [Slot -> {"fresh", "paired", "broken"}]
  BY DEF Cl_Command, LoseCommand, Mismatched, TypeOK
<1>4. slots' \in [Slot -> ServerClient] /\ SeatsAgree' /\ OneSlotPerClient'
  <2>1. CASE UNCHANGED slots
    BY <1>1, <2>1, SeatsKept DEF TypeOK
  <2>2. CASE ClientTakes(c, s)
    <3> DEFINE messages == Tail(slots[s].message)
    <3>1. messages \in Seq(ServerCommand)
      BY <1>2, <2>2, Taken DEF ClientTakes
    <3>2. slots' = [slots EXCEPT ![s].message = messages]
      BY <2>2 DEF ClientTakes
    <3> HIDE DEF messages
    <3> QED
      BY <1>1, <3>1, <3>2, SlotRewritten
  <2> QED
    BY <2>1, <2>2 DEF Cl_Command, LoseCommand
<1>5. /\ clMessage' \in [Clients -> Seq(ClientCommand)]
      /\ clState' \in [Clients -> ClientState] /\ clSpawn' \in [Clients -> 0 .. MaxSpawn]
  <2>1. CASE Cl_Command(c, s)
    <3> DEFINE m == Head(slots[s].message)
    <3>1. m \in ServerCommand /\ m.spawn \in 0 .. MaxSpawn
      <4>1. slots[s].message # <<>>
        BY <2>1 DEF Cl_Command, ClientTakes
      <4>2. m \in ServerCommand
        BY <1>2, <4>1, Taken
      <4> QED
        BY <4>2 DEF ServerCommand
    <3>2. /\ <<Cmd("configStrings", m.spawn)>> \in Seq(ClientCommand)
          /\ Append(clMessage[c], Cmd("baselines", m.spawn)) \in Seq(ClientCommand)
          /\ clMessage[c] \o Begins(m) \in Seq(ClientCommand)
      BY <1>2, <3>1, CommandFacts, Appended DEF Begins
    <3>3. "loading" \in ClientState
      BY DEF ClientState
    <3>4. \/ /\ clMessage' = [clMessage EXCEPT ![c] = <<Cmd("configStrings", m.spawn)>>]
             /\ UNCHANGED <<clState, clSpawn>>
          \/ /\ clMessage' = [clMessage EXCEPT ![c] = Append(@, Cmd("baselines", m.spawn))]
             /\ UNCHANGED <<clState, clSpawn>>
          \/ /\ clMessage' = [clMessage EXCEPT ![c] = @ \o Begins(m)]
             /\ clState' = [clState EXCEPT ![c] = "loading"]
             /\ clSpawn' = [clSpawn EXCEPT ![c] = m.spawn]
      BY <2>1 DEF Cl_Command
    <3>5. /\ clState \in [Clients -> ClientState] /\ clMessage \in [Clients -> Seq(ClientCommand)]
          /\ clSpawn \in [Clients -> 0 .. MaxSpawn]
      BY DEF TypeOK
    <3> HIDE DEF m
    <3> QED
      BY <3>1, <3>2, <3>3, <3>4, <3>5
  <2>2. CASE LoseCommand(c, s)
    <3>1. clMessage[c] # <<>> => Tail(clMessage[c]) \in Seq(ClientCommand)
      BY <1>2, Taken
    <3> QED
      BY <2>2, <3>1 DEF LoseCommand, ServerTakes, TypeOK
  <2> QED
    BY <2>1, <2>2
<1>6. TypeOK'
  BY <1>1, <1>3, <1>4, <1>5 DEF TypeOK
<1> QED
  BY <1>4, <1>6

-------------------------------------------------------------------------------
\* The server's own steps.

\* The server drops a client that has been silent.
LEMMA TimeoutStep ==
  ASSUME Inv, NEW s \in Slot, Sv_Timeout(s)
  PROVE  Inv'
<1> USE DEF Inv
<1>1. /\ UNCHANGED <<clState, clMessage, clSpawn, spawnCount, challenges>>
      /\ DropClient(s) /\ network' = Sent(network, DropPacket(s)) /\ late' \in BOOLEAN
  BY DEF Sv_Timeout, clientVars, TypeOK
<1>2. slots[s].client \in Clients
  BY DEF Sv_Timeout, TimesOut, TypeOK, ServerClient
<1>3. network' \subseteq Packet
  BY <1>1, <1>2, DropPacketType, SentType DEF TypeOK
<1>4. TypeOK'
  BY <1>1, <1>3, SeatsDropped DEF TypeOK
<1> QED
  BY <1>1, <1>4, SeatsDropped

\* The game takes in a bot where nobody sits, or sends one away.
LEMMA AiFrameFacts ==
  ASSUME Inv, G_Ai_Frame
  PROVE  /\ gclients' \in [Slot -> {"free", "human", "bot"}]
         /\ \A s \in Slot : gclients'[s] = "human" <=> gclients[s] = "human"
         /\ \A s \in Slot : gclients'[s] = "bot" /\ gclients[s] # "bot" =>
                              slots[s].state # "connected"
<1>1. CASE gclients' = gclients
  BY <1>1 DEF Inv, TypeOK
<1>2. CASE /\ \A s \in Seats("free") : slots[s].state # "connected"
           /\ Seats("free") # {}
           /\ gclients' = [gclients EXCEPT ![Least(Seats("free"))] = "bot"]
  <2>1. Least(Seats("free")) \in Seats("free")
    BY <1>2, LeastIsOne DEF Seats
  <2> QED
    BY <1>2, <2>1 DEF Inv, TypeOK, Seats
<1>3. CASE /\ Seats("bot") # {}
           /\ gclients' = [gclients EXCEPT ![Least(Seats("bot"))] = "free"]
  <2>1. Least(Seats("bot")) \in Seats("bot")
    BY <1>3, LeastIsOne DEF Seats
  <2> QED
    BY <1>3, <2>1 DEF Inv, TypeOK, Seats
<1> QED
  BY <1>1, <1>2, <1>3 DEF G_Ai_Frame

\* A frame frees the slots whose seats are free.
LEMMA GameFrameStep ==
  ASSUME Inv, Sv_RunGameFrame
  PROVE  Inv'
<1> USE DEF Inv
<1>1. /\ UNCHANGED <<clState, clMessage, clSpawn, spawnCount, challenges, chan, network, late>>
      /\ G_Ai_Frame /\ slots' = Synced(gclients')
  BY DEF Sv_RunGameFrame, clientVars
<1>2. \A s \in Slot : slots[s] \in ServerClient
  BY DEF TypeOK
<1>3. slots' \in [Slot -> ServerClient]
  BY <1>1, <1>2, FreeSlotFacts DEF Synced
<1>4. ASSUME NEW s \in Slot
      PROVE  \/ slots'[s] = slots[s] /\ (gclients'[s] = "bot" => Used(s))
                /\ (Used(s) => gclients'[s] # "free")
             \/ ~ Used(s) /\ gclients'[s] = "bot" /\ slots'[s].state = "active"
                /\ slots'[s].client = NoClient
             \/ Used(s) /\ gclients'[s] = "free" /\ slots'[s] = FreeSlot
  BY <1>1, FreeSlotFacts DEF Synced
<1>5. TypeOK'
  BY <1>1, <1>3, AiFrameFacts DEF TypeOK
<1>6. SeatsAgree'
  <2> SUFFICES ASSUME NEW s \in Slot
               PROVE  /\ gclients'[s] = "human" <=>
                           slots'[s].state # "free" /\ slots'[s].client # NoClient
                      /\ gclients'[s] = "bot" => slots'[s].state = "active"
    BY DEF SeatsAgree, Used
  <2>1. /\ gclients'[s] = "human" <=> slots[s].state # "free" /\ slots[s].client # NoClient
        /\ gclients[s] = "bot" => slots[s].state = "active"
        /\ gclients'[s] = "bot" /\ gclients[s] # "bot" => slots[s].state # "connected"
        /\ slots[s].state \in {"free", "connected", "active"}
    BY <1>1, <1>2, AiFrameFacts DEF SeatsAgree, Used, ServerClient, SlotState
  <2> QED
    BY <1>4, <2>1, FreeSlotFacts DEF Used
<1>7. OneSlotPerClient'
  BY <1>4, FreeSlotFacts DEF OneSlotPerClient, Used
<1> QED
  BY <1>5, <1>6, <1>7

\* A change of level takes every client back.
LEMMA InitServerStep ==
  ASSUME Inv, Sv_InitServer
  PROVE  Inv'
<1> USE DEF Inv
<1>1. /\ UNCHANGED <<clState, clMessage, clSpawn, challenges, chan>>
      /\ network' = Sent(network, ReconnectPackets) /\ late' \in BOOLEAN
      /\ slots' = ReconnectClients
      /\ gclients' = [s \in Slot |-> IF gclients[s] = "bot" THEN "free" ELSE gclients[s]]
      /\ spawnCount' \in 1 .. MaxSpawn
  BY ConstantFacts DEF Sv_InitServer, clientVars, TypeOK
<1>2. \A s \in Slot : slots[s] \in ServerClient
  BY DEF TypeOK
<1>3. ASSUME NEW s \in Slot
      PROVE  /\ slots'[s] \in ServerClient /\ slots'[s].client = slots[s].client
             /\ slots'[s].state = "free" <=> slots[s].state = "free"
  BY <1>1, <1>2 DEF ReconnectClients, ServerClient, SlotState
<1>4. slots' \in [Slot -> ServerClient]
  BY <1>1, <1>3 DEF ReconnectClients
<1>5. gclients' \in [Slot -> {"free", "human", "bot"}]
  BY <1>1 DEF TypeOK
<1>6. network' \subseteq Packet
  <2>1. ReconnectPackets \subseteq Packet
    BY <1>2, PacketFacts DEF ReconnectPackets, HumanSlots, ServerClient
  <2> QED
    BY <1>1, <2>1, SentType DEF TypeOK
<1>7. TypeOK'
  BY <1>1, <1>4, <1>5, <1>6 DEF TypeOK
<1>8. SeatsAgree' /\ OneSlotPerClient'
  BY <1>1, <1>3 DEF SeatsAgree, OneSlotPerClient, Used
<1> QED
  BY <1>7, <1>8

\* The server starts again.
LEMMA RestartStep ==
  ASSUME Inv, Sv_Restart
  PROVE  Inv'
<1> USE DEF Inv
<1>1. /\ UNCHANGED <<clState, clMessage, clSpawn, late>>
      /\ slots' = [s \in Slot |-> FreeSlot] /\ gclients' = [s \in Slot |-> "free"]
      /\ chan' = [s \in Slot |-> "broken"] /\ spawnCount' = 1
      /\ challenges' = [c \in Clients |-> NoChallenge]
  BY DEF Sv_Restart, clientVars, FirstSpawnCount
<1>2. network' \subseteq Packet
  <2>1. {ToClient(slots[s].client, "disconnect", 0) : s \in HumanSlots} \subseteq Packet
    BY PacketFacts DEF HumanSlots, TypeOK, ServerClient
  <2> DEFINE told == {ToClient(slots[s].client, "disconnect", 0) : s \in HumanSlots}
  <2>2. network' = Sent(network, told) \/ network' = network
    BY DEF Sv_Restart
  <2> HIDE DEF told
  <2> QED
    BY <2>1, <2>2, SentType DEF TypeOK, told
<1>3. TypeOK'
  BY <1>1, <1>2, FreeSlotFacts, ConstantFacts DEF TypeOK
<1>4. SeatsAgree' /\ OneSlotPerClient'
  BY <1>1, FreeSlotFacts DEF SeatsAgree, OneSlotPerClient, Used
<1> QED
  BY <1>3, <1>4

\* A packet is lost, or nothing happens.
LEMMA LoseStep ==
  ASSUME Inv, (\E p \in network : Lose(p)) \/ UNCHANGED vars
  PROVE  Inv'
<1> USE DEF Inv
<1>1. /\ UNCHANGED <<clState, clMessage, clSpawn, spawnCount, challenges, slots, gclients, chan>>
      /\ network' \subseteq network /\ late' \in BOOLEAN
  BY DEF Lose, vars, clientVars, serverVars, TypeOK
<1>2. TypeOK'
  BY <1>1 DEF TypeOK
<1> QED
  BY <1>1, <1>2, SeatsKept

-------------------------------------------------------------------------------

\* Every step keeps the invariant.
LEMMA Invariance == Spec => []Inv
<1>1. Inv /\ [Next]_vars => Inv'
  <2> SUFFICES ASSUME Inv, [Next]_vars
               PROVE  Inv'
    OBVIOUS
  <2>1. ASSUME NEW p \in network, Receive(p)
        PROVE  Inv'
    BY <2>1, ClientReceives, GetChallengeStep, ConnectStep, DisconnectStep DEF Receive
  <2>2. ASSUME NEW c \in Clients,
               \/ Cl_Disconnect(c) \/ Cl_Connect(c) \/ Cl_AttemptConnect(c) \/ Cl_Timeout(c)
               \/ Cl_ParseFrame(c)
        PROVE  Inv'
    BY <2>2, ClientStep
  <2>3. ASSUME NEW c \in Clients, NEW s \in Slot,
               Sv_Command(c, s) \/ Cl_Command(c, s) \/ LoseCommand(c, s)
        PROVE  Inv'
    BY <2>3, ServerCommandStep, ClientCommandStep
  <2> QED
    BY <2>1, <2>2, <2>3, TimeoutStep, GameFrameStep, InitServerStep, RestartStep, LoseStep
       DEF Next
<1> QED
  BY <1>1, Initially, PTL DEF Spec

\* The variables keep their types: every packet and every command is one that a program
\* sends, and names a level that was loaded.
THEOREM TypeCorrectness == Spec => []TypeOK
<1>1. Inv => TypeOK
  BY DEF Inv
<1> QED
  BY <1>1, Invariance, PTL

\* An address has at most one slot, however many clients there are, however often each
\* connects, is refused or is dropped, and whichever of their packets arrive late.
THEOREM OneSlotEach == Spec => []OneSlotPerClient
<1>1. Inv => OneSlotPerClient
  BY DEF Inv
<1> QED
  BY <1>1, Invariance, PTL

\* The server and the game agree who sits where, through connects, drops, timeouts, bots
\* that come and make room, new levels and restarts.
THEOREM SeatsAlwaysAgree == Spec => []SeatsAgree
<1>1. Inv => SeatsAgree
  BY DEF Inv
<1> QED
  BY <1>1, Invariance, PTL

-------------------------------------------------------------------------------
\* The commands that wait in the two queues of a client and its slot.

\* The positions of a queue.
At(q) == 1 .. Len(q)

\* What may wait in a client's queue, when its level is told: a new and a configStrings only come
\* first, for what comes with them is cleared; one level is asked about at a time; a begin that is
\* behind a baselines is for the same level, and every begin is for the level it was told.
QueueOrdered(q, told) ==
  /\ \A i \in At(q) : q[i].cmd \in {"new", "configStrings"} => i = 1
  /\ \A i, j \in At(q) : /\ q[i].cmd \in {"configStrings", "baselines"}
                         /\ q[j].cmd \in {"configStrings", "baselines"}
                         => q[i].spawn = q[j].spawn
  /\ \A i, j \in At(q) : i < j /\ q[i].cmd = "baselines" /\ q[j].cmd = "begin"
                         => q[i].spawn = q[j].spawn
  /\ \A i \in At(q) : q[i].cmd = "begin" => q[i].spawn = told

\* What may wait in a slot's queue, when the server runs level n: levels in their order, baselines
\* of one level and of no later one than any serverData, and precaches of one level, which is that
\* of the baselines before them.
RepliesOrdered(m, n) ==
  /\ \A i \in At(m) : m[i].spawn <= n
  /\ \A i, j \in At(m) : i < j => m[i].spawn <= m[j].spawn
  /\ \A i, j \in At(m) : m[i].cmd = "baselines" /\ m[j].cmd = "serverData"
                         => m[i].spawn <= m[j].spawn
  /\ \A i, j \in At(m) : m[i].cmd = "baselines" /\ m[j].cmd = "baselines"
                         => m[i].spawn = m[j].spawn
  /\ \A i, j \in At(m) : i < j /\ m[i].cmd = "baselines" /\ m[j].cmd = "precache"
                         => m[i].spawn = m[j].spawn
  /\ \A i, j \in At(m) : m[i].cmd = "precache" /\ m[j].cmd = "precache"
                         => m[i].spawn = m[j].spawn

\* What the queues of a client and of its slot have to do with each other.
Matching(q, m) ==
  \A i \in At(q), j \in At(m) :
    /\ q[i].cmd = "configStrings" /\ m[j].cmd = "serverData" => q[i].spawn <= m[j].spawn
    /\ q[i].cmd \in {"configStrings", "baselines"} /\ m[j].cmd = "baselines"
         => q[i].spawn = m[j].spawn
    /\ q[i].cmd \in {"baselines", "begin"} /\ m[j].cmd = "precache" => q[i].spawn = m[j].spawn

\* A client in its slot r of a server that runs level n: when the server has it in the game, the
\* level that it was told, or will be, is that one.
InLevel(told, state, r, n) ==
  r.state = "active" =>
    /\ \A j \in At(r.message) : r.message[j].cmd = "precache" => r.message[j].spawn = n
    /\ state \in {"loading", "active"} => told = n

\* The invariant of the reliable commands, whatever the channel loses and however often either end
\* is set up again.
Conversation ==
  /\ \A c \in Clients : QueueOrdered(clMessage[c], clSpawn[c])
  /\ \A s \in Slot : RepliesOrdered(slots[s].message, spawnCount)
  /\ \A c \in Clients : \A s \in Owned(c) :
       /\ Matching(clMessage[c], slots[s].message)
       /\ InLevel(clSpawn[c], clState[c], slots[s], spawnCount)

-------------------------------------------------------------------------------
\* The queues.

\* What Tail leaves of a queue, and where.
LEMMA TailAt ==
  ASSUME NEW S, NEW q \in Seq(S), q # <<>>
  PROVE  /\ 1 \in At(q) /\ Head(q) = q[1]
         /\ Len(Tail(q)) = Len(q) - 1 /\ Len(q) \in Nat /\ Len(Tail(q)) \in Nat
         /\ \A i \in At(Tail(q)) : i \in Int /\ i + 1 \in At(q) /\ i + 1 # 1 /\ Tail(q)[i] = q[i + 1]
  BY DEF At

\* What Append leaves of a queue, and what it adds.
LEMMA AppendAt ==
  ASSUME NEW S, NEW q \in Seq(S), NEW e \in S
  PROVE  /\ Len(Append(q, e)) = Len(q) + 1 /\ Len(q) \in Nat
         /\ q \o <<e>> = Append(q, e)
         /\ \A i \in At(Append(q, e)) :
              /\ i \in Int
              /\ \/ i \in At(q) /\ i < Len(q) + 1 /\ Append(q, e)[i] = q[i]
                 \/ i = Len(q) + 1 /\ Append(q, e)[i] = e
  BY DEF At

\* The commands in a queue are commands.
LEMMA Levels ==
  /\ \A q \in Seq(ClientCommand) : \A i \in At(q) : q[i].spawn \in Int
  /\ \A m \in Seq(ServerCommand) : \A i \in At(m) : m[i].spawn \in Int
  /\ \A e \in ServerCommand : e.spawn \in Int
<1>1. ASSUME NEW q \in Seq(ClientCommand), NEW i \in At(q)
      PROVE  q[i].spawn \in Int
  <2>1. q[i] \in ClientCommand
    BY DEF At
  <2> QED
    BY <2>1, ConstantFacts DEF ClientCommand
<1>2. ASSUME NEW m \in Seq(ServerCommand), NEW i \in At(m)
      PROVE  m[i].spawn \in Int
  <2>1. m[i] \in ServerCommand
    BY DEF At
  <2> QED
    BY <2>1, ConstantFacts DEF ServerCommand
<1>3. \A e \in ServerCommand : e.spawn \in Int
  BY ConstantFacts DEF ServerCommand
<1> QED
  BY <1>1, <1>2, <1>3

\* A command is taken from a client's queue.
LEMMA ClientTail ==
  ASSUME NEW q \in Seq(ClientCommand), q # <<>>, NEW told, QueueOrdered(q, told)
  PROVE  /\ QueueOrdered(Tail(q), told)
         /\ \A i \in At(Tail(q)) : Tail(q)[i].cmd \notin {"new", "configStrings"}
<1> DEFINE t == Tail(q)
<1>1. \A i \in At(t) : i \in Int /\ i + 1 \in At(q) /\ i + 1 # 1 /\ t[i] = q[i + 1]
  BY TailAt
<1> HIDE DEF t
<1>2. \A i \in At(t) : t[i].cmd \notin {"new", "configStrings"}
  BY <1>1 DEF QueueOrdered
<1>3. \A i, j \in At(t) : /\ t[i].cmd \in {"configStrings", "baselines"}
                          /\ t[j].cmd \in {"configStrings", "baselines"}
                          => t[i].spawn = t[j].spawn
  BY <1>1 DEF QueueOrdered
<1>4. ASSUME NEW i \in At(t), NEW j \in At(t), i < j, t[i].cmd = "baselines", t[j].cmd = "begin"
      PROVE  t[i].spawn = t[j].spawn
  <2>1. i + 1 \in At(q) /\ j + 1 \in At(q) /\ i + 1 < j + 1
    BY <1>1, <1>4
  <2>2. q[i + 1].cmd = "baselines" /\ q[j + 1].cmd = "begin"
    BY <1>1, <1>4
  <2>3. q[i + 1].spawn = q[j + 1].spawn
    BY <2>1, <2>2 DEF QueueOrdered
  <2> QED
    BY <1>1, <2>3
<1>5. \A i \in At(t) : t[i].cmd = "begin" => t[i].spawn = told
  BY <1>1 DEF QueueOrdered
<1>6. QueueOrdered(t, told)
  BY <1>2, <1>3, <1>4, <1>5 DEF QueueOrdered
<1> QED
  BY <1>2, <1>6 DEF t

\* A command is taken from a slot's queue.
LEMMA ServerTail ==
  ASSUME NEW m \in Seq(ServerCommand), m # <<>>, NEW n, RepliesOrdered(m, n)
  PROVE  RepliesOrdered(Tail(m), n)
<1> DEFINE t == Tail(m)
<1>1. \A i \in At(t) : i \in Int /\ i + 1 \in At(m) /\ t[i] = m[i + 1]
  BY TailAt
<1> HIDE DEF t
<1>2. \A i \in At(t) : t[i].spawn <= n
  BY <1>1 DEF RepliesOrdered
<1>3. ASSUME NEW i \in At(t), NEW j \in At(t), i < j
      PROVE  /\ t[i].spawn <= t[j].spawn
             /\ t[i].cmd = "baselines" /\ t[j].cmd = "precache" => t[i].spawn = t[j].spawn
  <2>1. i + 1 \in At(m) /\ j + 1 \in At(m) /\ i + 1 < j + 1
    BY <1>1, <1>3
  <2>2. /\ m[i + 1].spawn <= m[j + 1].spawn
        /\ m[i + 1].cmd = "baselines" /\ m[j + 1].cmd = "precache"
             => m[i + 1].spawn = m[j + 1].spawn
    BY <2>1 DEF RepliesOrdered
  <2>3. t[i] = m[i + 1] /\ t[j] = m[j + 1]
    BY <1>1
  <2> QED
    BY <2>2, <2>3
<1>4. ASSUME NEW i \in At(t), NEW j \in At(t)
      PROVE  /\ t[i].cmd = "baselines" /\ t[j].cmd = "serverData" => t[i].spawn <= t[j].spawn
             /\ t[i].cmd = "baselines" /\ t[j].cmd = "baselines" => t[i].spawn = t[j].spawn
             /\ t[i].cmd = "precache" /\ t[j].cmd = "precache" => t[i].spawn = t[j].spawn
  <2>1. i + 1 \in At(m) /\ j + 1 \in At(m) /\ t[i] = m[i + 1] /\ t[j] = m[j + 1]
    BY <1>1
  <2> QED
    BY <2>1 DEF RepliesOrdered
<1>5. RepliesOrdered(t, n)
  BY <1>2, <1>3, <1>4 DEF RepliesOrdered
<1> QED
  BY <1>5 DEF t

\* Either queue gets shorter.
LEMMA MatchingTail ==
  ASSUME NEW q \in Seq(ClientCommand), NEW m \in Seq(ServerCommand), Matching(q, m)
  PROVE  /\ q # <<>> => Matching(Tail(q), m)
         /\ m # <<>> => Matching(q, Tail(m))
<1>1. ASSUME q # <<>>
      PROVE  Matching(Tail(q), m)
  <2> DEFINE t == Tail(q)
  <2>1. \A i \in At(t) : i + 1 \in At(q) /\ t[i] = q[i + 1]
    BY <1>1, TailAt
  <2> HIDE DEF t
  <2>2. Matching(t, m)
    BY <2>1 DEF Matching
  <2> QED
    BY <2>2 DEF t
<1>2. ASSUME m # <<>>
      PROVE  Matching(q, Tail(m))
  <2> DEFINE t == Tail(m)
  <2>1. \A j \in At(t) : j + 1 \in At(m) /\ t[j] = m[j + 1]
    BY <1>2, TailAt
  <2> HIDE DEF t
  <2>2. Matching(q, t)
    BY <2>1 DEF Matching
  <2> QED
    BY <2>2 DEF t
<1> QED
  BY <1>1, <1>2

\* A client adds a baselines or a begin to its queue.
LEMMA ClientAppend ==
  ASSUME NEW q \in Seq(ClientCommand), NEW e \in ClientCommand, NEW told, NEW new,
         QueueOrdered(q, told), e.cmd \in {"baselines", "begin"},
         e.cmd = "baselines" =>
           /\ new = told
           /\ \A i \in At(q) : q[i].cmd \in {"configStrings", "baselines"} => q[i].spawn = e.spawn,
         e.cmd = "begin" =>
           /\ new = e.spawn
           /\ \A i \in At(q) : q[i].cmd \in {"baselines", "begin"} => q[i].spawn = e.spawn
  PROVE  QueueOrdered(Append(q, e), new)
<1> DEFINE t == Append(q, e)
<1>1. /\ Len(q) \in Nat
      /\ \A i \in At(t) : /\ i \in Int
                          /\ \/ i \in At(q) /\ i < Len(q) + 1 /\ t[i] = q[i]
                             \/ i = Len(q) + 1 /\ t[i] = e
  BY DEF At
<1> HIDE DEF t
<1>2. \A i \in At(t) : t[i].cmd \in {"new", "configStrings"} => i = 1
  BY <1>1 DEF QueueOrdered
<1>3. ASSUME NEW i \in At(t), NEW j \in At(t),
             t[i].cmd \in {"configStrings", "baselines"}, t[j].cmd \in {"configStrings", "baselines"}
      PROVE  t[i].spawn = t[j].spawn
  <2>1. CASE e.cmd = "baselines"
    BY <1>1, <1>3, <2>1 DEF QueueOrdered
  <2>2. CASE e.cmd = "begin"
    <3>1. t[i] = q[i] /\ i \in At(q) /\ t[j] = q[j] /\ j \in At(q)
      BY <1>1, <1>3, <2>2
    <3> QED
      BY <1>3, <3>1 DEF QueueOrdered
  <2> QED
    BY <2>1, <2>2
<1>4. ASSUME NEW i \in At(t), NEW j \in At(t), i < j, t[i].cmd = "baselines", t[j].cmd = "begin"
      PROVE  t[i].spawn = t[j].spawn
  <2>1. i \in At(q) /\ t[i] = q[i]
    <3>1. j \in Int /\ i \in Int /\ j <= Len(q) + 1
      BY <1>1
    <3> QED
      BY <1>1, <1>4, <3>1
  <2>2. CASE j \in At(q) /\ t[j] = q[j]
    BY <1>4, <2>1, <2>2 DEF QueueOrdered
  <2>3. CASE t[j] = e
    BY <1>4, <2>1, <2>3
  <2> QED
    BY <1>1, <2>2, <2>3
<1>5. ASSUME NEW i \in At(t), t[i].cmd = "begin"
      PROVE  t[i].spawn = new
  <2>1. CASE t[i] = e
    BY <1>5, <2>1
  <2>2. CASE i \in At(q) /\ t[i] = q[i]
    BY <1>5, <2>2 DEF QueueOrdered
  <2> QED
    BY <1>1, <2>1, <2>2
<1>6. QueueOrdered(t, new)
  BY <1>2, <1>3, <1>4, <1>5 DEF QueueOrdered
<1> QED
  BY <1>6 DEF t

\* The server adds a reply about the level that it runs.
LEMMA ServerAppend ==
  ASSUME NEW m \in Seq(ServerCommand), NEW e \in ServerCommand, RepliesOrdered(m, e.spawn),
         e.cmd = "baselines" =>
           \A i \in At(m) : /\ m[i].cmd = "serverData" => e.spawn <= m[i].spawn
                            /\ m[i].cmd = "baselines" => m[i].spawn = e.spawn,
         e.cmd = "precache" =>
           \A i \in At(m) : m[i].cmd \in {"baselines", "precache"} => m[i].spawn = e.spawn
  PROVE  RepliesOrdered(Append(m, e), e.spawn)
<1> DEFINE t == Append(m, e)
           n == e.spawn
<1>0. n \in Int /\ \A i \in At(m) : m[i].spawn \in Int
  BY Levels
<1>1. /\ Len(m) \in Nat
      /\ \A i \in At(t) : /\ i \in Int
                          /\ \/ i \in At(m) /\ i < Len(m) + 1 /\ t[i] = m[i]
                             \/ i = Len(m) + 1 /\ t[i] = e
  BY AppendAt
<1> HIDE DEF t
<1>2. \A i \in At(t) : t[i].spawn <= n
  BY <1>0, <1>1 DEF RepliesOrdered
<1>3. ASSUME NEW i \in At(t), NEW j \in At(t), i < j
      PROVE  /\ t[i].spawn <= t[j].spawn
             /\ t[i].cmd = "baselines" /\ t[j].cmd = "precache" => t[i].spawn = t[j].spawn
  <2>1. i \in At(m) /\ t[i] = m[i]
    <3>1. j \in Int /\ i \in Int /\ j <= Len(m) + 1
      BY <1>1
    <3> QED
      BY <1>1, <1>3, <3>1
  <2>2. CASE j \in At(m) /\ t[j] = m[j]
    BY <1>3, <2>1, <2>2 DEF RepliesOrdered
  <2>3. CASE t[j] = e
    BY <1>2, <2>1, <2>3
  <2> QED
    BY <1>1, <2>2, <2>3
<1>4. ASSUME NEW i \in At(t), NEW j \in At(t)
      PROVE  /\ t[i].cmd = "baselines" /\ t[j].cmd = "serverData" => t[i].spawn <= t[j].spawn
             /\ t[i].cmd = "baselines" /\ t[j].cmd = "baselines" => t[i].spawn = t[j].spawn
             /\ t[i].cmd = "precache" /\ t[j].cmd = "precache" => t[i].spawn = t[j].spawn
  <2>1. CASE i \in At(m) /\ t[i] = m[i] /\ j \in At(m) /\ t[j] = m[j]
    BY <2>1 DEF RepliesOrdered
  <2>2. CASE i \in At(m) /\ t[i] = m[i] /\ t[j] = e
    BY <1>2, <2>2
  <2>3. CASE t[i] = e /\ j \in At(m) /\ t[j] = m[j]
    BY <2>3
  <2>4. CASE t[i] = e /\ t[j] = e
    BY <1>0, <2>4
  <2> QED
    BY <1>1, <2>1, <2>2, <2>3, <2>4
<1>5. RepliesOrdered(t, n)
  BY <1>2, <1>3, <1>4 DEF RepliesOrdered
<1> QED
  BY <1>5 DEF t, n

\* What may be added to one queue, for the other.
LEMMA MatchingAppend ==
  ASSUME NEW q \in Seq(ClientCommand), NEW m \in Seq(ServerCommand), Matching(q, m)
  PROVE  /\ \A e \in ClientCommand :
              (\A j \in At(m) :
                 /\ e.cmd # "configStrings"
                 /\ m[j].cmd = "baselines" /\ e.cmd = "baselines" => e.spawn = m[j].spawn
                 /\ m[j].cmd = "precache" /\ e.cmd \in {"baselines", "begin"} => e.spawn = m[j].spawn)
              => Matching(Append(q, e), m)
         /\ \A e \in ServerCommand :
              (\A i \in At(q) :
                 /\ q[i].cmd = "configStrings" /\ e.cmd = "serverData" => q[i].spawn <= e.spawn
                 /\ q[i].cmd \in {"configStrings", "baselines"} /\ e.cmd = "baselines"
                      => q[i].spawn = e.spawn
                 /\ q[i].cmd \in {"baselines", "begin"} /\ e.cmd = "precache"
                      => q[i].spawn = e.spawn)
              => Matching(q, Append(m, e))
<1>1. ASSUME NEW e \in ClientCommand,
             \A j \in At(m) :
               /\ e.cmd # "configStrings"
               /\ m[j].cmd = "baselines" /\ e.cmd = "baselines" => e.spawn = m[j].spawn
               /\ m[j].cmd = "precache" /\ e.cmd \in {"baselines", "begin"} => e.spawn = m[j].spawn
      PROVE  Matching(Append(q, e), m)
  <2> DEFINE t == Append(q, e)
  <2>1. \A i \in At(t) : (i \in At(q) /\ t[i] = q[i]) \/ t[i] = e
    BY AppendAt
  <2> HIDE DEF t
  <2>2. ASSUME NEW i \in At(t), NEW j \in At(m)
        PROVE  /\ t[i].cmd = "configStrings" /\ m[j].cmd = "serverData" => t[i].spawn <= m[j].spawn
               /\ t[i].cmd \in {"configStrings", "baselines"} /\ m[j].cmd = "baselines"
                    => t[i].spawn = m[j].spawn
               /\ t[i].cmd \in {"baselines", "begin"} /\ m[j].cmd = "precache"
                    => t[i].spawn = m[j].spawn
    <3>1. CASE i \in At(q) /\ t[i] = q[i]
      BY <3>1 DEF Matching
    <3>2. CASE t[i] = e
      BY <1>1, <3>2
    <3> QED
      BY <2>1, <3>1, <3>2
  <2>3. Matching(t, m)
    BY <2>2 DEF Matching
  <2> QED
    BY <2>3 DEF t
<1>2. ASSUME NEW e \in ServerCommand,
             \A i \in At(q) :
               /\ q[i].cmd = "configStrings" /\ e.cmd = "serverData" => q[i].spawn <= e.spawn
               /\ q[i].cmd \in {"configStrings", "baselines"} /\ e.cmd = "baselines"
                    => q[i].spawn = e.spawn
               /\ q[i].cmd \in {"baselines", "begin"} /\ e.cmd = "precache"
                    => q[i].spawn = e.spawn
      PROVE  Matching(q, Append(m, e))
  <2> DEFINE t == Append(m, e)
  <2>1. \A j \in At(t) : (j \in At(m) /\ t[j] = m[j]) \/ t[j] = e
    BY AppendAt
  <2> HIDE DEF t
  <2>2. ASSUME NEW i \in At(q), NEW j \in At(t)
        PROVE  /\ q[i].cmd = "configStrings" /\ t[j].cmd = "serverData" => q[i].spawn <= t[j].spawn
               /\ q[i].cmd \in {"configStrings", "baselines"} /\ t[j].cmd = "baselines"
                    => q[i].spawn = t[j].spawn
               /\ q[i].cmd \in {"baselines", "begin"} /\ t[j].cmd = "precache"
                    => q[i].spawn = t[j].spawn
    <3>1. CASE j \in At(m) /\ t[j] = m[j]
      BY <3>1 DEF Matching
    <3>2. CASE t[j] = e
      BY <1>2, <3>2
    <3> QED
      BY <2>1, <3>1, <3>2
  <2>3. Matching(q, t)
    BY <2>2 DEF Matching
  <2> QED
    BY <2>3 DEF t
<1> QED
  BY <1>1, <1>2

\* Nothing waits in an empty queue, and a new goes with everything.
LEMMA EmptyQueues ==
  /\ \A told : QueueOrdered(<<>>, told)
  /\ \A told : QueueOrdered(<<Cmd("new", 0)>>, told)
  /\ \A n : RepliesOrdered(<<>>, n)
  /\ \A m : Matching(<<>>, m)
  /\ \A m : Matching(<<Cmd("new", 0)>>, m)
  /\ \A q : Matching(q, <<>>)
<1>1. At(<<>>) = {}
  BY DEF At
<1>2. /\ \A told : QueueOrdered(<<>>, told)
      /\ \A n : RepliesOrdered(<<>>, n)
      /\ \A m : Matching(<<>>, m)
      /\ \A q : Matching(q, <<>>)
  BY <1>1 DEF QueueOrdered, RepliesOrdered, Matching
<1> DEFINE new == <<Cmd("new", 0)>>
<1>3. \A i \in At(new) : i = 1 /\ new[i].cmd = "new"
  BY DEF At, Cmd
<1> HIDE DEF new
<1>4. /\ \A told : QueueOrdered(new, told)
      /\ \A m : Matching(new, m)
  BY <1>3 DEF QueueOrdered, Matching
<1> QED
  BY <1>2, <1>4 DEF new

\* Of the next command in a client's queue, with the slot's: what is left is in order, and so is a
\* reply; when it is a begin for the level that runs, the client was told that level and will not
\* be told another.
LEMMA ServerReads ==
  ASSUME NEW q \in Seq(ClientCommand), q # <<>>, NEW told, QueueOrdered(q, told),
         NEW m \in Seq(ServerCommand), NEW n \in 1 .. MaxSpawn, RepliesOrdered(m, n), Matching(q, m)
  PROVE  /\ QueueOrdered(Tail(q), told) /\ Matching(Tail(q), m)
         /\ \A name \in {"serverData", "baselines", "precache"} :
              /\ name = "baselines" => Head(q).cmd = "configStrings" /\ Head(q).spawn = n
              /\ name = "precache" => Head(q).cmd = "baselines" /\ Head(q).spawn = n
              => /\ RepliesOrdered(Append(m, Cmd(name, n)), n)
                 /\ Matching(Tail(q), Append(m, Cmd(name, n)))
         /\ Head(q).cmd = "begin" /\ Head(q).spawn = n =>
              told = n /\ \A j \in At(m) : m[j].cmd = "precache" => m[j].spawn = n
<1>0. n \in 0 .. MaxSpawn /\ n \in Int
  BY ConstantFacts
<1>1. 1 \in At(q) /\ Head(q) = q[1]
  BY TailAt
<1>2. QueueOrdered(Tail(q), told) /\ Matching(Tail(q), m) /\ Tail(q) \in Seq(ClientCommand)
      /\ \A i \in At(Tail(q)) : /\ Tail(q)[i].cmd \notin {"new", "configStrings"}
                                /\ i + 1 \in At(q) /\ 1 < i + 1 /\ Tail(q)[i] = q[i + 1]
  <2>1. \A i \in At(Tail(q)) : 1 < i + 1
    BY TailAt DEF At
  <2> QED
    BY <2>1, ClientTail, MatchingTail, TailAt, Taken
<1>3. ASSUME NEW name \in {"serverData", "baselines", "precache"},
             name = "baselines" => Head(q).cmd = "configStrings" /\ Head(q).spawn = n,
             name = "precache" => Head(q).cmd = "baselines" /\ Head(q).spawn = n
      PROVE  /\ RepliesOrdered(Append(m, Cmd(name, n)), n)
             /\ Matching(Tail(q), Append(m, Cmd(name, n)))
  <2> DEFINE e == Cmd(name, n)
             t == Tail(q)
  <2>1. e \in ServerCommand /\ e.cmd = name /\ e.spawn = n
    BY <1>0, CommandFacts DEF Cmd
  <2> HIDE DEF e
  <2>2. name = "baselines" =>
          \A i \in At(m) : /\ m[i].cmd = "serverData" => n <= m[i].spawn
                           /\ m[i].cmd = "baselines" => m[i].spawn = n
    BY <1>1, <1>3 DEF Matching
  <2>3. name = "precache" =>
          \A i \in At(m) : m[i].cmd \in {"baselines", "precache"} => m[i].spawn = n
    BY <1>1, <1>3 DEF Matching
  <2>4. RepliesOrdered(Append(m, e), n)
    BY <2>1, <2>2, <2>3, ServerAppend
  <2>5. ASSUME NEW i \in At(t)
        PROVE  /\ t[i].cmd # "configStrings"
               /\ t[i].cmd = "baselines" /\ name = "baselines" => t[i].spawn = n
               /\ t[i].cmd \in {"baselines", "begin"} /\ name = "precache" => t[i].spawn = n
    <3>1. /\ i + 1 \in At(q) /\ 1 < i + 1 /\ t[i] = q[i + 1]
          /\ t[i].cmd \notin {"new", "configStrings"}
      BY <1>2
    <3> HIDE DEF t
    <3>2. t[i].cmd = "baselines" /\ name = "baselines" => t[i].spawn = n
      BY <1>1, <1>3, <3>1 DEF QueueOrdered
    <3>3. t[i].cmd = "baselines" /\ name = "precache" => t[i].spawn = n
      BY <1>1, <1>3, <3>1 DEF QueueOrdered
    <3>4. t[i].cmd = "begin" /\ name = "precache" => t[i].spawn = n
      BY <1>1, <1>3, <3>1 DEF QueueOrdered
    <3> QED
      BY <3>1, <3>2, <3>3, <3>4
  <2>6. Matching(t, Append(m, e))
    <3>1. t \in Seq(ClientCommand) /\ Matching(t, m)
      BY <1>2
    <3> HIDE DEF t
    <3>2. \A i \in At(t) :
            /\ t[i].cmd = "configStrings" /\ e.cmd = "serverData" => t[i].spawn <= e.spawn
            /\ t[i].cmd \in {"configStrings", "baselines"} /\ e.cmd = "baselines"
                 => t[i].spawn = e.spawn
            /\ t[i].cmd \in {"baselines", "begin"} /\ e.cmd = "precache" => t[i].spawn = e.spawn
      BY <2>1, <2>5
    <3> QED
      BY <2>1, <3>1, <3>2, MatchingAppend
  <2> QED
    BY <2>4, <2>6 DEF e
<1>4. ASSUME Head(q).cmd = "begin", Head(q).spawn = n
      PROVE  told = n /\ \A j \in At(m) : m[j].cmd = "precache" => m[j].spawn = n
  <2>1. told = n
    BY <1>1, <1>4 DEF QueueOrdered
  <2>2. \A j \in At(m) : m[j].cmd = "precache" => m[j].spawn = n
    BY <1>1, <1>4 DEF Matching
  <2> QED
    BY <2>1, <2>2
<1> QED
  BY <1>2, <1>3, <1>4

\* Of the next command in a slot's queue, with the client's: what is left is in order, and so is
\* what the client asks for next.
LEMMA ClientReads ==
  ASSUME NEW q \in Seq(ClientCommand), NEW told, QueueOrdered(q, told),
         NEW m \in Seq(ServerCommand), m # <<>>, NEW n, RepliesOrdered(m, n), Matching(q, m)
  PROVE  LET h == Head(m)
             t == Tail(m)
         IN /\ RepliesOrdered(t, n) /\ Matching(q, t)
            /\ h.cmd = "serverData" =>
                 /\ QueueOrdered(<<Cmd("configStrings", h.spawn)>>, told)
                 /\ Matching(<<Cmd("configStrings", h.spawn)>>, t)
            /\ h.cmd = "baselines" =>
                 /\ QueueOrdered(Append(q, Cmd("baselines", h.spawn)), told)
                 /\ Matching(Append(q, Cmd("baselines", h.spawn)), t)
            /\ h.cmd = "precache" =>
                 /\ QueueOrdered(q \o Begins(h), h.spawn)
                 /\ Matching(q \o Begins(h), t)
<1> DEFINE h == Head(m)
           t == Tail(m)
<1>1. 1 \in At(m) /\ h = m[1] /\ h \in ServerCommand /\ t \in Seq(ServerCommand)
      /\ h.spawn \in 0 .. MaxSpawn
  <2>1. 1 \in At(m) /\ h = m[1] /\ h \in ServerCommand /\ t \in Seq(ServerCommand)
    BY TailAt, Taken
  <2> QED
    BY <2>1 DEF ServerCommand
<1>2. \A j \in At(t) : j + 1 \in At(m) /\ 1 < j + 1 /\ t[j] = m[j + 1]
  <2>1. \A j \in At(t) : 1 < j + 1
    BY TailAt DEF At
  <2> QED
    BY <2>1, TailAt
<1>3. RepliesOrdered(t, n) /\ Matching(q, t)
  BY ServerTail, MatchingTail
<1> HIDE DEF t
<1>4. ASSUME h.cmd = "serverData"
      PROVE  /\ QueueOrdered(<<Cmd("configStrings", h.spawn)>>, told)
             /\ Matching(<<Cmd("configStrings", h.spawn)>>, t)
  <2> DEFINE only == <<Cmd("configStrings", h.spawn)>>
  <2>1. \A i \in At(only) : i = 1 /\ only[i].cmd = "configStrings" /\ only[i].spawn = h.spawn
    BY DEF At, Cmd
  <2> HIDE DEF only
  <2>2. QueueOrdered(only, told)
    BY <2>1 DEF QueueOrdered
  <2>3. ASSUME NEW j \in At(t)
        PROVE  /\ h.spawn <= t[j].spawn
               /\ t[j].cmd = "baselines" => h.spawn = t[j].spawn
    <3>1. h.spawn <= t[j].spawn
      BY <1>1, <1>2 DEF RepliesOrdered
    <3>2. t[j].cmd = "baselines" => t[j].spawn <= h.spawn
      BY <1>1, <1>2, <1>4 DEF RepliesOrdered
    <3>3. h.spawn \in Int /\ t[j].spawn \in Int
      BY <1>1, Levels
    <3> QED
      BY <3>1, <3>2, <3>3
  <2>4. Matching(only, t)
    BY <2>1, <2>3 DEF Matching
  <2> QED
    BY <2>2, <2>4 DEF only
<1>5. ASSUME h.cmd = "baselines"
      PROVE  /\ QueueOrdered(Append(q, Cmd("baselines", h.spawn)), told)
             /\ Matching(Append(q, Cmd("baselines", h.spawn)), t)
  <2> DEFINE e == Cmd("baselines", h.spawn)
  <2>1. e \in ClientCommand /\ e.cmd = "baselines" /\ e.spawn = h.spawn
    BY <1>1, CommandFacts DEF Cmd
  <2> HIDE DEF e
  <2>2. \A i \in At(q) : q[i].cmd \in {"configStrings", "baselines"} => q[i].spawn = h.spawn
    BY <1>1, <1>5 DEF Matching
  <2>3. QueueOrdered(Append(q, e), told)
    BY <2>1, <2>2, ClientAppend
  <2>4. \A j \in At(t) : t[j].cmd \in {"baselines", "precache"} => h.spawn = t[j].spawn
    BY <1>1, <1>2, <1>5 DEF RepliesOrdered
  <2>5. Matching(Append(q, e), t)
    BY <1>1, <1>3, <2>1, <2>4, MatchingAppend
  <2> QED
    BY <2>3, <2>5 DEF e
<1>6. ASSUME h.cmd = "precache"
      PROVE  /\ QueueOrdered(q \o Begins(h), h.spawn)
             /\ Matching(q \o Begins(h), t)
  <2> DEFINE e == Cmd("begin", h.spawn)
  <2>1. e \in ClientCommand /\ e.cmd = "begin" /\ e.spawn = h.spawn
    BY <1>1, CommandFacts DEF Cmd
  <2>2. q \o Begins(h) = Append(q, e)
    BY <2>1, AppendAt DEF Begins
  <2> HIDE DEF e
  <2>3. \A i \in At(q) : q[i].cmd \in {"baselines", "begin"} => q[i].spawn = h.spawn
    BY <1>1, <1>6 DEF Matching
  <2>4. QueueOrdered(Append(q, e), h.spawn)
    BY <2>1, <2>3, ClientAppend
  <2>5. \A j \in At(t) : t[j].cmd = "precache" => h.spawn = t[j].spawn
    BY <1>1, <1>2, <1>6 DEF RepliesOrdered
  <2>6. Matching(Append(q, e), t)
    BY <1>1, <1>3, <2>1, <2>5, MatchingAppend
  <2> QED
    BY <2>2, <2>4, <2>6
<1> QED
  BY <1>3, <1>4, <1>5, <1>6 DEF t

-------------------------------------------------------------------------------
\* What the steps do to the conversation.

\* The conversation holds at the start.
LEMMA ConversationAtFirst ==
  ASSUME Init
  PROVE  Conversation
<1>1. /\ \A c \in Clients : clMessage[c] = <<>> /\ Owned(c) = {}
      /\ \A s \in Slot : slots[s].message = <<>>
  BY FreeSlotFacts DEF Init, Owned, Used, FreeSlot
<1> QED
  BY <1>1, EmptyQueues DEF Conversation

\* What the client does on its own: its queue stays, or is cleared, and it is in no level that it
\* was not in.
LEMMA ClientAlone ==
  ASSUME Conversation, UNCHANGED <<clSpawn, spawnCount, slots>>,
         \A c \in Clients :
           /\ \/ clMessage'[c] = clMessage[c]
              \/ clMessage'[c] \in {<<>>, <<Cmd("new", 0)>>}
           /\ clState'[c] \in {"loading", "active"} => clState[c] \in {"loading", "active"}
  PROVE  Conversation'
<1>1. \A c \in Clients : Owned(c)' = Owned(c)
  BY DEF Owned, Used
<1>2. \A c \in Clients : QueueOrdered(clMessage'[c], clSpawn'[c])
  BY EmptyQueues DEF Conversation
<1>3. \A s \in Slot : RepliesOrdered(slots'[s].message, spawnCount')
  BY DEF Conversation
<1>4. ASSUME NEW c \in Clients, NEW s \in Owned(c)
      PROVE  /\ Matching(clMessage'[c], slots'[s].message)
             /\ InLevel(clSpawn'[c], clState'[c], slots'[s], spawnCount')
  <2>1. Matching(clMessage[c], slots[s].message)
        /\ InLevel(clSpawn[c], clState[c], slots[s], spawnCount)
    BY <1>4 DEF Conversation
  <2>2. Matching(clMessage'[c], slots'[s].message)
    BY <2>1, EmptyQueues
  <2>3. InLevel(clSpawn'[c], clState'[c], slots'[s], spawnCount')
    BY <2>1 DEF InLevel
  <2> QED
    BY <2>2, <2>3
<1> QED
  BY <1>1, <1>2, <1>3, <1>4 DEF Conversation

\* A level that is later than what waits.
LEMMA LaterLevel ==
  ASSUME NEW m \in Seq(ServerCommand), NEW n \in Int, NEW k \in Int, n <= k, RepliesOrdered(m, n)
  PROVE  RepliesOrdered(m, k)
<1>1. \A i \in At(m) : m[i].spawn <= k
  BY Levels DEF RepliesOrdered
<1> QED
  BY <1>1 DEF RepliesOrdered

\* What the server does on its own: a slot is given or freed with an empty queue, or stays in the
\* game only when no other level was loaded; of a client's queue a command may have been taken.
LEMMA ServerAlone ==
  ASSUME Inv, Conversation, UNCHANGED <<clState, clSpawn>>, spawnCount' \in 1 .. MaxSpawn,
         \A c \in Clients :
           \/ clMessage'[c] = clMessage[c]
           \/ clMessage[c] # <<>> /\ clMessage'[c] = Tail(clMessage[c]),
         \A s \in Slot :
           \/ slots'[s].message = <<>> /\ slots'[s].state # "active"
           \/ slots'[s].message = <<>> /\ slots'[s].client = NoClient
           \/ /\ slots'[s].message = slots[s].message /\ slots'[s].client = slots[s].client
              /\ slots'[s].state # "free" => slots[s].state # "free"
              /\ spawnCount <= spawnCount'
              /\ slots'[s].state = "active" => slots[s].state = "active" /\ spawnCount' = spawnCount
           \/ slots'[s] = slots[s] /\ spawnCount' = spawnCount
  PROVE  Conversation'
<1>1. ASSUME NEW c \in Clients
      PROVE  /\ QueueOrdered(clMessage'[c], clSpawn'[c])
             /\ clMessage[c] \in Seq(ClientCommand)
  <2>1. QueueOrdered(clMessage[c], clSpawn[c]) /\ clMessage[c] \in Seq(ClientCommand)
    BY DEF Conversation, Inv, TypeOK
  <2> QED
    BY <2>1, ClientTail
<1>2. \A s \in Slot : slots[s].message \in Seq(ServerCommand)
  BY DEF Inv, TypeOK, ServerClient
<1>3. ASSUME NEW s \in Slot
      PROVE  RepliesOrdered(slots'[s].message, spawnCount')
  <2>1. CASE slots'[s].message = <<>>
    BY <2>1, EmptyQueues
  <2>2. CASE slots'[s].message = slots[s].message /\ spawnCount <= spawnCount'
    <3>1. RepliesOrdered(slots[s].message, spawnCount)
      BY DEF Conversation
    <3>2. spawnCount \in Int /\ spawnCount' \in Int
      BY ConstantFacts DEF Inv, TypeOK
    <3> QED
      BY <1>2, <2>2, <3>1, <3>2, LaterLevel
  <2>3. spawnCount \in Int
    BY DEF Inv, TypeOK
  <2>4. CASE slots'[s] = slots[s] /\ spawnCount' = spawnCount
    BY <2>2, <2>3, <2>4
  <2> QED
    BY <2>1, <2>2, <2>4
<1>4. ASSUME NEW c \in Clients, NEW s \in Owned(c)'
      PROVE  /\ Matching(clMessage'[c], slots'[s].message)
             /\ InLevel(clSpawn'[c], clState'[c], slots'[s], spawnCount')
  <2>0. s \in Slot /\ slots'[s].state # "free" /\ slots'[s].client = c /\ c # NoClient
    BY ConstantFacts DEF Owned, Used
  <2>1. CASE slots'[s].message = <<>> /\ slots'[s].state # "active"
    BY <2>1, EmptyQueues DEF InLevel
  <2>2. CASE \/ /\ slots'[s].message = slots[s].message /\ slots'[s].client = slots[s].client
                /\ slots[s].state # "free" /\ spawnCount <= spawnCount'
                /\ slots'[s].state = "active" =>
                     slots[s].state = "active" /\ spawnCount' = spawnCount
             \/ slots'[s] = slots[s] /\ spawnCount' = spawnCount
    <3>1. s \in Owned(c)
      BY <2>0, <2>2 DEF Owned, Used
    <3>2. Matching(clMessage[c], slots[s].message)
          /\ InLevel(clSpawn[c], clState[c], slots[s], spawnCount)
      BY <3>1 DEF Conversation
    <3>3. slots'[s].message = slots[s].message
      BY <2>2
    <3>4. Matching(clMessage'[c], slots'[s].message)
      BY <1>1, <1>2, <2>0, <3>2, <3>3, MatchingTail
    <3>5. InLevel(clSpawn'[c], clState'[c], slots'[s], spawnCount')
      BY <2>2, <3>2, <3>3 DEF InLevel
    <3> QED
      BY <3>4, <3>5
  <2> QED
    BY <2>0, <2>1, <2>2
<1> QED
  BY <1>1, <1>3, <1>4 DEF Conversation

\* What a client and its slot do together.
LEMMA BothEnds ==
  ASSUME Inv, Conversation, NEW c \in Clients, NEW s \in Owned(c), UNCHANGED spawnCount,
         \A d \in Clients \ {c} : /\ clMessage'[d] = clMessage[d] /\ clSpawn'[d] = clSpawn[d]
                                  /\ clState'[d] = clState[d],
         \A t \in Slot \ {s} : slots'[t] = slots[t],
         slots'[s].client = c,
         QueueOrdered(clMessage'[c], clSpawn'[c]),
         RepliesOrdered(slots'[s].message, spawnCount),
         Matching(clMessage'[c], slots'[s].message),
         InLevel(clSpawn'[c], clState'[c], slots'[s], spawnCount)
  PROVE  Conversation'
<1>1. s \in Slot /\ Used(s) /\ slots[s].client = c /\ c # NoClient
  BY ConstantFacts DEF Owned
<1>2. \A d \in Clients : QueueOrdered(clMessage'[d], clSpawn'[d])
  BY DEF Conversation
<1>3. \A t \in Slot : RepliesOrdered(slots'[t].message, spawnCount')
  BY DEF Conversation
<1>4. ASSUME NEW d \in Clients, NEW t \in Owned(d)'
      PROVE  /\ Matching(clMessage'[d], slots'[t].message)
             /\ InLevel(clSpawn'[d], clState'[d], slots'[t], spawnCount')
  <2>0. t \in Slot /\ slots'[t].state # "free" /\ slots'[t].client = d
    BY DEF Owned, Used
  <2>1. CASE t = s
    BY <2>0, <2>1
  <2>2. CASE t # s
    <3>1. t \in Owned(d) /\ slots'[t] = slots[t]
      BY <2>0, <2>2 DEF Owned, Used
    <3>2. d # c
      BY <1>1, <2>2, <3>1 DEF Inv, OneSlotPerClient, Owned
    <3> QED
      BY <3>1, <3>2 DEF Conversation
  <2> QED
    BY <2>1, <2>2
<1> QED
  BY <1>2, <1>3, <1>4 DEF Conversation

\* Clients that start, ask, give up or die, and what is answered or lost on the way.
LEMMA AloneStep ==
  ASSUME Inv, Conversation,
         \/ \E c \in Clients : \/ Cl_Disconnect(c) \/ Cl_Connect(c) \/ Cl_AttemptConnect(c)
                               \/ Cl_Timeout(c) \/ Cl_ParseFrame(c)
         \/ \E p \in network : \/ Cl_Challenge(p) \/ Cl_ClientConnect(p) \/ Cl_Dropped(p)
                               \/ Cl_Reconnect(p) \/ Sv_GetChallenge(p) \/ Lose(p)
         \/ UNCHANGED vars
  PROVE  Conversation'
<1>1. UNCHANGED <<clSpawn, spawnCount, slots>>
  BY DEF Cl_Disconnect, Cl_Connect, Cl_AttemptConnect, Cl_Timeout, Cl_ParseFrame, Cl_Challenge,
         Cl_ClientConnect, Cl_Dropped, Cl_Reconnect, Sv_GetChallenge, Lose, clientVars, serverVars, vars
<1>2. clState \in [Clients -> ClientState] /\ clMessage \in [Clients -> Seq(ClientCommand)]
  BY DEF Inv, TypeOK
<1>3. ASSUME NEW d \in Clients
      PROVE  /\ \/ clMessage'[d] = clMessage[d]
                \/ clMessage'[d] \in {<<>>, <<Cmd("new", 0)>>}
             /\ clState'[d] \in {"loading", "active"} => clState[d] \in {"loading", "active"}
  <2>1. ASSUME NEW c \in Clients,
               \/ Cl_Disconnect(c) \/ Cl_Connect(c) \/ Cl_AttemptConnect(c) \/ Cl_Timeout(c)
               \/ Cl_ParseFrame(c)
        PROVE  \/ UNCHANGED <<clState, clMessage>>
               \/ /\ clState' = [clState EXCEPT ![c] = "disconnected"]
                  /\ clMessage' = [clMessage EXCEPT ![c] = <<>>]
               \/ /\ clState' = [clState EXCEPT ![c] = "connecting"]
                  /\ clMessage' = [clMessage EXCEPT ![c] = <<>>]
               \/ clState[c] = "loading" /\ clState' = [clState EXCEPT ![c] = "active"]
                  /\ UNCHANGED clMessage
    BY <2>1 DEF Cl_Disconnect, Cl_Connect, Cl_AttemptConnect, Cl_Timeout, Cl_ParseFrame,
                Disconnected, clientVars
  <2>2. ASSUME NEW p \in network,
               \/ Cl_Challenge(p) \/ Cl_ClientConnect(p) \/ Cl_Dropped(p)
               \/ Cl_Reconnect(p) \/ Sv_GetChallenge(p) \/ Lose(p)
        PROVE  \/ UNCHANGED <<clState, clMessage>>
               \/ /\ clState' = [clState EXCEPT ![p.client] = "disconnected"]
                  /\ clMessage' = [clMessage EXCEPT ![p.client] = <<>>]
               \/ /\ clState' = [clState EXCEPT ![p.client] = "connected"]
                  /\ clMessage' = [clMessage EXCEPT ![p.client] = <<Cmd("new", 0)>>]
               \/ clState' = [clState EXCEPT ![p.client] = "connecting"] /\ UNCHANGED clMessage
    BY <2>2 DEF Cl_Challenge, Cl_ClientConnect, Cl_Dropped, Cl_Reconnect, Sv_GetChallenge, Lose,
                Disconnected, clientVars
  <2>3. CASE \E c \in Clients : \/ Cl_Disconnect(c) \/ Cl_Connect(c) \/ Cl_AttemptConnect(c)
                                \/ Cl_Timeout(c) \/ Cl_ParseFrame(c)
    BY <1>2, <2>1, <2>3
  <2>4. CASE \E p \in network : \/ Cl_Challenge(p) \/ Cl_ClientConnect(p) \/ Cl_Dropped(p)
                                \/ Cl_Reconnect(p) \/ Sv_GetChallenge(p) \/ Lose(p)
    BY <1>2, <2>2, <2>4
  <2>5. CASE UNCHANGED vars
    BY <2>5 DEF vars, clientVars
  <2> QED
    BY <2>3, <2>4, <2>5
<1> QED
  BY <1>1, <1>3, ClientAlone

\* A slot that is freed is not talked to.
LEMMA DropConversation ==
  ASSUME Inv, Conversation, NEW s \in Slot, DropClient(s), UNCHANGED <<clState, clSpawn, spawnCount>>,
         \A c \in Clients :
           \/ clMessage'[c] = clMessage[c]
           \/ clMessage[c] # <<>> /\ clMessage'[c] = Tail(clMessage[c])
  PROVE  Conversation'
<1>1. slots'[s] = FreeSlot /\ \A t \in Slot \ {s} : slots'[t] = slots[t]
  BY DEF DropClient, Inv, TypeOK
<1>2. FreeSlot.message = <<>> /\ FreeSlot.state # "active"
  BY DEF FreeSlot
<1>3. spawnCount \in 1 .. MaxSpawn
  BY DEF Inv, TypeOK
<1> QED
  BY <1>1, <1>2, <1>3, ServerAlone

\* The server connects, drops, counts, starts a level or starts again.
LEMMA ServerStep ==
  ASSUME Inv, Conversation,
         \/ \E p \in network : Sv_Connect(p) \/ Sv_Disconnect(p)
         \/ \E s \in Slot : Sv_Timeout(s)
         \/ Sv_RunGameFrame \/ Sv_InitServer \/ Sv_Restart
  PROVE  Conversation'
<1>1. UNCHANGED <<clState, clMessage, clSpawn>>
  BY DEF Sv_Connect, Sv_Disconnect, Sv_Timeout, Sv_RunGameFrame, Sv_InitServer, Sv_Restart, clientVars
<1>2. /\ spawnCount \in 1 .. MaxSpawn /\ spawnCount \in Int /\ slots \in [Slot -> ServerClient]
      /\ network \subseteq Packet
  BY DEF Inv, TypeOK
<1>3. /\ FreeSlot.message = <<>> /\ FreeSlot.state # "active"
      /\ [FreeSlot EXCEPT !.state = "active"].message = <<>>
  BY DEF FreeSlot
<1>4. ASSUME NEW p \in network, Sv_Connect(p)
      PROVE  Conversation'
  <2> DEFINE s == Least(ChosenSlots(p.client))
  <2>1. /\ spawnCount' = spawnCount
        /\ \/ slots' = slots
           \/ ChosenSlots(p.client) # {}
              /\ slots' = [slots EXCEPT ![s] = [state |-> "connected", client |-> p.client,
                                                message |-> <<>>]]
    BY <1>4 DEF Sv_Connect
  <2>2. \A t \in Slot : \/ slots'[t] = slots[t]
                        \/ slots'[t].message = <<>> /\ slots'[t].state # "active"
    BY <1>2, <2>1
  <2> QED
    BY <1>1, <1>2, <2>1, <2>2, ServerAlone
<1>5. ASSUME NEW p \in network, Sv_Disconnect(p)
      PROVE  Conversation'
  <2>1. spawnCount' = spawnCount
    BY <1>5 DEF Sv_Disconnect
  <2>2. CASE Owned(p.client) # {}
    <3>1. Least(Owned(p.client)) \in Slot /\ DropClient(Least(Owned(p.client)))
      BY <1>5, <2>2, LeastIsOne DEF Sv_Disconnect, Owned
    <3> QED
      BY <1>1, <2>1, <3>1, DropConversation
  <2>3. CASE Owned(p.client) = {}
    <3>1. slots' = slots
      BY <1>5, <2>3 DEF Sv_Disconnect
    <3> QED
      BY <1>1, <1>2, <2>1, <3>1, ServerAlone
  <2> QED
    BY <2>2, <2>3
<1>6. ASSUME NEW s \in Slot, Sv_Timeout(s)
      PROVE  Conversation'
  <2>1. DropClient(s) /\ spawnCount' = spawnCount
    BY <1>6 DEF Sv_Timeout
  <2> QED
    BY <1>1, <2>1, DropConversation
<1>7. CASE Sv_RunGameFrame
  <2>1. spawnCount' = spawnCount /\ slots' = Synced(gclients')
    BY <1>7 DEF Sv_RunGameFrame
  <2>2. \A t \in Slot : \/ slots'[t] = slots[t]
                        \/ slots'[t].message = <<>> /\ slots'[t].client = NoClient
    BY <1>3, <2>1, FreeSlotFacts DEF Synced
  <2> QED
    BY <1>1, <1>2, <2>1, <2>2, ServerAlone
<1>8. CASE Sv_InitServer
  <2>1. spawnCount' = spawnCount + 1 /\ slots' = ReconnectClients /\ spawnCount < MaxSpawn
    BY <1>8 DEF Sv_InitServer
  <2>2. spawnCount' \in 1 .. MaxSpawn /\ spawnCount <= spawnCount'
    BY <1>2, <2>1, ConstantFacts
  <2>3. ASSUME NEW t \in Slot
        PROVE  /\ slots'[t].message = slots[t].message /\ slots'[t].client = slots[t].client
               /\ slots'[t].state # "active"
               /\ slots'[t].state # "free" => slots[t].state # "free"
    <3>1. slots[t] \in ServerClient
      BY <1>2
    <3> QED
      BY <2>1, <3>1 DEF ReconnectClients, ServerClient
  <2> QED
    BY <1>1, <2>2, <2>3, ServerAlone
<1>9. CASE Sv_Restart
  <2>1. spawnCount' = 1 /\ slots' = [s \in Slot |-> FreeSlot]
    BY <1>9 DEF Sv_Restart, FirstSpawnCount
  <2> QED
    BY <1>1, <1>3, <2>1, ConstantFacts, ServerAlone
<1> QED
  BY <1>4, <1>5, <1>6, <1>7, <1>8, <1>9

\* What a client and its slot have waiting, and what is true of it.
LEMMA Waiting ==
  ASSUME Inv, Conversation, NEW c \in Clients, NEW s \in Owned(c)
  PROVE  /\ s \in Slot /\ slots[s].client = c /\ spawnCount \in 1 .. MaxSpawn
         /\ slots[s] \in ServerClient /\ slots[s].message \in Seq(ServerCommand)
         /\ clMessage[c] \in Seq(ClientCommand)
         /\ QueueOrdered(clMessage[c], clSpawn[c])
         /\ RepliesOrdered(slots[s].message, spawnCount)
         /\ Matching(clMessage[c], slots[s].message)
         /\ InLevel(clSpawn[c], clState[c], slots[s], spawnCount)
  BY OwnedFacts DEF Conversation, Inv, TypeOK

\* A record of a slot with another message, or another state.
LEMMA SlotFields ==
  ASSUME NEW r \in ServerClient
  PROVE  /\ \A m : /\ [r EXCEPT !.message = m].message = m
                   /\ [r EXCEPT !.message = m].client = r.client
                   /\ [r EXCEPT !.message = m].state = r.state
         /\ \A x : /\ [r EXCEPT !.state = x].message = r.message
                   /\ [r EXCEPT !.state = x].client = r.client
                   /\ [r EXCEPT !.state = x].state = x
  BY DEF ServerClient

\* The server executes a client's command.
LEMMA ServerCommandConversation ==
  ASSUME Inv, Conversation, NEW c \in Clients, NEW s \in Slot, Sv_Command(c, s)
  PROVE  Conversation'
<1> DEFINE q == clMessage[c]
           h == Head(q)
           m == slots[s].message
           n == spawnCount
<1>1. /\ s \in Owned(c) /\ q # <<>> /\ clMessage' = [clMessage EXCEPT ![c] = Tail(q)]
      /\ UNCHANGED <<clState, clSpawn, spawnCount>>
  BY DEF Sv_Command, ServerTakes
<1>2. /\ clMessage'[c] = Tail(q) /\ \A d \in Clients \ {c} : clMessage'[d] = clMessage[d]
      /\ slots \in [Slot -> ServerClient]
  BY <1>1 DEF Inv, TypeOK
<1>3. /\ QueueOrdered(Tail(q), clSpawn[c]) /\ Matching(Tail(q), m) /\ RepliesOrdered(m, n)
      /\ InLevel(clSpawn[c], clState[c], slots[s], n)
      /\ slots[s] \in ServerClient /\ slots[s].client = c
      /\ \A name \in {"serverData", "baselines", "precache"} :
           /\ name = "baselines" => h.cmd = "configStrings" /\ h.spawn = n
           /\ name = "precache" => h.cmd = "baselines" /\ h.spawn = n
           => /\ RepliesOrdered(Append(m, Cmd(name, n)), n)
              /\ Matching(Tail(q), Append(m, Cmd(name, n)))
      /\ h.cmd = "begin" /\ h.spawn = n =>
           clSpawn[c] = n /\ \A j \in At(m) : m[j].cmd = "precache" => m[j].spawn = n
  BY <1>1, Waiting, ServerReads
<1> HIDE DEF q, h, m, n
<1>a. CASE DropClient(s)
  BY <1>1, <1>2, <1>a, DropConversation DEF q
<1>4. /\ s \in Owned(c) /\ spawnCount' = spawnCount
      /\ \A d \in Clients \ {c} : /\ clMessage'[d] = clMessage[d] /\ clSpawn'[d] = clSpawn[d]
                                  /\ clState'[d] = clState[d]
      /\ QueueOrdered(clMessage'[c], clSpawn'[c])
  BY <1>1, <1>2, <1>3
<1>b. CASE UNCHANGED slots
  <2>1. /\ \A t \in Slot \ {s} : slots'[t] = slots[t]
        /\ slots'[s].client = c /\ RepliesOrdered(slots'[s].message, spawnCount)
        /\ Matching(clMessage'[c], slots'[s].message)
    BY <1>2, <1>3, <1>b DEF m, n
  <2>2. InLevel(clSpawn'[c], clState'[c], slots'[s], spawnCount)
    BY <1>1, <1>3, <1>b DEF n
  <2> QED
    BY <1>4, <2>1, <2>2, BothEnds
<1>c. CASE /\ slots[s].state = "connected"
           /\ \E name \in {"serverData", "baselines", "precache"} :
                /\ Reply(s, name)
                /\ name = "baselines" => h.cmd = "configStrings" /\ h.spawn = n
                /\ name = "precache" => h.cmd = "baselines" /\ h.spawn = n
  <2>1. PICK name \in {"serverData", "baselines", "precache"} :
               /\ Reply(s, name)
               /\ name = "baselines" => h.cmd = "configStrings" /\ h.spawn = n
               /\ name = "precache" => h.cmd = "baselines" /\ h.spawn = n
    BY <1>c
  <2> DEFINE reply == Append(m, Cmd(name, n))
  <2>2. slots' = [slots EXCEPT ![s].message = reply]
    BY <2>1 DEF Reply, m, n
  <2>3. RepliesOrdered(reply, n) /\ Matching(Tail(q), reply)
    BY <1>3, <2>1
  <2> HIDE DEF reply
  <2>4. /\ slots'[s] = [slots[s] EXCEPT !.message = reply]
        /\ \A t \in Slot \ {s} : slots'[t] = slots[t]
    BY <1>2, <2>2
  <2>5. slots'[s].message = reply /\ slots'[s].client = c /\ slots'[s].state = "connected"
    BY <1>3, <1>c, <2>4, SlotFields
  <2>6. InLevel(clSpawn'[c], clState'[c], slots'[s], spawnCount)
    BY <2>5 DEF InLevel
  <2> QED
    BY <1>1, <1>2, <1>3, <2>3, <2>4, <2>5, <2>6, BothEnds DEF n
<1>d. CASE h.cmd = "begin" /\ h.spawn = n /\ slots' = [slots EXCEPT ![s].state = "active"]
  <2>1. /\ slots'[s] = [slots[s] EXCEPT !.state = "active"]
        /\ \A t \in Slot \ {s} : slots'[t] = slots[t]
    BY <1>2, <1>d
  <2>2. slots'[s].message = m /\ slots'[s].client = c
    BY <1>3, <2>1, SlotFields DEF m
  <2>3. InLevel(clSpawn'[c], clState'[c], slots'[s], spawnCount)
    BY <1>1, <1>3, <1>d, <2>2 DEF InLevel, n
  <2> QED
    BY <1>1, <1>2, <1>3, <2>1, <2>2, <2>3, BothEnds DEF n
<1> QED
  <2>1. \/ DropClient(s)
        \/ UNCHANGED slots
        \/ /\ slots[s].state = "connected"
           /\ \E name \in {"serverData", "baselines", "precache"} :
                /\ Reply(s, name)
                /\ name = "baselines" => h.cmd = "configStrings" /\ h.spawn = n
                /\ name = "precache" => h.cmd = "baselines" /\ h.spawn = n
        \/ h.cmd = "begin" /\ h.spawn = n /\ slots' = [slots EXCEPT ![s].state = "active"]
    BY DEF Sv_Command, Stale, h, n, q
  <2> QED
    BY <1>a, <1>b, <1>c, <1>d, <2>1

\* A client executes a command of the server.
LEMMA ClientCommandConversation ==
  ASSUME Inv, Conversation, NEW c \in Clients, NEW s \in Slot, Cl_Command(c, s)
  PROVE  Conversation'
<1> DEFINE q == clMessage[c]
           m == slots[s].message
           h == Head(m)
           n == spawnCount
<1>1. /\ s \in Owned(c) /\ m # <<>> /\ slots' = [slots EXCEPT ![s].message = Tail(m)]
      /\ spawnCount' = spawnCount
  BY DEF Cl_Command, ClientTakes
<1>2. /\ RepliesOrdered(Tail(m), n) /\ Matching(q, Tail(m)) /\ QueueOrdered(q, clSpawn[c])
      /\ InLevel(clSpawn[c], clState[c], slots[s], n)
      /\ slots[s] \in ServerClient /\ slots[s].client = c /\ m \in Seq(ServerCommand)
      /\ h.cmd = "serverData" =>
           /\ QueueOrdered(<<Cmd("configStrings", h.spawn)>>, clSpawn[c])
           /\ Matching(<<Cmd("configStrings", h.spawn)>>, Tail(m))
      /\ h.cmd = "baselines" =>
           /\ QueueOrdered(Append(q, Cmd("baselines", h.spawn)), clSpawn[c])
           /\ Matching(Append(q, Cmd("baselines", h.spawn)), Tail(m))
      /\ h.cmd = "precache" =>
           /\ QueueOrdered(q \o Begins(h), h.spawn)
           /\ Matching(q \o Begins(h), Tail(m))
  BY <1>1, Waiting, ClientReads
<1>3. /\ slots'[s] = [slots[s] EXCEPT !.message = Tail(m)]
      /\ \A t \in Slot \ {s} : slots'[t] = slots[t]
  BY <1>1 DEF Inv, TypeOK
<1>4. slots'[s].message = Tail(m) /\ slots'[s].client = c /\ slots'[s].state = slots[s].state
  BY <1>2, <1>3, SlotFields
<1>5. /\ 1 \in At(m) /\ h = m[1]
      /\ \A j \in At(Tail(m)) : j + 1 \in At(m) /\ Tail(m)[j] = m[j + 1]
  BY <1>1, <1>2, TailAt
<1>6. slots[s].state = "active" =>
        /\ \A j \in At(Tail(m)) : Tail(m)[j].cmd = "precache" => Tail(m)[j].spawn = n
        /\ h.cmd = "precache" => h.spawn = n
        /\ clState[c] \in {"loading", "active"} => clSpawn[c] = n
  BY <1>2, <1>5 DEF InLevel
<1>7. /\ \A d \in Clients \ {c} : /\ clMessage'[d] = clMessage[d] /\ clSpawn'[d] = clSpawn[d]
                                  /\ clState'[d] = clState[d]
      /\ \/ /\ h.cmd = "serverData" /\ clMessage'[c] = <<Cmd("configStrings", h.spawn)>>
            /\ clState'[c] = clState[c] /\ clSpawn'[c] = clSpawn[c]
         \/ /\ h.cmd = "baselines" /\ clMessage'[c] = Append(q, Cmd("baselines", h.spawn))
            /\ clState'[c] = clState[c] /\ clSpawn'[c] = clSpawn[c]
         \/ /\ h.cmd = "precache" /\ clMessage'[c] = q \o Begins(h) /\ clSpawn'[c] = h.spawn
  BY DEF Cl_Command, Inv, TypeOK
<1> HIDE DEF q, h, m, n
<1>8. QueueOrdered(clMessage'[c], clSpawn'[c]) /\ Matching(clMessage'[c], Tail(m))
  BY <1>2, <1>7
<1>9. InLevel(clSpawn'[c], clState'[c], slots'[s], n)
  BY <1>4, <1>6, <1>7 DEF InLevel
<1> QED
  BY <1>1, <1>2, <1>3, <1>4, <1>7, <1>8, <1>9, BothEnds DEF n

\* A command is lost.
LEMMA LoseConversation ==
  ASSUME Inv, Conversation, NEW c \in Clients, NEW s \in Slot, LoseCommand(c, s)
  PROVE  Conversation'
<1> DEFINE q == clMessage[c]
           m == slots[s].message
           n == spawnCount
<1>1. s \in Owned(c) /\ UNCHANGED <<clState, clSpawn, spawnCount>>
  BY DEF LoseCommand, ServerTakes, ClientTakes
<1>2. /\ QueueOrdered(q, clSpawn[c]) /\ RepliesOrdered(m, n) /\ Matching(q, m)
      /\ InLevel(clSpawn[c], clState[c], slots[s], n)
      /\ slots[s] \in ServerClient /\ slots[s].client = c
      /\ q \in Seq(ClientCommand) /\ m \in Seq(ServerCommand)
  BY <1>1, Waiting
<1>a. CASE /\ q # <<>> /\ clMessage' = [clMessage EXCEPT ![c] = Tail(q)] /\ slots' = slots
  <2>1. clMessage'[c] = Tail(q) /\ \A d \in Clients \ {c} : clMessage'[d] = clMessage[d]
    BY <1>a DEF Inv, TypeOK
  <2>2. QueueOrdered(Tail(q), clSpawn[c]) /\ Matching(Tail(q), m)
    BY <1>2, <1>a, ClientTail, MatchingTail
  <2> QED
    BY <1>1, <1>2, <1>a, <2>1, <2>2, BothEnds
<1>b. CASE m # <<>> /\ slots' = [slots EXCEPT ![s].message = Tail(m)] /\ clMessage' = clMessage
  <2>1. /\ slots'[s] = [slots[s] EXCEPT !.message = Tail(m)]
        /\ \A t \in Slot \ {s} : slots'[t] = slots[t]
    BY <1>b DEF Inv, TypeOK
  <2>2. slots'[s].message = Tail(m) /\ slots'[s].client = c /\ slots'[s].state = slots[s].state
    BY <1>2, <2>1, SlotFields
  <2>3. RepliesOrdered(Tail(m), n) /\ Matching(q, Tail(m))
    BY <1>2, <1>b, ServerTail, MatchingTail
  <2>4. \A j \in At(Tail(m)) : j + 1 \in At(m) /\ Tail(m)[j] = m[j + 1]
    BY <1>2, <1>b, TailAt
  <2>5. InLevel(clSpawn'[c], clState'[c], slots'[s], n)
    <3>1. InLevel(clSpawn[c], clState[c], slots[s], n) /\ UNCHANGED <<clState, clSpawn>>
      BY <1>1, <1>2
    <3>2. slots'[s].state = "active" => slots[s].state = "active"
      BY <2>2
    <3>3. \A j \in At(slots'[s].message) : \E k \in At(slots[s].message) :
            slots'[s].message[j] = slots[s].message[k]
      BY <2>2, <2>4
    <3> HIDE DEF m, n
    <3> QED
      BY <3>1, <3>2, <3>3 DEF InLevel
  <2> QED
    BY <1>1, <1>2, <1>b, <2>1, <2>2, <2>3, <2>5, BothEnds
<1> QED
  BY <1>a, <1>b DEF LoseCommand, ServerTakes, ClientTakes

\* Every step keeps the conversation in order.
LEMMA StepConversation ==
  ASSUME Inv, Conversation, [Next]_vars
  PROVE  Conversation'
<1>1. ASSUME NEW p \in network, Receive(p) \/ Lose(p)
      PROVE  Conversation'
  BY <1>1, AloneStep, ServerStep DEF Receive
<1>2. ASSUME NEW c \in Clients,
             \/ Cl_Disconnect(c) \/ Cl_Connect(c) \/ Cl_AttemptConnect(c) \/ Cl_Timeout(c)
             \/ Cl_ParseFrame(c)
      PROVE  Conversation'
  BY <1>2, AloneStep
<1>3. ASSUME NEW c \in Clients, NEW s \in Slot,
             Sv_Command(c, s) \/ Cl_Command(c, s) \/ LoseCommand(c, s)
      PROVE  Conversation'
  BY <1>3, ServerCommandConversation, ClientCommandConversation, LoseConversation
<1>4. CASE UNCHANGED vars
  BY <1>4, AloneStep
<1>5. CASE (\E s \in Slot : Sv_Timeout(s)) \/ Sv_RunGameFrame \/ Sv_InitServer \/ Sv_Restart
  BY <1>5, ServerStep
<1> QED
  BY <1>1, <1>2, <1>3, <1>4, <1>5 DEF Next

\* Whoever is in the game is in the level that the server runs, for itself and for the server,
\* whatever commands are lost, whichever packets of its handshake arrive late, and however often
\* levels change and the server starts again, however many levels, clients and slots there are.
THEOREM InTheLevelThatRuns == Spec => []PlaysLoadedLevel
<1>1. Conversation => PlaysLoadedLevel
  BY DEF Conversation, InLevel, PlaysLoadedLevel
<1>2. Init => Conversation
  BY ConversationAtFirst
<1>3. Inv /\ Conversation /\ [Next]_vars => Conversation'
  BY StepConversation
<1> QED
  BY <1>1, <1>2, <1>3, Invariance, PTL DEF Spec

-------------------------------------------------------------------------------
\* The handshakes, when no packet was answered twice.

\* The handshake of a client of which no packet was answered twice: at most one of its packets is
\* under way, and none once it is connected; a slot that it does not know of yet is as it was set
\* up; and one command waits at most, none when the server has it in the game.
Orderly(c) ==
  /\ \A p, r \in InHandshake(c) : p = r
  /\ clState[c] \in Transmitting => InHandshake(c) = {}
  /\ \A p \in InHandshake(c) : p.cmd = "clientConnect" =>
       \A s \in Owned(c) : slots[s].state = "connected" /\ slots[s].message = <<>>
  /\ clState[c] \in Transmitting =>
       \A s \in Owned(c) :
         /\ Len(clMessage[c]) + Len(slots[s].message) <= 1
         /\ slots[s].state = "active" => clMessage[c] = <<>> /\ slots[s].message = <<>>

Handshakes == ~ late => \A c \in Clients : Orderly(c)

\* A packet that belongs to no handshake leaves all of them as they are, and so does losing one.
LEMMA NoHandshake ==
  ASSUME NEW packets, packets \subseteq network, NEW added,
         \A p \in added : p.cmd \in {"disconnect", "drop", "reconnect"},
         network' = packets \/ network' = Sent(packets, added)
  PROVE  \A d \in Clients : InHandshake(d)' \subseteq InHandshake(d)
<1>1. \A p \in network' : p \in network \/ p \in added
  BY DEF Sent
<1> QED
  BY <1>1 DEF InHandshake

\* A packet to or from a client c belongs to no other's handshake, and it is all of that client's
\* when nothing else of it was under way.
LEMMA OneInHandshake ==
  ASSUME NEW packets, packets \subseteq network, NEW r,
         network' = packets \/ network' = Sent(packets, {r}),
         NEW c \in Clients, r.client = c, InHandshake(c) \cap packets = {}
  PROVE  /\ InHandshake(c)' \subseteq {r}
         /\ \A d \in Clients \ {c} : InHandshake(d)' \subseteq InHandshake(d)
<1>1. \A p \in network' : p \in packets \/ p = r
  BY DEF Sent
<1>2. InHandshake(c)' \subseteq {r}
  BY <1>1 DEF InHandshake
<1>3. \A d \in Clients \ {c} : InHandshake(d)' \subseteq InHandshake(d)
  BY <1>1 DEF InHandshake
<1> QED
  BY <1>2, <1>3

\* A packet of a client's handshake that has arrived was the only one, and the client is not
\* connected.
LEMMA HandshakeArrives ==
  ASSUME Inv, NEW p \in network, Orderly(p.client),
         p.cmd \in {"getChallenge", "challenge", "connect", "clientConnect"}
  PROVE  /\ p.client \in Clients /\ p \in InHandshake(p.client)
         /\ clState[p.client] \notin Transmitting
         /\ InHandshake(p.client) \cap (network \ {p}) = {}
<1>1. p.client \in Clients
  BY DEF Inv, TypeOK, Packet
<1>2. p \in InHandshake(p.client)
  BY DEF InHandshake
<1> QED
  BY <1>1, <1>2 DEF Orderly

\* A handshake stays orderly when packets of it arrive or are lost, when the client is
\* disconnected, and when the server drops the client or takes it back to connected.
LEMMA OrderlyKept ==
  ASSUME NEW d \in Clients, Orderly(d),
         InHandshake(d)' \subseteq InHandshake(d),
         clState'[d] \in Transmitting => clState[d] \in Transmitting /\ clMessage'[d] = clMessage[d],
         \A s \in Owned(d)' : /\ s \in Owned(d) /\ slots'[s].message = slots[s].message
                              /\ slots'[s].state \in {slots[s].state, "connected"}
  PROVE  Orderly(d)'
<1>1. \A p, r \in InHandshake(d)' : p = r
  BY DEF Orderly
<1>2. clState'[d] \in Transmitting => InHandshake(d)' = {}
  BY DEF Orderly
<1>3. ASSUME NEW p \in InHandshake(d)', p.cmd = "clientConnect", NEW s \in Owned(d)'
      PROVE  slots'[s].state = "connected" /\ slots'[s].message = <<>>
  BY <1>3 DEF Orderly
<1>4. ASSUME clState'[d] \in Transmitting, NEW s \in Owned(d)'
      PROVE  /\ Len(clMessage'[d]) + Len(slots'[s].message) <= 1
             /\ slots'[s].state = "active" => clMessage'[d] = <<>> /\ slots'[s].message = <<>>
  <2>1. /\ Len(clMessage[d]) + Len(slots[s].message) <= 1
        /\ slots[s].state = "active" => clMessage[d] = <<>> /\ slots[s].message = <<>>
    BY <1>4 DEF Orderly
  <2>2. slots'[s].state = "active" => slots[s].state = "active"
    BY <1>4
  <2>3. clMessage'[d] = clMessage[d] /\ slots'[s].message = slots[s].message
    BY <1>4
  <2> QED
    BY <2>1, <2>2, <2>3
<1> QED
  BY <1>1, <1>2, <1>3, <1>4 DEF Orderly

\* The handshake of a client that is not connected, of which only r is under way.
LEMMA OrderlyAnswer ==
  ASSUME NEW c \in Clients, NEW r, InHandshake(c)' \subseteq {r}, clState'[c] \notin Transmitting,
         r.cmd = "clientConnect" =>
           \A s \in Owned(c)' : slots'[s].state = "connected" /\ slots'[s].message = <<>>
  PROVE  Orderly(c)'
  BY DEF Orderly

\* What a step that leaves the slots leaves to their clients.
LEMMA SameSlots ==
  ASSUME UNCHANGED slots
  PROVE  \A d \in Clients : Owned(d)' = Owned(d)
  BY DEF Owned, Used

\* A client that starts, gives up, dies, is told to go or to connect again, and packets that are
\* lost.
LEMMA AloneHandshakes ==
  ASSUME Inv, \A d \in Clients : Orderly(d),
         \/ \E c \in Clients : \/ Cl_Disconnect(c) \/ Cl_Connect(c) \/ Cl_Timeout(c)
                               \/ Cl_ParseFrame(c)
         \/ \E p \in network : Cl_Dropped(p) \/ Cl_Reconnect(p) \/ Lose(p)
         \/ UNCHANGED vars
  PROVE  \A d \in Clients : Orderly(d)'
<1>1. UNCHANGED slots
  BY DEF Cl_Disconnect, Cl_Connect, Cl_Timeout, Cl_ParseFrame, Cl_Dropped, Cl_Reconnect, Lose,
         serverVars, vars
<1>2. clState \in [Clients -> ClientState] /\ clMessage \in [Clients -> Seq(ClientCommand)]
      /\ {"disconnected", "connecting"} \cap Transmitting = {}
      /\ {"loading", "active"} \subseteq Transmitting
  BY DEF Inv, TypeOK, Transmitting
<1>3. \A d \in Clients : InHandshake(d)' \subseteq InHandshake(d)
  <2>1. \/ network' = network
        \/ \E c \in Clients : network' = Sent(network, {ToServer(c, "disconnect", 0)})
        \/ \E p \in network : \/ network' = network \ {p}
                              \/ network' = Sent(network \ {p}, {ToServer(p.client, "disconnect", 0)})
    BY DEF Cl_Disconnect, Cl_Connect, Cl_Timeout, Cl_ParseFrame, Cl_Dropped, Cl_Reconnect, Lose,
           vars
  <2>2. \A c : \A p \in {ToServer(c, "disconnect", 0)} : p.cmd = "disconnect"
    BY DEF ToServer
  <2>3. CASE network' = network
    BY <2>3 DEF InHandshake
  <2>4. ASSUME NEW c \in Clients, network' = Sent(network, {ToServer(c, "disconnect", 0)})
        PROVE  \A d \in Clients : InHandshake(d)' \subseteq InHandshake(d)
    BY <2>2, <2>4, NoHandshake
  <2>5. ASSUME NEW p \in network,
               \/ network' = network \ {p}
               \/ network' = Sent(network \ {p}, {ToServer(p.client, "disconnect", 0)})
        PROVE  \A d \in Clients : InHandshake(d)' \subseteq InHandshake(d)
    <3>1. network \ {p} \subseteq network
      OBVIOUS
    <3> QED
      BY <2>2, <2>5, <3>1, NoHandshake
  <2> QED
    BY <2>1, <2>3, <2>4, <2>5
<1>4. ASSUME NEW d \in Clients
      PROVE  clState'[d] \in Transmitting =>
               clState[d] \in Transmitting /\ clMessage'[d] = clMessage[d]
  <2>1. ASSUME NEW c \in Clients,
               Cl_Disconnect(c) \/ Cl_Connect(c) \/ Cl_Timeout(c) \/ Cl_ParseFrame(c)
        PROVE  \/ /\ \E x \in {"disconnected", "connecting"} : clState' = [clState EXCEPT ![c] = x]
                  /\ clMessage' = [clMessage EXCEPT ![c] = <<>>]
               \/ clState[c] = "loading" /\ clState' = [clState EXCEPT ![c] = "active"]
                  /\ UNCHANGED clMessage
    BY <2>1 DEF Cl_Disconnect, Cl_Connect, Cl_Timeout, Cl_ParseFrame, Disconnected
  <2>2. ASSUME NEW p \in network, Cl_Dropped(p) \/ Cl_Reconnect(p) \/ Lose(p)
        PROVE  \/ UNCHANGED <<clState, clMessage>>
               \/ /\ clState' = [clState EXCEPT ![p.client] = "disconnected"]
                  /\ clMessage' = [clMessage EXCEPT ![p.client] = <<>>]
               \/ clState' = [clState EXCEPT ![p.client] = "connecting"] /\ UNCHANGED clMessage
    BY <2>2 DEF Cl_Dropped, Cl_Reconnect, Lose, Disconnected, clientVars
  <2>3. CASE \E c \in Clients : Cl_Disconnect(c) \/ Cl_Connect(c) \/ Cl_Timeout(c) \/ Cl_ParseFrame(c)
    BY <1>2, <2>1, <2>3
  <2>4. CASE \E p \in network : Cl_Dropped(p) \/ Cl_Reconnect(p) \/ Lose(p)
    BY <1>2, <2>2, <2>4
  <2>5. CASE UNCHANGED vars
    BY <2>5 DEF vars, clientVars
  <2> QED
    BY <2>3, <2>4, <2>5
<1>5. \A d \in Clients : \A s \in Owned(d)' :
        /\ s \in Owned(d) /\ slots'[s].message = slots[s].message
        /\ slots'[s].state \in {slots[s].state, "connected"}
  BY <1>1, SameSlots
<1> QED
  BY <1>3, <1>4, <1>5, OrderlyKept

\* A client asks for a challenge: none of its packets was under way, or one may be answered twice.
LEMMA AttemptHandshakes ==
  ASSUME Inv, \A d \in Clients : Orderly(d), NEW c \in Clients, Cl_AttemptConnect(c), ~ late'
  PROVE  \A d \in Clients : Orderly(d)'
<1> DEFINE r == ToServer(c, "getChallenge", 0)
<1>1. /\ clState[c] = "connecting" /\ InHandshake(c) = {} /\ network' = Sent(network, {r})
      /\ UNCHANGED <<clState, clMessage, slots>>
  BY DEF Cl_AttemptConnect, clientVars, serverVars
<1>2. r.client = c /\ r.cmd = "getChallenge"
  BY DEF ToServer
<1>3. "connecting" \notin Transmitting
  BY DEF Transmitting
<1> HIDE DEF r
<1>4. /\ InHandshake(c)' \subseteq {r}
      /\ \A d \in Clients \ {c} : InHandshake(d)' \subseteq InHandshake(d)
  BY <1>1, <1>2, OneInHandshake
<1>5. Orderly(c)'
  BY <1>1, <1>2, <1>3, <1>4, OrderlyAnswer
<1>6. ASSUME NEW d \in Clients \ {c}
      PROVE  Orderly(d)'
  BY <1>1, <1>4, SameSlots, OrderlyKept
<1> QED
  BY <1>5, <1>6

\* A challenge is given, or used.
LEMMA ChallengeHandshakes ==
  ASSUME Inv, \A d \in Clients : Orderly(d), NEW p \in network, Sv_GetChallenge(p) \/ Cl_Challenge(p)
  PROVE  \A d \in Clients : Orderly(d)'
<1> DEFINE c == p.client
<1>1. /\ p.cmd \in {"getChallenge", "challenge"} /\ UNCHANGED <<clState, clMessage, slots>>
      /\ \E r \in {ToServer(c, "connect", p.value), ToClient(c, "challenge", challenges'[c])} :
           network' = network \ {p} \/ network' = Sent(network \ {p}, {r})
  BY DEF Sv_GetChallenge, Cl_Challenge, clientVars, serverVars
<1>2. /\ c \in Clients /\ clState[c] \notin Transmitting
      /\ InHandshake(c) \cap (network \ {p}) = {}
  <2>1. c \in Clients
    BY DEF Inv, TypeOK, Packet
  <2> QED
    BY <1>1, <2>1, HandshakeArrives
<1>3. PICK r \in {ToServer(c, "connect", p.value), ToClient(c, "challenge", challenges'[c])} :
             network' = network \ {p} \/ network' = Sent(network \ {p}, {r})
  BY <1>1
<1>4. r.client = c /\ r.cmd \in {"connect", "challenge"}
  BY <1>3 DEF ToServer, ToClient
<1> HIDE DEF c
<1>5. network \ {p} \subseteq network
  OBVIOUS
<1>6. /\ InHandshake(c)' \subseteq {r}
      /\ \A d \in Clients \ {c} : InHandshake(d)' \subseteq InHandshake(d)
  BY <1>2, <1>3, <1>4, <1>5, OneInHandshake
<1>7. Orderly(c)'
  BY <1>1, <1>2, <1>4, <1>6, OrderlyAnswer
<1>8. ASSUME NEW d \in Clients \ {c}
      PROVE  Orderly(d)'
  BY <1>1, <1>6, SameSlots, OrderlyKept
<1> QED
  BY <1>7, <1>8

\* A slot is given: it is set up anew, and the only one that its client has.
LEMMA ConnectHandshakes ==
  ASSUME Inv, \A d \in Clients : Orderly(d), NEW p \in network, Sv_Connect(p)
  PROVE  \A d \in Clients : Orderly(d)'
<1> DEFINE c == p.client
           s == Least(ChosenSlots(c))
           r == ToClient(c, "clientConnect", 0)
           new == [state |-> "connected", client |-> c, message |-> <<>>]
<1>1. /\ p.cmd = "connect" /\ UNCHANGED <<clState, clMessage>>
      /\ \/ network' = network \ {p} /\ UNCHANGED slots
         \/ /\ network' = Sent(network \ {p}, {r})
            /\ ChosenSlots(c) # {} /\ slots' = [slots EXCEPT ![s] = new]
  BY DEF Sv_Connect, clientVars
<1>2. /\ c \in Clients /\ clState[c] \notin Transmitting
      /\ InHandshake(c) \cap (network \ {p}) = {}
  <2>1. c \in Clients
    BY DEF Inv, TypeOK, Packet
  <2> QED
    BY <1>1, <2>1, HandshakeArrives
<1>3. r.client = c /\ r.cmd = "clientConnect"
  BY DEF ToClient
<1>4. new.state = "connected" /\ new.client = c /\ new.message = <<>>
  OBVIOUS
<1> HIDE DEF c, r, new
<1>5. network \ {p} \subseteq network
  OBVIOUS
<1>6. /\ InHandshake(c)' \subseteq {r}
      /\ \A d \in Clients \ {c} : InHandshake(d)' \subseteq InHandshake(d)
  BY <1>1, <1>2, <1>3, <1>5, OneInHandshake
<1>a. CASE network' = network \ {p} /\ UNCHANGED slots
  <2>1. InHandshake(c)' \subseteq InHandshake(c)
    BY <1>a DEF InHandshake
  <2> QED
    BY <1>1, <1>2, <1>6, <1>a, <2>1, SameSlots, OrderlyKept
<1>b. CASE ChosenSlots(c) # {} /\ slots' = [slots EXCEPT ![s] = new]
  <2>1. s \in Slot /\ \A t \in Slot : t # s /\ Used(t) => slots[t].client # c
    BY <1>2, <1>b, ChosenFacts
  <2>2. slots \in [Slot -> ServerClient]
    BY DEF Inv, TypeOK
  <2>3. slots'[s] = new /\ \A t \in Slot \ {s} : slots'[t] = slots[t]
    BY <1>b, <2>1, <2>2
  <2> HIDE DEF s
  <2>4. Owned(c)' \subseteq {s}
    BY <2>1, <2>3 DEF Owned, Used
  <2>5. Orderly(c)'
    BY <1>1, <1>2, <1>4, <1>6, <2>3, <2>4, OrderlyAnswer
  <2>6. ASSUME NEW d \in Clients \ {c}
        PROVE  Orderly(d)'
    <3>1. \A t \in Owned(d)' : t \in Owned(d) /\ slots'[t] = slots[t]
      BY <1>4, <2>3, <2>6 DEF Owned, Used
    <3> QED
      BY <1>1, <1>6, <3>1, OrderlyKept
  <2> QED
    BY <2>5, <2>6
<1> QED
  BY <1>1, <1>a, <1>b

\* A client gets to know that it is connected: its slot is as it was set up, and the new is the
\* first of their commands.
LEMMA ClientConnectHandshakes ==
  ASSUME Inv, \A d \in Clients : Orderly(d), NEW p \in network, Cl_ClientConnect(p)
  PROVE  \A d \in Clients : Orderly(d)'
<1> DEFINE c == p.client
<1>1. p.cmd = "clientConnect" /\ network' = network \ {p} /\ slots' = slots
  BY DEF Cl_ClientConnect
<1>2. /\ c \in Clients /\ clState[c] \notin Transmitting /\ p \in InHandshake(c)
      /\ InHandshake(c) \cap (network \ {p}) = {}
  <2>1. c \in Clients
    BY DEF Inv, TypeOK, Packet
  <2> QED
    BY <1>1, <2>1, HandshakeArrives
<1>3. "connected" \in Transmitting
  BY DEF Transmitting
<1>4. /\ clState' = [clState EXCEPT ![c] = "connected"]
      /\ clMessage' = [clMessage EXCEPT ![c] = <<Cmd("new", 0)>>]
  BY <1>2, <1>3 DEF Cl_ClientConnect, IgnoresConnect
<1> HIDE DEF c
<1>5. /\ clMessage'[c] = <<Cmd("new", 0)>>
      /\ \A d \in Clients \ {c} : clState'[d] = clState[d] /\ clMessage'[d] = clMessage[d]
  BY <1>2, <1>4 DEF Inv, TypeOK
<1>6. InHandshake(c)' = {} /\ \A d \in Clients : InHandshake(d)' \subseteq InHandshake(d)
  BY <1>1, <1>2 DEF InHandshake
<1>7. \A d \in Clients : Owned(d)' = Owned(d)
  BY <1>1, SameSlots
<1>8. \A s \in Owned(c) : slots[s].state = "connected" /\ slots[s].message = <<>>
  BY <1>1, <1>2 DEF Orderly
<1>9. Len(<<Cmd("new", 0)>>) + Len(<<>>) <= 1
  OBVIOUS
<1>10. Orderly(c)'
  <2>1. ASSUME NEW s \in Owned(c)'
        PROVE  /\ slots'[s].state = "connected" /\ slots'[s].message = <<>>
               /\ Len(clMessage'[c]) + Len(slots'[s].message) <= 1
    <3>1. slots'[s].state = "connected" /\ slots'[s].message = <<>>
      BY <1>1, <1>7, <1>8, <1>2
    <3> QED
      BY <1>5, <1>9, <3>1
  <2> QED
    BY <1>6, <2>1 DEF Orderly
<1>11. ASSUME NEW d \in Clients \ {c}
       PROVE  Orderly(d)'
  BY <1>1, <1>5, <1>6, <1>7, OrderlyKept
<1> QED
  BY <1>10, <1>11

\* The server drops, counts, starts a level or starts again: no slot is given, and those that are
\* still in use have their queues.
LEMMA ServerHandshakes ==
  ASSUME Inv, \A d \in Clients : Orderly(d),
         \/ \E p \in network : Sv_Disconnect(p)
         \/ \E s \in Slot : Sv_Timeout(s)
         \/ Sv_RunGameFrame \/ Sv_InitServer \/ Sv_Restart
  PROVE  \A d \in Clients : Orderly(d)'
<1>1. UNCHANGED <<clState, clMessage>>
  BY DEF Sv_Disconnect, Sv_Timeout, Sv_RunGameFrame, Sv_InitServer, Sv_Restart, clientVars
<1>2. slots \in [Slot -> ServerClient] /\ network \subseteq network
      /\ \A p \in network : network \ {p} \subseteq network
  BY DEF Inv, TypeOK
<1>3. \A s \in Slot : \A p \in DropPacket(s) : p.cmd = "drop"
  BY DEF DropPacket, ToClient
<1>4. ASSUME \A d \in Clients : InHandshake(d)' \subseteq InHandshake(d),
             \A s \in Slot : \/ slots'[s].state = "free"
                             \/ slots'[s].client = NoClient
                             \/ /\ slots[s].state # "free" /\ slots'[s].client = slots[s].client
                                /\ slots'[s].message = slots[s].message
                                /\ slots'[s].state \in {slots[s].state, "connected"}
                             \/ slots'[s] = slots[s]
      PROVE  \A d \in Clients : Orderly(d)'
  <2>1. ASSUME NEW d \in Clients, NEW s \in Owned(d)'
        PROVE  /\ s \in Owned(d) /\ slots'[s].message = slots[s].message
               /\ slots'[s].state \in {slots[s].state, "connected"}
    <3>1. s \in Slot /\ slots'[s].state # "free" /\ slots'[s].client = d /\ d # NoClient
      BY ConstantFacts DEF Owned, Used
    <3> QED
      BY <1>4, <3>1 DEF Owned, Used
  <2> QED
    BY <1>1, <1>4, <2>1, OrderlyKept
<1>5. ASSUME NEW s \in Slot, DropClient(s)
      PROVE  \A t \in Slot : slots'[t].state = "free" \/ slots'[t] = slots[t]
  BY <1>2, <1>5, FreeSlotFacts DEF DropClient
<1>6. ASSUME NEW p \in network, Sv_Disconnect(p)
      PROVE  \A d \in Clients : Orderly(d)'
  <2> DEFINE s == Least(Owned(p.client))
  <2>1. CASE Owned(p.client) # {}
    <3>1. s \in Slot
      BY <2>1, LeastIsOne DEF Owned
    <3>2. DropClient(s) /\ network' = Sent(network \ {p}, DropPacket(s))
      BY <1>6, <2>1 DEF Sv_Disconnect
    <3> HIDE DEF s
    <3>3. \A d \in Clients : InHandshake(d)' \subseteq InHandshake(d)
      BY <1>2, <1>3, <3>1, <3>2, NoHandshake
    <3> QED
      BY <1>4, <1>5, <3>1, <3>2, <3>3
  <2>2. CASE Owned(p.client) = {}
    <3>1. network' = network \ {p} /\ slots' = slots
      BY <1>6, <2>2 DEF Sv_Disconnect
    <3>2. \A d \in Clients : InHandshake(d)' \subseteq InHandshake(d)
      BY <3>1 DEF InHandshake
    <3> QED
      BY <1>4, <3>1, <3>2
  <2> QED
    BY <2>1, <2>2
<1>7. ASSUME NEW s \in Slot, Sv_Timeout(s)
      PROVE  \A d \in Clients : Orderly(d)'
  <2>1. DropClient(s) /\ network' = Sent(network, DropPacket(s))
    BY <1>7 DEF Sv_Timeout
  <2>2. \A d \in Clients : InHandshake(d)' \subseteq InHandshake(d)
    BY <1>2, <1>3, <2>1, NoHandshake
  <2> QED
    BY <1>4, <1>5, <2>1, <2>2
<1>8. CASE Sv_RunGameFrame
  <2>1. network' = network /\ slots' = Synced(gclients')
    BY <1>8 DEF Sv_RunGameFrame
  <2>2. \A s \in Slot : slots'[s].client = NoClient \/ slots'[s] = slots[s]
    BY <2>1, FreeSlotFacts DEF Synced
  <2>3. \A d \in Clients : InHandshake(d)' \subseteq InHandshake(d)
    BY <2>1 DEF InHandshake
  <2> QED
    BY <1>4, <2>2, <2>3
<1>9. CASE Sv_InitServer
  <2>1. network' = Sent(network, ReconnectPackets) /\ slots' = ReconnectClients
    BY <1>9 DEF Sv_InitServer
  <2>2. \A p \in ReconnectPackets : p.cmd = "reconnect"
    BY DEF ReconnectPackets, ToClient
  <2>3. \A d \in Clients : InHandshake(d)' \subseteq InHandshake(d)
    BY <1>2, <2>1, <2>2, NoHandshake
  <2>4. ASSUME NEW s \in Slot
        PROVE  \/ /\ slots[s].state # "free" /\ slots'[s].client = slots[s].client
                  /\ slots'[s].message = slots[s].message
                  /\ slots'[s].state \in {slots[s].state, "connected"}
               \/ slots'[s] = slots[s]
    <3>1. slots[s] \in ServerClient
      BY <1>2
    <3> QED
      BY <2>1, <3>1, SlotFields DEF ReconnectClients
  <2> QED
    BY <1>4, <2>3, <2>4
<1>10. CASE Sv_Restart
  <2> DEFINE told == {ToClient(slots[s].client, "disconnect", 0) : s \in HumanSlots}
  <2>1. (network' = Sent(network, told) \/ network' = network)
        /\ slots' = [s \in Slot |-> FreeSlot]
    BY <1>10 DEF Sv_Restart
  <2>2. \A p \in told : p.cmd = "disconnect"
    BY DEF ToClient
  <2> HIDE DEF told
  <2>3. \A d \in Clients : InHandshake(d)' \subseteq InHandshake(d)
    BY <1>2, <2>1, <2>2, NoHandshake
  <2>4. \A s \in Slot : slots'[s].state = "free"
    BY <2>1, FreeSlotFacts
  <2> QED
    BY <1>4, <2>3, <2>4
<1> QED
  BY <1>6, <1>7, <1>8, <1>9, <1>10

\* What a client that transmits and its slot do together: one command waits at most.
LEMMA OrderlyEnds ==
  ASSUME Inv, \A d \in Clients : Orderly(d), NEW c \in Clients, NEW s \in Owned(c),
         clState[c] \in Transmitting,
         \A d \in Clients : InHandshake(d)' \subseteq InHandshake(d),
         \A d \in Clients \ {c} : clMessage'[d] = clMessage[d] /\ clState'[d] = clState[d],
         \A t \in Slot \ {s} : slots'[t] = slots[t],
         slots'[s].client = c,
         Len(clMessage'[c]) + Len(slots'[s].message) <= 1,
         slots'[s].state = "active" => clMessage'[c] = <<>> /\ slots'[s].message = <<>>
  PROVE  \A d \in Clients : Orderly(d)'
<1>1. s \in Slot /\ Used(s) /\ slots[s].client = c /\ c # NoClient
  BY ConstantFacts DEF Owned
<1>2. InHandshake(c)' = {}
  BY DEF Orderly
<1>3. Owned(c)' \subseteq {s}
  BY <1>1 DEF Inv, OneSlotPerClient, Owned, Used
<1>4. Orderly(c)'
  BY <1>2, <1>3 DEF Orderly
<1>5. ASSUME NEW d \in Clients \ {c}
      PROVE  Orderly(d)'
  <2>1. \A t \in Owned(d)' : t \in Owned(d) /\ slots'[t] = slots[t]
    BY <1>5 DEF Owned, Used
  <2> QED
    BY <2>1, OrderlyKept
<1> QED
  BY <1>4, <1>5

\* Of two queues that have one element at most, the one that has it is left empty, and the other
\* is empty.
LEMMA OneWaits ==
  ASSUME NEW S, NEW T, NEW q \in Seq(S), NEW m \in Seq(T), Len(q) + Len(m) <= 1
  PROVE  /\ q # <<>> => Tail(q) = <<>> /\ m = <<>>
         /\ m # <<>> => Tail(m) = <<>> /\ q = <<>>
<1>1. \A U : \A u \in Seq(U) : Len(u) \in Nat /\ (Len(u) = 0 => u = <<>>)
  OBVIOUS
<1> DEFINE i == Len(q)
           j == Len(m)
<1>2. /\ i \in Nat /\ j \in Nat /\ i + j <= 1
      /\ i = 0 => q = <<>>
      /\ j = 0 => m = <<>>
  BY <1>1
<1>3. q # <<>> => Tail(q) \in Seq(S) /\ Len(Tail(q)) = i - 1
  BY Taken, TailAt
<1>4. m # <<>> => Tail(m) \in Seq(T) /\ Len(Tail(m)) = j - 1
  BY Taken, TailAt
<1> HIDE DEF i, j
<1>5. (i # 0 => i = 1 /\ j = 0) /\ (j # 0 => j = 1 /\ i = 0)
  BY <1>2
<1>6. ASSUME q # <<>>
      PROVE  Tail(q) = <<>> /\ m = <<>>
  <2>1. i = 1 /\ j = 0
    BY <1>2, <1>5, <1>6
  <2>2. Tail(q) \in Seq(S) /\ Len(Tail(q)) = 0
    BY <1>3, <1>6, <2>1
  <2> QED
    BY <1>1, <1>2, <2>1, <2>2
<1>7. ASSUME m # <<>>
      PROVE  Tail(m) = <<>> /\ q = <<>>
  <2>1. j = 1 /\ i = 0
    BY <1>2, <1>5, <1>7
  <2>2. Tail(m) \in Seq(T) /\ Len(Tail(m)) = 0
    BY <1>4, <1>7, <2>1
  <2> QED
    BY <1>1, <1>2, <2>1, <2>2
<1> QED
  BY <1>6, <1>7

\* What a client that transmits and its slot have waiting, of which there is one command at most.
LEMMA OneCommand ==
  ASSUME Inv, \A d \in Clients : Orderly(d), NEW c \in Clients, NEW s \in Owned(c),
         clState[c] \in Transmitting
  PROVE  LET q == clMessage[c]
             m == slots[s].message
         IN /\ s \in Slot /\ slots[s] \in ServerClient /\ slots[s].client = c
            /\ slots[s].state \in {"connected", "active"}
            /\ \A p \in InHandshake(c) : FALSE
            /\ q \in Seq(ClientCommand) /\ m \in Seq(ServerCommand)
            /\ q # <<>> => Tail(q) = <<>> /\ m = <<>> /\ slots[s].state = "connected"
            /\ m # <<>> => Tail(m) = <<>> /\ q = <<>> /\ slots[s].state = "connected"
<1>1. /\ s \in Slot /\ slots[s] \in ServerClient /\ slots[s].client = c
      /\ slots[s].state \in {"connected", "active"}
      /\ clMessage[c] \in Seq(ClientCommand) /\ slots[s].message \in Seq(ServerCommand)
  BY DEF Inv, TypeOK, Owned, Used, ServerClient, SlotState
<1>2. /\ Len(clMessage[c]) + Len(slots[s].message) <= 1
      /\ slots[s].state = "active" => clMessage[c] = <<>> /\ slots[s].message = <<>>
      /\ \A p \in InHandshake(c) : FALSE
  BY DEF Orderly
<1> QED
  BY <1>1, <1>2, OneWaits

\* The lengths of queues of which one is empty.
LEMMA OneLength ==
  /\ \A m : m = <<>> => Len(m) = 0
  /\ \A n \in ServerCommand : Len(Append(<<>>, n)) = 1
  /\ \A n \in ClientCommand : Len(Append(<<>>, n)) = 1 /\ Len(<<n>>) = 1 /\ Len(<<>> \o <<n>>) = 1
<1>1. /\ <<>> \in Seq(ServerCommand) /\ <<>> \in Seq(ClientCommand) /\ Len(<<>>) = 0
  OBVIOUS
<1>2. ASSUME NEW n \in ServerCommand
      PROVE  Len(Append(<<>>, n)) = 1
  BY <1>1
<1>3. ASSUME NEW n \in ClientCommand
      PROVE  Len(Append(<<>>, n)) = 1 /\ Len(<<n>>) = 1 /\ Len(<<>> \o <<n>>) = 1
  BY <1>1
<1> QED
  BY <1>1, <1>2, <1>3

\* The server executes a client's command, which was the only one, and adds one at most; it was
\* not in the game for the server.
LEMMA ServerCommandHandshakes ==
  ASSUME Inv, \A d \in Clients : Orderly(d), NEW c \in Clients, NEW s \in Slot, Sv_Command(c, s)
  PROVE  \A d \in Clients : Orderly(d)'
<1> DEFINE q == clMessage[c]
           m == slots[s].message
<1>1. /\ s \in Owned(c) /\ clState[c] \in Transmitting /\ q # <<>>
      /\ clMessage' = [clMessage EXCEPT ![c] = Tail(q)] /\ clState' = clState
  BY DEF Sv_Command, ServerTakes
<1>2. /\ slots[s] \in ServerClient /\ slots[s].client = c /\ slots[s].state = "connected"
      /\ Tail(q) = <<>> /\ m = <<>>
  BY <1>1, OneCommand
<1>3. /\ network' = network
      /\ \/ UNCHANGED slots
         \/ \E name \in {"serverData", "baselines", "precache"} : Reply(s, name)
         \/ slots' = [slots EXCEPT ![s].state = "active"]
  BY <1>2 DEF Sv_Command
<1>4. /\ clMessage'[c] = <<>> /\ \A d \in Clients \ {c} : clMessage'[d] = clMessage[d]
      /\ slots \in [Slot -> ServerClient] /\ spawnCount \in 0 .. MaxSpawn
  BY <1>1, <1>2, ConstantFacts DEF Inv, TypeOK
<1>5. \A d \in Clients : InHandshake(d)' \subseteq InHandshake(d)
  BY <1>3 DEF InHandshake
<1>6. Len(<<>>) = 0
  OBVIOUS
<1>7. /\ s \in Owned(c) /\ clState[c] \in Transmitting
      /\ \A d \in Clients \ {c} : clMessage'[d] = clMessage[d] /\ clState'[d] = clState[d]
  BY <1>1, <1>4
<1> HIDE DEF q
<1>a. CASE UNCHANGED slots
  <2>1. Len(clMessage'[c]) + Len(slots'[s].message) <= 1
    BY <1>2, <1>4, <1>6, <1>a
  <2> QED
    BY <1>1, <1>2, <1>4, <1>5, <1>a, <2>1, OrderlyEnds
<1>b. ASSUME NEW name \in {"serverData", "baselines", "precache"}, Reply(s, name)
      PROVE  \A d \in Clients : Orderly(d)'
  <2> DEFINE reply == Append(m, Cmd(name, spawnCount))
  <2>1. slots' = [slots EXCEPT ![s].message = reply]
    BY <1>b DEF Reply
  <2>2. Len(reply) = 1
    BY <1>2, <1>4, OneLength, CommandFacts
  <2> HIDE DEF reply
  <2>3. slots'[s] = [slots[s] EXCEPT !.message = reply]
    BY <1>4, <2>1
  <2>4. \A t \in Slot \ {s} : slots'[t] = slots[t]
    BY <1>4, <2>1
  <2>5. slots'[s].message = reply /\ slots'[s].client = c /\ slots'[s].state = "connected"
    BY <1>2, <2>3, SlotFields
  <2>6. Len(clMessage'[c]) + Len(slots'[s].message) <= 1
    <3>1. Len(clMessage'[c]) = 0 /\ Len(slots'[s].message) = 1
      BY <1>4, <1>6, <2>2, <2>5
    <3> QED
      BY <3>1
  <2>7. ~ (slots'[s].state = "active")
    BY <2>5
  <2> HIDE DEF m
  <2> QED
    BY <1>5, <1>7, <2>4, <2>5, <2>6, <2>7, OrderlyEnds
<1>c. CASE slots' = [slots EXCEPT ![s].state = "active"]
  <2>1. slots'[s] = [slots[s] EXCEPT !.state = "active"]
    BY <1>4, <1>c
  <2>2. \A t \in Slot \ {s} : slots'[t] = slots[t]
    BY <1>4, <1>c
  <2>3. slots'[s].message = <<>> /\ slots'[s].client = c
    BY <1>2, <2>1, SlotFields
  <2>4. Len(clMessage'[c]) + Len(slots'[s].message) <= 1
    BY <1>4, <1>6, <2>3
  <2>5. clMessage'[c] = <<>> /\ slots'[s].message = <<>>
    BY <1>4, <2>3
  <2> HIDE DEF m
  <2> QED
    BY <1>5, <1>7, <2>2, <2>3, <2>4, <2>5, OrderlyEnds
<1> QED
  BY <1>3, <1>a, <1>b, <1>c

\* A client executes a command of the server, which was the only one, and asks for one.
LEMMA ClientCommandHandshakes ==
  ASSUME Inv, \A d \in Clients : Orderly(d), NEW c \in Clients, NEW s \in Slot, Cl_Command(c, s)
  PROVE  \A d \in Clients : Orderly(d)'
<1> DEFINE q == clMessage[c]
           m == slots[s].message
           h == Head(m)
<1>1. /\ s \in Owned(c) /\ clState[c] \in Transmitting /\ m # <<>>
      /\ slots' = [slots EXCEPT ![s].message = Tail(m)] /\ network' = network
  BY DEF Cl_Command, ClientTakes
<1>2. /\ slots[s] \in ServerClient /\ slots[s].client = c /\ slots[s].state = "connected"
      /\ Tail(m) = <<>> /\ q = <<>> /\ m \in Seq(ServerCommand)
  BY <1>1, OneCommand
<1>3. /\ slots'[s] = [slots[s] EXCEPT !.message = <<>>]
      /\ \A t \in Slot \ {s} : slots'[t] = slots[t]
  BY <1>1, <1>2 DEF Inv, TypeOK
<1>4. slots'[s].message = <<>> /\ slots'[s].client = c /\ slots'[s].state = "connected"
  BY <1>2, <1>3, SlotFields
<1>5. \A d \in Clients : InHandshake(d)' \subseteq InHandshake(d)
  BY <1>1 DEF InHandshake
<1>6. h.spawn \in 0 .. MaxSpawn
  <2>1. h \in ServerCommand
    BY <1>1, <1>2, Taken
  <2> QED
    BY <2>1 DEF ServerCommand
<1>7. /\ \A d \in Clients \ {c} : clMessage'[d] = clMessage[d] /\ clState'[d] = clState[d]
      /\ \/ clMessage'[c] = <<Cmd("configStrings", h.spawn)>>
         \/ clMessage'[c] = Append(q, Cmd("baselines", h.spawn))
         \/ clMessage'[c] = q \o <<Cmd("begin", h.spawn)>>
  BY DEF Cl_Command, Begins, Inv, TypeOK
<1> HIDE DEF m, h
<1>8. Len(clMessage'[c]) = 1
  <2>1. /\ Cmd("configStrings", h.spawn) \in ClientCommand
        /\ Cmd("baselines", h.spawn) \in ClientCommand
        /\ Cmd("begin", h.spawn) \in ClientCommand
    BY <1>6, CommandFacts
  <2>2. q = <<>>
    BY <1>2
  <2> HIDE DEF q
  <2> QED
    BY <1>7, <2>1, <2>2, OneLength
<1>9. Len(clMessage'[c]) + Len(slots'[s].message) <= 1
  BY <1>4, <1>8, OneLength
<1> QED
  BY <1>1, <1>3, <1>4, <1>5, <1>7, <1>9, OrderlyEnds

\* A command is lost, which was the only one.
LEMMA LoseHandshakes ==
  ASSUME Inv, \A d \in Clients : Orderly(d), NEW c \in Clients, NEW s \in Slot, LoseCommand(c, s)
  PROVE  \A d \in Clients : Orderly(d)'
<1> DEFINE q == clMessage[c]
           m == slots[s].message
<1>1. /\ s \in Owned(c) /\ clState[c] \in Transmitting /\ clState' = clState /\ network' = network
      /\ \/ /\ q # <<>> /\ clMessage' = [clMessage EXCEPT ![c] = Tail(q)] /\ slots' = slots
         \/ /\ m # <<>> /\ slots' = [slots EXCEPT ![s].message = Tail(m)]
            /\ clMessage' = clMessage
  BY DEF LoseCommand, ServerTakes, ClientTakes
<1>2. /\ slots[s] \in ServerClient /\ slots[s].client = c
      /\ q # <<>> => Tail(q) = <<>> /\ m = <<>> /\ slots[s].state = "connected"
      /\ m # <<>> => Tail(m) = <<>> /\ q = <<>> /\ slots[s].state = "connected"
  BY <1>1, OneCommand
<1>3. /\ \A d \in Clients \ {c} : clMessage'[d] = clMessage[d]
      /\ \A t \in Slot \ {s} : slots'[t] = slots[t]
      /\ slots'[s] = slots[s] \/ slots'[s] = [slots[s] EXCEPT !.message = <<>>]
      /\ clMessage'[c] = <<>>
  BY <1>1, <1>2 DEF Inv, TypeOK
<1>4. slots'[s].message = <<>> /\ slots'[s].client = c /\ slots'[s].state = "connected"
  <2>1. CASE q # <<>> /\ slots' = slots
    BY <1>2, <2>1
  <2>2. CASE m # <<>> /\ slots' = [slots EXCEPT ![s].message = Tail(m)]
    <3>1. slots'[s] = [slots[s] EXCEPT !.message = <<>>]
      BY <1>2, <2>2 DEF Inv, TypeOK
    <3>2. slots[s] \in ServerClient /\ slots[s].client = c /\ slots[s].state = "connected"
      BY <1>2, <2>2
    <3> HIDE DEF m
    <3> QED
      BY <3>1, <3>2, SlotFields
  <2> QED
    BY <1>1, <2>1, <2>2
<1>5. \A d \in Clients : InHandshake(d)' \subseteq InHandshake(d)
  BY <1>1 DEF InHandshake
<1>6. Len(clMessage'[c]) + Len(slots'[s].message) <= 1
  BY <1>3, <1>4, OneLength
<1> QED
  BY <1>1, <1>3, <1>4, <1>5, <1>6, OrderlyEnds

\* Every step keeps the handshakes in order, or a packet was answered twice.
LEMMA StepHandshakes ==
  ASSUME Inv, Handshakes, [Next]_vars
  PROVE  Handshakes'
<1> SUFFICES ASSUME ~ late'
             PROVE  \A c \in Clients : Orderly(c)'
  BY DEF Handshakes
<1>1. ~ late
  <2>1. ASSUME NEW p \in network, Receive(p) \/ Lose(p)
        PROVE  ~ late
    BY <2>1 DEF Receive, Cl_Challenge, Cl_ClientConnect, Cl_Dropped, Cl_Reconnect,
                Sv_GetChallenge, Sv_Connect, Sv_Disconnect, Lose
  <2>2. ASSUME NEW c \in Clients,
               \/ Cl_Disconnect(c) \/ Cl_Connect(c) \/ Cl_AttemptConnect(c) \/ Cl_Timeout(c)
               \/ Cl_ParseFrame(c)
        PROVE  ~ late
    BY <2>2 DEF Cl_Disconnect, Cl_Connect, Cl_AttemptConnect, Cl_Timeout, Cl_ParseFrame
  <2>3. ASSUME NEW c \in Clients, NEW s \in Slot,
               Sv_Command(c, s) \/ Cl_Command(c, s) \/ LoseCommand(c, s)
        PROVE  ~ late
    BY <2>3 DEF Sv_Command, Cl_Command, LoseCommand
  <2>4. CASE \/ \E s \in Slot : Sv_Timeout(s)
             \/ Sv_RunGameFrame \/ Sv_InitServer \/ Sv_Restart \/ UNCHANGED vars
    BY <2>4 DEF Sv_Timeout, Sv_RunGameFrame, Sv_InitServer, Sv_Restart, vars
  <2> QED
    BY <2>1, <2>2, <2>3, <2>4 DEF Next
<1>2. \A c \in Clients : Orderly(c)
  BY <1>1 DEF Handshakes
<1>3. ASSUME NEW p \in network, Receive(p) \/ Lose(p)
      PROVE  \A c \in Clients : Orderly(c)'
  BY <1>2, <1>3, AloneHandshakes, ChallengeHandshakes, ConnectHandshakes, ClientConnectHandshakes,
     ServerHandshakes DEF Receive
<1>4. ASSUME NEW c \in Clients,
             \/ Cl_Disconnect(c) \/ Cl_Connect(c) \/ Cl_AttemptConnect(c) \/ Cl_Timeout(c)
             \/ Cl_ParseFrame(c)
      PROVE  \A d \in Clients : Orderly(d)'
  BY <1>2, <1>4, AloneHandshakes, AttemptHandshakes
<1>5. ASSUME NEW c \in Clients, NEW s \in Slot,
             Sv_Command(c, s) \/ Cl_Command(c, s) \/ LoseCommand(c, s)
      PROVE  \A d \in Clients : Orderly(d)'
  BY <1>2, <1>5, ServerCommandHandshakes, ClientCommandHandshakes, LoseHandshakes
<1>6. CASE UNCHANGED vars
  BY <1>2, <1>6, AloneHandshakes
<1>7. CASE (\E s \in Slot : Sv_Timeout(s)) \/ Sv_RunGameFrame \/ Sv_InitServer \/ Sv_Restart
  BY <1>2, <1>7, ServerHandshakes
<1> QED
  BY <1>3, <1>4, <1>5, <1>6, <1>7 DEF Next

\* A client that is in the game has no command waiting that would make the server drop it, unless
\* a packet was answered twice, however many clients and slots there are, whatever is lost, and
\* however often levels change and either program starts again.
THEOREM NeverDroppedInTheGame == Spec => []NotDroppedWhilePlaying
<1>1. Handshakes => NotDroppedWhilePlaying
  BY DEF Handshakes, Orderly, NotDroppedWhilePlaying
<1>2. Init => Handshakes
  <2> SUFFICES ASSUME Init, NEW c \in Clients
               PROVE  Orderly(c)
    BY DEF Handshakes
  <2>1. InHandshake(c) = {} /\ clState[c] \notin Transmitting
    BY DEF Init, InHandshake, Transmitting
  <2> QED
    BY <2>1 DEF Orderly
<1>3. Inv /\ Handshakes /\ [Next]_vars => Handshakes'
  BY StepHandshakes
<1> QED
  BY <1>1, <1>2, <1>3, Invariance, PTL DEF Spec

=============================================================================
