------------------------- MODULE MoveCommands_proofs -------------------------
(***************************************************************************)
(* Proofs about movement commands, for a ring of any length of at least    *)
(* three, and any number of packets, channels and levels: whichever        *)
(* packets arrive, in whatever order, a command is executed once and in    *)
(* its level, and what the client replays is what it sent.                 *)
(*                                                                         *)
(* Types hold in any case.  The rest is proved for a channel that the      *)
(* packets of a former one do not reach (~ LateMoves): what arrives late   *)
(* is executed, as TLC shows with LateMoves = TRUE.                        *)
(*                                                                         *)
(* What the ring and the packets hold is enough for that: a slot of a      *)
(* client that plays has the command of a packet less than a ring ago, or  *)
(* none (RingInv); a packet repeats the two before it (NetworkInv); the    *)
(* commands executed are those of packets up to the last one accepted      *)
(* (ServerInv); and what is acknowledged was accepted (ClientInv).         *)
(***************************************************************************)
EXTENDS MoveCommands, SequenceTheorems, TLAPS

\* The slots of the ring, and what one holds.
Slots == 0 .. CMD_BACKUP - 1

Stored == [command : Nat, predicted : BOOLEAN]

\* The slots of the ring have commands of this channel, none of them older than the ring; a
\* command was predicted only when the client was less than a ring ahead of the server.
RingInv ==
  /\ phase \in {"loading", "begun"} => \A s \in Slots : cmds[s] = Zeroed
  /\ clientActive =>
       /\ \A s \in Slots : cmds[s].command # 0 =>
            LET n == cmds[s].command - opened IN
            /\ s = Slot(n)
            /\ 1 <= n /\ n < outgoingSequence /\ outgoingSequence < n + CMD_BACKUP
            /\ cmds[s].predicted => n < incomingAcknowledged + CMD_BACKUP
       /\ cmds[Slot(outgoingSequence)].predicted =>
            outgoingSequence < incomingAcknowledged + CMD_BACKUP

\* What packets repeat, that a client that plays sends nothing but moves, and what of them
\* the ring still has.
NetworkInv ==
  /\ phase = "granted" => network = {}
  /\ \A m \in network :
       /\ m.sequence < outgoingSequence
       /\ m.kind = "move" =>
            /\ phase \in {"playing", "changing", "reconnecting"}
            /\ m.moves[3] = opened + m.sequence
            /\ m.moves[2] # 0 => m.sequence > 1 /\ m.moves[2] = opened + m.sequence - 1
            /\ m.moves[1] # 0 => m.sequence > 2 /\ m.moves[1] = opened + m.sequence - 2
       /\ m.kind = "begin" =>
            /\ m.spawnCount <= levels
            /\ m.spawnCount = levels => phase \in {"loading", "begun", "playing"}
  /\ \A m, p \in network : m.sequence = p.sequence => m = p
  /\ \A p \in network : p.kind = "move" =>
       /\ outgoingSequence < p.sequence + CMD_BACKUP =>
            cmds[Slot(p.sequence)].command = opened + p.sequence
       /\ \A m \in network : m.sequence > p.sequence =>
            /\ m.kind = "move"
            /\ m.sequence = p.sequence + 1 => m.moves[2] = opened + p.sequence
            /\ m.sequence = p.sequence + 2 => m.moves[1] = opened + p.sequence

\* The commands s are in order, after lo and up to hi.
Within(s, lo, hi) ==
  /\ s \in Seq(Int)
  /\ \A i \in 1 .. Len(s) : lo < s[i] /\ s[i] <= hi
  /\ \A i, j \in 1 .. Len(s) : i < j => s[i] < s[j]

\* What the server accepted and executed.
ServerInv ==
  /\ incomingSequence < outgoingSequence
  /\ incomingSequence > 0 => incomingSequence \in received
  /\ \A r \in received : r <= incomingSequence
  /\ phase = "granted" => incomingSequence = 0
  /\ ~ serverActive => executed = <<>>
  /\ Within(executed, opened, opened + incomingSequence)

\* What the server acknowledges, and that it asks for a new connection at a change of level.
ClientInv ==
  /\ phase # "granted" => incomingAcknowledged <= incomingSequence
  /\ incomingAcknowledged < outgoingSequence
  /\ frame <= opened + incomingAcknowledged
  /\ \A f \in frames :
       /\ f.ack <= incomingSequence /\ f.last <= opened + f.ack
       /\ f.kind = "reconnect" => phase \in {"changing", "reconnecting"}

\* The inductive invariant.
Inv == TypeOK /\ RingInv /\ NetworkInv /\ ServerInv /\ ClientInv /\ LostOnlyAfterThree

-------------------------------------------------------------------------------
\* Rings and sequences.

\* A function on the first numbers is a sequence.
LEMMA FunctionIsSeq ==
  ASSUME NEW S, NEW n \in Nat, NEW s \in [1 .. n -> S]
  PROVE  s \in Seq(S)
BY SeqDef

\* Two numbers have one slot only when they are a whole ring apart.
LEMMA SlotsDiffer ==
  ASSUME NEW a \in Int, NEW b \in Int, a - b < CMD_BACKUP, b - a < CMD_BACKUP,
         Slot(a) = Slot(b)
  PROVE  a = b
<1>1. CMD_BACKUP \in Nat /\ CMD_BACKUP > 0
  BY CmdAssumption
<1>2. /\ a = (CMD_BACKUP * (a \div CMD_BACKUP)) + (a % CMD_BACKUP)
      /\ b = (CMD_BACKUP * (b \div CMD_BACKUP)) + (b % CMD_BACKUP)
      /\ a \div CMD_BACKUP \in Int /\ b \div CMD_BACKUP \in Int
  BY <1>1
<1> DEFINE q == (a \div CMD_BACKUP) - (b \div CMD_BACKUP)
<1>3. q \in Int /\ a - b = CMD_BACKUP * q
  BY <1>1, <1>2 DEF Slot
<1> HIDE DEF q
<1>4. q >= 1 => CMD_BACKUP * q >= CMD_BACKUP
  BY <1>1, <1>3
<1>5. q <= -1 => CMD_BACKUP * q <= - CMD_BACKUP
  BY <1>1, <1>3
<1> QED
  BY <1>1, <1>3, <1>4, <1>5

\* A slot comes again after a whole ring.
LEMMA SlotPeriodic ==
  ASSUME NEW a \in Int
  PROVE  Slot(a) = Slot(a + CMD_BACKUP)
<1>1. CMD_BACKUP \in Nat /\ CMD_BACKUP > 0
  BY CmdAssumption
<1>2. /\ a = (CMD_BACKUP * (a \div CMD_BACKUP)) + (a % CMD_BACKUP)
      /\ a + CMD_BACKUP = (CMD_BACKUP * ((a + CMD_BACKUP) \div CMD_BACKUP)) + ((a + CMD_BACKUP) % CMD_BACKUP)
      /\ a \div CMD_BACKUP \in Int /\ (a + CMD_BACKUP) \div CMD_BACKUP \in Int
      /\ a % CMD_BACKUP \in 0 .. CMD_BACKUP - 1
      /\ (a + CMD_BACKUP) % CMD_BACKUP \in 0 .. CMD_BACKUP - 1
  BY <1>1
<1> DEFINE q == ((a + CMD_BACKUP) \div CMD_BACKUP) - (a \div CMD_BACKUP)
           r == (a + CMD_BACKUP) % CMD_BACKUP
           t == a % CMD_BACKUP
<1>3. q \in Int /\ r \in Int /\ t \in Int /\ CMD_BACKUP * q = CMD_BACKUP + t - r
      /\ t - r < CMD_BACKUP /\ r - t < CMD_BACKUP
  BY <1>1, <1>2
<1> HIDE DEF q, r, t
<1>4. q >= 2 => CMD_BACKUP * q >= CMD_BACKUP + CMD_BACKUP
  BY <1>1, <1>3
<1>5. q <= 0 => CMD_BACKUP * q <= 0
  BY <1>1, <1>3
<1>6. q = 1
  BY <1>1, <1>3, <1>4, <1>5
<1>7. r = t
  BY <1>1, <1>3, <1>6
<1> QED
  BY <1>7 DEF r, t, Slot

\* Every number has a slot.
LEMMA SlotType ==
  ASSUME NEW a \in Int
  PROVE  Slot(a) \in 0 .. CMD_BACKUP - 1
  BY CmdAssumption DEF Slot

\* What the assumption on the constants says.
LEMMA ConstantFacts ==
  CMD_BACKUP \in Nat /\ CMD_BACKUP >= 3 /\ MaxSequence \in Nat /\ MaxLevels \in Nat \ {0}
  BY CmdAssumption

\* No commands are in order,
LEMMA WithinNone ==
  ASSUME NEW lo, NEW hi
  PROVE  Within(<<>>, lo, hi)
  BY DEF Within

\* and so is one.
LEMMA WithinOne ==
  ASSUME NEW lo \in Int, NEW hi \in Int, NEW n \in Int, lo < n, n <= hi
  PROVE  Within(<<n>>, lo, hi)
  BY DEF Within

\* Commands that follow others.
LEMMA WithinJoined ==
  ASSUME NEW s, NEW t, NEW lo \in Int, NEW mid \in Int, NEW hi \in Int,
         lo <= mid, mid <= hi, Within(s, lo, mid), Within(t, mid, hi)
  PROVE  /\ Within(s \o t, lo, hi)
         /\ \A n : Contains(s \o t, n) <=> Contains(s, n) \/ Contains(t, n)
<1>1. s \in Seq(Int) /\ t \in Seq(Int) /\ s \o t \in Seq(Int) /\ Len(s \o t) = Len(s) + Len(t)
      /\ Len(s) \in Nat /\ Len(t) \in Nat
  BY DEF Within
<1>2. /\ \A i \in 1 .. Len(s) : (s \o t)[i] = s[i]
      /\ \A i \in Len(s) + 1 .. Len(s) + Len(t) : (s \o t)[i] = t[i - Len(s)]
  BY <1>1
<1>3. \A i \in 1 .. Len(s) + Len(t) :
        \/ i \in 1 .. Len(s)
        \/ i \in Len(s) + 1 .. Len(s) + Len(t) /\ i - Len(s) \in 1 .. Len(t)
  BY <1>1
<1>4. /\ \A i \in 1 .. Len(s) : s[i] \in Int /\ lo < s[i] /\ s[i] <= mid
      /\ \A i \in 1 .. Len(t) : t[i] \in Int /\ mid < t[i] /\ t[i] <= hi
  BY <1>1 DEF Within
<1>5. \A i \in 1 .. Len(s \o t) : lo < (s \o t)[i] /\ (s \o t)[i] <= hi
  BY <1>1, <1>2, <1>3, <1>4
<1>6. ASSUME NEW i \in 1 .. Len(s \o t), NEW j \in 1 .. Len(s \o t), i < j
      PROVE  (s \o t)[i] < (s \o t)[j]
  <2>1. CASE j \in 1 .. Len(s)
    BY <1>1, <1>2, <1>6, <2>1 DEF Within
  <2>2. CASE i \notin 1 .. Len(s)
    <3>1. i - Len(s) \in 1 .. Len(t) /\ j - Len(s) \in 1 .. Len(t) /\ i - Len(s) < j - Len(s)
      BY <1>1, <1>3, <1>6, <2>2
    <3>2. (s \o t)[i] = t[i - Len(s)] /\ (s \o t)[j] = t[j - Len(s)]
      BY <1>1, <1>2, <1>3, <1>6, <2>2
    <3> QED
      BY <3>1, <3>2 DEF Within
  <2>3. CASE i \in 1 .. Len(s) /\ j \notin 1 .. Len(s)
    BY <1>1, <1>2, <1>3, <1>4, <1>6, <2>3
  <2> QED
    BY <2>1, <2>2, <2>3
<1>7. ASSUME NEW n
      PROVE  Contains(s \o t, n) <=> Contains(s, n) \/ Contains(t, n)
  <2>1. ASSUME NEW i \in 1 .. Len(t), t[i] = n
        PROVE  Contains(s \o t, n)
    <3>1. Len(s) + i \in Len(s) + 1 .. Len(s) + Len(t) /\ (Len(s) + i) - Len(s) = i
      BY <1>1
    <3>2. (s \o t)[Len(s) + i] = n /\ Len(s) + i \in 1 .. Len(s \o t)
      BY <1>1, <1>2, <2>1, <3>1
    <3> QED
      BY <3>2 DEF Contains
  <2>2. Contains(s, n) => Contains(s \o t, n)
    BY <1>1, <1>2 DEF Contains
  <2>3. Contains(s \o t, n) => Contains(s, n) \/ Contains(t, n)
    BY <1>1, <1>2, <1>3 DEF Contains
  <2> QED
    BY <2>1, <2>2, <2>3 DEF Contains
<1> QED
  BY <1>1, <1>5, <1>6, <1>7 DEF Within

-------------------------------------------------------------------------------
\* Types.

\* The command being gathered is completed in its slot.
LEMMA FinalizedFacts ==
  ASSUME TypeOK
  PROVE  /\ Finalized \in [Slots -> Stored]
         /\ Finalized[Slot(outgoingSequence)].command = opened + outgoingSequence
         /\ Finalized[Slot(outgoingSequence)].predicted = cmds[Slot(outgoingSequence)].predicted
         /\ \A s \in Slots : s # Slot(outgoingSequence) => Finalized[s] = cmds[s]
<1> DEFINE o == outgoingSequence
           done == [cmds[Slot(o)] EXCEPT !.command = opened + o]
<1>1. cmds \in [Slots -> Stored] /\ o \in Nat /\ opened \in Nat /\ Slot(o) \in Slots
  <2>1. cmds \in [Slots -> Stored] /\ opened \in Nat
    BY DEF TypeOK, Slots, Stored
  <2>2. o \in Nat
    BY ConstantFacts DEF TypeOK
  <2>3. Slot(o) \in Slots
    BY <2>2, SlotType DEF Slots
  <2> QED
    BY <2>1, <2>2, <2>3
<1>2. done \in Stored /\ done.command = opened + o /\ done.predicted = cmds[Slot(o)].predicted
  <2>1. cmds[Slot(o)] \in Stored /\ opened + o \in Nat
    BY <1>1
  <2> QED
    BY <2>1 DEF Stored
<1>3. Finalized = [cmds EXCEPT ![Slot(o)] = done]
  BY DEF Finalized
<1> HIDE DEF done
<1> QED
  BY <1>1, <1>2, <1>3

\* A packet has the command being gathered and what the two slots before it hold.
LEMMA WrittenFacts ==
  ASSUME TypeOK
  PROVE  /\ WrittenMoves \in [1 .. 3 -> Nat]
         /\ WrittenMoves[3] = opened + outgoingSequence
         /\ WrittenMoves[2] = cmds[Slot(outgoingSequence - 1)].command
         /\ WrittenMoves[1] = cmds[Slot(outgoingSequence - 2)].command
<1> DEFINE o == outgoingSequence
<1>1. o \in Int /\ CMD_BACKUP \in Int /\ CMD_BACKUP >= 3 /\ o - 1 \in Int /\ o - 2 \in Int
  BY ConstantFacts DEF TypeOK
<1>2. Slot(o) \in Slots /\ Slot(o - 1) \in Slots /\ Slot(o - 2) \in Slots
  BY <1>1, SlotType DEF Slots
<1>3. Slot(o - 1) # Slot(o) /\ Slot(o - 2) # Slot(o)
  BY <1>1, SlotsDiffer
<1>4. /\ (o - 3) + 3 = o /\ (o - 3) + 2 = o - 1 /\ (o - 3) + 1 = o - 2
      /\ \A i \in 1 .. 3 : i = 1 \/ i = 2 \/ i = 3
  BY <1>1
<1>5. WrittenMoves = [i \in 1 .. 3 |-> Finalized[Slot((o - 3) + i)].command]
  BY DEF WrittenMoves
<1>6. /\ WrittenMoves[3] = Finalized[Slot(o)].command
      /\ WrittenMoves[2] = Finalized[Slot(o - 1)].command
      /\ WrittenMoves[1] = Finalized[Slot(o - 2)].command
  BY <1>4, <1>5
<1>7. \A s \in Slots : Finalized[s].command \in Nat
  BY FinalizedFacts DEF Stored
<1>8. \A i \in 1 .. 3 : WrittenMoves[i] \in Nat
  BY <1>2, <1>4, <1>6, <1>7
<1> QED
  BY <1>2, <1>3, <1>5, <1>6, <1>8, FinalizedFacts

\* A packet has its type, if what is in it does.
LEMMA SendPacketType ==
  ASSUME TypeOK, NEW kind \in {"move", "begin", "keepalive"}, NEW count \in 0 .. MaxLevels,
         NEW moves \in [1 .. 3 -> Nat], SendPacket(kind, count, moves)
  PROVE  outgoingSequence' \in 1 .. MaxSequence + 1 /\ network' \subseteq Packet
<1> DEFINE new == [sequence |-> outgoingSequence, kind |-> kind, spawnCount |-> count,
                   moves |-> moves]
<1>1. /\ outgoingSequence \in 1 .. MaxSequence /\ outgoingSequence' = outgoingSequence + 1
      /\ network' = network \cup {new}
  BY ConstantFacts DEF SendPacket, TypeOK
<1>2. new \in Packet
  BY <1>1 DEF Packet
<1> HIDE DEF new
<1> QED
  BY <1>1, <1>2, ConstantFacts DEF TypeOK

\* Executed commands are not zeroed.
LEMMA ThinksType ==
  ASSUME TypeOK, NEW m \in network
  PROVE  Thinks(m) \in Seq(Nat \ {0})
<1>1. ASSUME NEW c \in Nat
      PROVE  Effective(c) \in Seq(Nat \ {0})
  <2>1. CASE c = 0
    BY <2>1 DEF Effective
  <2>2. CASE c # 0
    <3>1. c \in Nat \ {0}
      BY <2>2
    <3>2. <<c>> \in Seq(Nat \ {0})
      BY <3>1
    <3> QED
      BY <2>2, <3>2 DEF Effective
  <2> QED
    BY <2>1, <2>2
<1>2. m.moves[1] \in Nat /\ m.moves[2] \in Nat /\ m.moves[3] \in Nat
  BY DEF TypeOK, Packet
<1>3. \A s, t \in Seq(Nat \ {0}) : s \o t \in Seq(Nat \ {0})
  OBVIOUS
<1>4. <<>> \in Seq(Nat \ {0})
  OBVIOUS
<1> QED
  BY <1>1, <1>2, <1>3, <1>4 DEF Thinks

\* Every step keeps the types, whatever arrives late.
LEMMA TypeStep ==
  ASSUME TypeOK, [Next]_vars
  PROVE  TypeOK'
<1>1. CASE SendKeepalive
  <2>1. PICK kind \in {"begin", "keepalive"}, count \in {0, levels} :
          SendPacket(kind, count, <<0, 0, 0>>)
    BY <1>1 DEF SendKeepalive
  <2>2. /\ kind \in {"move", "begin", "keepalive"} /\ count \in 0 .. MaxLevels
        /\ <<0, 0, 0>> \in [1 .. 3 -> Nat]
    BY ConstantFacts DEF TypeOK
  <2>3. outgoingSequence' \in 1 .. MaxSequence + 1 /\ network' \subseteq Packet
    BY <2>1, <2>2, SendPacketType
  <2> QED
    BY <1>1, <2>3 DEF SendKeepalive, TypeOK, serverVars
<1>2. CASE SendMove
  <2>1. SendPacket("move", 0, WrittenMoves)
    BY <1>2 DEF SendMove
  <2>2. 0 \in 0 .. MaxLevels /\ "move" \in {"move", "begin", "keepalive"}
    BY ConstantFacts
  <2>3. outgoingSequence' \in 1 .. MaxSequence + 1 /\ network' \subseteq Packet
    BY <2>1, <2>2, WrittenFacts, SendPacketType
  <2>4. cmds' \in [Slots -> Stored]
    <3>1. Zeroed \in Stored
      BY DEF Zeroed, Stored
    <3> QED
      BY <1>2, <3>1, FinalizedFacts DEF SendMove
  <2> QED
    BY <1>2, <2>3, <2>4 DEF SendMove, TypeOK, serverVars, Slots, Stored
<1>3. CASE PredictMovement
  <2> DEFINE stamped == {Slot(n) : n \in Unacknowledged}
  <2>1. cmds' = [s \in DOMAIN cmds |-> [cmds[s] EXCEPT !.predicted = @ \/ s \in stamped]]
    BY <1>3 DEF PredictMovement
  <2> HIDE DEF stamped
  <2>2. cmds \in [Slots -> Stored]
    BY DEF TypeOK, Slots, Stored
  <2>3. ASSUME NEW s \in Slots
        PROVE  [cmds[s] EXCEPT !.predicted = @ \/ s \in stamped] \in Stored
    <3>1. cmds[s] \in Stored /\ (cmds[s].predicted \/ s \in stamped) \in BOOLEAN
      BY <2>2
    <3> QED
      BY <3>1 DEF Stored
  <2>4. cmds' \in [Slots -> Stored]
    BY <2>1, <2>2, <2>3
  <2> QED
    BY <1>3, <2>4 DEF PredictMovement, TypeOK, serverVars, Slots, Stored
<1>4. ASSUME NEW m \in network, Receive(m)
      PROVE  TypeOK'
  <2>1. /\ incomingSequence' = m.sequence /\ received' = received \cup {m.sequence}
        /\ executed' = executed \o Thinks(m)
        /\ phase' = IF Begins(m) THEN "begun" ELSE phase
        /\ UNCHANGED <<clientVars, network, frames, opened, levels>>
    BY <1>4 DEF Receive
  <2>2. m.sequence \in 1 .. MaxSequence /\ m.sequence \in 0 .. MaxSequence
    BY ConstantFacts DEF TypeOK, Packet
  <2>3. executed' \in Seq(Nat \ {0})
    BY <2>1, ThinksType DEF TypeOK
  <2>4. phase' \in Phases
    BY <2>1 DEF TypeOK, Phases
  <2> QED
    BY <2>1, <2>2, <2>3, <2>4 DEF TypeOK, clientVars
<1>5. CASE SendFrame
  <2> DEFINE last == IF executed = <<>> THEN 0 ELSE Last(executed)
  <2>1. last \in Nat
    <3>1. CASE executed = <<>>
      BY <3>1
    <3>2. CASE executed # <<>>
      <4>1. executed \in Seq(Nat \ {0}) /\ Len(executed) \in 1 .. Len(executed)
        BY <3>2 DEF TypeOK
      <4>2. executed[Len(executed)] \in Nat \ {0}
        BY <4>1, ElementOfSeq
      <4> QED
        BY <3>2, <4>2 DEF Last
    <3> QED
      BY <3>1, <3>2
  <2>2. frames' \subseteq frames \cup {[ack |-> incomingSequence, kind |-> "other", last |-> 0],
                                      [ack |-> incomingSequence, kind |-> "frame", last |-> last]}
    BY <1>5 DEF SendFrame, SendAcknowledging
  <2> HIDE DEF last
  <2>3. frames' \subseteq ServerPacket
    BY <2>1, <2>2 DEF TypeOK, ServerPacket
  <2> QED
    BY <1>5, <2>3 DEF SendFrame, SendAcknowledging, TypeOK, clientVars, serverVars
<1>6. ASSUME NEW f \in frames, ReceiveFrame(f)
      PROVE  TypeOK'
  <2>1. f.ack \in 0 .. MaxSequence /\ f.last \in Nat
    BY DEF TypeOK, ServerPacket
  <2>2. frame' \in Nat /\ phase' \in Phases /\ frames' \subseteq frames
    BY <1>6, <2>1 DEF ReceiveFrame, TypeOK, Phases
  <2> QED
    BY <1>6, <2>1, <2>2 DEF ReceiveFrame, TypeOK, serverVars
<1>7. CASE ServerLoad
  <2>1. [ack |-> incomingSequence, kind |-> "reconnect", last |-> 0] \in ServerPacket
    BY DEF TypeOK, ServerPacket
  <2>2. levels' \in 1 .. MaxLevels
    BY <1>7, ConstantFacts DEF ServerLoad, TypeOK
  <2>3. frames' \subseteq ServerPacket /\ phase' \in Phases /\ executed' \in Seq(Nat \ {0})
    BY <1>7, <2>1 DEF ServerLoad, TypeOK, Phases
  <2> QED
    BY <1>7, <2>2, <2>3 DEF ServerLoad, TypeOK, clientVars
<1>8. CASE GrantConnect
  BY <1>8, ConstantFacts DEF GrantConnect, TypeOK, clientVars, Phases
<1>9. CASE ClientConnect
  BY <1>9, ConstantFacts DEF ClientConnect, TypeOK, serverVars, Phases
<1>10. CASE ClientLoad
  <2>1. cmds' \in [Slots -> Stored]
    BY <1>10 DEF ClientLoad, TypeOK, Zeroed, Slots, Stored
  <2> QED
    BY <1>10, <2>1 DEF ClientLoad, TypeOK, serverVars, Phases, Slots, Stored
<1>11. CASE UNCHANGED vars
  BY <1>11 DEF TypeOK, vars, clientVars, serverVars
<1> QED
  BY <1>1, <1>2, <1>3, <1>4, <1>5, <1>6, <1>7, <1>8, <1>9, <1>10, <1>11 DEF Next

\* Every variable keeps its type.
THEOREM TypeCorrectness == Spec => []TypeOK
<1>1. Init => TypeOK
  BY ConstantFacts DEF Init, TypeOK, Zeroed, Phases
<1> QED
  BY <1>1, TypeStep, PTL DEF Spec

-------------------------------------------------------------------------------
\* Steps of the client.

\* What every step may use of the types.
LEMMA TypeFacts ==
  ASSUME TypeOK
  PROVE  /\ outgoingSequence \in Int /\ outgoingSequence >= 1
         /\ incomingAcknowledged \in Int /\ incomingSequence \in Int /\ opened \in Int
         /\ incomingAcknowledged >= 0 /\ incomingSequence >= 0 /\ opened >= 0 /\ frame \in Int
         /\ levels \in Int /\ levels >= 1
         /\ \A s \in Slots : cmds[s] \in Stored /\ cmds[s].command \in Nat
         /\ \A m \in network : /\ m \in Packet /\ m.sequence \in Int /\ m.sequence >= 1
                               /\ m.spawnCount \in Int
                               /\ m.moves \in [1 .. 3 -> Nat]
         /\ \A f \in frames : f.ack \in Int /\ f.ack >= 0 /\ f.last \in Int
         /\ received \subseteq Int
  BY ConstantFacts DEF TypeOK, Packet, ServerPacket, Slots, Stored

\* The slot of the command that is being gathered is empty, and that of a recent command
\* has that command or none.
LEMMA RecentSlot ==
  ASSUME Inv, clientActive, NEW n \in Int, n <= outgoingSequence,
         outgoingSequence < n + CMD_BACKUP, cmds[Slot(n)].command # 0
  PROVE  cmds[Slot(n)].command = opened + n /\ 1 <= n /\ n # outgoingSequence
<1> DEFINE k == cmds[Slot(n)].command - opened
<1>1. /\ Slot(n) \in Slots /\ outgoingSequence \in Int /\ opened \in Int
      /\ cmds[Slot(n)].command \in Int
  BY SlotType, TypeFacts DEF Inv, Slots
<1>2. k \in Int /\ Slot(n) = Slot(k) /\ 1 <= k /\ k < outgoingSequence
      /\ outgoingSequence < k + CMD_BACKUP
  BY <1>1 DEF Inv, RingInv
<1>3. k - n < CMD_BACKUP /\ n - k < CMD_BACKUP
  BY <1>1, <1>2, ConstantFacts
<1>4. cmds[Slot(n)].command = opened + k
  BY <1>1
<1> HIDE DEF k
<1>5. n = k
  BY <1>1, <1>2, <1>3, SlotsDiffer
<1> QED
  BY <1>2, <1>4, <1>5

\* What a client sends before it plays repeats nothing.
LEMMA SendKeepaliveStep ==
  ASSUME Inv, TypeOK', SendKeepalive
  PROVE  Inv'
<1>1. PICK kind \in {"begin", "keepalive"}, count \in {0, levels} :
        /\ kind = "begin" => count = levels /\ phase \in {"loading", "begun"}
        /\ SendPacket(kind, count, <<0, 0, 0>>)
  BY DEF SendKeepalive
<1> DEFINE new == [sequence |-> outgoingSequence, kind |-> kind, spawnCount |-> count,
                   moves |-> <<0, 0, 0>>]
<1>2. /\ outgoingSequence' = outgoingSequence + 1
      /\ network' = network \cup {new}
      /\ UNCHANGED <<cmds, incomingAcknowledged, frame, incomingSequence, executed, received,
                     phase, frames, opened, levels>>
  BY <1>1 DEF SendPacket, SendKeepalive, serverVars
<1>3. phase \in {"connected", "loading", "begun"}
  BY DEF SendKeepalive
<1>4. new.sequence = outgoingSequence /\ new.kind = kind /\ new.spawnCount = count
  OBVIOUS
<1> HIDE DEF new
<1>5. RingInv'
  BY <1>2, <1>3 DEF Inv, RingInv, clientActive
<1>6. NetworkInv'
  <2>1. \A m \in network : m.sequence < outgoingSequence /\ m.kind # "move"
    BY <1>3 DEF Inv, NetworkInv
  <2>2. \A m \in network' : m.kind # "move"
    BY <1>1, <1>2, <1>4, <2>1
  <2>3. \A m, p \in network' : m.sequence = p.sequence => m = p
    BY <1>2, <1>4, <2>1, TypeFacts DEF Inv, NetworkInv
  <2>4. \A m \in network' : m.sequence < outgoingSequence'
    BY <1>2, <1>4, <2>1, TypeFacts DEF Inv
  <2>5. \A m \in network' : m.kind = "begin" =>
          /\ m.spawnCount <= levels
          /\ m.spawnCount = levels => phase \in {"loading", "begun", "playing"}
    BY <1>1, <1>2, <1>4, TypeFacts DEF Inv, NetworkInv
  <2> QED
    BY <1>2, <1>3, <2>2, <2>3, <2>4, <2>5 DEF NetworkInv
<1>7. ServerInv' /\ ClientInv'
  BY <1>2, TypeFacts DEF Inv, ServerInv, ClientInv, serverActive
<1>8. LostOnlyAfterThree'
  BY <1>2, <1>3 DEF LostOnlyAfterThree
<1> QED
  BY <1>5, <1>6, <1>7, <1>8 DEF Inv

\* A move of a client that plays repeats the commands of the two packets before it, if
\* these were moves of this channel.
LEMMA SendMoveStep ==
  ASSUME Inv, TypeOK', SendMove
  PROVE  Inv'
<1> DEFINE o == outgoingSequence
           new == [sequence |-> o, kind |-> "move", spawnCount |-> 0, moves |-> WrittenMoves]
<1>1. /\ outgoingSequence' = o + 1 /\ network' = network \cup {new}
      /\ cmds' = [Finalized EXCEPT ![Slot(o + 1)] = Zeroed]
      /\ UNCHANGED <<incomingAcknowledged, frame, incomingSequence, executed, received,
                     phase, frames, opened, levels>>
      /\ phase \in {"playing", "changing"} /\ clientActive /\ clientActive'
  BY DEF SendPacket, SendMove, serverVars, clientActive
<1>2. o \in Int /\ CMD_BACKUP \in Int /\ CMD_BACKUP >= 3 /\ o >= 1
      /\ opened \in Int /\ opened >= 0
  BY TypeFacts, ConstantFacts DEF Inv
<1>3. Slot(o) \in Slots /\ Slot(o + 1) \in Slots
  BY <1>2, SlotType DEF Slots
<1>4. Slot(o + 1) # Slot(o)
  BY <1>2, SlotsDiffer
<1>5. /\ cmds'[Slot(o + 1)] = Zeroed
      /\ cmds'[Slot(o)].command = opened + o
      /\ cmds'[Slot(o)].predicted = cmds[Slot(o)].predicted
      /\ \A s \in Slots : s # Slot(o) /\ s # Slot(o + 1) => cmds'[s] = cmds[s]
  BY <1>1, <1>3, <1>4, FinalizedFacts DEF Inv
<1>6. /\ new.sequence = o /\ new.kind = "move" /\ new.spawnCount = 0
      /\ new.moves = WrittenMoves
  OBVIOUS
<1>7. /\ WrittenMoves[3] = opened + o
      /\ WrittenMoves[2] = cmds[Slot(o - 1)].command
      /\ WrittenMoves[1] = cmds[Slot(o - 2)].command
  BY WrittenFacts DEF Inv
<1>8. /\ WrittenMoves[2] # 0 => o > 1 /\ WrittenMoves[2] = opened + o - 1
      /\ WrittenMoves[1] # 0 => o > 2 /\ WrittenMoves[1] = opened + o - 2
  <2>1. o - 1 \in Int /\ o - 2 \in Int /\ o < o - 1 + CMD_BACKUP /\ o < o - 2 + CMD_BACKUP
        /\ o - 1 <= o /\ o - 2 <= o
    BY <1>2
  <2>2. WrittenMoves[2] # 0 => WrittenMoves[2] = opened + (o - 1) /\ 1 <= o - 1
    BY <1>1, <1>7, <2>1, RecentSlot
  <2>3. WrittenMoves[1] # 0 => WrittenMoves[1] = opened + (o - 2) /\ 1 <= o - 2
    BY <1>1, <1>7, <2>1, RecentSlot
  <2> QED
    BY <1>2, <2>2, <2>3
<1> HIDE DEF new
<1>9. ASSUME NEW s \in Slots, cmds'[s].command # 0
      PROVE  LET n == cmds'[s].command - opened IN
             /\ s = Slot(n) /\ 1 <= n /\ n < o + 1 /\ o + 1 < n + CMD_BACKUP
             /\ cmds'[s].predicted => n < incomingAcknowledged + CMD_BACKUP
  <2>1. s # Slot(o + 1)
    BY <1>5, <1>9 DEF Zeroed
  <2>2. CASE s = Slot(o)
    <3>1. cmds'[s].command - opened = o
      BY <1>2, <1>5, <2>2
    <3>2. cmds'[s].predicted => o < incomingAcknowledged + CMD_BACKUP
      BY <1>1, <1>5, <2>2 DEF Inv, RingInv
    <3> QED
      BY <1>2, <2>2, <3>1, <3>2
  <2>3. CASE s # Slot(o)
    <3> DEFINE k == cmds[s].command - opened
    <3>1. cmds'[s] = cmds[s]
      BY <1>5, <2>1, <2>3
    <3>2. k \in Int
      BY <1>2, TypeFacts DEF Inv
    <3>3. /\ s = Slot(k) /\ 1 <= k /\ k < o /\ o < k + CMD_BACKUP
          /\ cmds[s].predicted => k < incomingAcknowledged + CMD_BACKUP
      BY <1>1, <1>9, <3>1 DEF Inv, RingInv
    <3>4. k + CMD_BACKUP # o + 1
      <4> SUFFICES ASSUME k + CMD_BACKUP = o + 1
                   PROVE  FALSE
        OBVIOUS
      <4>1. Slot(k) = Slot(k + CMD_BACKUP)
        BY <3>2, SlotPeriodic
      <4> QED
        BY <2>1, <3>3, <4>1
    <3>5. o + 1 < k + CMD_BACKUP /\ k < o + 1
      <4> HIDE DEF k
      <4> QED
        BY <1>2, <3>2, <3>3, <3>4
    <3> QED
      BY <3>1, <3>3, <3>5
  <2> QED
    BY <2>2, <2>3
<1>10. RingInv'
  <2>1. ~ cmds'[Slot(outgoingSequence')].predicted
    BY <1>1, <1>5 DEF Zeroed
  <2> QED
    BY <1>1, <1>9, <2>1 DEF RingInv
<1>11. \A m \in network : m.sequence < o /\ m.sequence \in Int
  BY TypeFacts DEF Inv, NetworkInv
<1>12. ASSUME NEW p \in network', p.kind = "move"
       PROVE  /\ outgoingSequence' < p.sequence + CMD_BACKUP =>
                   cmds'[Slot(p.sequence)].command = opened + p.sequence
              /\ \A m \in network' : m.sequence > p.sequence =>
                   /\ m.kind = "move"
                   /\ m.sequence = p.sequence + 1 => m.moves[2] = opened + p.sequence
                   /\ m.sequence = p.sequence + 2 => m.moves[1] = opened + p.sequence
  <2>1. CASE p = new
    BY <1>1, <1>2, <1>5, <1>6, <1>11, <2>1
  <2>2. CASE p \in network
    <3>1. p.sequence < o /\ p.sequence \in Int
      BY <1>11, <2>2
    <3>2. o < p.sequence + CMD_BACKUP => cmds[Slot(p.sequence)].command = opened + p.sequence
      BY <1>12, <2>2 DEF Inv, NetworkInv
    <3>3. o + 1 < p.sequence + CMD_BACKUP =>
            Slot(p.sequence) # Slot(o) /\ Slot(p.sequence) # Slot(o + 1)
      BY <1>2, <3>1, SlotsDiffer
    <3>4. o + 1 < p.sequence + CMD_BACKUP =>
            cmds'[Slot(p.sequence)].command = opened + p.sequence
      <4>1. Slot(p.sequence) \in Slots
        BY <3>1, SlotType DEF Slots
      <4>2. o + 1 < p.sequence + CMD_BACKUP => o < p.sequence + CMD_BACKUP
        BY <1>2, <3>1
      <4>3. o + 1 < p.sequence + CMD_BACKUP =>
              cmds'[Slot(p.sequence)] = cmds[Slot(p.sequence)]
        BY <1>5, <3>3, <4>1
      <4> QED
        BY <3>2, <4>2, <4>3
    <3>5. o = p.sequence + 1 => WrittenMoves[2] = opened + p.sequence
      <4>1. o = p.sequence + 1 => o - 1 = p.sequence /\ o < p.sequence + CMD_BACKUP
        BY <1>2, <3>1
      <4> QED
        BY <1>7, <3>2, <4>1
    <3>6. o = p.sequence + 2 => WrittenMoves[1] = opened + p.sequence
      <4>1. o = p.sequence + 2 => o - 2 = p.sequence /\ o < p.sequence + CMD_BACKUP
        BY <1>2, <3>1
      <4> QED
        BY <1>7, <3>2, <4>1
    <3>7. \A m \in network : m.sequence > p.sequence =>
             /\ m.kind = "move"
             /\ m.sequence = p.sequence + 1 => m.moves[2] = opened + p.sequence
             /\ m.sequence = p.sequence + 2 => m.moves[1] = opened + p.sequence
      BY <1>12, <2>2 DEF Inv, NetworkInv
    <3> QED
      BY <1>1, <1>6, <3>4, <3>5, <3>6, <3>7
  <2> QED
    BY <1>1, <2>1, <2>2
<1>13. NetworkInv'
  <2>1. \A m \in network' : m.kind = "move" =>
          /\ phase' \in {"playing", "changing", "reconnecting"}
          /\ m.moves[3] = opened + m.sequence
          /\ m.moves[2] # 0 => m.sequence > 1 /\ m.moves[2] = opened + m.sequence - 1
          /\ m.moves[1] # 0 => m.sequence > 2 /\ m.moves[1] = opened + m.sequence - 2
    BY <1>1, <1>6, <1>7, <1>8 DEF Inv, NetworkInv
  <2>2. \A m, p \in network' : m.sequence = p.sequence => m = p
    BY <1>1, <1>2, <1>6, <1>11 DEF Inv, NetworkInv
  <2>3. \A m \in network' : m.sequence < outgoingSequence'
    BY <1>1, <1>2, <1>6, <1>11
  <2>4. \A m \in network' : m.kind = "begin" =>
          /\ m.spawnCount <= levels
          /\ m.spawnCount = levels => phase \in {"loading", "begun", "playing"}
    BY <1>1, <1>6 DEF Inv, NetworkInv
  <2> QED
    BY <1>1, <1>12, <2>1, <2>2, <2>3, <2>4 DEF NetworkInv
<1>14. ServerInv' /\ ClientInv'
  BY <1>1, <1>2, TypeFacts DEF Inv, ServerInv, ClientInv, serverActive
<1>15. LostOnlyAfterThree'
  BY <1>1, <1>2, <1>6, TypeFacts DEF Inv, LostOnlyAfterThree, ServerInv
<1> QED
  BY <1>10, <1>13, <1>14, <1>15 DEF Inv

\* Prediction marks what it replays and touches no command.
LEMMA PredictMovementStep ==
  ASSUME Inv, TypeOK', PredictMovement
  PROVE  Inv'
<1> DEFINE stamped == {Slot(n) : n \in Unacknowledged}
<1>1. /\ cmds' = [s \in DOMAIN cmds |-> [cmds[s] EXCEPT !.predicted = @ \/ s \in stamped]]
      /\ outgoingSequence < incomingAcknowledged + CMD_BACKUP
      /\ UNCHANGED <<outgoingSequence, incomingAcknowledged, frame, incomingSequence, executed,
                     received, phase, network, frames, opened, levels>>
      /\ phase \in {"playing", "changing"}
  BY TypeFacts, ConstantFacts DEF PredictMovement, serverVars, clientActive, Inv
<1> HIDE DEF stamped
<1>2. \A s \in Slots : cmds'[s].command = cmds[s].command
  <2>1. cmds \in [Slots -> Stored]
    BY DEF Inv, TypeOK, Slots, Stored
  <2> SUFFICES ASSUME NEW s \in Slots
               PROVE  cmds'[s].command = cmds[s].command
    OBVIOUS
  <2>2. cmds'[s] = [cmds[s] EXCEPT !.predicted = @ \/ s \in stamped] /\ cmds[s] \in Stored
    BY <1>1, <2>1
  <2> QED
    BY <2>2 DEF Stored
<1>3. RingInv'
  BY <1>1, <1>2, TypeFacts, ConstantFacts DEF Inv, RingInv, clientActive
<1>4. NetworkInv'
  <2>1. \A m \in network : Slot(m.sequence) \in Slots
    BY TypeFacts, SlotType DEF Slots, Inv
  <2> QED
    BY <1>1, <1>2, <2>1 DEF Inv, NetworkInv
<1>5. ServerInv' /\ ClientInv' /\ LostOnlyAfterThree'
  BY <1>1 DEF Inv, ServerInv, ClientInv, serverActive, LostOnlyAfterThree
<1> QED
  BY <1>3, <1>4, <1>5 DEF Inv

-------------------------------------------------------------------------------
\* Steps of the server.

\* The commands of a packet that the server executes are new to it and in order, and with
\* one or two packets lost before it they include theirs.
LEMMA ThinksFacts ==
  ASSUME Inv, NEW m \in network, m.sequence > incomingSequence
  PROVE  LET n == opened + m.sequence
             lo == opened + incomingSequence IN
         /\ Within(Thinks(m), lo, n)
         /\ m.kind # "move" \/ ~ serverActive => Thinks(m) = <<>>
         /\ m.kind = "move" /\ serverActive =>
              /\ Contains(Thinks(m), n)
              /\ m.moves[2] # 0 /\ n - 1 > lo => Contains(Thinks(m), n - 1)
              /\ m.moves[1] # 0 /\ n - 2 > lo => Contains(Thinks(m), n - 2)
<1> DEFINE n == opened + m.sequence
           lo == opened + incomingSequence
<1>1. /\ m.sequence \in Int /\ incomingSequence \in Int /\ Dropped(m) \in Int
      /\ n \in Int /\ lo \in Int /\ lo < n /\ n > 0 /\ opened >= 0 /\ opened \in Int
      /\ Dropped(m) > 0 <=> n - 1 > lo
      /\ Dropped(m) > 1 <=> n - 2 > lo
  BY TypeFacts DEF Dropped, Inv
<1>2. m.kind = "move" =>
        m.moves[3] = n /\ m.moves[2] \in {0, n - 1} /\ m.moves[1] \in {0, n - 2}
  BY <1>1 DEF Inv, NetworkInv
<1> HIDE DEF n, lo
<1>a. CASE m.kind # "move" \/ ~ serverActive
  BY <1>a, WithinNone DEF Thinks, n, lo
<1>b. CASE m.kind = "move" /\ serverActive
  <2> DEFINE first == IF Dropped(m) > 1 THEN Effective(m.moves[1]) ELSE <<>>
             second == IF Dropped(m) > 0 THEN Effective(m.moves[2]) ELSE <<>>
             third == Effective(m.moves[3])
             mid1 == IF Dropped(m) > 1 THEN n - 2 ELSE lo
             mid2 == IF Dropped(m) > 0 THEN n - 1 ELSE lo
  <2>2. /\ mid1 \in Int /\ mid2 \in Int /\ lo <= mid1 /\ mid1 <= mid2 /\ mid2 <= n
        /\ n - 1 \in Int /\ n - 2 \in Int
    BY <1>1
  <2>3. Within(first, lo, mid1)
        /\ (Dropped(m) > 1 /\ m.moves[1] # 0 => Contains(first, n - 2))
    <3>1. CASE Dropped(m) > 1 /\ m.moves[1] # 0
      <4>1. first = <<n - 2>> /\ mid1 = n - 2 /\ lo < n - 2
        BY <1>1, <1>2, <1>b, <3>1 DEF Effective
      <4>2. Contains(<<n - 2>>, n - 2)
        BY DEF Contains
      <4> QED
        BY <1>1, <2>2, <4>1, <4>2, WithinOne
    <3>2. CASE ~ (Dropped(m) > 1 /\ m.moves[1] # 0)
      <4>1. first = <<>>
        BY <3>2 DEF Effective
      <4> QED
        BY <3>2, <4>1, WithinNone
    <3> QED
      BY <3>1, <3>2
  <2>4. Within(second, mid1, mid2)
        /\ (Dropped(m) > 0 /\ m.moves[2] # 0 => Contains(second, n - 1))
    <3>1. CASE Dropped(m) > 0 /\ m.moves[2] # 0
      <4>1. second = <<n - 1>>
        BY <1>2, <1>b, <3>1 DEF Effective
      <4>2. mid2 = n - 1 /\ mid1 < n - 1
        BY <1>1, <3>1
      <4>3. Contains(<<n - 1>>, n - 1)
        BY DEF Contains
      <4> QED
        BY <1>1, <2>2, <4>1, <4>2, <4>3, WithinOne
    <3>2. CASE ~ (Dropped(m) > 0 /\ m.moves[2] # 0)
      <4>1. second = <<>>
        BY <3>2 DEF Effective
      <4> QED
        BY <3>2, <4>1, WithinNone
    <3> QED
      BY <3>1, <3>2
  <2>5. Within(third, mid2, n) /\ Contains(third, n)
    <3>1. third = <<n>> /\ mid2 < n
      BY <1>1, <1>2, <1>b DEF Effective
    <3>2. Contains(<<n>>, n)
      BY DEF Contains
    <3> QED
      BY <1>1, <2>2, <3>1, <3>2, WithinOne
  <2>6. Thinks(m) = (first \o second) \o third
    BY <1>b DEF Thinks
  <2> HIDE DEF first, second, third, mid1, mid2
  <2>7. /\ Within(first \o second, lo, mid2)
        /\ \A k : Contains(first \o second, k) <=> Contains(first, k) \/ Contains(second, k)
    BY <1>1, <2>2, <2>3, <2>4, WithinJoined
  <2>8. lo <= mid2
    BY <1>1, <2>2
  <2>9. /\ Within((first \o second) \o third, lo, n)
        /\ \A k : Contains((first \o second) \o third, k)
                    <=> Contains(first \o second, k) \/ Contains(third, k)
    BY <1>1, <2>2, <2>5, <2>7, <2>8, WithinJoined
  <2>10. /\ Within(Thinks(m), lo, n) /\ Contains(Thinks(m), n)
         /\ m.moves[2] # 0 /\ n - 1 > lo => Contains(Thinks(m), n - 1)
         /\ m.moves[1] # 0 /\ n - 2 > lo => Contains(Thinks(m), n - 2)
    BY <1>1, <2>3, <2>4, <2>5, <2>6, <2>7, <2>9
  <2> QED
    BY <1>b, <2>10 DEF n, lo
<1> QED
  BY <1>a, <1>b

\* A packet of the level makes up for one or two that were lost, and no older packet is
\* executed.
LEMMA ReceiveStep ==
  ASSUME Inv, TypeOK', NEW m \in network, Receive(m)
  PROVE  Inv'
<1> DEFINE n == opened + m.sequence
           lo == opened + incomingSequence
<1>1. /\ m.sequence > incomingSequence /\ incomingSequence' = m.sequence
      /\ received' = received \cup {m.sequence} /\ executed' = executed \o Thinks(m)
      /\ phase' = IF Begins(m) THEN "begun" ELSE phase
      /\ UNCHANGED <<outgoingSequence, cmds, incomingAcknowledged, frame, network, frames,
                     opened, levels>>
  BY DEF Receive, clientVars
<1>2. /\ m.sequence \in Int /\ incomingSequence \in Int /\ incomingSequence >= 0
      /\ opened \in Int /\ opened >= 0 /\ m.sequence < outgoingSequence
      /\ n \in Int /\ lo \in Int /\ opened <= lo /\ lo <= n
  BY <1>1, TypeFacts DEF Inv, NetworkInv
<1>3. /\ Begins(m) => phase = "loading" /\ Thinks(m) = <<>>
      /\ phase # "granted"
  <2>1. Begins(m) => phase \in {"loading", "begun", "playing"} /\ ~ serverActive
    BY DEF Begins, Inv, NetworkInv
  <2>2. Begins(m) => phase = "loading"
    BY <2>1 DEF serverActive
  <2> QED
    BY <1>1, <2>1, <2>2, ThinksFacts DEF Inv, NetworkInv
<1>4. /\ Within(executed', opened, n)
      /\ \A k : Contains(executed', k) <=> Contains(executed, k) \/ Contains(Thinks(m), k)
  <2>1. Within(Thinks(m), lo, n)
    BY <1>1, ThinksFacts
  <2>2. Within(executed, opened, lo)
    BY DEF Inv, ServerInv
  <2> QED
    BY <1>1, <1>2, <2>1, <2>2, WithinJoined
<1>5. RingInv' /\ NetworkInv'
  BY <1>1, <1>3 DEF Inv, RingInv, NetworkInv, clientActive
<1>6. ServerInv'
  <2>1. ~ serverActive' => executed' = <<>>
    <3>1. ~ serverActive' => ~ serverActive
      BY <1>1 DEF serverActive
    <3>2. ~ serverActive => executed = <<>> /\ Thinks(m) = <<>>
      BY <1>1, ThinksFacts DEF Inv, ServerInv
    <3> QED
      BY <1>1, <3>1, <3>2
  <2>2. incomingSequence' < outgoingSequence' /\ incomingSequence' \in received'
    BY <1>1, <1>2
  <2>3. \A r \in received' : r <= incomingSequence'
    <3> SUFFICES ASSUME NEW r \in received' PROVE r <= m.sequence
      BY <1>1
    <3>1. r \in received \/ r = m.sequence
      BY <1>1
    <3>2. r \in received => r <= incomingSequence /\ r \in Int
      BY TypeFacts DEF Inv, ServerInv
    <3> QED
      BY <1>1, <1>2, <3>1, <3>2
  <2>4. phase' # "granted"
    BY <1>1, <1>3
  <2>5. Within(executed', opened', opened' + incomingSequence')
    BY <1>1, <1>4
  <2> QED
    BY <2>1, <2>2, <2>3, <2>4, <2>5 DEF ServerInv
<1>7. ClientInv'
  BY <1>1, <1>2, <1>3, TypeFacts DEF Inv, ClientInv
<1>8. LostOnlyAfterThree'
  <2> SUFFICES ASSUME phase' = "playing", NEW p \in network, p.kind = "move",
                      p.sequence <= m.sequence,
                      {p.sequence, p.sequence + 1, p.sequence + 2} \cap received' # {}
               PROVE  Contains(executed', p.moves[3])
    BY <1>1 DEF LostOnlyAfterThree
  <2>1. phase = "playing" /\ serverActive
    BY <1>1 DEF serverActive
  <2>2. /\ p.sequence \in Int /\ p.sequence >= 1 /\ p.moves[3] = opened + p.sequence
        /\ incomingSequence > 0 => incomingSequence \in received
        /\ \A r \in received : r \in Int /\ r <= incomingSequence
    BY TypeFacts DEF Inv, NetworkInv, ServerInv
  <2>3. CASE {p.sequence, p.sequence + 1, p.sequence + 2} \cap received # {}
             /\ p.sequence <= incomingSequence
    <3>1. p.moves[3] > opened
      BY <1>2, <2>2
    <3>2. Contains(executed, p.moves[3])
      BY <2>1, <2>3, <3>1 DEF Inv, LostOnlyAfterThree
    <3> QED
      BY <1>4, <3>2
  <2>4. CASE p.sequence <= incomingSequence
             /\ ~ {p.sequence, p.sequence + 1, p.sequence + 2} \cap received # {}
    <3>1. m.sequence \in {p.sequence, p.sequence + 1, p.sequence + 2}
      BY <1>1, <2>4
    <3>2. incomingSequence \in {p.sequence, p.sequence + 1}
      BY <1>1, <1>2, <2>2, <2>4, <3>1
    <3>3. incomingSequence \in received
      BY <1>2, <2>2, <2>4
    <3> QED
      BY <2>4, <3>2, <3>3
  <2>5. CASE p.sequence > incomingSequence
    <3>1. m.sequence \in {p.sequence, p.sequence + 1, p.sequence + 2}
      BY <1>1, <1>2, <2>2, <2>5
    <3>2. /\ m.kind = "move"
          /\ m.sequence = p.sequence + 1 => m.moves[2] = opened + p.sequence
          /\ m.sequence = p.sequence + 2 => m.moves[1] = opened + p.sequence
      <4>1. m.sequence = p.sequence => m = p
        BY DEF Inv, NetworkInv
      <4>2. m.sequence > p.sequence =>
              /\ m.kind = "move"
              /\ m.sequence = p.sequence + 1 => m.moves[2] = opened + p.sequence
              /\ m.sequence = p.sequence + 2 => m.moves[1] = opened + p.sequence
        BY DEF Inv, NetworkInv
      <4> QED
        BY <1>2, <2>2, <3>1, <4>1, <4>2
    <3>3. /\ Contains(Thinks(m), n)
          /\ m.moves[2] # 0 /\ n - 1 > lo => Contains(Thinks(m), n - 1)
          /\ m.moves[1] # 0 /\ n - 2 > lo => Contains(Thinks(m), n - 2)
      BY <1>1, <2>1, <3>2, ThinksFacts
    <3>4. Contains(Thinks(m), opened + p.sequence)
      <4>1. CASE m.sequence = p.sequence
        BY <3>3, <4>1
      <4>2. CASE m.sequence = p.sequence + 1
        <5>1. n - 1 = opened + p.sequence /\ n - 1 > lo /\ m.moves[2] # 0
          BY <1>2, <2>2, <2>5, <3>2, <4>2
        <5> QED
          BY <3>3, <5>1
      <4>3. CASE m.sequence = p.sequence + 2
        <5>1. n - 2 = opened + p.sequence /\ n - 2 > lo /\ m.moves[1] # 0
          BY <1>2, <2>2, <2>5, <3>2, <4>3
        <5> QED
          BY <3>3, <5>1
      <4> QED
        BY <3>1, <4>1, <4>2, <4>3
    <3> QED
      BY <1>4, <2>2, <3>4
  <2> QED
    BY <1>2, <2>2, <2>3, <2>4, <2>5
<1> QED
  BY <1>5, <1>6, <1>7, <1>8 DEF Inv

\* A frame has no command that is newer than what it acknowledges.
LEMMA SendFrameStep ==
  ASSUME Inv, TypeOK', SendFrame
  PROVE  Inv'
<1> DEFINE last == IF executed = <<>> THEN 0 ELSE Last(executed)
           new == [ack |-> incomingSequence, kind |-> "frame", last |-> last]
           other == [ack |-> incomingSequence, kind |-> "other", last |-> 0]
<1>1. UNCHANGED <<outgoingSequence, cmds, incomingAcknowledged, frame, incomingSequence, executed,
                  received, phase, network, opened, levels>>
  BY DEF SendFrame, SendAcknowledging, clientVars, serverVars
<1>2. last <= opened + incomingSequence
  <2>1. CASE executed = <<>>
    BY <2>1, TypeFacts DEF Inv
  <2>2. CASE executed # <<>>
    <3>1. Len(executed) \in 1 .. Len(executed)
      BY <2>2 DEF Inv, TypeOK
    <3>2. executed[Len(executed)] <= opened + incomingSequence
      BY <3>1 DEF Inv, ServerInv, Within
    <3> QED
      BY <2>2, <3>2 DEF Last
  <2> QED
    BY <2>1, <2>2
<1>3. \A f \in frames' : f \in frames \/ f = new \/ f = other
  BY DEF SendFrame, SendAcknowledging
<1>4. /\ new.ack = incomingSequence /\ new.last = last /\ new.kind = "frame"
      /\ other.ack = incomingSequence /\ other.last = 0 /\ other.kind = "other"
  OBVIOUS
<1> HIDE DEF last, new, other
<1>5. ClientInv'
  BY <1>1, <1>2, <1>3, <1>4, TypeFacts DEF Inv, ClientInv
<1>6. RingInv' /\ NetworkInv' /\ ServerInv' /\ LostOnlyAfterThree'
  BY <1>1 DEF Inv, RingInv, NetworkInv, ServerInv, serverActive, clientActive,
              LostOnlyAfterThree
<1> QED
  BY <1>5, <1>6 DEF Inv

\* A frame that arrives acknowledges something the server accepted.
LEMMA ReceiveFrameStep ==
  ASSUME Inv, TypeOK', NEW f \in frames, ReceiveFrame(f)
  PROVE  Inv'
<1>1. /\ f.ack >= incomingAcknowledged /\ incomingAcknowledged' = f.ack
      /\ frame' = IF f.kind = "frame" THEN f.last ELSE frame
      /\ frames' \subseteq frames
      /\ UNCHANGED <<outgoingSequence, cmds, incomingSequence, executed, received, network,
                     opened, levels>>
  BY DEF ReceiveFrame, serverVars
<1>2. f.ack \in Int /\ f.last \in Int
  BY TypeFacts DEF Inv
<1>3. \/ phase' = "reconnecting" /\ phase \in {"changing", "reconnecting"}
      \/ phase' = "playing" /\ phase = "begun"
      \/ phase' = phase
  BY DEF ReceiveFrame, Inv, ClientInv
<1>4. phase # "granted" /\ phase' # "granted"
  BY <1>3 DEF ReceiveFrame
<1>5. RingInv'
  <2>1. CASE phase' = "playing" /\ phase = "begun"
    <3>1. \A s \in Slots : cmds[s] = Zeroed
      BY <2>1 DEF Inv, RingInv
    <3>2. Slot(outgoingSequence) \in Slots
      BY TypeFacts, SlotType DEF Slots, Inv
    <3> QED
      BY <1>1, <2>1, <3>1, <3>2 DEF RingInv, Zeroed
  <2>2. CASE phase' = "reconnecting"
    BY <2>2 DEF RingInv, clientActive
  <2>3. CASE phase' = phase
    <3>1. \A s \in Slots : cmds[s].command - opened \in Int
      BY TypeFacts DEF Inv
    <3> QED
      BY <1>1, <1>2, <2>3, <3>1, TypeFacts, ConstantFacts DEF Inv, RingInv, clientActive
  <2> QED
    BY <1>3, <2>1, <2>2, <2>3
<1>6. NetworkInv'
  <2>1. \A m \in network : m.kind = "move" => phase' \in {"playing", "changing", "reconnecting"}
    BY <1>3 DEF Inv, NetworkInv
  <2>2. \A m \in network : m.kind = "begin" /\ m.spawnCount = levels =>
          phase' \in {"loading", "begun", "playing"}
    BY <1>3 DEF Inv, NetworkInv
  <2> QED
    BY <1>1, <1>4, <2>1, <2>2 DEF Inv, NetworkInv
<1>7. ServerInv'
  BY <1>1, <1>3, <1>4 DEF Inv, ServerInv, serverActive
<1>8. ClientInv'
  BY <1>1, <1>2, <1>3, <1>4, TypeFacts DEF Inv, ClientInv, ServerInv
<1>9. LostOnlyAfterThree'
  <2>1. CASE phase = "begun"
    <3>1. \A m \in network : m.kind # "move"
      BY <2>1 DEF Inv, NetworkInv
    <3> QED
      BY <1>1, <3>1 DEF LostOnlyAfterThree
  <2>2. CASE phase # "begun"
    BY <1>1, <1>3, <2>2 DEF Inv, LostOnlyAfterThree
  <2> QED
    BY <2>1, <2>2
<1> QED
  BY <1>5, <1>6, <1>7, <1>8, <1>9 DEF Inv

-------------------------------------------------------------------------------
\* Another level.

\* A new level has executed nothing yet.
LEMMA ServerLoadStep ==
  ASSUME Inv, TypeOK', ServerLoad
  PROVE  Inv'
<1>1. /\ phase = "playing" /\ phase' = "changing" /\ levels' = levels + 1 /\ executed' = <<>>
      /\ UNCHANGED <<outgoingSequence, cmds, incomingAcknowledged, frame, incomingSequence,
                     received, network, opened>>
  BY DEF ServerLoad, clientVars
<1>2. \A f \in frames' : f \in frames \/ f = [ack |-> incomingSequence, kind |-> "reconnect",
                                             last |-> 0]
  BY DEF ServerLoad
<1>3. RingInv'
  BY <1>1 DEF Inv, RingInv, clientActive
<1>4. NetworkInv'
  BY <1>1, TypeFacts DEF Inv, NetworkInv
<1>5. ServerInv'
  BY <1>1, WithinNone DEF Inv, ServerInv, serverActive
<1>6. ClientInv'
  BY <1>1, <1>2, TypeFacts DEF Inv, ClientInv
<1>7. LostOnlyAfterThree'
  BY <1>1 DEF LostOnlyAfterThree
<1> QED
  BY <1>3, <1>4, <1>5, <1>6, <1>7 DEF Inv

\* The server's new channel has heard nothing, and hears nothing of the former one.
LEMMA GrantConnectStep ==
  ASSUME ~ LateMoves, Inv, TypeOK', GrantConnect
  PROVE  Inv'
<1>1. /\ phase = "reconnecting" /\ phase' = "granted" /\ incomingSequence' = 0
      /\ received' = {} /\ network' = {} /\ frames' = {}
      /\ UNCHANGED <<outgoingSequence, cmds, incomingAcknowledged, frame, executed, opened,
                     levels>>
  BY DEF GrantConnect, clientVars
<1>2. executed = <<>>
  BY <1>1 DEF Inv, ServerInv, serverActive
<1>3. RingInv' /\ NetworkInv' /\ LostOnlyAfterThree'
  BY <1>1 DEF RingInv, clientActive, NetworkInv, LostOnlyAfterThree
<1>4. ServerInv'
  BY <1>1, <1>2, WithinNone, TypeFacts DEF Inv, ServerInv, serverActive
<1>5. ClientInv'
  BY <1>1 DEF Inv, ClientInv
<1> QED
  BY <1>3, <1>4, <1>5 DEF Inv

\* The client's new channel has sent nothing, and follows all it sent before.
LEMMA ClientConnectStep ==
  ASSUME Inv, TypeOK', ClientConnect
  PROVE  Inv'
<1>1. /\ phase = "granted" /\ phase' = "connected" /\ outgoingSequence' = 1
      /\ incomingAcknowledged' = 0 /\ opened' = opened + outgoingSequence - 1
      /\ UNCHANGED <<cmds, frame, incomingSequence, executed, received, network, frames, levels>>
  BY DEF ClientConnect, serverVars
<1>2. network = {} /\ incomingSequence = 0 /\ executed = <<>>
  BY <1>1 DEF Inv, NetworkInv, ServerInv, serverActive
<1>3. RingInv' /\ NetworkInv' /\ LostOnlyAfterThree'
  BY <1>1, <1>2 DEF RingInv, clientActive, NetworkInv, LostOnlyAfterThree
<1>4. ServerInv'
  BY <1>1, <1>2, WithinNone DEF Inv, ServerInv, serverActive
<1>5. ClientInv'
  <2>1. \A f \in frames : /\ f.ack <= incomingSequence /\ f.last <= opened + f.ack
                          /\ f.kind # "reconnect"
    BY <1>1 DEF Inv, ClientInv
  <2>2. frame <= opened + incomingAcknowledged /\ incomingAcknowledged < outgoingSequence
    BY DEF Inv, ClientInv
  <2> QED
    BY <1>1, <1>2, <2>1, <2>2, TypeFacts DEF Inv, ClientInv
<1> QED
  BY <1>3, <1>4, <1>5 DEF Inv

\* With an empty ring, the first packets of the level repeat nothing of the former one.
LEMMA ClientLoadStep ==
  ASSUME Inv, TypeOK', ClientLoad
  PROVE  Inv'
<1>1. /\ phase = "connected" /\ phase' = "loading"
      /\ cmds' = [s \in DOMAIN cmds |-> Zeroed] /\ frame' = 0
      /\ UNCHANGED <<outgoingSequence, incomingAcknowledged, incomingSequence, executed, received,
                     network, frames, opened, levels>>
  BY DEF ClientLoad, serverVars
<1>2. \A s \in Slots : cmds'[s] = Zeroed
  BY <1>1 DEF Inv, TypeOK, Slots
<1>3. RingInv'
  BY <1>1, <1>2 DEF RingInv, clientActive
<1>4. NetworkInv'
  <2>1. \A m \in network : m.kind # "move"
    BY <1>1 DEF Inv, NetworkInv
  <2> QED
    BY <1>1, <2>1 DEF Inv, NetworkInv
<1>5. ServerInv' /\ LostOnlyAfterThree'
  BY <1>1 DEF Inv, ServerInv, serverActive, LostOnlyAfterThree
<1>6. ClientInv'
  BY <1>1, TypeFacts DEF Inv, ClientInv
<1> QED
  BY <1>3, <1>4, <1>5, <1>6 DEF Inv

-------------------------------------------------------------------------------
\* The theorems.

\* The invariant holds at the start.
LEMMA Initially == Init => Inv
<1> SUFFICES ASSUME Init PROVE Inv
  OBVIOUS
<1>1. /\ outgoingSequence = 1 /\ incomingSequence = 0 /\ incomingAcknowledged = 0
      /\ frame = 0 /\ phase = "connected" /\ network = {} /\ frames = {}
      /\ executed = <<>> /\ received = {} /\ opened = 0 /\ levels = 1
  BY DEF Init
<1>2. TypeOK
  BY ConstantFacts DEF Init, TypeOK, Zeroed, Phases
<1>3. RingInv
  BY <1>1 DEF RingInv, clientActive
<1>4. NetworkInv /\ ServerInv /\ ClientInv /\ LostOnlyAfterThree
  BY <1>1, WithinNone DEF NetworkInv, ServerInv, ClientInv, LostOnlyAfterThree, serverActive
<1> QED
  BY <1>2, <1>3, <1>4 DEF Inv

\* Every step keeps the invariant, if no packet comes late from a former channel.
THEOREM Invariance ==
  ASSUME ~ LateMoves
  PROVE  Spec => []Inv
<1>1. ASSUME Inv, [Next]_vars
      PROVE  Inv'
  <2>1. TypeOK'
    BY <1>1, TypeStep DEF Inv
  <2>2. CASE UNCHANGED vars
    <3>1. UNCHANGED <<outgoingSequence, cmds, incomingAcknowledged, frame, incomingSequence,
                      executed, received, phase, network, frames, opened, levels>>
      BY <2>2 DEF vars, clientVars, serverVars
    <3> QED
      BY <1>1, <2>1, <3>1 DEF Inv, RingInv, NetworkInv, ServerInv, ClientInv, serverActive,
                              clientActive, LostOnlyAfterThree
  <2> QED
    BY <1>1, <2>1, <2>2, SendKeepaliveStep, SendMoveStep, PredictMovementStep, ReceiveStep,
       SendFrameStep, ReceiveFrameStep, ServerLoadStep, GrantConnectStep, ClientConnectStep,
       ClientLoadStep DEF Next
<1> QED
  BY <1>1, Initially, PTL DEF Spec

\* Commands that three packets carry are executed once, in the order they were gathered,
\* whichever packets of the channel are lost, late or repeated.
THEOREM CommandsRunInOrder ==
  ASSUME ~ LateMoves
  PROVE  Spec => []ExecutedOnceInOrder
<1>1. Inv => ExecutedOnceInOrder
  <2> SUFFICES ASSUME Inv PROVE ExecutedOnceInOrder
    OBVIOUS
  <2>1. DOMAIN executed = 1 .. Len(executed)
    BY DEF Inv, TypeOK
  <2> QED
    BY <2>1 DEF Inv, ServerInv, Within, ExecutedOnceInOrder
<1> QED
  BY <1>1, Invariance, PTL

\* No command of a former level is executed in another: what arrives before the client has
\* read the reconnect is ignored, and the first packets of the level repeat nothing.
THEOREM LevelsStartAfresh ==
  ASSUME ~ LateMoves
  PROVE  Spec => []NothingFromFormerLevel
<1>1. Inv => NothingFromFormerLevel
  <2> SUFFICES ASSUME Inv, NEW i \in DOMAIN executed
               PROVE  executed[i] > opened
    BY DEF NothingFromFormerLevel
  <2>1. executed \in Seq(Int) /\ Len(executed) \in Nat
    BY DEF Inv, ServerInv, Within
  <2>2. DOMAIN executed = 1 .. Len(executed) /\ executed[i] \in Int
    BY <2>1, LenProperties, ElementOfSeq
  <2> QED
    BY <2>2, TypeFacts DEF Inv, ServerInv, Within
<1> QED
  BY <1>1, Invariance, PTL

\* A command is lost only with the packet it was sent in and the two that repeat it.
THEOREM TwoLossesAreMadeUpFor ==
  ASSUME ~ LateMoves
  PROVE  Spec => []LostOnlyAfterThree
<1>1. Inv => LostOnlyAfterThree
  BY DEF Inv
<1> QED
  BY <1>1, Invariance, PTL

\* What the client replays is what it sent and the server's state does not have, and what
\* it compares with that state is its own prediction for it.
THEOREM ReplaysWhatWasSent ==
  ASSUME ~ LateMoves
  PROVE  Spec => []PredictsFromFrame
<1>1. Inv => PredictsFromFrame
  <2> SUFFICES ASSUME Inv PROVE PredictsFromFrame
    OBVIOUS
  <2> DEFINE a == incomingAcknowledged
  <2>1. /\ a \in Int /\ outgoingSequence \in Int /\ CMD_BACKUP \in Int /\ CMD_BACKUP >= 3
        /\ a < outgoingSequence /\ opened \in Int
    BY TypeFacts, ConstantFacts DEF Inv, ClientInv
  <2>2. ASSUME clientActive, outgoingSequence - a < CMD_BACKUP, NEW n \in Unacknowledged,
               n < outgoingSequence, cmds[Slot(n)].command # 0
        PROVE  cmds[Slot(n)].command = opened + n
    <3>1. n \in Int /\ n <= outgoingSequence /\ outgoingSequence < n + CMD_BACKUP
      BY <2>1, <2>2 DEF Unacknowledged
    <3> QED
      BY <2>2, <3>1, RecentSlot
  <2>3. ASSUME clientActive, cmds[Slot(a)].predicted, cmds[Slot(a)].command # 0
        PROVE  cmds[Slot(a)].command = opened + a
    <3> DEFINE k == cmds[Slot(a)].command - opened
    <3>1. Slot(a) \in Slots /\ cmds[Slot(a)].command \in Int
      BY <2>1, SlotType, TypeFacts DEF Slots, Inv
    <3>2. /\ k \in Int /\ Slot(a) = Slot(k) /\ outgoingSequence < k + CMD_BACKUP
          /\ k < a + CMD_BACKUP
      BY <2>1, <2>3, <3>1 DEF Inv, RingInv
    <3>3. a - k < CMD_BACKUP /\ k - a < CMD_BACKUP /\ cmds[Slot(a)].command = opened + k
      BY <2>1, <3>1, <3>2
    <3> HIDE DEF k
    <3>4. a = k
      BY <2>1, <3>2, <3>3, SlotsDiffer
    <3> QED
      BY <3>3, <3>4
  <2>4. frame <= opened + incomingAcknowledged
    BY DEF Inv, ClientInv
  <2>5. phase = "playing" => clientActive
    BY DEF clientActive
  <2> QED
    BY <2>2, <2>3, <2>4, <2>5 DEF PredictsFromFrame
<1> QED
  BY <1>1, Invariance, PTL

=============================================================================
