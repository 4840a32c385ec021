--------------------------- MODULE Master_proofs ---------------------------
(***************************************************************************)
(* Proofs about the master's list: that it keeps its limits, and that a    *)
(* server that left is not listed again by what it sent before.            *)
(***************************************************************************)
EXTENDS Master, FiniteSetTheorems, TLAPS

(* A list with one more entry, or one changed entry, is a list. *)
LEMMA WithType ==
  ASSUME TypeOK, NEW s \in Servers, NEW e \in Entry
  PROVE  /\ DOMAIN With(s, e) = DOMAIN list \cup {s}
         /\ With(s, e)[s] = e
         /\ \A t \in DOMAIN list \ {s} : With(s, e)[t] = list[t]
         /\ \A t \in DOMAIN With(s, e) : With(s, e)[t] \in Entry
  BY DEF TypeOK, With

(* What DropServer leaves. *)
LEMMA DropType ==
  ASSUME TypeOK, NEW s \in Servers
  PROVE  /\ DOMAIN DropServer(s) = DOMAIN list \ {s}
         /\ \A t \in DOMAIN list \ {s} : DropServer(s)[t] = list[t]
  BY DEF TypeOK, DropServer

(* The limits hold of a list with fewer servers, of which those that were validated still
   are. *)
LEMMA LimitsOfPart ==
  ASSUME TypeOK, NEW D, NEW P, D \subseteq DOMAIN list, P \subseteq Pending
  PROVE  Cardinality(D) <= MaxServers /\ Cardinality(P) <= MaxPending
<1>1. IsFiniteSet(DOMAIN list) /\ IsFiniteSet(Pending)
  BY FS_Subset, MasterAssumption DEF TypeOK, Pending
<1>2. /\ IsFiniteSet(D) /\ Cardinality(D) <= Cardinality(DOMAIN list)
      /\ IsFiniteSet(P) /\ Cardinality(P) <= Cardinality(Pending)
  BY <1>1, FS_Subset
<1>3. /\ Cardinality(D) \in Nat /\ Cardinality(DOMAIN list) \in Nat
      /\ Cardinality(P) \in Nat /\ Cardinality(Pending) \in Nat
  BY <1>1, <1>2, FS_CardinalityType
<1> QED
  BY <1>2, <1>3, MasterAssumption DEF TypeOK

(* The limits hold of a list to which Ms_AddServer has added a server. *)
LEMMA LimitsWhenAdded ==
  ASSUME TypeOK, NEW s \in Servers, MayAdd(s)
  PROVE  /\ Cardinality(DOMAIN list \cup {s}) <= MaxServers
         /\ Cardinality(Pending \cup {s}) <= MaxPending
<1>1. IsFiniteSet(DOMAIN list) /\ IsFiniteSet(Pending)
  BY FS_Subset, MasterAssumption DEF TypeOK, Pending
<1>2. Cardinality(DOMAIN list) \in Nat /\ Cardinality(Pending) \in Nat
  BY <1>1, FS_CardinalityType
<1>3. /\ Cardinality(DOMAIN list \cup {s}) \in {Cardinality(DOMAIN list), Cardinality(DOMAIN list) + 1}
      /\ Cardinality(Pending \cup {s}) \in {Cardinality(Pending), Cardinality(Pending) + 1}
  BY <1>1, FS_AddElement
<1> QED
  BY <1>2, <1>3, MasterAssumption DEF MayAdd

(* What a challenge to s leaves: only the entry of s may change, and only in what it was
   sent; and a server that had no challenge gets one that nobody has. *)
LEMMA SendChallengeFacts ==
  ASSUME TypeOK, NEW s \in Servers, NEW e \in Entry, NEW others \in SUBSET net,
         SendChallenge(s, e, others)
  PROVE  \E f \in Entry :
           /\ list' = With(s, f)
           /\ f.validated = e.validated
           /\ \/ f.challenge = e.challenge
              \/ e.challenge = 0 /\ f.challenge \in FreshChallenge(s)
           /\ net' \subseteq Packet
           /\ \A p \in net' \ others : p.type = "challenge"
<1>1. CASE e.challenged /\ list' = With(s, e) /\ net' = others
  BY <1>1 DEF TypeOK
<1>2. CASE /\ e.challenge = 0 => FreshChallenge(s) # {}
           /\ \E c \in {IF e.challenge = 0 THEN CHOOSE n \in FreshChallenge(s) : TRUE ELSE e.challenge} :
                /\ list' = With(s, [e EXCEPT !.challenge = c, !.challenged = TRUE])
                /\ net' = others \cup {Datagram("challenge", s, c)}
  <2>1. PICK c \in {IF e.challenge = 0 THEN CHOOSE n \in FreshChallenge(s) : TRUE ELSE e.challenge} :
                /\ list' = With(s, [e EXCEPT !.challenge = c, !.challenged = TRUE])
                /\ net' = others \cup {Datagram("challenge", s, c)}
    BY <1>2
  <2>2. e.challenge = 0 => c \in FreshChallenge(s)
    BY <1>2
  <2>3. e.challenge # 0 => c = e.challenge
    OBVIOUS
  <2>4. c \in Challenge
    BY <2>2, <2>3 DEF Entry, FreshChallenge
  <2>5. Datagram("challenge", s, c) \in Packet /\ Datagram("challenge", s, c).type = "challenge"
    BY <2>4 DEF Datagram, Packet
  <2> DEFINE f == [e EXCEPT !.challenge = c, !.challenged = TRUE]
  <2>6. f \in Entry /\ f.validated = e.validated /\ f.challenge = c
    BY <2>4 DEF Entry
  <2> HIDE DEF f
  <2>7. list' = With(s, f)
    BY <2>1 DEF f
  <2> QED
    BY <2>1, <2>2, <2>3, <2>5, <2>6, <2>7 DEF TypeOK
<1> QED
  BY <1>1, <1>2 DEF SendChallenge

(* What TypeOK says of the list and of its limits. *)
ListOK ==
  /\ DOMAIN list \subseteq Servers /\ \A s \in DOMAIN list : list[s] \in Entry
  /\ Cardinality(DOMAIN list) <= MaxServers
  /\ Cardinality(Pending) <= MaxPending

(* The step of Ms_Heartbeat: it is where the list grows. *)
LEMMA HeartbeatListOK ==
  ASSUME TypeOK, NEW p \in net, Heartbeat(p)
  PROVE  ListOK' /\ net' \subseteq Packet
<1> DEFINE s == p.server
           others == net \ {p}
<1>1. s \in Servers /\ others \in SUBSET net /\ p \in Packet
  BY DEF TypeOK, Packet
<1>2. CASE s \notin DOMAIN list /\ MayAdd(s) /\ SendChallenge(s, Registered, others)
  <2>1. Registered \in Entry /\ Registered.validated = FALSE
    BY MasterAssumption DEF Registered, Entry
  <2>2. PICK f \in Entry : list' = With(s, f) /\ net' \subseteq Packet
    BY <1>1, <1>2, <2>1, SendChallengeFacts
  <2>3. /\ DOMAIN list' = DOMAIN list \cup {s}
        /\ \A t \in DOMAIN list \ {s} : list'[t] = list[t]
        /\ \A t \in DOMAIN list' : list'[t] \in Entry
    <3> HIDE DEF s, others
    <3>1. /\ DOMAIN With(s, f) = DOMAIN list \cup {s}
          /\ \A t \in DOMAIN list \ {s} : With(s, f)[t] = list[t]
          /\ \A t \in DOMAIN With(s, f) : With(s, f)[t] \in Entry
      BY <1>1, WithType
    <3> QED
      BY <2>2, <3>1
  <2>4. Pending' \subseteq Pending \cup {s}
    <3> HIDE DEF s
    <3>1. ASSUME NEW t \in DOMAIN list', ~list'[t].validated, t # s PROVE t \in Pending
      <4>1. t \in DOMAIN list /\ list'[t] = list[t]
        BY <2>3, <3>1
      <4> QED
        BY <3>1, <4>1 DEF Pending
    <3> QED
      BY <3>1 DEF Pending
  <2>5. /\ Cardinality(DOMAIN list \cup {s}) <= MaxServers
        /\ Cardinality(Pending \cup {s}) <= MaxPending
    BY <1>1, <1>2, LimitsWhenAdded
  <2>6. IsFiniteSet(Pending \cup {s}) /\ IsFiniteSet(Pending')
    <3>1. IsFiniteSet(Pending)
      BY FS_Subset, MasterAssumption DEF TypeOK, Pending
    <3> QED
      BY <3>1, <2>4, FS_AddElement, FS_Subset
  <2>7. Cardinality(Pending') <= MaxPending
    <3>1. Cardinality(Pending') <= Cardinality(Pending \cup {s})
      BY <2>4, <2>6, FS_Subset
    <3>2. Cardinality(Pending') \in Nat /\ Cardinality(Pending \cup {s}) \in Nat
      BY <2>6, FS_CardinalityType
    <3> QED
      BY <3>1, <3>2, <2>5, MasterAssumption
  <2> QED
    BY <1>1, <2>2, <2>3, <2>5, <2>7 DEF ListOK, TypeOK
<1>3. CASE list' = list /\ net' = others
  BY <1>3 DEF ListOK, TypeOK, Pending
<1>4. CASE list' = DropServer(s) /\ net' = others
  <2>1. DOMAIN list' \subseteq DOMAIN list /\ \A t \in DOMAIN list' : list'[t] = list[t]
    BY <1>1, <1>4, DropType
  <2>2. Pending' \subseteq Pending
    BY <2>1 DEF Pending
  <2>3. Cardinality(DOMAIN list') <= MaxServers /\ Cardinality(Pending') <= MaxPending
    BY <2>1, <2>2, LimitsOfPart
  <2> QED
    BY <1>4, <2>1, <2>3 DEF ListOK, TypeOK
<1>5. CASE /\ s \in DOMAIN list /\ net' \subseteq Packet
           /\ \E f \in Entry : list' = With(s, f) /\ (list[s].validated => f.validated)
  <2>1. PICK f \in Entry : list' = With(s, f) /\ (list[s].validated => f.validated)
    BY <1>5
  <2> HIDE DEF s
  <2>5. DOMAIN list \cup {s} = DOMAIN list
    BY <1>5
  <2>2. /\ DOMAIN list' = DOMAIN list
        /\ list'[s] = f
        /\ \A t \in DOMAIN list \ {s} : list'[t] = list[t]
        /\ \A t \in DOMAIN list' : list'[t] \in Entry
    BY <1>1, <2>1, <2>5, WithType
  <2>3. Pending' \subseteq Pending
    BY <2>1, <2>2 DEF Pending
  <2>4. Cardinality(DOMAIN list') <= MaxServers /\ Cardinality(Pending') <= MaxPending
    BY <2>2, <2>3, LimitsOfPart
  <2> QED
    BY <1>5, <2>2, <2>4 DEF ListOK, TypeOK
<1>6. CASE s \in DOMAIN list /\ SendChallenge(s, list[s], others)
  <2>1. list[s] \in Entry
    BY <1>6 DEF TypeOK
  <2>2. PICK f \in Entry : /\ list' = With(s, f) /\ f.validated = list[s].validated
                           /\ net' \subseteq Packet
    BY <1>1, <1>6, <2>1, SendChallengeFacts
  <2>3. list' = With(s, f) /\ (list[s].validated => f.validated)
    BY <2>2
  <2> QED
    BY <1>5, <1>6, <2>2, <2>3
<1>7. CASE /\ s \in DOMAIN list
           /\ list' = With(s, [list[s] EXCEPT !.age = 0, !.validated = TRUE]) /\ net' = others
  <2>0. list[s] \in Entry /\ 0 \in 0 .. ServerTimeout
    BY <1>7, MasterAssumption DEF TypeOK
  <2>1. [list[s] EXCEPT !.age = 0, !.validated = TRUE] \in Entry
    BY <2>0 DEF Entry
  <2>2. [list[s] EXCEPT !.age = 0, !.validated = TRUE].validated
    BY <1>7 DEF TypeOK, Entry
  <2>3. net' \subseteq Packet
    BY <1>7 DEF TypeOK
  <2> QED
    BY <1>5, <1>7, <2>1, <2>2, <2>3
<1> QED
  BY <1>2, <1>3, <1>4, <1>6, <1>7 DEF Heartbeat

(* Every step keeps the types and the limits. *)
LEMMA TypeStep == TypeOK /\ [Next]_vars => TypeOK'
<1> SUFFICES ASSUME TypeOK, [Next]_vars PROVE TypeOK'
  OBVIOUS
<1> USE MasterAssumption
<1>0. ListOK /\ (list' = list => ListOK')
  BY DEF TypeOK, ListOK, Pending
<1>1. ASSUME NEW s \in Servers, HeartbeatMaster(s) PROVE TypeOK'
  <2>1. Datagram("heartbeat", s, known[s]) \in Packet
    BY DEF Datagram, Packet, TypeOK
  <2> QED
    BY <1>0, <1>1, <2>1 DEF HeartbeatMaster, TypeOK, ListOK, masterVars, worldVars
<1>2. ASSUME NEW s \in Servers, Start(s) PROVE TypeOK'
  BY <1>0, <1>2 DEF Start, TypeOK, ListOK, masterVars, worldVars
<1>3. ASSUME NEW s \in Servers, ShutdownServer(s) PROVE TypeOK'
  <2>1. Datagram("shutdown", s, known[s]) \in Packet
    BY DEF Datagram, Packet, TypeOK
  <2> QED
    BY <1>0, <1>3, <2>1 DEF ShutdownServer, Fault, TypeOK, ListOK, masterVars
<1>4. ASSUME NEW s \in Servers, Crash(s) PROVE TypeOK'
  BY <1>0, <1>4 DEF Crash, Fault, TypeOK, ListOK, masterVars
<1>5. ASSUME NEW s \in Servers, EditBlacklist(s) PROVE TypeOK'
  BY <1>0, <1>5 DEF EditBlacklist, Fault, TypeOK, ListOK, serverVars
<1>6. ASSUME NEW p \in net, ReceiveChallenge(p) PROVE TypeOK'
  <2>1. p \in Packet
    BY DEF TypeOK
  <2>2. p.challenge \in Challenge \cup {0}
    BY <2>1 DEF Packet
  <2>3. known' \in [Servers -> Challenge \cup {0}]
    BY <1>6, <2>2 DEF ReceiveChallenge, TypeOK
  <2>4. due' \in [Servers -> BOOLEAN] /\ answered' \in [Servers -> BOOLEAN]
    BY <1>6 DEF ReceiveChallenge, TypeOK
  <2>5. net' \subseteq Packet /\ ListOK'
    BY <1>0, <1>6 DEF ReceiveChallenge, TypeOK, masterVars
  <2> QED
    BY <1>6, <2>3, <2>4, <2>5
       DEF ReceiveChallenge, TypeOK, ListOK, masterVars, worldVars
<1>7. ASSUME NEW p \in net, Heartbeat(p) PROVE TypeOK'
  <2>1. ListOK' /\ net' \subseteq Packet
    BY <1>7, HeartbeatListOK
  <2> QED
    BY <1>7, <2>1 DEF Heartbeat, TypeOK, ListOK, serverVars, worldVars
<1>8. ASSUME NEW p \in net, RemoveServer(p) PROVE TypeOK'
  <2>1. p.server \in Servers
    BY DEF TypeOK, Packet
  <2>2. DOMAIN list' \subseteq DOMAIN list /\ \A t \in DOMAIN list' : list'[t] = list[t]
    BY <1>8, <2>1, DropType DEF RemoveServer
  <2>3. Pending' \subseteq Pending
    BY <2>2 DEF Pending
  <2>4. Cardinality(DOMAIN list') <= MaxServers /\ Cardinality(Pending') <= MaxPending
    BY <2>2, <2>3, LimitsOfPart
  <2>5. closed' \subseteq Servers /\ net' \subseteq Packet
    BY <1>8, <2>1 DEF RemoveServer, TypeOK
  <2> QED
    BY <1>8, <2>2, <2>4, <2>5 DEF RemoveServer, TypeOK, serverVars, worldVars
<1>9. ASSUME NEW p \in net, Lose(p) PROVE TypeOK'
  BY <1>0, <1>9 DEF Lose, TypeOK, ListOK, serverVars, masterVars
<1>10. CASE RestartMaster
  <2>1. DOMAIN list' = {}
    BY <1>10 DEF RestartMaster
  <2>2. Pending' = {}
    BY <2>1 DEF Pending
  <2>3. Cardinality(DOMAIN list') <= MaxServers /\ Cardinality(Pending') <= MaxPending
    BY <2>1, <2>2, FS_EmptySet
  <2> QED
    BY <1>10, <2>1, <2>3 DEF RestartMaster, Fault, TypeOK, serverVars
<1>11. CASE Tick
  <2>1. /\ DOMAIN list' = {t \in DOMAIN list : Stays(list[t])}
        /\ \A t \in DOMAIN list' :
             list'[t] = [list[t] EXCEPT !.age = @ + 1, !.challenged = FALSE]
    BY <1>11 DEF Tick
  <2>2. ASSUME NEW t \in DOMAIN list'
        PROVE  list'[t] \in Entry /\ list'[t].validated = list[t].validated
    <3>1. list[t] \in Entry /\ list[t].age < ServerTimeout
      BY <2>1 DEF TypeOK, Stays
    <3>2. list[t].age + 1 \in 0 .. ServerTimeout
      BY <3>1 DEF Entry
    <3>3. list'[t] = [list[t] EXCEPT !.age = list[t].age + 1, !.challenged = FALSE]
      BY <2>1
    <3> QED
      BY <3>1, <3>2, <3>3 DEF Entry
  <2>3. Pending' \subseteq Pending
    BY <2>1, <2>2 DEF Pending
  <2>4. Cardinality(DOMAIN list') <= MaxServers /\ Cardinality(Pending') <= MaxPending
    BY <2>1, <2>3, LimitsOfPart
  <2>5. DOMAIN list' \subseteq Servers /\ \A t \in DOMAIN list' : list'[t] \in Entry
    BY <2>1, <2>2 DEF TypeOK
  <2>6. due' \in [Servers -> BOOLEAN] /\ answered' \in [Servers -> BOOLEAN]
    BY <1>11 DEF Tick, TypeOK
  <2> QED
    BY <1>11, <2>4, <2>5, <2>6 DEF Tick, TypeOK, worldVars
<1>12. CASE UNCHANGED vars
  BY <1>0, <1>12 DEF vars, serverVars, masterVars, worldVars, TypeOK, ListOK
<1> QED
  BY <1>1, <1>2, <1>3, <1>4, <1>5, <1>6, <1>7, <1>8, <1>9, <1>10, <1>11, <1>12
     DEF Next, Receive

(* The variables keep their types, and the list its limits, MAX_SERVERS and
   MAX_PENDING_SERVERS, whoever sends what (Ms_AddServer). *)
THEOREM TypeCorrectness == Spec => []TypeOK
<1>1. Init => TypeOK
  <2> SUFFICES ASSUME Init PROVE TypeOK
    OBVIOUS
  <2>1. DOMAIN list = {} /\ Pending = {}
    BY DEF Init, Pending
  <2>2. Cardinality(DOMAIN list) = 0 /\ Cardinality(Pending) = 0
    BY <2>1, FS_EmptySet
  <2> QED
    BY <2>1, <2>2, MasterAssumption DEF Init, TypeOK
<1> QED
  BY <1>1, TypeStep, PTL DEF Spec

(* Why a server that left stays away: it sends nothing, and the challenge it would have
   to echo is not in what it sent. *)
Away(s) ==
  /\ ~up[s]
  /\ s \in DOMAIN list =>
       /\ ~list[s].validated
       /\ \A p \in net : p.server = s /\ p.type = "heartbeat" /\ p.challenge # 0
                           => p.challenge # list[s].challenge

\* Every address that closed its server is away.
ClosedStayAway == \A s \in closed : Away(s)

(* A challenge to one server leaves everybody who is away, away. *)
LEMMA SendChallengeAway ==
  ASSUME TypeOK, ClosedStayAway, NEW s \in Servers, NEW e \in Entry, NEW others \in SUBSET net,
         SendChallenge(s, e, others), up' = up, closed' = closed,
         s \in DOMAIN list => e = list[s],
         s \notin DOMAIN list => e = Registered
  PROVE  ClosedStayAway'
<1>1. PICK f \in Entry :
           /\ list' = With(s, f)
           /\ f.validated = e.validated
           /\ \/ f.challenge = e.challenge
              \/ e.challenge = 0 /\ f.challenge \in FreshChallenge(s)
           /\ net' \subseteq Packet
           /\ \A p \in net' \ others : p.type = "challenge"
  BY SendChallengeFacts
<1>2. /\ DOMAIN list' = DOMAIN list \cup {s}
      /\ list'[s] = f
      /\ \A t \in DOMAIN list \ {s} : list'[t] = list[t]
  BY <1>1, WithType
<1>3. ASSUME NEW p \in net', p.type = "heartbeat" PROVE p \in net
  BY <1>1, <1>3
<1>4. ASSUME NEW t \in closed PROVE Away(t)'
  <2>1. Away(t) /\ ~up'[t]
    BY <1>4 DEF ClosedStayAway, Away
  <2>2. CASE t # s
    BY <1>2, <1>3, <2>1, <2>2 DEF Away
  <2>3. CASE t = s
    <3>1. ~f.validated
      BY <1>1, <2>1, <2>3 DEF Away, Registered
    <3>2. ASSUME NEW p \in net', p.server = s, p.type = "heartbeat", p.challenge # 0
          PROVE  p.challenge # f.challenge
      <4>1. p \in net
        BY <1>3, <3>2
      <4>2. CASE f.challenge \in FreshChallenge(s)
        BY <3>2, <4>1, <4>2 DEF FreshChallenge
      <4>3. CASE f.challenge = e.challenge /\ s \in DOMAIN list
        BY <2>1, <2>3, <3>2, <4>1, <4>3 DEF Away
      <4>4. CASE f.challenge = e.challenge /\ s \notin DOMAIN list
        BY <3>2, <4>4 DEF Registered
      <4> QED
        BY <1>1, <4>2, <4>3, <4>4
    <3> QED
      BY <1>2, <2>1, <2>3, <3>1, <3>2 DEF Away
  <2> QED
    BY <2>2, <2>3
<1> QED
  BY <1>4 DEF ClosedStayAway

(* Every step keeps those away that left. *)
LEMMA AwayStep == TypeOK /\ ClosedStayAway /\ [Next]_vars => ClosedStayAway'
<1> SUFFICES ASSUME TypeOK, ClosedStayAway, [Next]_vars PROVE ClosedStayAway'
  OBVIOUS
<1>0. \A p \in net : p \in Packet /\ p.server \in Servers
  BY DEF TypeOK, Packet
<1>00. ASSUME NEW S \in SUBSET closed, NEW D,
              closed' = S, \A t \in S : ~up'[t],
              DOMAIN list' = D, D \subseteq DOMAIN list,
              \A t \in D : /\ list'[t].validated = list[t].validated
                           /\ list'[t].challenge = list[t].challenge,
              \A p \in net' \ net : p.type # "heartbeat" \/ p.server \notin S
       PROVE  ClosedStayAway'
  <2> SUFFICES ASSUME NEW t \in S PROVE Away(t)'
    BY <1>00 DEF ClosedStayAway
  <2>1. Away(t) /\ ~up'[t]
    BY <1>00 DEF ClosedStayAway
  <2>2. ASSUME t \in D PROVE ~list'[t].validated
    BY <1>00, <2>1, <2>2 DEF Away
  <2>3. ASSUME t \in D, NEW p \in net', p.server = t, p.type = "heartbeat", p.challenge # 0
        PROVE  p.challenge # list'[t].challenge
    <3>1. p \in net
      BY <1>00, <2>3
    <3> QED
      BY <1>00, <2>1, <2>3, <3>1 DEF Away
  <2> QED
    BY <1>00, <2>1, <2>2, <2>3 DEF Away
<1>1. ASSUME NEW s \in Servers, HeartbeatMaster(s) PROVE ClosedStayAway'
  <2>1. s \notin closed
    BY <1>1 DEF HeartbeatMaster, ClosedStayAway, Away
  <2>2. \A p \in net' \ net : p.server = s
    BY <1>1 DEF HeartbeatMaster, Datagram
  <2>3. list' = list /\ closed' = closed /\ up' = up
    BY <1>1 DEF HeartbeatMaster, masterVars
  <2>4. \A t \in closed : ~up'[t]
    BY <2>3 DEF ClosedStayAway, Away
  <2> QED
    BY <1>00, <2>1, <2>2, <2>3, <2>4
<1>2. ASSUME NEW s \in Servers, Start(s) PROVE ClosedStayAway'
  <2>1. list' = list /\ closed' = closed \ {s} /\ net' = net
    BY <1>2 DEF Start, masterVars
  <2>2. \A t \in closed \ {s} : ~up'[t]
    BY <1>2 DEF Start, TypeOK, ClosedStayAway, Away
  <2> QED
    BY <1>00, <2>1, <2>2
<1>3. ASSUME NEW s \in Servers, ShutdownServer(s) \/ Crash(s) PROVE ClosedStayAway'
  <2>1. list' = list /\ closed' = closed
    BY <1>3 DEF ShutdownServer, Crash, masterVars
  <2>2. \A p \in net' \ net : p.type # "heartbeat"
    BY <1>3 DEF ShutdownServer, Crash, Datagram
  <2>3. \A t \in closed : ~up'[t]
    BY <1>3 DEF ShutdownServer, Crash, TypeOK, ClosedStayAway, Away
  <2> QED
    BY <1>00, <2>1, <2>2, <2>3
<1>4. ASSUME list' = list, closed' = closed, up' = up, net' \subseteq net PROVE ClosedStayAway'
  <2>1. \A t \in closed : ~up'[t]
    BY <1>4 DEF ClosedStayAway, Away
  <2> QED
    BY <1>00, <1>4, <2>1
<1>5. ASSUME NEW p \in net, Heartbeat(p) PROVE ClosedStayAway'
  <2> DEFINE s == p.server
             others == net \ {p}
  <2>1. s \in Servers /\ others \in SUBSET net /\ up' = up /\ closed' = closed
    BY <1>0, <1>5 DEF Heartbeat, serverVars
  <2>2. \A t \in closed : ~up'[t]
    BY <2>1 DEF ClosedStayAway, Away
  <2>3. CASE s \notin DOMAIN list /\ SendChallenge(s, Registered, others)
    <3>1. Registered \in Entry
      BY MasterAssumption DEF Registered, Entry
    <3> QED
      BY <2>1, <2>3, <3>1, SendChallengeAway
  <2>4. CASE list' = list /\ net' = others
    BY <1>4, <2>1, <2>4
  <2>5. CASE list' = DropServer(s) /\ net' = others
    <3>1. DOMAIN list' \subseteq DOMAIN list /\ \A t \in DOMAIN list' : list'[t] = list[t]
      BY <2>1, <2>5, DropType
    <3> QED
      BY <1>00, <2>1, <2>2, <2>5, <3>1
  <2>6. CASE /\ s \in DOMAIN list /\ p.challenge # 0 /\ p.challenge = list[s].challenge
             /\ list' = With(s, [list[s] EXCEPT !.age = 0, !.validated = TRUE]) /\ net' = others
    <3>1. list[s] \in Entry /\ 0 \in 0 .. ServerTimeout
      BY <2>6, MasterAssumption DEF TypeOK
    <3>2. [list[s] EXCEPT !.age = 0, !.validated = TRUE] \in Entry
      BY <3>1 DEF Entry
    <3>3. s \notin closed
      BY <1>5, <2>6 DEF ClosedStayAway, Away, Heartbeat
    <3>4. /\ DOMAIN list' = DOMAIN list \cup {s}
          /\ \A t \in DOMAIN list \ {s} : list'[t] = list[t]
      BY <2>1, <2>6, <3>2, WithType
    <3>5. ASSUME NEW t \in closed PROVE Away(t)'
      <4>1. Away(t) /\ t # s /\ ~up'[t]
        BY <2>2, <3>3, <3>5 DEF ClosedStayAway
      <4> QED
        BY <2>6, <3>4, <4>1 DEF Away
    <3> QED
      BY <2>1, <3>5 DEF ClosedStayAway
  <2>7. CASE s \in DOMAIN list /\ SendChallenge(s, list[s], others)
    <3>1. list[s] \in Entry
      BY <2>7 DEF TypeOK
    <3> QED
      BY <2>1, <2>7, <3>1, SendChallengeAway
  <2> QED
    BY <1>5, <2>3, <2>4, <2>5, <2>6, <2>7 DEF Heartbeat
<1>6. ASSUME NEW p \in net, RemoveServer(p) PROVE ClosedStayAway'
  <2> DEFINE s == p.server
  <2>1. s \in Servers /\ up' = up /\ net' \subseteq net
    BY <1>0, <1>6 DEF RemoveServer, serverVars
  <2>2. DOMAIN list' \subseteq DOMAIN list /\ \A t \in DOMAIN list' : list'[t] = list[t]
    BY <1>6, <2>1, DropType DEF RemoveServer
  <2>3. \/ closed' = closed
        \/ closed' = closed \cup {s} /\ ~up[s] /\ s \notin DOMAIN list'
    <3>1. s \notin DOMAIN DropServer(s)
      BY <2>1, DropType
    <3> DEFINE proves == s \in DOMAIN list /\ p.challenge # 0 /\ p.challenge = list[s].challenge
    <3>2. /\ list' = IF proves THEN DropServer(s) ELSE list
          /\ closed' = IF proves /\ ~up[s] THEN closed \cup {s} ELSE closed
      BY <1>6 DEF RemoveServer
    <3> HIDE DEF s, proves
    <3>3. CASE proves /\ ~up[s]
      BY <3>1, <3>2, <3>3
    <3>4. CASE ~(proves /\ ~up[s])
      BY <3>2, <3>4
    <3> QED
      BY <3>3, <3>4
  <2>4. ASSUME NEW t \in closed' PROVE Away(t)'
    <3>1. CASE t \in closed
      BY <2>1, <2>2, <3>1 DEF ClosedStayAway, Away
    <3>2. CASE t = s /\ ~up[s] /\ s \notin DOMAIN list'
      BY <2>1, <3>2 DEF Away
    <3> QED
      BY <2>3, <2>4, <3>1, <3>2
  <2> QED
    BY <2>4 DEF ClosedStayAway
<1>7. CASE RestartMaster
  <2>1. closed' = closed /\ up' = up /\ net' = net /\ DOMAIN list' = {}
    BY <1>7 DEF RestartMaster, serverVars
  <2>2. \A t \in closed : ~up'[t]
    BY <2>1 DEF ClosedStayAway, Away
  <2> QED
    BY <1>00, <2>1, <2>2
<1>8. CASE Tick
  <2>1. /\ DOMAIN list' \subseteq DOMAIN list
        /\ \A t \in DOMAIN list' :
             list'[t] = [list[t] EXCEPT !.age = @ + 1, !.challenged = FALSE]
    BY <1>8 DEF Tick
  <2>2. \A t \in DOMAIN list' : /\ list'[t].validated = list[t].validated
                                /\ list'[t].challenge = list[t].challenge
    BY <2>1 DEF TypeOK, Entry
  <2>3. closed' = closed /\ up' = up /\ net' = net
    BY <1>8 DEF Tick
  <2>4. \A t \in closed : ~up'[t]
    BY <2>3 DEF ClosedStayAway, Away
  <2> QED
    BY <1>00, <2>1, <2>2, <2>3, <2>4
<1>9. ASSUME NEW s \in Servers, EditBlacklist(s) PROVE ClosedStayAway'
  BY <1>4, <1>9 DEF EditBlacklist, serverVars
<1>10. ASSUME NEW p \in net, ReceiveChallenge(p) \/ Lose(p) PROVE ClosedStayAway'
  BY <1>4, <1>10 DEF ReceiveChallenge, Lose, masterVars, serverVars
<1>11. CASE UNCHANGED vars
  BY <1>4, <1>11 DEF vars, serverVars, masterVars
<1> QED
  BY <1>1, <1>2, <1>3, <1>5, <1>6, <1>7, <1>8, <1>9, <1>10, <1>11 DEF Next, Receive

(* A server whose shutdown the master has accepted is not listed before it starts again,
   whatever it sent before arrives after it (Ms_Heartbeat, Ms_RemoveServer). *)
THEOREM NotRelistedByOldHeartbeats == Spec => []NotRelisted
<1>1. Init => ClosedStayAway
  BY DEF Init, ClosedStayAway
<1>2. ClosedStayAway => NotRelisted
  BY DEF ClosedStayAway, Away, NotRelisted, Listed
<1>3. Spec => []ClosedStayAway
  BY <1>1, AwayStep, TypeCorrectness, PTL DEF Spec
<1> QED
  BY <1>2, <1>3, PTL

=============================================================================
