------------------------------- MODULE Master -------------------------------
(***************************************************************************)
(* The master server (master/main.c), the game servers that keep           *)
(* themselves on its list (server/sv_master.c), and the datagrams between  *)
(* them.                                                                   *)
(*                                                                         *)
(* A tick is the time between two heartbeats of a server.  A datagram      *)
(* arrives within its tick, in any order, or is lost.  What a server says  *)
(* of itself, and who asks for the list, is not modelled.                  *)
(***************************************************************************)
EXTENDS Integers, FiniteSets

CONSTANTS
  Servers,             \* the addresses of the game servers
  Challenge,           \* what Ms_Challenge can return
  MaxServers, MaxPending,
  ServerTimeout, ValidationTimeout,   \* in ticks
  MaxFaults,           \* bounds the restarts, and changes of the blacklist
  MaxLost              \* bounds the datagrams that are lost

ASSUME MasterAssumption ==
  /\ IsFiniteSet(Servers)
  /\ Challenge \subseteq Nat \ {0}
  /\ {MaxServers, MaxPending, ServerTimeout, ValidationTimeout} \subseteq Nat \ {0}
  /\ {MaxFaults, MaxLost} \subseteq Nat

VARIABLES
  \* of the game servers
  up,          \* svs.state = SV_ACTIVE_GAME
  known,       \* svs.master.challenge
  due,         \* svs.nextHeartbeat is over
  answered,    \* svs.master.challengeTime may not be over
  \* of the master
  list,        \* serverList, by address
  blacklist,
  \* of the world
  net,
  faults, lost,
  closed       \* history: the servers that told the master, and have not started since

serverVars == <<up, known, due, answered>>
masterVars == <<list, blacklist>>
worldVars == <<faults, lost>>
vars == <<serverVars, masterVars, net, worldVars, closed>>

Packet == [type : {"heartbeat", "shutdown", "challenge"}, server : Servers,
           challenge : Challenge \cup {0}]

\* A MasterServer: registered is lastHeartbeat until the server is validated, so that one
\* age, in ticks, is enough; challenged while lastChallenge may be recent.
Entry == [challenge : Challenge \cup {0}, age : 0 .. ServerTimeout,
          validated : BOOLEAN, challenged : BOOLEAN]

Pending == {s \in DOMAIN list : ~list[s].validated}

TypeOK ==
  /\ up \in [Servers -> BOOLEAN]
  /\ known \in [Servers -> Challenge \cup {0}]
  /\ due \in [Servers -> BOOLEAN]
  /\ answered \in [Servers -> BOOLEAN]
  /\ DOMAIN list \subseteq Servers /\ \A s \in DOMAIN list : list[s] \in Entry
  /\ Cardinality(DOMAIN list) <= MaxServers
  /\ Cardinality(Pending) <= MaxPending
  /\ blacklist \subseteq Servers
  /\ net \subseteq Packet
  /\ faults \in 0 .. MaxFaults /\ lost \in 0 .. MaxLost
  /\ closed \subseteq Servers

Init ==
  /\ up = [s \in Servers |-> FALSE]
  /\ known = [s \in Servers |-> 0]
  /\ due = [s \in Servers |-> FALSE]
  /\ answered = [s \in Servers |-> FALSE]
  /\ list = [s \in {} |-> 0]
  /\ blacklist \in SUBSET Servers
  /\ net = {} /\ faults = 0 /\ lost = 0 /\ closed = {}

-------------------------------------------------------------------------------
\* The game server.

Datagram(type, s, challenge) == [type |-> type, server |-> s, challenge |-> challenge]

\* Sv_HeartbeatMaster.
HeartbeatMaster(s) ==
  /\ up[s] /\ due[s]
  /\ net' = net \cup {Datagram("heartbeat", s, known[s])}
  /\ due' = [due EXCEPT ![s] = FALSE]
  /\ UNCHANGED <<up, known, answered, masterVars, worldVars, closed>>

\* Mutant: the first challenge is kept.
ReceiveFirstChallenge(p) ==
  LET s == p.server
  IN /\ p.type = "challenge" /\ p \in net
     /\ net' = net \ {p}
     /\ IF up[s] /\ known[s] = 0
        THEN /\ known' = [known EXCEPT ![s] = p.challenge]
             /\ due' = [due EXCEPT ![s] = TRUE]
        ELSE UNCHANGED <<known, due>>
     /\ UNCHANGED <<up, answered, masterVars, worldVars, closed>>

\* Sv_Challenge: at most one in a second is answered at once.
ReceiveChallenge(p) ==
  LET s == p.server
  IN /\ p.type = "challenge" /\ p \in net
     /\ net' = net \ {p}
     /\ IF up[s]
        THEN /\ known' = [known EXCEPT ![s] = p.challenge]
             /\ \/ answered' = [answered EXCEPT ![s] = TRUE] /\ due' = [due EXCEPT ![s] = TRUE]
                \/ answered[s] /\ UNCHANGED <<due, answered>>
        ELSE UNCHANGED <<known, due, answered>>
     /\ UNCHANGED <<up, masterVars, worldVars, closed>>

Fault == faults < MaxFaults /\ faults' = faults + 1 /\ UNCHANGED lost

\* Sv_InitServer, and Sv_ClearState before it.
Start(s) ==
  /\ ~up[s]
  /\ up' = [up EXCEPT ![s] = TRUE]
  /\ due' = [due EXCEPT ![s] = TRUE]
  /\ closed' = closed \ {s}
  /\ UNCHANGED <<known, answered, masterVars, net, worldVars>>

\* Sv_ShutdownServer: the program goes on, and knows its challenge.
ShutdownServer(s) ==
  /\ Fault
  /\ up' = [up EXCEPT ![s] = FALSE]
  /\ net' = net \cup {Datagram("shutdown", s, known[s])}
  /\ UNCHANGED <<known, due, answered, masterVars, closed>>

\* The program ends, and says nothing.  Sv_InitMaster, when it runs again, clears the rest.
Crash(s) ==
  /\ Fault
  /\ up' = [up EXCEPT ![s] = FALSE]
  /\ known' = [known EXCEPT ![s] = 0]
  /\ answered' = [answered EXCEPT ![s] = FALSE]
  /\ UNCHANGED <<due, masterVars, net, closed>>

-------------------------------------------------------------------------------
\* The master.

\* Mutant: any challenge, whether or not it is still about.
AnyChallenge(s) == Challenge

\* Ms_Challenge: one of 2^32, so none that is still about for this server.
FreshChallenge(s) ==
  Challenge \ ({known[s]} \cup {p.challenge : p \in {q \in net : q.server = s}})

\* The list with the entry e for s, and without one.
With(s, e) == [t \in DOMAIN list \cup {s} |-> IF t = s THEN e ELSE list[t]]
DropServer(s) == [t \in DOMAIN list \ {s} |-> list[t]]

\* Mutant: the file is not read.
BlacklistUnread(s) == FALSE

\* Ms_BlacklistServer: the file is read again when it has changed.
BlacklistServer(s) == s \in blacklist

\* Mutant: nobody counts the servers that are not validated.
MayAddAnyPending(s) == Cardinality(DOMAIN list) < MaxServers /\ ~BlacklistServer(s)

\* Ms_AddServer.
MayAdd(s) ==
  /\ Cardinality(DOMAIN list) < MaxServers
  /\ Cardinality(Pending) < MaxPending
  /\ ~BlacklistServer(s)

Registered == [challenge |-> 0, age |-> 0, validated |-> FALSE, challenged |-> FALSE]

\* Ms_SendChallenge to s, whose entry is e; others is net without what has been received.
SendChallenge(s, e, others) ==
  \/ /\ e.challenged
     /\ list' = With(s, e) /\ net' = others
  \/ /\ e.challenge = 0 => FreshChallenge(s) # {}
     /\ LET c == IF e.challenge = 0 THEN CHOOSE n \in FreshChallenge(s) : TRUE ELSE e.challenge
        IN /\ list' = With(s, [e EXCEPT !.challenge = c, !.challenged = TRUE])
           /\ net' = others \cup {Datagram("challenge", s, c)}

\* Ms_Heartbeat.
Heartbeat(p) ==
  LET s == p.server
      others == net \ {p}
      proves(e) == p.challenge # 0 /\ p.challenge = e.challenge
  IN /\ p.type = "heartbeat" /\ p \in net
     /\ IF s \notin DOMAIN list
        THEN IF MayAdd(s) THEN SendChallenge(s, Registered, others)
             ELSE UNCHANGED list /\ net' = others
        ELSE IF BlacklistServer(s) THEN list' = DropServer(s) /\ net' = others
        ELSE IF proves(list[s])
        THEN list' = With(s, [list[s] EXCEPT !.age = 0, !.validated = TRUE]) /\ net' = others
        ELSE SendChallenge(s, list[s], others)
     /\ UNCHANGED <<serverVars, blacklist, worldVars, closed>>

\* Ms_RemoveServer.
RemoveServer(p) ==
  LET s == p.server
      proves == s \in DOMAIN list /\ p.challenge # 0 /\ p.challenge = list[s].challenge
  IN /\ p.type = "shutdown" /\ p \in net
     /\ net' = net \ {p}
     /\ list' = IF proves THEN DropServer(s) ELSE list
     /\ closed' = IF proves /\ ~up[s] THEN closed \cup {s} ELSE closed
     /\ UNCHANGED <<serverVars, blacklist, worldVars>>

\* Ms_Frame, one tick later: what keeps an entry on the list.
Stays(e) ==
  /\ e.age < ServerTimeout
  /\ e.validated \/ e.age < ValidationTimeout

\* The file that Ms_LoadBlacklist reads is edited.
EditBlacklist(s) ==
  /\ Fault
  /\ blacklist' = IF s \in blacklist THEN blacklist \ {s} ELSE blacklist \cup {s}
  /\ UNCHANGED <<serverVars, list, net, closed>>

\* The master is stopped and starts again, with an empty list.
RestartMaster ==
  /\ Fault
  /\ list' = [s \in {} |-> 0]
  /\ UNCHANGED <<serverVars, blacklist, net, closed>>

-------------------------------------------------------------------------------

Lose(p) ==
  /\ p \in net /\ lost < MaxLost
  /\ net' = net \ {p}
  /\ lost' = lost + 1
  /\ UNCHANGED <<serverVars, masterVars, faults, closed>>

Tick ==
  /\ net = {} /\ \A s \in Servers : up[s] => ~due[s]
  /\ due' = up
  /\ answered' = [s \in Servers |-> FALSE]
  /\ list' = [s \in {t \in DOMAIN list : Stays(list[t])} |->
                [list[s] EXCEPT !.age = @ + 1, !.challenged = FALSE]]
  /\ UNCHANGED <<up, known, blacklist, net, worldVars, closed>>

Receive(p) == ReceiveChallenge(p) \/ Heartbeat(p) \/ RemoveServer(p)

Next ==
  \/ \E s \in Servers :
       \/ HeartbeatMaster(s) \/ Start(s) \/ ShutdownServer(s) \/ Crash(s) \/ EditBlacklist(s)
  \/ \E p \in net : Receive(p) \/ Lose(p)
  \/ RestartMaster \/ Tick

\* A server that runs sends heartbeats (Sv_Frame), what was sent arrives unless it is
\* lost, and time passes.
Fairness ==
  /\ \A s \in Servers :
       /\ WF_vars(HeartbeatMaster(s))
       /\ WF_vars(\E p \in net : p.server = s /\ Receive(p))
  /\ WF_vars(Tick)

Spec == Init /\ [][Next]_vars /\ Fairness

-------------------------------------------------------------------------------

\* Whom Ms_GetServers names.
Listed(s) == s \in DOMAIN list /\ list[s].validated

\* A server whose shutdown the master has accepted is not listed again before it starts,
\* whatever it sent before arrives after it (Ms_Heartbeat, Ms_RemoveServer).
NotRelisted == \A s \in closed : ~Listed(s)

\* A server that stays up, and off the blacklist, is listed in the end and remains listed:
\* whatever it, another server, the master and the network went through before
\* (sv_master.c:31-32, "echoing whatever challenge it last issued so that it will list us").
EventuallyListed ==
  \A s \in Servers : <>[](up[s] /\ s \notin blacklist) => <>[]Listed(s)

\* A server that is gone without a word, or blacklisted, leaves the list in the end, and
\* the place it had there (Ms_Frame, and Ms_Heartbeat of a blacklisted server).
EventuallyRemoved ==
  \A s \in Servers : <>[](~up[s] \/ s \in blacklist) => <>[](s \notin DOMAIN list)

=============================================================================
