# TLA+ models of Quetoo

Quetoo is a multiplayer first-person shooter: a client and a server that talk over UDP, a
game module in the server, a client game, a renderer, tools, and a master server that lists
game servers. The models here are about the parts whose correctness depends on the order in
which things happen: packets that are lost, repeated or late, acknowledgements, ring buffers
that are reused, and threads. All paths are relative to `src/`, the root of the repository
(so the engine's own sources are under `src/src/`).

## 1. The system

| Component | State | Operations | Talks to |
|---|---|---|---|
| Network channel (`net/net_chan.c`) | sequence numbers, even/odd bits, `message`, `reliableBuffer` | `NetChan_Setup`, `NetChan_Transmit`, `NetChan_Process` | UDP sockets; client and server, which call it in every frame |
| Movement commands (`client/cl_cmd.c`, `cl_predict.c`, `server/sv_client.c`) | the ring `cl.cmds`, `incomingAcknowledged`, the player's state | gather, finalize, write and send a command; execute it; replay what is not acknowledged; compare | travels as the unreliable part of the channel's packets |
| Frames (`server/sv_entity.c`, `sv_send.c`, `client/cl_entity.c`) | `svs.entityStates` (shared), `frames` and `lastFrame` of each client; `cl.frames` | build, delta-encode, send, parse, acknowledge | the channel; acknowledged by the movement packets |
| Connections (`server/sv_main.c`, `sv_client.c`, `sv_init.c`, `client/cl_main.c`, `cl_parse.c`) | `ClientState`, `ServerClientState`, challenges, `spawnCount`, ticks of the last message | challenge, connect, new, begin, level change, disconnect, timeout, drop, bots | out-of-band packets and reliable strings; sets up the channel |
| Thread pool (`common/thread.c`) | status, job, mutex, condition of each worker | `Thread_Create`, `Thread_Wait`, `Thread_Run`, `Thread_Shutdown` | renderer, collision, user interface, map compiler |
| Match rules (`game/common/g_main.c`, `g_intermission.c`) | level time, intermission, frags of the level, the offer of maps and its ballots | limits, intermission, next map, restart | the server's frame; the command buffer |
| Votes (`game/common/g_vote.c`) | the open vote, ballots, cooldowns | call, cast, check, disconnect | clients, match rules, command buffer |
| Capture the flag (`game/common/g_ctf.c`, `g_item.c`) | which flags are at their base, inventories, dropped items, captures | steal, capture, return, drop, toss, reset | deaths, teams, disconnects and respawns of clients |
| Clients of the game (`game/common/g_client.c`, `g_cmd.c`) | in use, entity, team, spectator, dead | connect, begin, disconnect, respawn, die, team, spectate | called by the server; call flags, votes and rules through hooks |
| Master server (`master/main.c`, `server/sv_master.c`) | list of servers, challenges, times of the last heartbeat, blacklist | heartbeat, challenge, shutdown, query, time limits | game servers and clients, by datagrams |
| Installer and updates (`common/installer.c`, `manifest.c`, called by `main/main.c`) | `module.status.state`, the answer of the player, two manifests in memory; on disk: data files, `manifest.mf`, `.quetoo-pending` with `pending.mf`, the engine's files | check, ask, download, stage, compare, prune, commit, cancel, apply or roll back on the way out, relaunch | two servers; the frame callbacks of client and dedicated server; its own threads |
| Map list, demos, voice, downloads, console, files, memory, collision, physics, items, weapons, AI, race, client game, renderer, sound, map compiler | see PROJECT.json | | |

Concurrency and failure. Client and server are two processes with a network between them that
loses, delays, repeats and reorders packets; each is a loop (`Frame` in `main/main.c`) that
reads every packet that arrived, runs, and sends. Within a process the handlers run to
completion, so an operation of the models is a whole handler. Real threads exist in the
thread pool and in the installer, and there a step is as small as the locks and unlocked
accesses of the code, and its files, make it. In the network code nothing is persisted that a
restart depends on: what restarts is a connection (the client reconnects, the level changes, the
server drops a client), or a whole server, or the master, of which each has to learn again what
the other still knows. The installer is where the disk matters: it writes file after file in
place, may fail or die between any two, and the next launch goes by what it finds. In the game module nothing
is concurrent, but a frame of the game, the commands of clients, the connections that the server
hands it and the commands that wait in the console buffer interleave in many orders, through
hooks that each module chains onto the former ones.

What makes each component correct:

* channel: reliable data arrives in order, once, and in the end; the buffer is freed by the
  right acknowledgement only;
* commands: each is executed once, in order, in its own level, and is lost only with all
  packets that repeat it; the client replays exactly the commands that the frame lacks;
* frames: the client decodes what the server built, and never meets a frame it cannot decode;
* connections: both ends agree on which channel and which level they talk about; a client that
  did nothing wrong is not dropped; slots are reused only when free;
* thread pool: each job runs once, waiting ends, shutdown ends;
* rules, votes, flags: one end per level, one outcome per vote, one place per flag;
* master: a server is listed exactly while it answers;
* installer: a file is taken for current only if it is; an update is applied whole or not at
  all, and can be tried again; cancelling ends it; in the end the data is what the server has.

PROJECT.json lists every component with its status, and under "hazards" the places in the code
where these properties are hard to test.

## 2. Plan

Done, in this order: 1. `ReliableStream`, `NetChan` with its proofs, `NetChanDelivery`,
`NetChanReopen`; 2. `MoveCommands`; 3. `Snapshots`; 4. `ThreadPool`; 5. `Connection`;
6. `GameClients`, `CaptureTheFlag`, `Vote`, `Intermission` and `Game`, which composes them;
7. `Master` and its proofs; 8. `PendingUpdate`, `GameData` and `Installer`, which composes them.

Then the proofs, each in the module that has the component's name and `_proofs`: 9. `Connection`
(slots and seats), 10. `Game` (flags, votes, the end of a level), 11. `Installer` (updates whole or
not at all; what a manifest vouches for), 12. `ThreadPool` (jobs and handles), 13. `MoveCommands`
(the ring, and what packets repeat), 14. `Snapshots` (the merges, and the frames that are intact),
15. `Connection` again (the commands in both queues, and the handshakes). Section 6 tells what
they show.

Nothing of the plan is left: what the runs check is proved, but for liveness. What is not planned
is in section 8.

## 3. Modules

**`ReliableStream`** is the promise of the channel to its users: each peer appends to its
stream, the other reads the next chunk of it.

**`NetChan`** is `net_chan.c` at both ends. Its variables are the fields of `NetChan`
(`net_types.h`), indexed by peer, with `reliableBuffer` empty where `reliableSize` is 0; `Send`
is `NetChan_Transmit` (with the three cases of what it does to the reliable data, and
`CheckRetransmit` as in the code), `Process` is `NetChan_Process` followed by the parsing of the
payload. `network` keeps every packet ever sent, and any of them may arrive at any time and any
number of times: that is loss, delay, duplication and reordering at once. `sent` and `delivered`
are history. The reliable part of a packet is the sequence of its items, numbered by the
writer; the unreliable part is left to the modules below.

**`NetChanDelivery`** puts the same actions on a wire that keeps order and may lose `MaxLosses`
packets, for liveness. **`NetChanReopen`** adds a client that connects again: `NetChan_Setup`
at the server when it grants the connection, at the client when it hears of it, with old
packets under way.

**`MoveCommands`** is the way of a command: `SendMove` is `Cl_SendCommands` with finalize, write
(three commands), transmit and clearing of the next slot; `Receive` is `Sv_ReadPackets` down to
`Sv_ClientThink`; `SendFrame` and `ReceiveFrame` bring the acknowledgement back, with fragments
that acknowledge but have no frame; `PredictMovement` is `Cl_PredictMovement`. A command is named
by the number of the packet it was gathered for, counted over all channels of the client
(`opened` is how many packets it sent before it opened the present one), and 0 is the zeroed
command. A change of level is a conversation: `ServerLoad` sends `SV_CMD_RECONNECT`,
`ReceiveFrame` reads it, `GrantConnect` and `ClientConnect` run `NetChan_Setup` at the two ends, so
that all sequence numbers start again, `ClientLoad` clears the ring of commands, and a packet
carries `begin`. What the channel does to stale packets is part of `Receive` and `ReceiveFrame`.
`LateMoves` is whether the client's packets of a former channel may still arrive on a new one. In
`phase`, the pair of `ClientState` and `ServerClientState` is told by one name.

**`Snapshots`** is the way of a frame: `RunGameFrame` is `Sv_RunGameFrame`, `SendClientPackets`
takes one client after the other through `Sv_BuildClientFrame`, `Sv_WriteClientFrame` and
`Sv_WriteEntities`; `ParseFrame` is `Cl_ParseFrame` with `Cl_ParseEntities`; `Acknowledge` is the
frame number in `CL_CMD_MOVE`. The level starts with any set of visible entities. Two merges of sorted lists, one at each end, are recursive
functions as in the code. `built` in a packet is history: what the server had in mind. The
client's copy of each frame is kept with the frame: its own circular buffer is guarded by the
check that `Undecodable` contains.

**`ThreadPool`** has a program counter for each worker and each caller. A step is what the code
does under a mutex up to the next point where another thread can see a difference: the test of
`t->Run` without the mutex, the look at `status` without and again with it, the signal after the
unlock, the write of `status` after the unlock in `Thread_Wait`, the two unlocked steps of
`Thread_Shutdown_`. The spin lock of the pool is `lock`. A condition is the set of threads that
wait on it; a signal wakes any one of them.

**`Connection`** is the life of a connection at both ends. A client has `cls.state`, the commands
that wait in its channel's `message`, and the level it was told to load; the server has
`spawnCount`, the challenge of each address, its slots with state, address and waiting commands,
and what the game has in each slot (`gclients`: nobody, a human or a bot). Connectionless packets,
and the three that are sent once and unreliably (disconnect, drop, reconnect), are in `network`
and arrive in any order, or not at all. Reliable commands are read in order and once, which is
what `ReliableStream` promises of two ends that were set up for each other; `chan` says whether
they were. Between an end that was set up again and one that was not, a command may be lost
(`LoseCommand`). `Sv_Command` and `Cl_Command` are the conversation from `new` to `begin`, each
command with the spawn count that it carries. `Sv_RunGameFrame` is the game's bots (`G_Ai_Frame`)
followed by `Sv_SyncGameClients`; `Sv_InitServer` is a change of level, and `Sv_Restart` the end
of the server's program, with or without a word, and its next start. A timeout is a step that is
enabled whenever the other end is silent for good, or its packets are lost: then, when a packet
is asked for again before the first answer is there, and when a reconnect is lost, `late` is
set, and two of the properties say nothing about what follows. Section 7 tells what does.

**`GameClients`** is what rules, votes and flags see of a client, and what `G_ClientRespawn_`
makes of it. **`CaptureTheFlag`** is `g_ctf.c`: a flag is visible at its base or not, a bit in
inventories, and a number of dropped items, as in the code, where nothing ties these together;
each branch of `G_PickupFlag` is an action of its own. **`Vote`** is the open vote of `g_vote.c`,
**`Intermission`** the vote for the next map with the override that it leaves in the map list.
**`Game`** composes them. Its actions are the entry points: what the server calls
(`ClientConnect`, `ClientBegin`, `ClientDisconnect`), the commands of clients, what happens to
players (`Touch`, `Die`, `Respawn`), `Frame` with the five ways it can go, and `NewLevel`. Each is
the whole handler: `ClientDisconnect` tosses the flag, clears the ballots in both votes and
forgets the name that a vote is about. `step` is where `Main_Frame` is: commands of clients are
read, then the frames of the game that are due run, then the queued command is executed. When a
level is over and who touches what is left open.

**`Master`** is the list of `master/main.c` and the servers of `sv_master.c` that keep themselves
on it. A tick is the time between two heartbeats; datagrams arrive within their tick in any
order, or are lost. The three times of an entry are one `age` and the bit `challenged`, because
`lastHeartbeat` is `registered` until the server is validated. `Challenge` is what `Ms_Challenge`
may return; a fresh one differs from those that are still about, as one of 2^32 does.

**`PendingUpdate`** is the engine's files and the update staged beside them: per file, which
version is staged, in place, and parked under `.old`. `Displace` and `Place` are the two halves of
`Installer_Install`, `Restage` and `Restore` those of `Installer_Rollback`; `apply` is how far
`Installer_EachPending` is. **`GameData`** is the data directory with its manifest, what the
server offers now, the two manifests in memory, and the download threads, whose claims are steps
under the mutex and whose requests and writes are steps without it. A file's content is the
number of its version; `Torn` is a file that was opened for writing and not written. A manifest
that is being written lists any part of its lines. **`Installer`** composes them with the thread of
`Installer_Thread` (`Poll` reads the state, every case is what it does up to the next lock or
file), the main thread from `Launch` to `Exit`, the player's answers, `Cancel`, and `Crash`, which
keeps the disk and forgets the rest. Launches follow one another, and the executable in place is
the version that runs next. **`Troubles`** counts what goes wrong, each thing at a place with a
name; all of them together are bounded by `MaxTroubles`, over all launches.

`MCNetChan`, `MCNetChanDelivery` and `MCNetChanReopen` give functions as values to constants, and
`MCGame` has the symmetry of `Game` (humans among themselves, teams among themselves), and
`MCInstaller` has the releases of the data, with and without one that is taken back. The other modules have plain numbers for constants, which their cfg gives directly.

**`NetChan_proofs`**, **`Master_proofs`**, **`MoveCommands_proofs`**, **`Snapshots_proofs`**,
**`ThreadPool_proofs`**, **`Connection_proofs`**, **`Game_proofs`** and **`Installer_proofs`** extend the modules they are
named after with inductive invariants, lemmas and theorems (section 6).

Definitions with the comment "Mutant" are never used by a specification. Each is a plausible bug
in a definition that follows it: put in its place, the property that PROJECT.json names with it
is violated, which shows that the property depends on that code.

## 4. Runs, and what they show

| Run | Expected | Shows | Bounds |
|---|---|---|---|
| `NetChan` | pass | reliable data once and in order, freed when delivered, sent again when needed; refinement of `ReliableStream` | client sends 5 packets and writes 2 items, server 3 and 1 |
| `NetChanDelivery` | pass | what is written is read, and its writer learns of it | 19 packets each, 2 losses, 2 writes |
| `NetChanReopen` | violation | a packet of the former channel deafens the new one | 4 packets each, one reconnect |
| `MoveCommands` | pass | commands executed once, in order, in their level; replay and error from the right slots | `CMD_BACKUP` 3, 6 packets of the client on each of 2 channels, 2 levels |
| `Snapshots` | pass | frames decode to what was built; none is undecodable | `PACKET_BACKUP` 6, 2 entities, 7 frames, 2 changes, 1 client |
| `SnapshotsTwoClients` | violation | the shared buffer is too short for two clients | `PACKET_BACKUP` 8, 2 clients, 6 frames |
| `ThreadPool` | pass | jobs run once and are not replaced; waiters return | 2 workers, 2 callers, 3 jobs |
| `ThreadPoolShutdown` | violation | shutdown may hang | 1 worker, no job needed |
| `Connection` | pass | one slot for a client; it plays the level that runs; server and game agree on the slots; nobody is dropped for what was sent before; whoever connects plays or gets to know; slots come free | 1 client, 2 slots, 2 levels, 2 packets under way, 2 commands waiting |
| `Game` | pass | no flag lost or doubled; only players carry; only those present decide; a level ends once | 2 humans and a bot, 2 teams, 2 captures, 2 maps to vote for |
| `Master` | pass | who stays up is listed in the end, who is gone leaves, who said so stays away | 2 servers, 2 places of which 1 pending, 2 losses, 2 faults |
| `Installer` | pass | no file is current that is not on disk; an update is applied whole or not at all; a restart updates; the data is synchronised in the end | 3 data files in 2 releases, 2 download threads, 3 engine files in 2 versions, 2 troubles |

Why the bounds are enough.

* `NetChan`: two writes bring the client's bit back to 0, the one value at which old and new
  acknowledgements could be confused; five packets hold a transmission, its loss, the detection,
  a retransmission and the next write. The server's reliable item makes both directions
  interact. The proofs hold for all bounds.
* `NetChanDelivery`: each retransmission takes a round trip, and each of two losses one more;
  writes stop after the second packet (`LastWrite`), so that 20 sequence numbers are never used
  up before the last acknowledgement is back. One packet of each peer is under way (`Window`)
  and neither runs more than one packet ahead (`MaxLead`), which is the lockstep in which a
  frame reads and then sends; without it, a peer that used up its bound would fall silent, which
  the real one does not.
* `MoveCommands`: with three slots the ring is reused twice; a ring of three is the smallest the
  code's three commands fit. On each channel six packets of the client hold the one that carries
  `begin`, a gap of two or three, and the packets after it. Two levels make one change, with the
  moves, frames and acknowledgements that are under way when it begins; whatever the client sent
  on the former channel may arrive until the server sets up the new one. With `LateMoves` it
  may arrive after that, too (section 7).
* `Snapshots`: with `PACKET_BACKUP` 6 a frame may be two frames old before it is too old for a
  delta; seven frames go once round the ring. The first frame has any of the entities, and with two
  changes both can appear, disappear, change and stay; a third adds no new kind of delta.
* `ThreadPool`: two workers and three jobs make a worker busy, one idle and a job run by the
  caller; two callers compete for the lock and wait for different workers.

* `Connection`: one client is enough for every hazard of the handshake, because clients meet
  only in the choice of a slot, where the bots are its rivals: with two slots and a minimum of
  two players, bots fill both and one has to make room. Two levels make a spawn count stale. Two
  packets under way are the answer to the first request and to its repetition, or a disconnect
  and the connect that follows; a third that would exceed the bound is lost, which the network
  may do anyway. Two commands wait where a client clears one or appends to it.
* `Game`: with two humans one can vote the other out, connect while the other plays, and kill the
  other; the bot is the carrier nobody can vote for and whom a level change removes. Each team
  has an enemy flag to carry. Two captures are the one that does not yet win, and the one that
  does. A vote of two needs both (threshold 50), so that ballots that leave matter.
* `Master`: with two servers and one pending place they compete for it; a second tick tells the
  two time limits apart; two faults make a server and the master restart, or a server restart
  and the blacklist change. Four challenges are enough for a fresh one in every state.
* `Installer`: of the data files one changes, one goes and one comes, so that an entry of a
  manifest is current, pending or stale; two threads race for two pending files. The second file
  of the engine has one before it and one after it. Two troubles are a crash and a failure in the
  launch that follows, or a failure while another is undone. The second engine version makes a
  staged update stale; a third would repeat that.

`Connection` and `Installer` never stop, and are checked for deadlocks. `CHECK_DEADLOCK FALSE` in
the other configurations: these models stop when their bounds are used up, and the pool when
nobody has a job for it. `Game` stops where `CarriersAtChange` keeps a level from
changing while a human has a flag.

Three constants of `Game` choose what a run shows. `Backlog` is whether `Sv_Frame` may have more
than one frame of the game to run before the queued command is executed, `CarriersAtChange`
whether the level may change under a carrier, `AutoJoin` is `g_autoJoin`. The run has `FALSE`,
`FALSE` and `TRUE`, so that what they exclude is not covered by it; each of the other values
violates a property within seven states (section 7): `Backlog` only `LevelEndsOnce`, the other two only `OneFlagEach`. The theorems about
these two properties have the values as hypotheses; the other theorems hold with any.

In `SnapshotsTwoClients` two entities and eight frames of backup make the buffer wrap within
six frames. In the game it is 131072 states long: it wraps while a frame is still in use when
clients times visible entities times frames of lag exceeds that.

In `ThreadPool`, `WaitsForNoWait = FALSE` restricts the callers to what `thread.h` asks: nobody
waits for a `THREAD_NO_WAIT` job, and the pool is shut down when no such job is about to start.
Two places in the code do wait, and with `TRUE` TLC shows what comes of it (section 7). It is the
one hypothesis of the theorems about the pool.

In `Installer`, `TroubleSites` names what may go wrong, and `Added` the files that the engine's
second version adds. The run has all sites that the code is prepared for: a failed request
(`fetch`, `download`, `get`), a failed write or rename (`extract`, `write`, `manifest`,
`directory`, `rename`), a player who quits, and a crash anywhere but in three places. The sites
left out are `crash while applying`, `crash while extracting`, `crash while discarding`,
`pending.mf` and `rollback`; each violates one of the properties, as does an added file that is
not the last (section 7). Each theorem about the installer names those that it cannot allow
(`OrderlyUpdates`, `StageRecorded`, `OrderlyExtraction`), and holds with all others. The releases of
the run take no file back to a content that it had; neither the code nor whoever releases the data
promises that, and with `Releases <- MCReverting` TLC shows what happens otherwise (section 7).

## 5. Fairness

* `DeliverySpec`: weak fairness of sending and of receiving at each peer. Each frame of either
  program reads all packets that arrived and sends at least one packet when there is reliable
  data to send or one second passed (`Cl_SendCommands`, `Sv_SendClientPackets`, `Cl_ReadPackets`,
  `Sv_ReadPackets`). There is no fairness on writing or losing.
* `ThreadPool`: weak fairness of each thread's steps: the scheduler runs every thread that can
  run. There is none on `Create` and `Shutdown`: the program need not ask for anything. Weak
  fairness promises a mutex only to a thread that finds it free from some point on, so the
  results do not rest on a fair queue for the mutex.

* `Connection`: weak fairness for each packet to arrive or be lost, for each end to read the
  reliable commands that wait for it (which rests on `EventuallyDelivered`), for the first frame
  to arrive at a loading client, for the client's timeout when the server has no slot for it, and
  for the server's timeout when the client of a slot no longer transmits. Both programs look at
  packets and timeouts in every frame (`Cl_ReadPackets`, `Sv_ReadPackets`, `Sv_CheckTimeouts`).
  Nothing makes a user connect or a level change, and `Cl_AttemptConnect` has no fairness: the
  property begins where the handshake has succeeded.
* `Master`: weak fairness of each server's heartbeat while it is up (`Sv_Frame`), of the arrival
  of what is under way (of which `MaxLost` datagrams may be lost), and of time.
* `Installer`: weak fairness of the installer's thread, of each download thread, and of the main
  thread, which includes the player: there is an answer in the end, the player quits in the end,
  kills a program that hangs, and starts it again. Nothing makes anything go wrong, and after
  `MaxTroubles` nothing does.
* `Game` has no liveness: whether anybody wins is for the players to decide.

## 6. Proofs

`NetChan_proofs` proves, for every bound on packets and items (`BoundAssumption` only says that
sequence numbers fit in their 31 bits and is not otherwise needed):

* `TypeCorrectness`: `Spec => []TypeOK`;
* `Invariance`: `Spec => []Inv`;
* `InOrderDelivery`, `FreedBufferWasDelivered`, `RetransmissionIsNeeded`: the three safety
  properties of the run `NetChan`;
* `ImplementsStream`: `Spec => StreamSpec`.

None of the safety properties is inductive: that a reader is at a prefix of the writer's stream
says nothing of the packets that may still arrive. `Inv` adds what the code relies on.
`Accepted(p)` is whether the remote holds the bit of p's newest reliable data, which p cannot
see.

* `PacketsInThePast`: no packet has a number its sender has not used up, nor acknowledges more
  than its sender had read.
* `LiveReliable`: the only reliable packet that could still be accepted is the newest
  transmission, with the buffer as payload, and only while the remote lacks it. This is why a
  retransmission, which waits for an acknowledgement past the last one, is never read twice.
* `LiveAcknowledgements`, `AcknowledgementsMonotone`, `AcceptedNotPassed`: what acknowledgements
  under way may say. Before the remote accepted the data none of them claims it; after, an
  acknowledgement with the old bit does not reach past the reliable packet, so that it cannot
  cause a retransmission.
* `BufferMatchesAcknowledgement`: the buffer is occupied exactly while the last bit seen is not
  the newest.
* `StreamConserved`: everything written is read, in flight or waiting, in that order.

Each action preserves each part in a lemma of its own; the theorems combine them. The refinement
maps `WriteReliable` to `Write`, a `Process` that reads something to `Read`, and all else to a
stutter.

`Master_proofs` proves, for any finite set of servers, any challenges, limits and time limits:

* `TypeCorrectness`: `Spec => []TypeOK`, of which the part that is not about types is that the
  list holds at most `MaxServers` entries and at most `MaxPending` that are not validated. The
  list grows only in `Ms_Heartbeat`, and there the limits were checked (`LimitsWhenAdded`,
  `HeartbeatListOK`); everything else leaves a part of it (`LimitsOfPart`).
* `NotRelistedByOldHeartbeats`: `Spec => []NotRelisted`. That a server is not listed does not
  stay true by itself: a heartbeat under way might list it. `ClosedStayAway` adds why it does
  not. A server that told the master, and has not started since, is down, is not validated, and
  none of its heartbeats under way has the challenge that its entry has now, if it has one. Such
  a heartbeat can only register the server again, with a fresh challenge, which differs from what
  the server knows and from whatever is under way.

`MoveCommands_proofs` proves, for a ring of any length of at least three and for any number of
packets and levels:

* `TypeCorrectness`, without further hypotheses;
* if no packet of the client arrives on a later channel than its own (`~ LateMoves`):
  `Invariance`: `Spec => []Inv`; `CommandsRunInOrder`: `Spec => []ExecutedOnceInOrder`;
  `LevelsStartAfresh`: `Spec => []NothingFromFormerLevel`; `TwoLossesAreMadeUpFor`:
  `Spec => []LostOnlyAfterThree`; `ReplaysWhatWasSent`: `Spec => []PredictsFromFrame`.

The hypothesis is about the network and nothing in the code sees to it: both ends of a new channel
start again at sequence number 1. `LevelsStartAfresh` does not hold without it
(section 7); with it, the theorem is about what arrives before the server has its new
channel, and about the ring, which outlives the channel until `Cl_ClearState`.

The packets, the ring and the server each know something that the others rely on, so `Inv` has a
part for each. `RingInv`: a slot of the ring is zeroed or has a command of this level whose number
is less than a ring behind, in the slot of that number; this is why two commands in one slot are
one command (`SlotsDiffer`, the one place where arithmetic modulo `CMD_BACKUP` is needed).
`NetworkInv`: a packet has its own command and the two before it, or zeroed commands where a level
began; the packets after it repeat its command as long as the code says; and a move is under way
only while its level is played or left. `ServerInv`: what was executed is increasing, and between
the opening of the channel and the last packet accepted. `ClientInv`: what is acknowledged was
accepted. A step of the induction that fails without these
is the server's, which takes three commands from a packet after a gap: only `NetworkInv` says that
the two that it repeats are the ones that were lost.

`Snapshots_proofs` proves, for any numbers of clients, entities, frames of backup, packets and
changes:

* `TypeCorrectness`, without hypotheses;
* `ParseWritten`: `ParseEntities(from, WriteEntities(from, to)) = to` for any two lists of states
  in the order of their numbers;
* `DecodesWhenFewVisible` and `DecodableWhenFewVisible`: `Spec /\ []FewVisible` implies
  `[]DecodesWhatWasBuilt` and `[]NeverUndecodable`;
* `OneClientDecodes`: with one client `Spec` alone implies both.

The two merges recur on pairs of positions, and the loop that builds a frame on the number of the
entity. Of a recursive function TLA+ says only that it is some solution of its equation, so the
first lemmas show that a recursion whose measure descends has a solution (`RecursionDefined`, from
`LeastNumber` and `MeasureInduction`; here the measure is what is left of both lists). At each pair
exactly one arm of each merge applies, and by induction on the measure what the parse has left to
read is what the write has left to say.

`FrameInv` is the inductive invariant. `FramesIntact` compares positions in the shared buffer: at
most `MAX_ENTITIES` states were added for every `MaxClients` frames that were built since, so that a
frame in the backup is not overwritten. `ClientFramesMatch` says that a client's frame is what was
built, and still what the server's copy holds; `MessagesMatch` that the frame from which a message
takes its difference is still with the client when the message is read, because what arrives before
it is less than `PACKET_BACKUP` newer; `LastFrameHeld` the same of the acknowledged frame.

`FewVisible` (`MaxClients * Len(Built) <= MAX_ENTITIES`) is what the length of the buffer, which
does not count the clients, requires; with one client it always holds. `SnapshotsTwoClients` shows
a frame decoded wrongly without it. The theorems also have the hypothesis
`PACKET_BACKUP <= 4 * MAX_ENTITIES`, since `Cl_ParseFrame` rejects a frame whose states are older than
`ENTITY_STATE_BACKUP - PACKET_BACKUP`, and the server takes differences from frames that are up to
`PACKET_BACKUP - 4` old. In the code the numbers are 128 and 1024.

`ThreadPool_proofs` proves, for any numbers of workers, callers and jobs, when callers wait only
for jobs that are to be waited for (`~ WaitsForNoWait`):

* `TypeCorrectness`; `JobsRunOnce`: `Spec => []RanOnceWhenWaited`;
* `WaitersFindJobsDone`: `Spec => []WaitAssertion`.

Worker and waiter both write `status`, with and without the mutex, so that neither property says
by itself why it stays true. `Inv` adds who holds what (`HoldInv`: the pool's lock from the search
for a worker to its dispatch, a worker's mutex while its job runs), what a status says (`JobInv`:
`RUNNING` belongs to a job that has not run or runs now, other states to one that has), that of the
threads that have yet to wait for a worker there is only one, which is why nobody is woken by the
end of another's job (`HandleInv`), who sleeps (`SleepInv`), and that nobody uses the pool when it
is shut down (`QuitInv`). Without the hypothesis a second job may take the worker that is waited
for, and both theorems fail (section 7).

`Connection_proofs` proves, for any numbers of clients, slots, levels, packets and commands,
without further hypotheses:

* `TypeCorrectness`: `Spec => []TypeOK`, in which every packet and command is one that a program
  sends and the spawn counts in it are of levels that were loaded;
* `OneSlotEach`: `Spec => []OneSlotPerClient`;
* `SeatsAlwaysAgree`: `Spec => []SeatsAgree`;
* `InTheLevelThatRuns`: `Spec => []PlaysLoadedLevel`;
* `NeverDroppedInTheGame`: `Spec => []NotDroppedWhilePlaying`.

The first three are inductive together. A slot is chosen as the one that the address had, or as the least
that is free or has a bot, and what the game has in a slot follows: bots that make room and fill up
are two loops in the code, here one step each on sets of slots. `LeastIsOne`, that a set of numbers
with a member has a least one, is the induction that this takes.

That a client plays the level that runs is not inductive, because what makes it true waits in the
queues: the server takes a client into the game for a begin that names the level, and that begin
was written several commands before, perhaps in a conversation that either end has since started
again or lost a part of. `Conversation` says which commands may wait in the two queues of a client
and of its slot at the same time. All that one queue asks or answers about the contents of a level
is about one level, and what the server says of levels comes in their order (`QueueOrdered`,
`RepliesOrdered`); between the queues (`Matching`) what is asked is about the level of what is
answered; and once the server has the client in the game, every precache it has yet to read is of
the level that runs (`InLevel`). What keeps queues that lose commands from mixing levels is that
serverData clears what the client had to say (`Cl_ClearState`), so that a new and a configStrings
only ever come first, and that the server answers a command of a former level with nothing but
serverData. Nothing is said of how the channel was set up, or of `late`: the theorem holds whatever
is lost, repeated or started again. `ServerReads` and `ClientReads` are the steps of the
conversation, about sequences alone; `ClientAlone`, `ServerAlone` and `BothEnds` carry them over to
the states.

`Handshakes` says, as long as no packet was answered twice (`~ late`, which is part of the property
and no hypothesis), that a client has one packet of its handshake under way at most and none when it
is connected, that the slot of a clientConnect that has yet to arrive is as it was set up, and
that of the two queues together one command waits at most, none once the server has the client in
the game. So no new or begin can arrive from a client that plays. It is inductive with the types and
with `OneSlotPerClient`, without which a second slot of the address would have a conversation of its
own.

`Game_proofs` proves, for any finite set of clients and any teams, maps and limits:

* `TypeCorrectness` and `Invariance`; `CarriersPlay`: `Spec => []CarrierPlays`;
  `OnlyPresentDecide`: `Spec => []VotesOfPresent`;
* `NoFlagTwice`: no flag is in two places, if no level changes while a human has a flag
  (`~ CarriersAtChange`);
* `FlagsAreOne`: `Spec => []OneFlagEach`, if also `AutoJoin`;
* `LevelsEndOnce`: `Spec => []LevelEndsOnce`, if one frame of the game runs at a time
  (`~ Backlog`).

What carries a flag is a bit in an inventory, and every handler that takes a player out of the
game has to clear it, through hooks of other modules. `PlayInv` says for each status of a client
whether there may be a bit; it is inductive by itself. `FlagsOnce` counts for each flag the base,
the carriers and the dropped items without counting: at most one carrier, at most one item, and no
two of the three. It needs that a client that connects again brings no flag (`NothingKept`), which
is what a change of level under a carrier breaks. `FlagsPresent`, that one of the three is there,
fails also when a carrier that connects again is no player any more, hence `AutoJoin`. `LevelInv`
and `EndsOnce` tie the level's end, its intermission and the vote for the next map together. Each
hypothesis is necessary: section 7 has what TLC finds without it.

`Installer_proofs` proves, for any files, versions, numbers of download threads and of
troubles:

* `TypeCorrectness`, without hypotheses;
* `UpdateInvariance` and `UpdatesAreWhole`: `Spec => []AllOrNothing`, if there is no crash while
  an update is applied or discarded, no renaming back that fails, and a file that is added is the
  last (`OrderlyUpdates`);
* `RestartsUpdate`: `Spec => []RestartUpdates`, if `pending.mf` can be written too
  (`StageRecorded`);
* `DataInvariance` and `CurrentFilesAreInstalled`: `Spec => []SkipsOnlyInstalled`, if there is no
  crash while the archive is extracted (`OrderlyExtraction`) and no release takes a file back to
  a content that it had before another (`NeverReverted`).

`ControlInv` says in which of its states the installer's thread can be at each of its points, with
`CANCELLED` at all of them, since anybody may cancel at any time. `EngineInv` has the files of the
engine: all in place and of one version, except while an update is applied, where `ApplyingInv`
says for each phase which files are untried, parked and replaced, relative to the one that is dealt
with. `DataInv` is about what a file's entry in a manifest says of the file on disk: it is there as
listed, or the entry is out of date and no release will make it current again (`InPlace`,
`Outdated`). The second of these is what `NeverReverted` gives (`NeverAgain`), and nothing else does:
a download is not compared with the hash that the manifest has for it, so that a manifest may list
one release's content of a file that has another's. A rolled-back release makes such a manifest
current again, with the wrong file (section 7).
`ComparisonInv` and `DownloadInv` carry this from the comparison to the threads' claims, requests
and writes, in which a new release may come between any two steps, and to the manifest that is
written in the end. All other troubles, crashes among them, are allowed wherever they can happen.

The runs check the properties, not the invariants that the proofs add, but for the two parts of
`Inv` that are properties themselves.

Assumptions. Every constant has the assumptions that the module declaring it names, and they say
no more than the code does: sets of clients, servers and files are finite and not empty, a ring of
commands has room for the three commands of a packet, a release has a content for each file. Model
checking evaluates them. What the code does not give is a hypothesis of the theorems that need it,
under the name that this section uses: `LateMoves`, `FewVisible`, `WaitsForNoWait`,
`CarriersAtChange`, `AutoJoin`, `Backlog`, `OrderlyUpdates`, `StageRecorded`, `OrderlyExtraction`,
`NeverReverted`.

Only model-checked. Every invariant and every action property that a passing run checks is a
theorem, some under the hypotheses named above. What is left to TLC is liveness
(`EventuallyDelivered`, `EventuallyRun`, `EventuallyReturns`, `EventuallyPlays`,
`EventuallyReclaimed`, `EventuallyListed`, `EventuallyRemoved`, `EventuallySynced`), which is out
of the provers' reach.

## 7. What the runs found

PROJECT.json, "findings", has the details.

* A channel that is set up again accepts a packet of its predecessor and goes deaf
  (`NetChanReopen`).
* `svs.entityStates` has the length one client needs, for all clients (`SnapshotsTwoClients`).
* `Thread_Shutdown` can lose its wakeup and hang (`ThreadPoolShutdown`).

The next ones are what the passing runs exclude by a constant or by a premise, so that they do not
cover it; each says what to change for TLC to find them.

* A move of the former level that arrives after the client has begun the next one is executed
  there (`MoveCommands` with `LateMoves = TRUE`).
* `Thread_Wait` on a `THREAD_NO_WAIT` job fails its assertion (`ThreadPool` with `WaitsForNoWait =
  TRUE`).
* Further frames of the game after the one that ends an intermission end the level again and
  read results that were released (`Game` with `Backlog = TRUE`).
* A change of level under a carrier makes a second flag in the new level (`Game` with
  `CarriersAtChange = TRUE`: the flag is at its base and still in the inventory), and a carrier that
  connects again without a disconnect takes the flag along into nothing (`AutoJoin = FALSE`).
* A client whose reconnect packet is lost stays in the old level for ever (`Lose` in
  `Connection` without the disjunct that sets `late`).
* A handshake that takes more than a second is answered twice, which drops a client that plays,
  or leaves it with a channel that is set up at one end (`NotDroppedWhilePlaying` without
  `~late`).
* When a release of the data is taken back, a file that was downloaded while it was offered, by an
  installer that had fetched the manifest of the former one, or the other way round, passes for
  current for ever (`Installer` with `Releases <- MCReverting`).
* A player who quits while the installer looks for a release makes the program hang (`Installer`
  with the invariant `CancelStops`).
* A failed update leaves a file that it added in place, and cannot be tried again (`Installer`
  with `Added = {2}`); a crash while a staged update is discarded has the same effect (`crash
  while discarding`).
* A crash while the data archive is extracted leaves a manifest that vouches for files that were
  never written (`crash while extracting`).
* When `pending.mf` cannot be written, the restart lands in the version that was left
  (`pending.mf`).
* A crash between the renames of an update, or a rename back that fails, leaves an installation of
  two versions (`crash while applying`, `rollback`). No comment promises otherwise; a journal
  would be needed.

Two comments disagree with the code: of `G_ClientConnect` (every change of level calls it) and
of `reconnect` (the command forgets the address before it uses it).

## 8. What is not modelled, and why

* Of connections: the batches within config strings and baselines (one command each), downloads
  of missing media, user info, demo servers, a server in the client's own process, the ticks
  behind timeouts. Of the game: cooldowns, mutes and the votes that set variables, the warm-up and
  rounds of other modules, which team is smallest, and why a player dies. Of the master: the
  answers to clients, what servers tell of themselves, the webhook.
* Of the other modelled components: the unreliable part of packets in `NetChan`, address and qport
  matching (except that both stay the same in `NetChanReopen`), overflow of `message` (the program
  ends), `Cl_ClearState`'s withdrawal of unsent reliable data (but `Connection` has it), sequence numbers beyond 31 bits;
  the duration of commands and its check against cheating; the fields of entity and player
  states, baselines (an entity that is new in a frame is written whole), the latency samples;
  spurious wakeups of conditions (`Thread_Wait` has no loop and would fail its assertion), and
  `Thread_Init` while jobs run.
* Of a change of level: `MoveCommands` has it only while the client plays (`Connection` has it at any
  time), and of what may be late on a new channel only the client's moves (`NetChanReopen` has
  what any late packet does to a channel). Reliable delivery and the repetition of commands
  are about one channel; `Snapshots` is about one channel and one level.
* Geometry, physics, weapons, AI: floating point and randomness, out of a model checker's reach.
* Renderer, sound, user interface: presentation.
* Of the installer: macOS, where the whole bundle is one rename; Windows, where displaced files
  are swept at the next launch; installations that a package manager owns, in which no engine
  update is offered, and starts without a version, which skip all of it; a dedicated server, which
  declines every question, as a player may.
  Also the errors that the code does not look at when it writes: `fprintf` and `fclose` of
  `pending.tmp` in `Installer_WritePending`, whose file is renamed in any case, and `fclose` of a
  downloaded file; so that a `pending.mf` that lists only some files, or none, is not modelled, nor
  that `Installer_ApplyPending` discards one without its first two lines or without files.
* Files, archives, downloads by HTTP to clients, demos: input and output; their state machines
  are small.
* Console and variables: sequential text processing, reached by unit tests.
* The race module, the map list's order and voice: small, sequential, and with unit tests or
  within their reach.
