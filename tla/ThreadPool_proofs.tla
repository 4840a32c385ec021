-------------------------- MODULE ThreadPool_proofs --------------------------
(***************************************************************************)
(* Proofs about the thread pool, for any number of workers, callers and    *)
(* jobs: every job runs at most once and is done when Thread_Wait returns, *)
(* and whoever is woken in Thread_Wait finds it done.                      *)
(*                                                                         *)
(* A worker's status is written by both sides, with and without its mutex. *)
(* What keeps them apart is who holds what (HoldInv), that a status of     *)
(* RUNNING belongs to one job that the worker has yet to run or runs now   *)
(* (JobInv), and that whoever has yet to wait for a worker is the only one *)
(* (HandleInv).                                                            *)
(***************************************************************************)
EXTENDS ThreadPool, TLAPS

\* Where workers and callers can be: inside a lock, in Thread_Shutdown or elsewhere.
WorkerPoints == {"test", "lock", "run", "unlock", "asleep", "exited"}
LockedPoints == {"look", "dispatch", "signal"}
ShutdownPoints == {"terminate", "signalEnd", "join", "stopped"}
CallerPoints == {"ready", "asleep", "release"} \cup LockedPoints \cup ShutdownPoints
Points == WorkerPoints \cup CallerPoints
Thread == Worker \cup Caller

\* Where threads can be, and that who deals with a worker deals with one there is.
PcInv ==
  /\ pc \in [Thread -> Points]
  /\ \A w \in Worker : pc[w] \in WorkerPoints
  /\ \A c \in Caller :
       /\ pc[c] \in CallerPoints
       /\ pc[c] \in ShutdownPoints => c = main /\ quitting
       /\ pc[c] \in {"dispatch", "signal", "asleep", "release"} \cup ShutdownPoints =>
            thread[c] \in Worker

\* Who holds what: the lock of the pool while a job is created, the mutex of a worker while
\* its job runs.
HoldInv ==
  /\ \A c \in Caller : (lock = c) <=> (pc[c] \in LockedPoints)
  /\ \A w \in Worker : (w \in mutex) <=> (pc[w] \in {"run", "unlock"})
  /\ \A c \in Caller : pc[c] \in {"look", "dispatch"} => created < MaxJobs

\* What the status of a worker says about its job.
JobInv ==
  /\ \A j \in Job : runs[j] \in {0, 1} /\ (j > created => runs[j] = 0)
  /\ \A w \in Worker : Run[w] \in 0 .. created \/ (quitting /\ Run[w] = threadTerminate)
  /\ \A w \in Worker : status[w] = "RUNNING" =>
       /\ Run[w] \in 1 .. created
       /\ pc[w] # "unlock"
       /\ pc[w] = "run" => runs[Run[w]] = 1
       /\ pc[w] # "run" => runs[Run[w]] = 0
  /\ \A w \in Worker : status[w] # "RUNNING" =>
       /\ pc[w] # "run"
       /\ Run[w] \in {0, threadTerminate} \/ runs[Run[w]] = 1
  /\ \A w, v \in Worker : Run[w] \in Job /\ Run[w] = Run[v] => w = v
  /\ \A j \in waited : runs[j] = 1

\* Whoever has to wait for a worker is the only one, and the job is the worker's.
HandleInv ==
  /\ \A c \in Caller : \A h \in handles[c] :
       Run[h[1]] = h[2] /\ ~ noWait[h[1]] /\ status[h[1]] # "IDLE"
  /\ \A c, d \in Caller : \A h \in handles[c], k \in handles[d] :
       k[1] = h[1] => c = d /\ k = h
  /\ \A c \in Caller :
       /\ pc[c] = "signal" => noWait[thread[c]] \/ \E h \in handles[c] : h[1] = thread[c]
       /\ pc[c] = "asleep" => \E h \in handles[c] : h[1] = thread[c]
       /\ pc[c] = "release" /\ ~ quitting =>
            status[thread[c]] = "WAITING" /\ \E h \in handles[c] : h[1] = thread[c]

\* Who sleeps, and that nobody is woken too early.
SleepInv ==
  /\ \A c \in Caller, w \in Worker : c \in cond[w] => pc[c] = "asleep" /\ thread[c] = w
  /\ \A c \in Caller : pc[c] = "asleep" /\ c \notin cond[thread[c]] => status[thread[c]] = "WAITING"

\* When the pool is shut down, nobody uses it.
QuitInv ==
  quitting =>
    /\ \A c \in Caller \ {main} : pc[c] = "ready"
    /\ \A c \in Caller : handles[c] = {}
    /\ \A w \in Worker : status[w] # "RUNNING"
    /\ pc[main] \in {"release"} \cup ShutdownPoints

\* The inductive invariant.
Inv == TypeOK /\ PcInv /\ HoldInv /\ JobInv /\ HandleInv /\ SleepInv /\ QuitInv

-------------------------------------------------------------------------------

\* Workers and callers are different threads.
LEMMA ThreadFacts ==
  Worker \cap Caller = {} /\ main \in Caller /\ 0 \notin Caller /\ 1 \in Worker
  BY PoolAssumption DEF Worker, Caller, main

\* Workers have the numbers that a caller may remember.
LEMMA ThreadRange ==
  /\ Worker \subseteq 1 .. NumThreads + 1
  /\ 1 .. NumThreads + 1 \subseteq Worker \cup {NumThreads + 1}
  BY PoolAssumption DEF Worker

\* After a worker comes the next, but for the last.
LEMMA NextWorker ==
  ASSUME NEW w \in Worker
  PROVE  w + 1 \in 1 .. NumThreads + 1 /\ (w # NumThreads => w + 1 \in Worker)
  BY PoolAssumption DEF Worker

\* The jobs have numbers, and threadTerminate is none of them.
LEMMA JobFacts ==
  /\ MaxJobs \in Nat /\ threadTerminate \in Nat /\ threadTerminate \notin Job /\ 0 \notin Job
  /\ Job \subseteq 0 .. threadTerminate /\ Job \subseteq Nat
  BY PoolAssumption DEF Job, threadTerminate

\* The jobs that were created, and the next.
LEMMA CreatedFacts ==
  ASSUME created \in 0 .. MaxJobs
  PROVE  /\ 1 .. created \subseteq Job /\ 0 .. created \subseteq Int
         /\ 0 .. created \subseteq 0 .. threadTerminate /\ created # threadTerminate
         /\ created < MaxJobs =>
              /\ created + 1 \in Job /\ created + 1 \in 0 .. MaxJobs
              /\ created + 1 \notin {0, threadTerminate}
  BY PoolAssumption DEF Job, threadTerminate

\* The invariant holds at the start.
LEMMA Initially ==
  ASSUME Init
  PROVE  Inv
<1> USE ThreadFacts, JobFacts DEF Init
<1>1. TypeOK
  <2>1. 0 \in 0 .. threadTerminate /\ 0 \in 0 .. MaxJobs /\ 1 \in 1 .. NumThreads + 1
        /\ 0 \in 0 .. 2
    BY PoolAssumption DEF threadTerminate
  <2> QED
    BY <2>1, ZenonT(60) DEF TypeOK
<1>2. PcInv /\ HoldInv
  BY DEF PcInv, HoldInv, Thread, Points, WorkerPoints, CallerPoints, LockedPoints, ShutdownPoints
<1>3. JobInv /\ HandleInv /\ SleepInv /\ QuitInv
  BY DEF JobInv, HandleInv, SleepInv, QuitInv, Job
<1> QED
  BY <1>1, <1>2, <1>3 DEF Inv

\* A worker goes somewhere, and everybody else stays where they are.
LEMMA WorkerGoes ==
  ASSUME PcInv, NEW w \in Worker, NEW where \in WorkerPoints, GoTo(w, where)
  PROVE  /\ pc' \in [Thread -> Points] /\ pc'[w] = where
         /\ \A v \in Worker : v # w => pc'[v] = pc[v]
         /\ \A c \in Caller : pc'[c] = pc[c]
  BY ThreadFacts DEF PcInv, GoTo, Thread, Points

\* A caller goes somewhere, and everybody else stays where they are.
LEMMA CallerGoes ==
  ASSUME PcInv, NEW c \in Caller, NEW where \in CallerPoints, GoTo(c, where)
  PROVE  /\ pc' \in [Thread -> Points] /\ pc'[c] = where
         /\ \A d \in Caller : d # c => pc'[d] = pc[d]
         /\ \A w \in Worker : pc'[w] = pc[w]
  BY ThreadFacts DEF PcInv, GoTo, Thread, Points

\* Testing the end, awake or not, changes nothing for anybody else.
LEMMA TestStep ==
  ASSUME Inv, NEW w \in Worker, Test(w)
  PROVE  Inv'
<1> USE DEF Inv
<1>1. /\ pc' \in [Thread -> Points] /\ pc'[w] \in {"exited", "lock"} /\ pc[w] = "test"
      /\ \A v \in Worker : v # w => pc'[v] = pc[v]
      /\ \A c \in Caller : pc'[c] = pc[c]
      /\ UNCHANGED <<status, noWait, Run, mutex, cond, lock, thread, handles, quitting, created, waited, runs>>
  BY WorkerGoes DEF Test, WorkerPoints, poolVars, callerVars
<1>2. TypeOK'
  BY <1>1 DEF TypeOK
<1>3. PcInv'
  BY <1>1 DEF PcInv, WorkerPoints, CallerPoints, LockedPoints, ShutdownPoints
<1>4. HoldInv'
  BY <1>1 DEF HoldInv, LockedPoints
<1>5. JobInv'
  BY <1>1 DEF JobInv
<1>6. HandleInv'
  BY <1>1 DEF HandleInv
<1>7. SleepInv'
  BY <1>1 DEF SleepInv
<1>8. QuitInv'
  BY ThreadFacts, <1>1 DEF QuitInv, ShutdownPoints
<1> QED
  BY <1>2, <1>3, <1>4, <1>5, <1>6, <1>7, <1>8 DEF Inv

\* A job starts, or the worker goes to sleep.
LEMMA StartJobStep ==
  ASSUME Inv, NEW w \in Worker, StartJob(w)
  PROVE  Inv'
<1> USE DEF Inv
<1>0. UNCHANGED <<status, noWait, Run, lock, thread, handles, quitting, created, waited>>
  BY DEF StartJob, callerVars
<1>a. CASE status[w] = "RUNNING"
  <2>1. /\ pc' \in [Thread -> Points] /\ pc'[w] = "run" /\ pc[w] = "lock"
        /\ \A v \in Worker : v # w => pc'[v] = pc[v]
        /\ \A c \in Caller : pc'[c] = pc[c]
        /\ mutex' = mutex \cup {w} /\ UNCHANGED cond
    BY <1>a, WorkerGoes DEF StartJob, WorkerPoints
  <2>2. /\ Run[w] \in Job /\ runs[Run[w]] = 0
        /\ runs' = [runs EXCEPT ![Run[w]] = 1]
    BY JobFacts, CreatedFacts, <1>a, <2>1 DEF StartJob, JobInv, TypeOK
  <2>3. /\ runs'[Run[w]] = 1 /\ \A j \in Job : j # Run[w] => runs'[j] = runs[j]
        /\ runs' \in [Job -> 0 .. 2]
    BY <2>2 DEF TypeOK
  <2>4. TypeOK'
    BY <1>0, <2>1, <2>3 DEF TypeOK
  <2>5. PcInv'
    BY <1>0, <2>1, <2>3 DEF PcInv, WorkerPoints, CallerPoints, LockedPoints, ShutdownPoints
  <2>6. HoldInv'
    BY <1>0, <2>1, <2>3 DEF HoldInv, LockedPoints
  <2>7. JobInv'
    <3>1. \A v \in Worker : v # w => Run[v] # Run[w]
      BY <2>2 DEF JobInv
    <3>2. \A j \in waited : j # Run[w]
      BY <2>2 DEF JobInv
    <3>3. \A v \in Worker : Run[v] \in Job \/ Run[v] \in {0, threadTerminate}
      BY JobFacts, CreatedFacts DEF JobInv, TypeOK
    <3>4. \A j \in Job : runs'[j] \in {0, 1} /\ (j > created' => runs'[j] = 0)
      BY <1>0, <2>1, <2>2, <2>3, <1>a DEF JobInv, TypeOK
    <3>5. \A v \in Worker : v # w => runs'[Run'[v]] = runs[Run[v]] \/ Run[v] \in {0, threadTerminate}
      BY <1>0, <2>3, <3>1, <3>3
    <3>6. \A j \in waited' : runs'[j] = 1
      BY <1>0, <2>3, <3>2 DEF JobInv, TypeOK
    <3>7. status'[w] = "RUNNING" /\ Run'[w] \in 1 .. created' /\ runs'[Run'[w]] = 1
      BY <1>0, <2>3, <1>a DEF JobInv
    <3>8. ASSUME NEW v \in Worker, status'[v] = "RUNNING"
          PROVE  /\ Run'[v] \in 1 .. created' /\ pc'[v] # "unlock"
                 /\ pc'[v] = "run" => runs'[Run'[v]] = 1
                 /\ pc'[v] # "run" => runs'[Run'[v]] = 0
      <4>1. CASE v = w
        BY <4>1, <3>7, <2>1
      <4>2. CASE v # w
        <5>1. status[v] = "RUNNING" /\ Run[v] \notin {0, threadTerminate}
          BY JobFacts, CreatedFacts, <1>0, <3>8 DEF JobInv, TypeOK
        <5>2. runs'[Run'[v]] = runs[Run[v]] /\ pc'[v] = pc[v] /\ Run'[v] = Run[v]
          BY <4>2, <5>1, <3>5, <1>0, <2>1
        <5> QED
          BY <5>1, <5>2, <1>0 DEF JobInv
      <4> QED
        BY <4>1, <4>2
    <3>9. ASSUME NEW v \in Worker, status'[v] # "RUNNING"
          PROVE  pc'[v] # "run" /\ (Run'[v] \in {0, threadTerminate} \/ runs'[Run'[v]] = 1)
      BY <3>9, <3>5, <3>7, <1>0, <2>1 DEF JobInv
    <3> QED
      BY <1>0, <3>4, <3>6, <3>8, <3>9 DEF JobInv
  <2>8. HandleInv'
    BY <1>0, <2>1, <2>3 DEF HandleInv
  <2>9. SleepInv'
    BY <1>0, <2>1, <2>3 DEF SleepInv
  <2>10. QuitInv'
    BY ThreadFacts, <1>0, <2>1, <2>3 DEF QuitInv, ShutdownPoints
  <2> QED
    BY <2>4, <2>5, <2>6, <2>7, <2>8, <2>9, <2>10 DEF Inv
<1>b. CASE status[w] # "RUNNING"
  <2>1. /\ pc' \in [Thread -> Points] /\ pc'[w] = "asleep" /\ pc[w] = "lock"
        /\ \A v \in Worker : v # w => pc'[v] = pc[v]
        /\ \A c \in Caller : pc'[c] = pc[c]
        /\ cond' = [cond EXCEPT ![w] = @ \cup {w}] /\ UNCHANGED <<mutex, runs>>
    BY <1>b, WorkerGoes DEF StartJob, Sleep, WorkerPoints
  <2>2. /\ cond' \in [Worker -> SUBSET (Worker \cup Caller)]
        /\ cond'[w] = cond[w] \cup {w} /\ \A v \in Worker : v # w => cond'[v] = cond[v]
    BY <2>1 DEF TypeOK
  <2>4. TypeOK'
    BY <1>0, <2>1, <2>2 DEF TypeOK
  <2>5. PcInv'
    BY <1>0, <2>1, <2>2 DEF PcInv, WorkerPoints, CallerPoints, LockedPoints, ShutdownPoints
  <2>6. HoldInv'
    BY <1>0, <2>1, <2>2 DEF HoldInv, LockedPoints
  <2>7. JobInv'
    BY <1>0, <2>1, <2>2 DEF JobInv
  <2>8. HandleInv'
    BY <1>0, <2>1, <2>2 DEF HandleInv
  <2>9. SleepInv'
    BY <1>0, <2>1, <2>2 DEF SleepInv
  <2>10. QuitInv'
    BY ThreadFacts, <1>0, <2>1, <2>2 DEF QuitInv, ShutdownPoints
  <2> QED
    BY <2>4, <2>5, <2>6, <2>7, <2>8, <2>9, <2>10 DEF Inv
<1> QED
  BY <1>a, <1>b

\* The job is done: its worker is free, or somebody waits for it.
LEMMA EndJobStep ==
  ASSUME Inv, NEW w \in Worker, EndJob(w)
  PROVE  Inv'
<1> USE DEF Inv
<1>1. /\ pc' \in [Thread -> Points] /\ pc'[w] = "unlock" /\ pc[w] = "run"
      /\ \A v \in Worker : v # w => pc'[v] = pc[v]
      /\ \A c \in Caller : pc'[c] = pc[c]
      /\ UNCHANGED <<noWait, Run, mutex, lock, thread, handles, quitting, created, waited, runs>>
  BY WorkerGoes DEF EndJob, EndJobAs, WorkerPoints, callerVars
<1>2. /\ status' \in [Worker -> {"IDLE", "RUNNING", "WAITING"}]
      /\ status'[w] = IF noWait[w] THEN "IDLE" ELSE "WAITING"
      /\ \A v \in Worker : v # w => status'[v] = status[v]
  BY DEF EndJob, EndJobAs, TypeOK
<1>3. /\ cond' \in [Worker -> SUBSET (Worker \cup Caller)]
      /\ cond'[w] \subseteq cond[w]
      /\ \A v \in Worker : v # w => cond'[v] = cond[v]
  BY DEF EndJob, Signal, TypeOK
<1>4. status[w] = "RUNNING" /\ runs[Run[w]] = 1
  BY <1>1 DEF JobInv
<1>5. TypeOK'
  BY <1>1, <1>2, <1>3, <1>4 DEF TypeOK
<1>6. PcInv'
  BY <1>1, <1>2, <1>3, <1>4 DEF PcInv, WorkerPoints, CallerPoints, LockedPoints, ShutdownPoints
<1>7. HoldInv'
  BY <1>1, <1>2, <1>3, <1>4 DEF HoldInv, LockedPoints
<1>8. JobInv'
  BY <1>1, <1>2, <1>3, <1>4 DEF JobInv
<1>9. HandleInv'
  <2>1. ASSUME NEW c \in Caller, NEW h \in handles[c]
        PROVE  status'[h[1]] # "IDLE"
    <3>1. h[1] \in Worker /\ status[h[1]] # "IDLE" /\ ~ noWait[h[1]]
      BY DEF HandleInv, TypeOK
    <3> QED
      BY <3>1, <1>2
  <2>2. ASSUME NEW c \in Caller, pc[c] = "release", ~ quitting
        PROVE  status'[thread[c]] = "WAITING"
    BY <2>2, <1>2, <1>4 DEF HandleInv, PcInv
  <2>3. ASSUME NEW c \in Caller, NEW h \in handles'[c]
        PROVE  /\ Run'[h[1]] = h[2] /\ ~ noWait'[h[1]] /\ status'[h[1]] # "IDLE"
               /\ \A d \in Caller : \A k \in handles'[d] : k[1] = h[1] => c = d /\ k = h
    <3>1. h \in handles[c] /\ status'[h[1]] # "IDLE"
      BY <1>1, <2>1
    <3> QED
      BY <1>1, <3>1 DEF HandleInv
  <2>4. ASSUME NEW c \in Caller
        PROVE  /\ pc'[c] = "signal" =>
                    noWait'[thread'[c]] \/ \E h \in handles'[c] : h[1] = thread'[c]
               /\ pc'[c] = "asleep" => \E h \in handles'[c] : h[1] = thread'[c]
               /\ pc'[c] = "release" /\ ~ quitting' =>
                    status'[thread'[c]] = "WAITING" /\ \E h \in handles'[c] : h[1] = thread'[c]
    BY <1>1, <2>2 DEF HandleInv
  <2> QED
    BY <2>3, <2>4 DEF HandleInv
<1>10. SleepInv'
  <2>1. ASSUME NEW c \in Caller, pc[c] = "asleep", thread[c] = w
        PROVE  ~ noWait[w]
    BY <2>1 DEF HandleInv
  <2>2. \A d \in Caller, v \in Worker : d \in cond'[v] => pc'[d] = "asleep" /\ thread'[d] = v
    BY <1>1, <1>3 DEF SleepInv
  <2>3. ASSUME NEW c \in Caller, pc'[c] = "asleep", c \notin cond'[thread'[c]]
        PROVE  status'[thread'[c]] = "WAITING"
    <3>1. pc[c] = "asleep" /\ thread[c] \in Worker /\ thread'[c] = thread[c]
      BY <2>3, <1>1 DEF PcInv
    <3>2. CASE thread[c] = w
      BY <3>1, <3>2, <2>1, <1>2
    <3>3. CASE thread[c] # w
      <4>1. cond'[thread[c]] = cond[thread[c]] /\ status'[thread[c]] = status[thread[c]]
        BY <3>1, <3>3, <1>2, <1>3
      <4> QED
        BY <3>1, <4>1, <2>3 DEF SleepInv
    <3> QED
      BY <3>2, <3>3
  <2> QED
    BY <2>2, <2>3 DEF SleepInv
<1>11. QuitInv'
  BY <1>1, <1>2, <1>3, <1>4 DEF QuitInv, ShutdownPoints
<1> QED
  BY <1>5, <1>6, <1>7, <1>8, <1>9, <1>10, <1>11 DEF Inv

\* The worker lets go of its mutex.
LEMMA UnlockWorkerStep ==
  ASSUME Inv, NEW w \in Worker, UnlockWorker(w)
  PROVE  Inv'
<1> USE DEF Inv
<1>1. /\ pc' \in [Thread -> Points] /\ pc'[w] = "test" /\ pc[w] = "unlock"
      /\ \A v \in Worker : v # w => pc'[v] = pc[v]
      /\ \A c \in Caller : pc'[c] = pc[c]
      /\ mutex' = mutex \ {w}
      /\ UNCHANGED <<status, noWait, Run, cond, lock, thread, handles, quitting, created, waited, runs>>
  BY WorkerGoes DEF UnlockWorker, WorkerPoints, callerVars
<1>2. TypeOK'
  BY <1>1 DEF TypeOK
<1>3. PcInv'
  BY <1>1 DEF PcInv, WorkerPoints, CallerPoints, LockedPoints, ShutdownPoints
<1>4. HoldInv'
  BY <1>1 DEF HoldInv, LockedPoints
<1>5. JobInv'
  BY <1>1 DEF JobInv
<1>6. HandleInv'
  BY <1>1 DEF HandleInv
<1>7. SleepInv'
  BY <1>1 DEF SleepInv
<1>8. QuitInv'
  BY ThreadFacts, <1>1 DEF QuitInv, ShutdownPoints
<1> QED
  BY <1>2, <1>3, <1>4, <1>5, <1>6, <1>7, <1>8 DEF Inv

\* An awake worker goes back to its test.
LEMMA WakeWorkerStep ==
  ASSUME Inv, NEW w \in Worker, WakeWorker(w)
  PROVE  Inv'
<1> USE DEF Inv
<1>1. /\ pc' \in [Thread -> Points] /\ pc'[w] = "test" /\ pc[w] = "asleep"
      /\ \A v \in Worker : v # w => pc'[v] = pc[v]
      /\ \A c \in Caller : pc'[c] = pc[c]
      /\ UNCHANGED <<status, noWait, Run, mutex, cond, lock, thread, handles, quitting, created, waited, runs>>
  BY WorkerGoes DEF WakeWorker, WorkerPoints, poolVars, callerVars
<1>2. TypeOK'
  BY <1>1 DEF TypeOK
<1>3. PcInv'
  BY <1>1 DEF PcInv, WorkerPoints, CallerPoints, LockedPoints, ShutdownPoints
<1>4. HoldInv'
  BY <1>1 DEF HoldInv, LockedPoints
<1>5. JobInv'
  BY <1>1 DEF JobInv
<1>6. HandleInv'
  BY <1>1 DEF HandleInv
<1>7. SleepInv'
  BY <1>1 DEF SleepInv
<1>8. QuitInv'
  BY ThreadFacts, <1>1 DEF QuitInv, ShutdownPoints
<1> QED
  BY <1>2, <1>3, <1>4, <1>5, <1>6, <1>7, <1>8 DEF Inv

\* A caller takes the lock of the pool.
LEMMA CreateStep ==
  ASSUME Inv, NEW c \in Caller, Create(c)
  PROVE  Inv'
<1> USE DEF Inv
<1>1. /\ pc' \in [Thread -> Points] /\ pc'[c] = "look" /\ pc[c] = "ready"
      /\ \A d \in Caller : d # c => pc'[d] = pc[d]
      /\ \A v \in Worker : pc'[v] = pc[v]
      /\ lock = 0 /\ lock' = c /\ ~ quitting /\ created < MaxJobs
      /\ UNCHANGED <<status, noWait, Run, mutex, cond, handles, quitting, created, waited, runs>>
  BY CallerGoes DEF Create, CallerPoints, LockedPoints
<1>2. /\ thread' \in [Caller -> 1 .. NumThreads + 1]
      /\ \A d \in Caller : d # c => thread'[d] = thread[d]
  BY ThreadFacts, ThreadRange DEF Create, TypeOK
<1>3. TypeOK'
  BY <1>1, <1>2 DEF TypeOK
<1>4. PcInv'
  BY <1>1, <1>2 DEF PcInv, WorkerPoints, CallerPoints, LockedPoints, ShutdownPoints
<1>5. HoldInv'
  BY ThreadFacts, <1>1, <1>2 DEF HoldInv, LockedPoints
<1>6. JobInv'
  BY <1>1, <1>2 DEF JobInv
<1>7. HandleInv'
  BY <1>1, <1>2 DEF HandleInv
<1>8. SleepInv'
  BY <1>1, <1>2 DEF SleepInv
<1>9. QuitInv'
  BY <1>1, <1>2 DEF QuitInv, ShutdownPoints
<1> QED
  BY <1>3, <1>4, <1>5, <1>6, <1>7, <1>8, <1>9 DEF Inv

\* A worker is looked at, and passed by unless it appears idle.
LEMMA LookStep ==
  ASSUME Inv, NEW c \in Caller, Look(c)
  PROVE  Inv'
<1> USE DEF Inv
<1>1. /\ pc' \in [Thread -> Points] /\ pc'[c] \in {"look", "dispatch"} /\ pc[c] = "look"
      /\ \A d \in Caller : d # c => pc'[d] = pc[d]
      /\ \A v \in Worker : pc'[v] = pc[v]
      /\ UNCHANGED <<status, noWait, Run, mutex, cond, lock, handles, quitting, created, waited, runs>>
  BY CallerGoes DEF Look, CallerPoints, LockedPoints, poolVars, PcInv
<1>2. /\ thread' \in [Caller -> 1 .. NumThreads + 1]
      /\ pc'[c] = "dispatch" => thread'[c] \in Worker
      /\ \A d \in Caller : d # c => thread'[d] = thread[d]
  BY ThreadFacts, ThreadRange, NextWorker, <1>1 DEF Look, TypeOK
<1>3. TypeOK'
  BY <1>1, <1>2 DEF TypeOK
<1>4. PcInv'
  BY <1>1, <1>2 DEF PcInv, WorkerPoints, CallerPoints, LockedPoints, ShutdownPoints
<1>5. HoldInv'
  BY <1>1, <1>2 DEF HoldInv, LockedPoints
<1>6. JobInv'
  BY <1>1, <1>2 DEF JobInv
<1>7. HandleInv'
  BY <1>1, <1>2 DEF HandleInv
<1>8. SleepInv'
  BY <1>1, <1>2 DEF SleepInv
<1>9. QuitInv'
  BY <1>1, <1>2 DEF QuitInv, ShutdownPoints
<1> QED
  BY <1>3, <1>4, <1>5, <1>6, <1>7, <1>8, <1>9 DEF Inv

\* A woken caller goes on.
LEMMA WakeCallerStep ==
  ASSUME Inv, NEW c \in Caller, WakeCaller(c)
  PROVE  Inv'
<1> USE DEF Inv
<1>1. /\ pc' \in [Thread -> Points] /\ pc'[c] = "release" /\ pc[c] = "asleep"
      /\ \A d \in Caller : d # c => pc'[d] = pc[d]
      /\ \A v \in Worker : pc'[v] = pc[v]
      /\ c \notin cond[thread[c]]
      /\ UNCHANGED <<status, noWait, Run, mutex, cond, lock, thread, handles, quitting, created, waited, runs>>
  BY CallerGoes DEF WakeCaller, CallerPoints, LockedPoints, poolVars, callerVars
<1>2. TypeOK'
  BY <1>1 DEF TypeOK
<1>3. PcInv'
  BY <1>1 DEF PcInv, WorkerPoints, CallerPoints, LockedPoints, ShutdownPoints
<1>4. HoldInv'
  BY <1>1 DEF HoldInv, LockedPoints
<1>5. JobInv'
  BY <1>1, ZenonT(30) DEF JobInv
<1>6. HandleInv'
  BY <1>1 DEF HandleInv, SleepInv
<1>7. SleepInv'
  BY <1>1 DEF SleepInv
<1>8. QuitInv'
  BY <1>1 DEF QuitInv, ShutdownPoints
<1> QED
  BY <1>2, <1>3, <1>4, <1>5, <1>6, <1>7, <1>8 DEF Inv

\* An idle worker gets a job: nobody has to wait for it yet.
LEMMA DispatchStep ==
  ASSUME ~ WaitsForNoWait, Inv, NEW c \in Caller, Dispatch(c)
  PROVE  Inv'
<1> DEFINE w == thread[c]
<1> USE DEF Inv
<1>1. /\ pc[c] = "dispatch" /\ w \in Worker /\ w \notin mutex
      /\ UNCHANGED <<mutex, cond, lock, quitting, waited, runs>>
  BY DEF Dispatch, PcInv
<1>2. pc[w] \notin {"run", "unlock"} /\ lock = c /\ created \in 0 .. MaxJobs /\ created < MaxJobs
  BY <1>1 DEF HoldInv, LockedPoints, TypeOK
<1>3. ~ quitting
  BY <1>1 DEF QuitInv, ShutdownPoints
<1>a. CASE status[w] = "IDLE"
  <2>1. PICK option \in BOOLEAN :
          /\ status' = [status EXCEPT ![w] = "RUNNING"]
          /\ noWait' = [noWait EXCEPT ![w] = option]
          /\ Run' = [Run EXCEPT ![w] = created + 1]
          /\ created' = created + 1
          /\ handles' = IF option THEN handles
                        ELSE [handles EXCEPT ![c] = @ \cup {<<w, created + 1>>}]
          /\ GoTo(c, "signal")
          /\ UNCHANGED thread
    BY <1>a DEF Dispatch
  <2>2. /\ pc' \in [Thread -> Points] /\ pc'[c] = "signal"
        /\ \A d \in Caller : d # c => pc'[d] = pc[d]
        /\ \A v \in Worker : pc'[v] = pc[v]
    BY <2>1, CallerGoes DEF CallerPoints, LockedPoints
  <2>3. /\ status' \in [Worker -> {"IDLE", "RUNNING", "WAITING"}] /\ status'[w] = "RUNNING"
        /\ \A v \in Worker : v # w => status'[v] = status[v]
    BY <1>1, <2>1 DEF TypeOK
  <2>4. /\ noWait' \in [Worker -> BOOLEAN] /\ noWait'[w] = option
        /\ \A v \in Worker : v # w => noWait'[v] = noWait[v]
    BY <1>1, <2>1 DEF TypeOK
  <2>5. /\ Run' \in [Worker -> 0 .. threadTerminate] /\ Run'[w] = created + 1
        /\ \A v \in Worker : v # w => Run'[v] = Run[v]
    BY JobFacts, CreatedFacts, <1>1, <1>2, <2>1 DEF TypeOK
  <2>6. /\ handles' \in [Caller -> SUBSET (Worker \X Job)]
        /\ handles'[c] = handles[c] \cup (IF option THEN {} ELSE {<<w, created + 1>>})
        /\ \A d \in Caller : d # c => handles'[d] = handles[d]
    BY JobFacts, CreatedFacts, <1>1, <1>2, <2>1 DEF TypeOK
  <2>7. /\ created' = created + 1 /\ created' \in 0 .. MaxJobs /\ created + 1 \in Job
        /\ created + 1 # threadTerminate /\ thread' = thread
    BY JobFacts, CreatedFacts, <1>2, <2>1
  <2>8. \A d \in Caller : \A k \in handles[d] : k[1] # w /\ k[1] \in Worker
    BY <1>a DEF HandleInv, TypeOK
  <2>9. TypeOK'
    BY <1>1, <1>2, <1>3, <1>a, <2>2, <2>3, <2>4, <2>5, <2>6, <2>7, <2>8 DEF TypeOK
  <2>10. PcInv'
    BY <1>1, <1>2, <1>3, <1>a, <2>2, <2>3, <2>4, <2>5, <2>6, <2>7, <2>8 DEF PcInv, WorkerPoints, CallerPoints, LockedPoints, ShutdownPoints
  <2>11. HoldInv'
    BY <1>1, <1>2, <1>3, <1>a, <2>2, <2>3, <2>4, <2>5, <2>6, <2>7, <2>8 DEF HoldInv, LockedPoints
  <2>12. JobInv'
    BY JobFacts, CreatedFacts, <1>1, <1>2, <1>3, <1>a, <2>2, <2>3, <2>4, <2>5, <2>6, <2>7, <2>8 DEF JobInv
  <2>13. HandleInv'
    <3> HIDE DEF w
    <3>1. ASSUME NEW d \in Caller, NEW h \in handles'[d]
          PROVE  \/ h \in handles[d] /\ h[1] # w /\ h[1] \in Worker
                 \/ d = c /\ h = <<w, created + 1>> /\ ~ option
      BY <2>6, <2>8
    <3>2. ASSUME NEW d \in Caller, NEW h \in handles'[d]
          PROVE  Run'[h[1]] = h[2] /\ ~ noWait'[h[1]] /\ status'[h[1]] # "IDLE"
      <4>1. CASE h \in handles[d] /\ h[1] # w /\ h[1] \in Worker
        <5>1. Run[h[1]] = h[2] /\ ~ noWait[h[1]] /\ status[h[1]] # "IDLE"
          BY <4>1 DEF HandleInv
        <5>2. Run'[h[1]] = Run[h[1]] /\ noWait'[h[1]] = noWait[h[1]] /\ status'[h[1]] = status[h[1]]
          BY <4>1, <2>3, <2>4, <2>5
        <5> QED
          BY <5>1, <5>2
      <4>2. CASE d = c /\ h = <<w, created + 1>> /\ ~ option
        BY <4>2, <2>3, <2>4, <2>5
      <4> QED
        BY <3>1, <4>1, <4>2
    <3>3. ASSUME NEW d \in Caller, NEW h \in handles'[d],
                 NEW e \in Caller, NEW k \in handles'[e], k[1] = h[1]
          PROVE  d = e /\ k = h
      <4>1. CASE h \in handles[d] /\ h[1] # w
        BY <4>1, <3>3, <3>1 DEF HandleInv
      <4>2. CASE d = c /\ h = <<w, created + 1>>
        BY <4>2, <3>3, <3>1
      <4> QED
        BY <3>1, <4>1, <4>2
    <3>4. ASSUME NEW d \in Caller, pc'[d] = "signal"
          PROVE  noWait'[thread'[d]] \/ \E h \in handles'[d] : h[1] = thread'[d]
      <4>1. d = c
        BY <3>4, <1>2, <2>2 DEF HoldInv, LockedPoints
      <4>2. thread'[d] = w
        BY <4>1, <2>7 DEF w
      <4>3. CASE option
        BY <4>2, <4>3, <2>4
      <4>4. CASE ~ option
        <5>1. <<w, created + 1>> \in handles'[d]
          BY <4>1, <4>4, <2>6
        <5> QED
          BY <5>1, <4>2
      <4> QED
        BY <4>3, <4>4
    <3>5. ASSUME NEW d \in Caller, d # c
          PROVE  pc'[d] = pc[d] /\ thread'[d] = thread[d] /\ handles'[d] = handles[d]
      BY <3>5, <2>2, <2>6, <2>7
    <3>6. ASSUME NEW d \in Caller, pc'[d] = "asleep"
          PROVE  \E h \in handles'[d] : h[1] = thread'[d]
      BY <3>5, <3>6, <2>2 DEF HandleInv
    <3>7. ASSUME NEW d \in Caller, pc'[d] = "release", ~ quitting'
          PROVE  status'[thread'[d]] = "WAITING" /\ \E h \in handles'[d] : h[1] = thread'[d]
      <4>1. d # c /\ pc[d] = "release" /\ thread[d] \in Worker
        BY <3>7, <2>2 DEF PcInv
      <4>2. status[thread[d]] = "WAITING" /\ \E h \in handles[d] : h[1] = thread[d]
        BY <4>1, <1>3 DEF HandleInv
      <4>3. thread[d] # w
        BY <4>2, <1>a DEF w
      <4> QED
        BY <4>1, <4>2, <4>3, <3>5, <2>3
    <3> QED
      BY <3>2, <3>3, <3>4, <3>6, <3>7 DEF HandleInv
  <2>14. SleepInv'
    <3>1. \A d \in Caller, v \in Worker :
            d \in cond'[v] => d # c /\ pc'[d] = "asleep" /\ thread'[d] = v
      BY <1>1, <2>2, <2>7 DEF SleepInv
    <3>2. ASSUME NEW d \in Caller, pc'[d] = "asleep", d \notin cond'[thread'[d]]
          PROVE  status'[thread'[d]] = "WAITING"
      <4>1. d # c /\ pc[d] = "asleep" /\ thread'[d] = thread[d] /\ thread[d] \in Worker
        BY <3>2, <2>2, <2>7 DEF PcInv
      <4>2. status[thread[d]] = "WAITING"
        BY <4>1, <3>2, <1>1 DEF SleepInv
      <4>3. thread[d] # w
        BY <4>2, <1>a
      <4> QED
        BY <4>1, <4>2, <4>3, <2>3
    <3> QED
      BY <3>1, <3>2 DEF SleepInv
  <2>15. QuitInv'
    BY <1>1, <1>2, <1>3, <1>a, <2>2, <2>3, <2>4, <2>5, <2>6, <2>7, <2>8 DEF QuitInv, ShutdownPoints
  <2> QED
    BY <2>9, <2>10, <2>11, <2>12, <2>13, <2>14, <2>15 DEF Inv
<1>b. CASE status[w] # "IDLE"
  <2>1. /\ pc' \in [Thread -> Points] /\ pc'[c] = "look"
        /\ \A d \in Caller : d # c => pc'[d] = pc[d]
        /\ \A v \in Worker : pc'[v] = pc[v]
        /\ UNCHANGED <<status, noWait, Run, created, handles>>
    BY <1>b, CallerGoes DEF Dispatch, CallerPoints, LockedPoints
  <2>2. /\ thread' \in [Caller -> 1 .. NumThreads + 1]
        /\ \A d \in Caller : d # c => thread'[d] = thread[d]
    BY ThreadFacts, ThreadRange, NextWorker, <1>1, <1>b DEF Dispatch, TypeOK
  <2>3. TypeOK'
    BY <1>1, <1>2, <2>1, <2>2 DEF TypeOK
  <2>4. PcInv'
    BY <1>1, <1>2, <2>1, <2>2 DEF PcInv, WorkerPoints, CallerPoints, LockedPoints, ShutdownPoints
  <2>5. HoldInv'
    BY <1>1, <1>2, <2>1, <2>2 DEF HoldInv, LockedPoints
  <2>6. JobInv'
    BY <1>1, <1>2, <2>1, <2>2 DEF JobInv
  <2>7. HandleInv'
    BY <1>1, <1>2, <2>1, <2>2 DEF HandleInv
  <2>8. SleepInv'
    BY <1>1, <1>2, <2>1, <2>2 DEF SleepInv
  <2>9. QuitInv'
    BY <1>1, <1>2, <2>1, <2>2 DEF QuitInv, ShutdownPoints
  <2> QED
    BY <2>3, <2>4, <2>5, <2>6, <2>7, <2>8, <2>9 DEF Inv
<1> QED
  BY <1>a, <1>b

\* A new job is signalled: none that waits for an old one is woken.
LEMMA SignalWorkerStep ==
  ASSUME Inv, NEW c \in Caller, SignalWorker(c)
  PROVE  Inv'
<1> USE DEF Inv
<1>1. /\ pc' \in [Thread -> Points] /\ pc'[c] = "ready" /\ pc[c] = "signal"
      /\ \A d \in Caller : d # c => pc'[d] = pc[d]
      /\ \A v \in Worker : pc'[v] = pc[v]
      /\ lock' = 0
      /\ UNCHANGED <<status, noWait, Run, mutex, thread, handles, quitting, created, waited, runs>>
  BY CallerGoes DEF SignalWorker, CallerPoints, callerVars
<1>2. thread[c] \in Worker /\ lock = c
  BY <1>1 DEF PcInv, HoldInv, LockedPoints
<1>3. \A d \in Caller : d \notin cond[thread[c]]
  <2> SUFFICES ASSUME NEW d \in Caller, d \in cond[thread[c]]
               PROVE  FALSE
    OBVIOUS
  <2>1. pc[d] = "asleep" /\ thread[d] = thread[c]
    BY <1>2 DEF SleepInv
  <2>2. PICK h \in handles[d] : h[1] = thread[c] /\ ~ noWait[thread[c]]
    BY <2>1 DEF HandleInv
  <2>3. PICK k \in handles[c] : k[1] = thread[c]
    BY <1>1, <2>2 DEF HandleInv
  <2>4. c = d
    BY <2>2, <2>3 DEF HandleInv
  <2> QED
    BY <1>1, <2>1, <2>4
<1>4. /\ cond' \in [Worker -> SUBSET (Worker \cup Caller)]
      /\ \A d \in Caller, v \in Worker : d \in cond'[v] <=> d \in cond[v]
  BY <1>2, <1>3 DEF SignalWorker, Signal, TypeOK
<1>5. TypeOK'
  BY <1>1, <1>2, <1>4 DEF TypeOK
<1>6. PcInv'
  BY <1>1, <1>2, <1>4 DEF PcInv, WorkerPoints, CallerPoints, LockedPoints, ShutdownPoints
<1>7. HoldInv'
  BY ThreadFacts, <1>1, <1>2, <1>4 DEF HoldInv, LockedPoints
<1>8. JobInv'
  BY <1>1, <1>2, <1>4 DEF JobInv
<1>9. HandleInv'
  BY <1>1, <1>2, <1>4 DEF HandleInv
<1>10. SleepInv'
  <2>1. \A d \in Caller, v \in Worker :
          d \in cond'[v] => d # c /\ pc'[d] = "asleep" /\ thread'[d] = v
    BY <1>1, <1>4 DEF SleepInv
  <2>2. ASSUME NEW d \in Caller, pc'[d] = "asleep", d \notin cond'[thread'[d]]
        PROVE  status'[thread'[d]] = "WAITING"
    <3>1. pc[d] = "asleep" /\ thread'[d] = thread[d] /\ thread[d] \in Worker
      BY <2>2, <1>1 DEF PcInv
    <3> QED
      BY <3>1, <2>2, <1>1, <1>4 DEF SleepInv
  <2> QED
    BY <2>1, <2>2 DEF SleepInv
<1>11. QuitInv'
  BY <1>1, <1>2, <1>4 DEF QuitInv, ShutdownPoints
<1> QED
  BY <1>5, <1>6, <1>7, <1>8, <1>9, <1>10, <1>11 DEF Inv

\* A job that no worker is free for runs where it was created.
LEMMA RunInCallerStep ==
  ASSUME Inv, NEW c \in Caller, RunInCaller(c)
  PROVE  Inv'
<1> USE DEF Inv
<1>1. /\ pc' \in [Thread -> Points] /\ pc'[c] = "ready" /\ pc[c] = "look"
      /\ \A d \in Caller : d # c => pc'[d] = pc[d]
      /\ \A v \in Worker : pc'[v] = pc[v]
      /\ lock' = 0
      /\ UNCHANGED <<status, noWait, Run, mutex, cond, thread, handles, quitting, waited>>
  BY CallerGoes DEF RunInCaller, CallerPoints
<1>2. lock = c /\ created \in 0 .. MaxJobs /\ created < MaxJobs
  BY <1>1 DEF HoldInv, LockedPoints, TypeOK
<1>3. /\ created' = created + 1 /\ created' \in 0 .. MaxJobs /\ created + 1 \in Job
      /\ created + 1 # threadTerminate
  BY JobFacts, CreatedFacts, <1>2 DEF RunInCaller
<1>4. runs[created + 1] = 0
  BY <1>2, <1>3 DEF JobInv
<1>5. /\ runs' \in [Job -> 0 .. 2] /\ runs'[created + 1] = 1
      /\ \A j \in Job : j # created + 1 => runs'[j] = runs[j]
  BY <1>3, <1>4 DEF RunInCaller, TypeOK
<1>6. ~ quitting
  BY <1>1 DEF QuitInv, ShutdownPoints
<1>7. TypeOK'
  BY <1>1, <1>2, <1>3, <1>4, <1>5, <1>6 DEF TypeOK
<1>8. PcInv'
  BY <1>1, <1>2, <1>3, <1>4, <1>5, <1>6 DEF PcInv, WorkerPoints, CallerPoints, LockedPoints, ShutdownPoints
<1>9. HoldInv'
  BY ThreadFacts, <1>1, <1>2, <1>3, <1>4, <1>5, <1>6 DEF HoldInv, LockedPoints
<1>10. JobInv'
  <2>1. \A v \in Worker : Run[v] \in 0 .. created \/ Run[v] = threadTerminate
    BY DEF JobInv
  <2>2. \A v \in Worker : Run[v] \in {0, threadTerminate} \/ runs'[Run[v]] = runs[Run[v]]
    BY JobFacts, CreatedFacts, <2>1, <1>2, <1>3, <1>5
  <2>3. \A j \in Job : runs'[j] \in {0, 1} /\ (j > created' => runs'[j] = 0)
    BY JobFacts, CreatedFacts, <1>2, <1>3, <1>5 DEF JobInv
  <2>4. \A j \in waited' : runs'[j] = 1
    BY <1>1, <1>4, <1>5 DEF JobInv, TypeOK
  <2>5. \A v \in Worker : Run'[v] \in 0 .. created' \/ (quitting' /\ Run'[v] = threadTerminate)
    BY <1>1, <1>2, <1>3 DEF JobInv
  <2>6. ASSUME NEW v \in Worker, status'[v] = "RUNNING"
        PROVE  /\ Run'[v] \in 1 .. created' /\ pc'[v] # "unlock"
               /\ pc'[v] = "run" => runs'[Run'[v]] = 1
               /\ pc'[v] # "run" => runs'[Run'[v]] = 0
    <3>1. /\ Run[v] \in 1 .. created /\ pc[v] # "unlock"
          /\ pc[v] = "run" => runs[Run[v]] = 1
          /\ pc[v] # "run" => runs[Run[v]] = 0
      BY <1>1, <2>6 DEF JobInv
    <3>2. runs'[Run[v]] = runs[Run[v]] /\ Run[v] \in 1 .. created'
      BY JobFacts, CreatedFacts, <3>1, <2>2, <1>2, <1>3
    <3> QED
      BY <3>1, <3>2, <1>1
  <2>7. ASSUME NEW v \in Worker, status'[v] # "RUNNING"
        PROVE  pc'[v] # "run" /\ (Run'[v] \in {0, threadTerminate} \/ runs'[Run'[v]] = 1)
    BY <2>7, <2>2, <1>1 DEF JobInv
  <2>8. \A v, u \in Worker : Run'[v] \in Job /\ Run'[v] = Run'[u] => v = u
    BY <1>1 DEF JobInv
  <2> QED
    BY <2>3, <2>4, <2>5, <2>6, <2>7, <2>8 DEF JobInv
<1>11. HandleInv'
  BY <1>1, <1>2, <1>3, <1>4, <1>5, <1>6 DEF HandleInv
<1>12. SleepInv'
  BY <1>1, <1>2, <1>3, <1>4, <1>5, <1>6 DEF SleepInv
<1>13. QuitInv'
  BY <1>1, <1>2, <1>3, <1>4, <1>5, <1>6 DEF QuitInv, ShutdownPoints
<1> QED
  BY <1>7, <1>8, <1>9, <1>10, <1>11, <1>12, <1>13 DEF Inv

\* Whoever waits for a job that has not begun goes to sleep.
LEMMA WaitStep ==
  ASSUME Inv, NEW c \in Caller, Wait(c)
  PROVE  Inv'
<1> USE DEF Inv
<1>1. PICK h \in handles[c] : WaitFor(c, h[1])
  BY DEF Wait
<1> DEFINE w == h[1]
<1>2. /\ pc[c] = "ready" /\ w \in Worker /\ ~ noWait[w] /\ status[w] # "IDLE"
      /\ UNCHANGED <<status, noWait, Run, mutex, lock, handles, quitting, created, waited, runs>>
  BY <1>1 DEF Wait, WaitFor, HandleInv, TypeOK
<1>3. ~ quitting
  BY <1>1 DEF QuitInv
<1>4. /\ thread' \in [Caller -> 1 .. NumThreads + 1] /\ thread'[c] = w
      /\ \A d \in Caller : d # c => thread'[d] = thread[d]
  BY ThreadFacts, ThreadRange, <1>1, <1>2 DEF WaitFor, TypeOK
<1>5. /\ pc' \in [Thread -> Points] /\ pc'[c] \in {"asleep", "release"}
      /\ pc'[c] = "release" => status[w] = "WAITING"
      /\ \A d \in Caller : d # c => pc'[d] = pc[d]
      /\ \A v \in Worker : pc'[v] = pc[v]
  <2>1. CASE status[w] = "RUNNING"
    BY <1>1, <2>1, CallerGoes DEF WaitFor, Sleep, CallerPoints
  <2>2. CASE status[w] # "RUNNING"
    BY <1>1, <1>2, <2>2, CallerGoes DEF WaitFor, CallerPoints, TypeOK
  <2> QED
    BY <2>1, <2>2
<1>6. /\ cond' \in [Worker -> SUBSET (Worker \cup Caller)]
      /\ c \in cond'[w] <=> (pc'[c] = "asleep" \/ c \in cond[w])
      /\ \A d \in Caller, v \in Worker :
           d # c \/ v # w => (d \in cond'[v] <=> d \in cond[v])
  <2>1. CASE status[w] = "RUNNING"
    BY <1>1, <1>2, <2>1, CallerGoes DEF WaitFor, Sleep, CallerPoints, TypeOK
  <2>2. CASE status[w] # "RUNNING"
    BY <1>1, <1>2, <2>2, CallerGoes DEF WaitFor, CallerPoints, TypeOK
  <2> QED
    BY <2>1, <2>2
<1>7. h \in handles'[c] /\ h[1] = thread'[c]
  BY <1>1, <1>2, <1>4
<1> HIDE DEF w
<1>8. TypeOK'
  BY <1>2, <1>3, <1>4, <1>5, <1>6, <1>7 DEF TypeOK
<1>9. PcInv'
  BY <1>2, <1>3, <1>4, <1>5, <1>6, <1>7 DEF PcInv, WorkerPoints, CallerPoints, LockedPoints, ShutdownPoints
<1>10. HoldInv'
  BY <1>2, <1>3, <1>4, <1>5, <1>6, <1>7 DEF HoldInv, LockedPoints
<1>11. JobInv'
  BY <1>2, <1>3, <1>4, <1>5, <1>6, <1>7 DEF JobInv
<1>12. HandleInv'
  BY <1>2, <1>3, <1>4, <1>5, <1>6, <1>7 DEF HandleInv
<1>13. SleepInv'
  <2>1. \A v \in Worker : c \notin cond[v]
    BY <1>2 DEF SleepInv
  <2>2. ASSUME NEW d \in Caller, NEW v \in Worker, d \in cond'[v]
        PROVE  pc'[d] = "asleep" /\ thread'[d] = v
    <3>1. CASE d = c
      BY <3>1, <2>1, <2>2, <1>4, <1>6
    <3>2. CASE d # c
      BY <3>2, <2>2, <1>4, <1>5, <1>6 DEF SleepInv
    <3> QED
      BY <3>1, <3>2
  <2>3. ASSUME NEW d \in Caller, pc'[d] = "asleep", d \notin cond'[thread'[d]]
        PROVE  status'[thread'[d]] = "WAITING"
    <3>1. d # c
      BY <2>3, <1>4, <1>6
    <3>2. pc[d] = "asleep" /\ thread'[d] = thread[d] /\ thread[d] \in Worker
      BY <2>3, <3>1, <1>4, <1>5 DEF PcInv
    <3> QED
      BY <2>3, <3>1, <3>2, <1>2, <1>6 DEF SleepInv
  <2> QED
    BY <2>2, <2>3 DEF SleepInv
<1>14. QuitInv'
  BY <1>2, <1>3, <1>4, <1>5, <1>6, <1>7 DEF QuitInv, ShutdownPoints
<1> QED
  BY <1>8, <1>9, <1>10, <1>11, <1>12, <1>13, <1>14 DEF Inv

\* The worker is free again: whoever waited for it was the only one.
LEMMA ReleaseStep ==
  ASSUME Inv, NEW c \in Caller, Release(c)
  PROVE  Inv'
<1> DEFINE w == thread[c]
<1> DEFINE waitedFor == {h \in handles[c] : h[1] = w}
<1> USE DEF Inv
<1>1. /\ pc[c] = "release" /\ w \in Worker
      /\ UNCHANGED <<noWait, Run, mutex, cond, lock, thread, quitting, created, runs>>
  BY DEF Release, PcInv
<1>2. /\ pc' \in [Thread -> Points] /\ pc'[c] = IF quitting THEN "terminate" ELSE "ready"
      /\ \A d \in Caller : d # c => pc'[d] = pc[d]
      /\ \A v \in Worker : pc'[v] = pc[v]
  BY CallerGoes DEF Release, CallerPoints, ShutdownPoints
<1>3. /\ status' \in [Worker -> {"IDLE", "RUNNING", "WAITING"}] /\ status'[w] = "IDLE"
      /\ \A v \in Worker : v # w => status'[v] = status[v]
  BY <1>1 DEF Release, TypeOK
<1>4. /\ handles' \in [Caller -> SUBSET (Worker \X Job)]
      /\ \A h : h \in handles'[c] <=> h \in handles[c] /\ h[1] # w
      /\ \A d \in Caller : d # c => handles'[d] = handles[d]
  BY DEF Release, TypeOK
<1>5. status[w] # "RUNNING"
  BY <1>1 DEF HandleInv, QuitInv
<1>6. \A h \in waitedFor : h[2] \in Job /\ h[2] = Run[w] /\ runs[h[2]] = 1
  BY JobFacts, CreatedFacts, <1>1, <1>5 DEF HandleInv, JobInv, TypeOK
<1>7. /\ waited' \subseteq Job /\ \A j \in waited' : runs[j] = 1
  <2>1. waited' = waited \cup {h[2] : h \in waitedFor}
    BY DEF Release
  <2>2. \A j \in waited : j \in Job /\ runs[j] = 1
    BY DEF TypeOK, JobInv
  <2> HIDE DEF waitedFor
  <2> QED
    BY <1>6, <2>1, <2>2
<1>8. \A d \in Caller : d # c => \A k \in handles[d] : k[1] # w
  BY <1>1 DEF HandleInv, QuitInv
<1>9. quitting => c = main
  BY <1>1 DEF QuitInv
<1> HIDE DEF w, waitedFor
<1>10. TypeOK'
  BY <1>1, <1>2, <1>3, <1>4, <1>5, <1>7, <1>8, <1>9 DEF TypeOK
<1>11. PcInv'
  BY <1>1, <1>2, <1>3, <1>4, <1>5, <1>7, <1>8, <1>9 DEF PcInv, WorkerPoints, CallerPoints, LockedPoints, ShutdownPoints
<1>12. HoldInv'
  BY <1>1, <1>2, <1>3, <1>4, <1>5, <1>7, <1>8, <1>9 DEF HoldInv, LockedPoints
<1>13. JobInv'
  BY <1>1, <1>2, <1>3, <1>4, <1>5, <1>7, <1>8, <1>9 DEF JobInv
<1>14. HandleInv'
  <2>1. ASSUME NEW d \in Caller, NEW h \in handles'[d]
        PROVE  h \in handles[d] /\ h[1] # w /\ h[1] \in Worker
    BY <1>4, <1>8 DEF TypeOK
  <2>2. ASSUME NEW d \in Caller, NEW h \in handles'[d]
        PROVE  Run'[h[1]] = h[2] /\ ~ noWait'[h[1]] /\ status'[h[1]] # "IDLE"
    <3>1. Run[h[1]] = h[2] /\ ~ noWait[h[1]] /\ status[h[1]] # "IDLE"
      BY <2>1 DEF HandleInv
    <3>2. status'[h[1]] = status[h[1]]
      BY <2>1, <1>3
    <3> QED
      BY <3>1, <3>2, <1>1
  <2>3. ASSUME NEW d \in Caller, NEW h \in handles'[d],
               NEW e \in Caller, NEW k \in handles'[e], k[1] = h[1]
        PROVE  d = e /\ k = h
    BY <2>3, <2>1 DEF HandleInv
  <2>4. ASSUME NEW d \in Caller, pc'[d] \in {"signal", "asleep", "release"}
        PROVE  /\ d # c /\ pc[d] = pc'[d] /\ thread'[d] = thread[d] /\ thread[d] \in Worker
               /\ handles'[d] = handles[d]
    BY <2>4, <1>1, <1>2, <1>4 DEF PcInv
  <2>5. ASSUME NEW d \in Caller, pc'[d] = "signal"
        PROVE  noWait'[thread'[d]] \/ \E h \in handles'[d] : h[1] = thread'[d]
    BY <2>4, <2>5, <1>1 DEF HandleInv
  <2>6. ASSUME NEW d \in Caller, pc'[d] = "asleep"
        PROVE  \E h \in handles'[d] : h[1] = thread'[d]
    BY <2>4, <2>6 DEF HandleInv
  <2>7. ASSUME NEW d \in Caller, pc'[d] = "release", ~ quitting'
        PROVE  status'[thread'[d]] = "WAITING" /\ \E h \in handles'[d] : h[1] = thread'[d]
    <3>1. status[thread[d]] = "WAITING" /\ \E h \in handles[d] : h[1] = thread[d]
      BY <2>4, <2>7, <1>1 DEF HandleInv
    <3>2. thread[d] # w
      BY <3>1, <2>4, <2>7, <1>8
    <3> QED
      BY <3>1, <3>2, <2>4, <2>7, <1>3
  <2> QED
    BY <2>2, <2>3, <2>5, <2>6, <2>7 DEF HandleInv
<1>15. SleepInv'
  <2>1. \A d \in Caller, v \in Worker :
          d \in cond'[v] => d # c /\ pc'[d] = "asleep" /\ thread'[d] = v
    BY <1>1, <1>2 DEF SleepInv
  <2>2. ASSUME NEW d \in Caller, pc'[d] = "asleep", d \notin cond'[thread'[d]]
        PROVE  status'[thread'[d]] = "WAITING"
    <3>1. d # c /\ pc[d] = "asleep" /\ thread'[d] = thread[d] /\ thread[d] \in Worker
      BY <2>2, <1>1, <1>2 DEF PcInv
    <3>2. thread[d] # w
      <4>1. PICK h \in handles[d] : h[1] = thread[d]
        BY <3>1 DEF HandleInv
      <4> QED
        BY <3>1, <4>1, <1>8
    <3> QED
      BY <3>1, <3>2, <2>2, <1>1, <1>3 DEF SleepInv
  <2> QED
    BY <2>1, <2>2 DEF SleepInv
<1>16. QuitInv'
  BY <1>1, <1>2, <1>3, <1>4, <1>5, <1>7, <1>8, <1>9 DEF QuitInv, ShutdownPoints
<1> QED
  BY <1>10, <1>11, <1>12, <1>13, <1>14, <1>15, <1>16 DEF Inv

\* The program is done with the pool.
LEMMA ShutdownStep ==
  ASSUME ~ WaitsForNoWait, Inv, Shutdown
  PROVE  Inv'
<1> USE DEF Inv
<1>1. /\ pc[main] = "ready" /\ quitting' = TRUE
      /\ \A c \in Caller : c # main => pc[c] = "ready"
      /\ \A c \in Caller : handles[c] = {}
      /\ \A v \in Worker : status[v] # "RUNNING"
  BY DEF Shutdown, NoLongerUsed
<1>2. /\ pc' \in [Thread -> Points] /\ pc'[main] = "release"
      /\ \A d \in Caller : d # main => pc'[d] = pc[d]
      /\ \A v \in Worker : pc'[v] = pc[v]
      /\ UNCHANGED <<status, noWait, Run, mutex, cond, lock, handles, created, waited, runs>>
  BY ThreadFacts, <1>1, CallerGoes DEF Shutdown, WaitFor, CallerPoints
<1>3. /\ thread' \in [Caller -> 1 .. NumThreads + 1] /\ thread'[main] = 1
      /\ \A d \in Caller : d # main => thread'[d] = thread[d]
  BY ThreadFacts, ThreadRange DEF Shutdown, WaitFor, TypeOK
<1>4. TypeOK'
  BY <1>1, <1>2, <1>3 DEF TypeOK
<1>5. PcInv'
  BY ThreadFacts, <1>1, <1>2, <1>3 DEF PcInv, WorkerPoints, CallerPoints, LockedPoints, ShutdownPoints
<1>6. HoldInv'
  BY <1>1, <1>2, <1>3 DEF HoldInv, LockedPoints
<1>7. JobInv'
  <2>1. \A v \in Worker : Run'[v] \in 0 .. created' \/ (quitting' /\ Run'[v] = threadTerminate)
    BY <1>1, <1>2 DEF JobInv
  <2>2. \A v \in Worker : status'[v] # "RUNNING" /\ pc'[v] # "run"
        /\ (Run'[v] \in {0, threadTerminate} \/ runs'[Run'[v]] = 1)
    BY <1>1, <1>2 DEF JobInv
  <2> QED
    BY <2>1, <2>2, <1>2 DEF JobInv
<1>8. HandleInv'
  BY <1>1, <1>2, <1>3 DEF HandleInv
<1>9. SleepInv'
  BY <1>1, <1>2, <1>3 DEF SleepInv
<1>10. QuitInv'
  BY <1>1, <1>2, <1>3 DEF QuitInv, ShutdownPoints
<1> QED
  BY <1>4, <1>5, <1>6, <1>7, <1>8, <1>9, <1>10 DEF Inv

\* A worker is told to terminate.
LEMMA TerminateStep ==
  ASSUME Inv, Terminate
  PROVE  Inv'
<1> USE DEF Inv
<1>1. /\ pc' \in [Thread -> Points] /\ pc'[main] = "signalEnd" /\ pc[main] = "terminate"
      /\ \A d \in Caller : d # main => pc'[d] = pc[d]
      /\ \A v \in Worker : pc'[v] = pc[v]
      /\ UNCHANGED <<status, noWait, mutex, cond, lock, thread, handles, quitting, created, waited, runs>>
  BY ThreadFacts, CallerGoes DEF Terminate, CallerPoints, ShutdownPoints, callerVars
<1>2. quitting /\ thread[main] \in Worker
  BY ThreadFacts, <1>1 DEF PcInv, ShutdownPoints
<1>3. /\ \A v \in Worker : status[v] # "RUNNING"
      /\ \A c \in Caller : handles[c] = {}
  BY <1>2 DEF QuitInv
<1>4. /\ Run' \in [Worker -> 0 .. threadTerminate] /\ Run'[thread[main]] = threadTerminate
      /\ \A v \in Worker : v # thread[main] => Run'[v] = Run[v]
  BY ThreadFacts, JobFacts, <1>2 DEF Terminate, TypeOK
<1>5. TypeOK'
  BY <1>1, <1>2, <1>3, <1>4 DEF TypeOK
<1>6. PcInv'
  BY <1>1, <1>2, <1>3, <1>4 DEF PcInv, WorkerPoints, CallerPoints, LockedPoints, ShutdownPoints
<1>7. HoldInv'
  BY <1>1, <1>2, <1>3, <1>4 DEF HoldInv, LockedPoints
<1>8. JobInv'
  <2>1. \A v \in Worker : Run'[v] \in 0 .. created' \/ (quitting' /\ Run'[v] = threadTerminate)
    BY <1>1, <1>2, <1>4 DEF JobInv
  <2>2. \A v \in Worker : status'[v] # "RUNNING" /\ pc'[v] # "run"
        /\ (Run'[v] \in {0, threadTerminate} \/ runs'[Run'[v]] = 1)
    BY <1>1, <1>3, <1>4 DEF JobInv
  <2>3. \A v, u \in Worker : Run'[v] \in Job /\ Run'[v] = Run'[u] => v = u
    BY JobFacts, <1>4 DEF JobInv
  <2> QED
    BY <2>1, <2>2, <2>3, <1>1 DEF JobInv
<1>9. HandleInv'
  BY <1>1, <1>2, <1>3, <1>4 DEF HandleInv
<1>10. SleepInv'
  BY <1>1, <1>2, <1>3, <1>4 DEF SleepInv
<1>11. QuitInv'
  BY <1>1, <1>2, <1>3, <1>4 DEF QuitInv, ShutdownPoints
<1> QED
  BY <1>5, <1>6, <1>7, <1>8, <1>9, <1>10, <1>11 DEF Inv

\* The worker is signalled: nobody else sleeps.
LEMMA SignalTerminateStep ==
  ASSUME Inv, SignalTerminate
  PROVE  Inv'
<1> USE DEF Inv
<1>1. /\ pc' \in [Thread -> Points] /\ pc'[main] = "join" /\ pc[main] = "signalEnd"
      /\ \A d \in Caller : d # main => pc'[d] = pc[d]
      /\ \A v \in Worker : pc'[v] = pc[v]
      /\ UNCHANGED <<status, noWait, Run, mutex, lock, thread, handles, quitting, created, waited, runs>>
  BY ThreadFacts, CallerGoes DEF SignalTerminate, CallerPoints, ShutdownPoints, callerVars
<1>2. quitting /\ thread[main] \in Worker
  BY ThreadFacts, <1>1 DEF PcInv, ShutdownPoints
<1>3. \A c \in Caller : pc[c] # "asleep"
  BY <1>1, <1>2 DEF QuitInv
<1>4. /\ cond' \in [Worker -> SUBSET (Worker \cup Caller)]
      /\ \A v \in Worker : cond'[v] \subseteq cond[v]
  BY <1>2 DEF SignalTerminate, Signal, TypeOK
<1>5. TypeOK'
  BY <1>1, <1>2, <1>3, <1>4 DEF TypeOK
<1>6. PcInv'
  BY <1>1, <1>2, <1>3, <1>4 DEF PcInv, WorkerPoints, CallerPoints, LockedPoints, ShutdownPoints
<1>7. HoldInv'
  BY <1>1, <1>2, <1>3, <1>4 DEF HoldInv, LockedPoints
<1>8. JobInv'
  <2>1. /\ UNCHANGED <<status, Run, runs, created, waited, quitting>>
        /\ \A v \in Worker : pc'[v] = pc[v]
    BY <1>1
  <2> QED
    BY <2>1 DEF JobInv
<1>9. HandleInv'
  BY <1>1, <1>2, <1>3, <1>4 DEF HandleInv
<1>10. SleepInv'
  BY <1>1, <1>2, <1>3, <1>4 DEF SleepInv
<1>11. QuitInv'
  BY <1>1, <1>2, <1>3, <1>4 DEF QuitInv, ShutdownPoints
<1> QED
  BY <1>5, <1>6, <1>7, <1>8, <1>9, <1>10, <1>11 DEF Inv

\* The worker is gone, and the next one is waited for.
LEMMA JoinStep ==
  ASSUME Inv, Join
  PROVE  Inv'
<1> USE DEF Inv
<1>0. pc[main] = "join" /\ quitting /\ thread[main] \in Worker
  BY ThreadFacts DEF Join, PcInv, ShutdownPoints
<1>1. /\ \A v \in Worker : status[v] # "RUNNING"
      /\ \A c \in Caller : handles[c] = {}
      /\ \A c \in Caller : pc[c] # "asleep"
  BY <1>0 DEF QuitInv
<1>2. /\ pc' \in [Thread -> Points] /\ pc'[main] \in {"stopped", "release"}
      /\ \A d \in Caller : d # main => pc'[d] = pc[d]
      /\ \A v \in Worker : pc'[v] = pc[v]
      /\ UNCHANGED <<status, noWait, Run, mutex, cond, lock, handles, quitting, created, waited, runs>>
      /\ thread' \in [Caller -> 1 .. NumThreads + 1] /\ thread'[main] \in Worker
      /\ \A d \in Caller : d # main => thread'[d] = thread[d]
  <2>1. CASE thread[main] = NumThreads
    BY ThreadFacts, <1>0, <2>1, CallerGoes DEF Join, CallerPoints, ShutdownPoints, TypeOK
  <2>2. CASE thread[main] # NumThreads
    <3>1. thread[main] + 1 \in Worker
      BY ThreadFacts, NextWorker, <1>0, <2>2
    <3> QED
      BY ThreadFacts, ThreadRange, <1>0, <1>1, <2>2, <3>1, CallerGoes DEF Join, WaitFor, CallerPoints, TypeOK
  <2> QED
    BY <2>1, <2>2
<1>3. TypeOK'
  BY <1>0, <1>1, <1>2 DEF TypeOK
<1>4. PcInv'
  BY <1>0, <1>1, <1>2 DEF PcInv, WorkerPoints, CallerPoints, LockedPoints, ShutdownPoints
<1>5. HoldInv'
  BY <1>0, <1>1, <1>2 DEF HoldInv, LockedPoints
<1>6. JobInv'
  BY <1>0, <1>1, <1>2 DEF JobInv
<1>7. HandleInv'
  BY <1>0, <1>1, <1>2 DEF HandleInv
<1>8. SleepInv'
  BY <1>0, <1>1, <1>2 DEF SleepInv
<1>9. QuitInv'
  BY <1>0, <1>1, <1>2 DEF QuitInv, ShutdownPoints
<1> QED
  BY <1>3, <1>4, <1>5, <1>6, <1>7, <1>8, <1>9 DEF Inv

-------------------------------------------------------------------------------

\* Nothing happens.
LEMMA StutterStep ==
  ASSUME Inv, UNCHANGED vars
  PROVE  Inv'
  BY DEF Inv, TypeOK, PcInv, HoldInv, JobInv, HandleInv, SleepInv, QuitInv,
         vars, poolVars, callerVars

\* Every step keeps the invariant, if nobody waits for a job that is THREAD_NO_WAIT.
LEMMA Invariance ==
  ASSUME ~ WaitsForNoWait
  PROVE  Spec => []Inv
<1>1. Inv /\ [Next]_vars => Inv'
  <2> SUFFICES ASSUME Inv, [Next]_vars
               PROVE  Inv'
    OBVIOUS
  <2>1. ASSUME NEW w \in Worker, WorkerStep(w)
        PROVE  Inv'
    BY <2>1, TestStep, StartJobStep, EndJobStep, UnlockWorkerStep, WakeWorkerStep DEF WorkerStep
  <2>2. ASSUME NEW c \in Caller, Create(c) \/ CallerStep(c)
        PROVE  Inv'
    BY <2>2, CreateStep, LookStep, DispatchStep, SignalWorkerStep, RunInCallerStep, WaitStep,
       WakeCallerStep, ReleaseStep, TerminateStep, SignalTerminateStep, JoinStep DEF CallerStep
  <2> QED
    BY <2>1, <2>2, ShutdownStep, StutterStep DEF Next
<1> QED
  BY <1>1, Initially, PTL DEF Spec

\* The variables keep their types; among them, no job runs more than twice.
THEOREM TypeCorrectness ==
  ASSUME ~ WaitsForNoWait
  PROVE  Spec => []TypeOK
<1>1. Inv => TypeOK
  BY DEF Inv
<1> QED
  BY <1>1, Invariance, PTL

\* "Wait for the specified thread to complete": when Thread_Wait returns, the job ran, and
\* no job ever runs twice, whatever the numbers of workers, callers and jobs.
THEOREM JobsRunOnce ==
  ASSUME ~ WaitsForNoWait
  PROVE  Spec => []RanOnceWhenWaited
<1>1. Inv => RanOnceWhenWaited
  BY JobFacts, CreatedFacts DEF Inv, TypeOK, RanOnceWhenWaited, JobInv
<1> QED
  BY <1>1, Invariance, PTL

\* The assertion in Thread_Wait never fails: whoever was woken finds the job done.
THEOREM WaitersFindJobsDone ==
  ASSUME ~ WaitsForNoWait
  PROVE  Spec => []WaitAssertion
<1>1. Inv => WaitAssertion
  BY DEF Inv, WaitAssertion, SleepInv
<1> QED
  BY <1>1, Invariance, PTL
===============================================================================
