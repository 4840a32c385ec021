------------------------------ MODULE ThreadPool ------------------------------
(***************************************************************************)
(* The thread pool (common/thread.c).  Each worker has a status, a mutex    *)
(* and one condition, on which the worker waits for a job and whoever       *)
(* called Thread_Wait waits for its end.  The mutex is held while a job     *)
(* runs; the status is also read and written without it.                   *)
(*                                                                         *)
(* A thread is a number: the workers come first, then the threads that call *)
(* the pool, of which the first is the main thread.  pc says where in its   *)
(* function a thread is; what a thread does under a mutex without running   *)
(* the job, and whatever touches nothing shared, is one step.              *)
(***************************************************************************)
EXTENDS Integers, FiniteSets

CONSTANTS
  NumThreads,     \* threadPool.numThreads
  NumCallers,     \* how many threads call Thread_Create and Thread_Wait
  MaxJobs,        \* bound: how many jobs are created
  WaitsForNoWait  \* whether Thread_Wait is also called for a job that is THREAD_NO_WAIT

ASSUME PoolAssumption ==
  /\ NumThreads \in Nat \ {0} /\ NumCallers \in Nat \ {0}
  /\ MaxJobs \in Nat /\ WaitsForNoWait \in BOOLEAN

Worker == 1 .. NumThreads
main == NumThreads + 1
Caller == main .. NumThreads + NumCallers
Job == 1 .. MaxJobs
threadTerminate == MaxJobs + 1

VARIABLES
  pc,          \* where each thread is
  status,      \* WorkerThread.status
  noWait,      \* WorkerThread.options: whether it is THREAD_NO_WAIT
  Run,         \* WorkerThread.Run: the job; 0 before the first, or threadTerminate
  mutex,       \* the workers whose mutex is held
  cond,        \* the threads that wait on each worker's condition
  lock,        \* the caller that holds threadPool.lock; 0 for none
  thread,      \* the worker that each caller deals with in Thread_Create or Thread_Wait
  handles,     \* the workers that each caller has yet to wait for, with their jobs
  quitting,    \* whether the main thread is in Thread_Shutdown
  created,     \* how many jobs were created
  runs,        \* history: how many times each job ran
  waited       \* history: the jobs for which Thread_Wait returned

poolVars == <<status, noWait, Run, mutex, cond, lock>>
callerVars == <<thread, handles, quitting, created, waited>>
vars == <<pc, poolVars, callerVars, runs>>

TypeOK ==
  /\ status \in [Worker -> {"IDLE", "RUNNING", "WAITING"}]
  /\ noWait \in [Worker -> BOOLEAN]
  /\ Run \in [Worker -> 0 .. threadTerminate]
  /\ mutex \subseteq Worker
  /\ cond \in [Worker -> SUBSET (Worker \cup Caller)]
  /\ lock \in {0} \cup Caller
  /\ thread \in [Caller -> 1 .. NumThreads + 1]
  /\ handles \in [Caller -> SUBSET (Worker \X Job)]
  /\ quitting \in BOOLEAN /\ created \in 0 .. MaxJobs
  /\ runs \in [Job -> 0 .. 2]
  /\ waited \subseteq Job

\* Thread_Init
Init ==
  /\ pc = [t \in Worker \cup Caller |-> IF t \in Worker THEN "test" ELSE "ready"]
  /\ status = [w \in Worker |-> "IDLE"]
  /\ noWait = [w \in Worker |-> FALSE]
  /\ Run = [w \in Worker |-> 0]
  /\ mutex = {} /\ cond = [w \in Worker |-> {}] /\ lock = 0
  /\ thread = [c \in Caller |-> 1] /\ handles = [c \in Caller |-> {}]
  /\ quitting = FALSE /\ created = 0 /\ runs = [j \in Job |-> 0] /\ waited = {}

GoTo(t, where) == pc' = [pc EXCEPT ![t] = where]

\* SDL_WaitCondition lets go of the mutex ...
Sleep(t, w) == cond' = [cond EXCEPT ![w] = @ \cup {t}] /\ GoTo(t, "asleep")

\* ... until a signal wakes the thread, if any, and it gets the mutex back.
Signal(w) ==
  \/ cond[w] = {} /\ UNCHANGED cond
  \/ \E t \in cond[w] : cond' = [cond EXCEPT ![w] = @ \ {t}]

-------------------------------------------------------------------------------

\* Thread_Run: is it time to go?  The mutex is not held.
Test(w) ==
  /\ pc[w] = "test"
  /\ GoTo(w, IF Run[w] = threadTerminate THEN "exited" ELSE "lock")
  /\ UNCHANGED <<poolVars, callerVars, runs>>

\* With the mutex, the worker starts its job; without a job it waits for a signal.
StartJob(w) ==
  /\ pc[w] = "lock" /\ w \notin mutex
  /\ IF status[w] = "RUNNING"
     THEN /\ mutex' = mutex \cup {w}
          /\ runs' = [runs EXCEPT ![Run[w]] = @ + 1]
          /\ GoTo(w, "run")
          /\ UNCHANGED cond
     ELSE Sleep(w, w) /\ UNCHANGED <<mutex, runs>>
  /\ UNCHANGED <<status, noWait, Run, lock, callerVars>>

\* The job is done, and its thread gets another status.
EndJobAs(w, newStatus) ==
  /\ pc[w] = "run"
  /\ status' = [status EXCEPT ![w] = newStatus]
  /\ GoTo(w, "unlock")
  /\ UNCHANGED <<noWait, Run, mutex, lock, callerVars, runs>>

\* Mutants: the status stays what it was; nobody is ever waited for; nobody is told.
EndJobKeepingStatus(w) == EndJobAs(w, status[w]) /\ Signal(w)
EndJobAlwaysIdle(w) == EndJobAs(w, "IDLE") /\ Signal(w)
EndJobWithoutSignal(w) ==
  EndJobAs(w, IF noWait[w] THEN "IDLE" ELSE "WAITING") /\ UNCHANGED cond

\* The thread is free at once, or once somebody waited for it.
EndJob(w) == EndJobAs(w, IF noWait[w] THEN "IDLE" ELSE "WAITING") /\ Signal(w)

UnlockWorker(w) ==
  /\ pc[w] = "unlock"
  /\ mutex' = mutex \ {w}
  /\ GoTo(w, "test")
  /\ UNCHANGED <<status, noWait, Run, cond, lock, callerVars, runs>>

\* Awake, the worker takes and leaves the mutex and looks again.
WakeWorker(w) ==
  /\ pc[w] = "asleep" /\ w \notin cond[w] /\ w \notin mutex
  /\ GoTo(w, "test")
  /\ UNCHANGED <<poolVars, callerVars, runs>>

WorkerStep(w) == Test(w) \/ StartJob(w) \/ EndJob(w) \/ UnlockWorker(w) \/ WakeWorker(w)

-------------------------------------------------------------------------------

\* Thread_Create takes the lock of the pool and looks at the first worker.
Create(c) ==
  /\ pc[c] = "ready" /\ ~ quitting /\ created < MaxJobs /\ lock = 0
  /\ lock' = c
  /\ thread' = [thread EXCEPT ![c] = 1]
  /\ GoTo(c, "look")
  /\ UNCHANGED <<status, noWait, Run, mutex, cond, handles, quitting, created, waited, runs>>

\* A worker that appears idle is worth its mutex; any other is passed by.
Look(c) ==
  /\ pc[c] = "look" /\ thread[c] \in Worker
  /\ IF status[thread[c]] = "IDLE"
     THEN GoTo(c, "dispatch") /\ UNCHANGED thread
     ELSE thread' = [thread EXCEPT ![c] = @ + 1] /\ UNCHANGED pc
  /\ UNCHANGED <<poolVars, handles, quitting, created, waited, runs>>

\* An idle worker gets the job; its creator goes on to signal its condition.
Dispatch(c) ==
  LET w == thread[c] IN
  /\ pc[c] = "dispatch" /\ w \notin mutex
  /\ IF status[w] = "IDLE"
     THEN \E option \in BOOLEAN :
          /\ status' = [status EXCEPT ![w] = "RUNNING"]
          /\ noWait' = [noWait EXCEPT ![w] = option]
          /\ Run' = [Run EXCEPT ![w] = created + 1]
          /\ created' = created + 1
          /\ handles' = IF option /\ ~ WaitsForNoWait THEN handles
                        ELSE [handles EXCEPT ![c] = @ \cup {<<w, created + 1>>}]
          /\ GoTo(c, "signal")
          /\ UNCHANGED thread
     ELSE /\ thread' = [thread EXCEPT ![c] = w + 1]
          /\ GoTo(c, "look")
          /\ UNCHANGED <<status, noWait, Run, created, handles>>
  /\ UNCHANGED <<mutex, cond, lock, quitting, waited, runs>>

\* Mutant: the worker is not told of its job.
SignalWorkerNot(c) ==
  /\ pc[c] = "signal"
  /\ lock' = 0
  /\ GoTo(c, "ready")
  /\ UNCHANGED <<status, noWait, Run, mutex, cond, callerVars, runs>>

\* The creator tells the worker of the job and lets go of the pool.
SignalWorker(c) ==
  /\ pc[c] = "signal"
  /\ Signal(thread[c])
  /\ lock' = 0
  /\ GoTo(c, "ready")
  /\ UNCHANGED <<status, noWait, Run, mutex, callerVars, runs>>

\* No worker was idle, so the caller runs the job, and has no thread to wait for.
RunInCaller(c) ==
  /\ pc[c] = "look" /\ thread[c] \notin Worker
  /\ lock' = 0
  /\ created' = created + 1
  /\ runs' = [runs EXCEPT ![created + 1] = @ + 1]
  /\ GoTo(c, "ready")
  /\ UNCHANGED <<status, noWait, Run, mutex, cond, thread, handles, quitting, waited>>

-------------------------------------------------------------------------------

\* Mutant: whoever gets the mutex takes the job for done.
WaitForMutex(c, w) ==
  /\ w \notin mutex
  /\ thread' = [thread EXCEPT ![c] = w]
  /\ GoTo(c, "release")
  /\ UNCHANGED <<status, noWait, Run, mutex, cond, lock, created, waited, runs>>

\* Thread_Wait with the mutex: a job that has not begun is waited for.  One that has begun
\* held the mutex until its end.
WaitFor(c, w) ==
  /\ w \notin mutex
  /\ thread' = [thread EXCEPT ![c] = w]
  /\ IF status[w] = "RUNNING" THEN Sleep(c, w) ELSE GoTo(c, "release") /\ UNCHANGED cond
  /\ UNCHANGED <<status, noWait, Run, mutex, lock, created, waited, runs>>

Wait(c) ==
  /\ pc[c] = "ready"
  /\ \E h \in handles[c] : WaitFor(c, h[1])
  /\ UNCHANGED <<handles, quitting>>

\* Awake with the mutex: here the code asserts that the status is WAITING.
WakeCaller(c) ==
  /\ pc[c] = "asleep" /\ c \notin cond[thread[c]] /\ thread[c] \notin mutex
  /\ GoTo(c, "release")
  /\ UNCHANGED <<poolVars, callerVars, runs>>

\* The worker is free again; the mutex was let go before.
Release(c) ==
  LET waitedFor == {h \in handles[c] : h[1] = thread[c]} IN
  /\ pc[c] = "release"
  /\ status' = [status EXCEPT ![thread[c]] = "IDLE"]
  /\ handles' = [handles EXCEPT ![c] = @ \ waitedFor]
  /\ waited' = waited \cup {h[2] : h \in waitedFor}
  /\ GoTo(c, IF quitting THEN "terminate" ELSE "ready")
  /\ UNCHANGED <<noWait, Run, mutex, cond, lock, thread, quitting, created, runs>>

-------------------------------------------------------------------------------

\* The program is done with the pool, but for the jobs that nobody waits for.
NoLongerUsed ==
  /\ \A c \in Caller \ {main} : pc[c] = "ready"
  /\ \A c \in Caller : handles[c] = {}
  /\ WaitsForNoWait \/ \A w \in Worker : status[w] # "RUNNING"

\* Thread_Shutdown, by the main thread: wait for each worker in turn,
Shutdown ==
  /\ pc[main] = "ready" /\ ~ quitting /\ NoLongerUsed
  /\ quitting' = TRUE
  /\ WaitFor(main, 1)
  /\ UNCHANGED handles

\* have it terminate, without its mutex,
Terminate ==
  /\ pc[main] = "terminate"
  /\ Run' = [Run EXCEPT ![thread[main]] = threadTerminate]
  /\ GoTo(main, "signalEnd")
  /\ UNCHANGED <<status, noWait, mutex, cond, lock, callerVars, runs>>

\* signal it,
SignalTerminate ==
  /\ pc[main] = "signalEnd"
  /\ Signal(thread[main])
  /\ GoTo(main, "join")
  /\ UNCHANGED <<status, noWait, Run, mutex, lock, callerVars, runs>>

\* and wait for its end.
Join ==
  /\ pc[main] = "join" /\ pc[thread[main]] = "exited"
  /\ IF thread[main] = NumThreads
     THEN GoTo(main, "stopped") /\ UNCHANGED <<thread, cond>>
     ELSE WaitFor(main, thread[main] + 1)
  /\ UNCHANGED <<status, noWait, Run, mutex, lock, handles, quitting, created, waited, runs>>

CallerStep(c) ==
  \/ Look(c) \/ Dispatch(c) \/ SignalWorker(c) \/ RunInCaller(c)
  \/ Wait(c) \/ WakeCaller(c) \/ Release(c)
  \/ c = main /\ (Terminate \/ SignalTerminate \/ Join)

Next ==
  \/ \E w \in Worker : WorkerStep(w)
  \/ \E c \in Caller : Create(c) \/ CallerStep(c)
  \/ Shutdown

\* The scheduler runs every thread; whether to create a job or to quit is the program's.
Spec ==
  /\ Init /\ [][Next]_vars
  /\ \A w \in Worker : WF_vars(WorkerStep(w))
  /\ \A c \in Caller : WF_vars(CallerStep(c))

-------------------------------------------------------------------------------

\* "Wait for the specified thread to complete": when Thread_Wait returns, the job ran, and
\* no job ever runs twice.  A worker that a job may be dispatched to has run the one it had:
\* none is replaced, although the status is changed by both sides, with and without the mutex.
RanOnceWhenWaited ==
  /\ \A j \in waited : runs[j] = 1
  /\ \A j \in Job : runs[j] <= 1
  /\ \A w \in Worker :
       status[w] # "RUNNING" => Run[w] \in {0, threadTerminate} \/ runs[Run[w]] = 1

\* The assertion in Thread_Wait: whoever was woken finds the job done.
WaitAssertion ==
  \A c \in Caller :
    pc[c] = "asleep" /\ c \notin cond[thread[c]] => status[thread[c]] = "WAITING"

\* No signal is lost that a job depends on: every job that was created runs.
EventuallyRun == \A j \in Job : (created >= j) ~> (runs[j] >= 1)

\* ... and whoever waits for it goes on.
EventuallyReturns ==
  \A c \in Caller : (pc[c] = "asleep") ~> (pc[c] # "asleep")

\* "Shuts down the thread pool": once begun, it ends.
EventuallyStopped == quitting ~> (pc[main] = "stopped")
===============================================================================
