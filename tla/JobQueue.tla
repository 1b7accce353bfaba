------------------------------- MODULE JobQueue -------------------------------
(***************************************************************************)
(* job-queue.manager.ts: the in-memory background job queue of one process. *)
(* Node runs one callback at a time, so an action is what runs between two *)
(* returns to the event loop: enqueue, retryJob, processJob up to          *)
(* `await worker(job)`, and processJob after it.                           *)
(***************************************************************************)
EXTENDS Naturals

CONSTANTS
  Jobs,          \* job ids
  Queues,        \* queue names
  queueName,     \* [Jobs -> Queues]
  MaxAttempts    \* values of options.attempts (the schema: positive integers)

ASSUME JobsHaveQueues == queueName \in [Jobs -> Queues]
ASSUME AttemptsArePositive == MaxAttempts \subseteq Nat \ {0}

VARIABLES
  jobs,          \* the jobs Map: status ("NONE" without an entry) and attempts
  workers,       \* queues with a registered handler
  scheduled,     \* pending setImmediate and setTimeout callbacks of processJob
  running        \* processJob calls awaiting the worker's handler

vars == <<jobs, workers, scheduled, running>>

JobStatus == {"NONE", "PENDING", "PROCESSING", "COMPLETED", "FAILED"}

Absent == [status |-> "NONE", attemptsMade |-> 0, maxAttempts |-> 0]

Init ==
  /\ jobs = [j \in Jobs |-> Absent]
  /\ workers = {}
  /\ scheduled = [j \in Jobs |-> 0]
  /\ running = [j \in Jobs |-> 0]

RegisterWorker(q) ==
  /\ workers' = workers \cup {q}
  /\ UNCHANGED <<jobs, scheduled, running>>

\* One more callback of processJob(j) waits.
schedule(j) == scheduled' = [scheduled EXCEPT ![j] = @ + 1]

Enqueue(j, attempts) ==
  /\ jobs[j].status = "NONE"
  /\ jobs' = [jobs EXCEPT ![j] = [status |-> "PENDING", attemptsMade |-> 0,
                                  maxAttempts |-> attempts]]
  /\ schedule(j)
  /\ UNCHANGED <<workers, running>>

\* processJob goes on: the job exists, is not COMPLETED and has a handler.
mayProcess(j) ==
  jobs[j].status \notin {"NONE", "COMPLETED"} /\ queueName[j] \in workers

StartJob(j) ==
  /\ scheduled[j] > 0
  /\ mayProcess(j)
  /\ scheduled' = [scheduled EXCEPT ![j] = @ - 1]
  /\ running' = [running EXCEPT ![j] = @ + 1]
  /\ jobs' = [jobs EXCEPT ![j].status = "PROCESSING", ![j].attemptsMade = @ + 1]
  /\ UNCHANGED workers

\* processJob returns early; without a handler the job "remains pending".
SkipJob(j) ==
  /\ scheduled[j] > 0
  /\ ~mayProcess(j)
  /\ scheduled' = [scheduled EXCEPT ![j] = @ - 1]
  /\ UNCHANGED <<jobs, workers, running>>

\* The handler resolves.
CompleteJob(j) ==
  /\ running[j] > 0
  /\ running' = [running EXCEPT ![j] = @ - 1]
  /\ jobs' = [jobs EXCEPT ![j].status = "COMPLETED"]
  /\ UNCHANGED <<workers, scheduled>>

\* Mutants of attemptsLeft: one attempt too many, one too few.
attemptsLeftOrEqual(j) == jobs[j].attemptsMade <= jobs[j].maxAttempts
attemptsLeftEarly(j) == jobs[j].attemptsMade + 1 < jobs[j].maxAttempts

attemptsLeft(j) == jobs[j].attemptsMade < jobs[j].maxAttempts

\* Mutant of retryLater: the timer is not set.
neverRetry(j) == scheduled' = scheduled

\* The setTimeout with exponential backoff.
retryLater(j) == schedule(j)

\* The handler rejects.
FailJob(j) ==
  /\ running[j] > 0
  /\ running' = [running EXCEPT ![j] = @ - 1]
  /\ \/ /\ attemptsLeft(j)
        /\ jobs' = [jobs EXCEPT ![j].status = "PENDING"]
        /\ retryLater(j)
     \/ /\ ~attemptsLeft(j)
        /\ jobs' = [jobs EXCEPT ![j].status = "FAILED"]
        /\ UNCHANGED scheduled
  /\ UNCHANGED workers

\* Mutants of retryable: any job at rest, any job that has not succeeded.
isSettled(j) == jobs[j].status \in {"FAILED", "COMPLETED"}
isUnfinished(j) == jobs[j].status \in {"FAILED", "PENDING", "PROCESSING"}

retryable(j) == jobs[j].status = "FAILED"

\* retryJob: a FAILED job starts over.
RetryJob(j) ==
  /\ retryable(j)
  /\ jobs' = [jobs EXCEPT ![j] = [status |-> "PENDING", attemptsMade |-> 0,
                                  maxAttempts |-> @.maxAttempts]]
  /\ schedule(j)
  /\ UNCHANGED <<workers, running>>

\* The process ends (SIGTERM, uncaughtException, a crash) and starts again.
Restart ==
  /\ jobs' = [j \in Jobs |-> Absent]
  /\ workers' = {}
  /\ scheduled' = [j \in Jobs |-> 0]
  /\ running' = [j \in Jobs |-> 0]

Next ==
  \/ \E q \in Queues : RegisterWorker(q)
  \/ \E j \in Jobs :
       \/ \E attempts \in MaxAttempts : Enqueue(j, attempts)
       \/ StartJob(j) \/ SkipJob(j)
       \/ CompleteJob(j) \/ FailJob(j)
       \/ RetryJob(j)
  \/ Restart

Spec == Init /\ [][Next]_vars

(***************************************************************************)
(* The event loop runs every callback that is due, and handlers settle.    *)
(* Nothing is promised of enqueue, retryJob, registration and restarts.    *)
(***************************************************************************)
Fairness ==
  \A j \in Jobs : /\ WF_vars(StartJob(j) \/ SkipJob(j))
                  /\ WF_vars(CompleteJob(j) \/ FailJob(j))

FairSpec == Spec /\ Fairness

-----------------------------------------------------------------------------
\* Shapes; no job makes more attempts than its limit.
TypeOK ==
  /\ jobs \in [Jobs -> [status : JobStatus, attemptsMade : Nat, maxAttempts : Nat]]
  /\ workers \subseteq Queues
  /\ scheduled \in [Jobs -> Nat]
  /\ running \in [Jobs -> Nat]
  /\ \A j \in Jobs : jobs[j].attemptsMade <= jobs[j].maxAttempts

(***************************************************************************)
(* One activation: a job is never processed twice at once, nor has it a    *)
(* callback left while it runs or after it settled, whatever retries,      *)
(* timers and manual retries meet (job-queue.manager.ts:49-55, :98, :131). *)
(***************************************************************************)
OneActivation ==
  \A j \in Jobs :
    /\ scheduled[j] + running[j] <= 1
    /\ running[j] = 1 <=> jobs[j].status = "PROCESSING"
    /\ scheduled[j] = 1 => jobs[j].status = "PENDING"

(***************************************************************************)
(* No attempt is forgotten: a job that waits between two attempts has its  *)
(* timer (job-queue.manager.ts:92-100) and its queue a handler, and one    *)
(* that is given up has made all its attempts.                             *)
(***************************************************************************)
RetryIsArmed ==
  \A j \in Jobs :
    /\ jobs[j].status = "PENDING" /\ jobs[j].attemptsMade > 0 =>
         scheduled[j] = 1 /\ queueName[j] \in workers
    /\ jobs[j].status = "FAILED" => jobs[j].attemptsMade = jobs[j].maxAttempts

\* The inductive invariant.
IInv ==
  /\ TypeOK
  /\ OneActivation
  /\ RetryIsArmed
  /\ \A j \in Jobs :
       /\ jobs[j].status = "PENDING" => jobs[j].attemptsMade < jobs[j].maxAttempts
       /\ jobs[j].status = "PROCESSING" => queueName[j] \in workers
       /\ jobs[j].status # "NONE" => jobs[j].maxAttempts > 0

(***************************************************************************)
(* The queue keeps the promise of JobLife: whatever timers, callbacks,     *)
(* manual retries and late registrations meet, each job is tried one       *)
(* attempt at a time within its limit, and a completed job is never run    *)
(* again; only a restart breaks off its life (job-queue.manager.ts:64-136).*)
(***************************************************************************)
Promise == INSTANCE JobLife WITH job <- jobs

ImplementsJobLife == Promise!Spec

(***************************************************************************)
(* A job that is due on a queue with a handler settles, unless the process *)
(* restarts, however its attempts fail (job-queue.manager.ts:64-109).      *)
(***************************************************************************)
DueJobSettles ==
  \A j \in Jobs :
    (jobs[j].status = "PENDING" /\ scheduled[j] > 0 /\ queueName[j] \in workers)
      ~> jobs[j].status \in {"COMPLETED", "FAILED", "NONE"}
=============================================================================
