---------------------------- MODULE JobQueueProofs ----------------------------
(***************************************************************************)
(* The safety properties of the job queue for every set of jobs, every     *)
(* assignment of queues and every limit of attempts.  IInv adds to the     *)
(* checked invariants what a waiting and a running job owe to them.        *)
(***************************************************************************)
EXTENDS JobQueue, TLAPS

USE DEF schedule, mayProcess, attemptsLeft, retryLater, retryable, Absent, JobStatus

\* The empty Map satisfies the invariant.
LEMMA InitIInv == Init => IInv
BY DEF Init, IInv, TypeOK, OneActivation, RetryIsArmed

\* What the invariant says of one job besides its shape.
jobOK(j) ==
  /\ scheduled[j] + running[j] <= 1
  /\ running[j] = 1 <=> jobs[j].status = "PROCESSING"
  /\ scheduled[j] = 1 => jobs[j].status = "PENDING"
  /\ jobs[j].status = "PENDING" /\ jobs[j].attemptsMade > 0 =>
       scheduled[j] = 1 /\ queueName[j] \in workers
  /\ jobs[j].status = "FAILED" => jobs[j].attemptsMade = jobs[j].maxAttempts
  /\ jobs[j].status = "PENDING" => jobs[j].attemptsMade < jobs[j].maxAttempts
  /\ jobs[j].status = "PROCESSING" => queueName[j] \in workers
  /\ jobs[j].status # "NONE" => jobs[j].maxAttempts > 0

LEMMA IInvPerJob == IInv <=> TypeOK /\ \A j \in Jobs : jobOK(j)
BY DEF IInv, jobOK, OneActivation, RetryIsArmed

\* What a job's record and its two counters can be.
LEMMA Counters ==
  ASSUME TypeOK, NEW j \in Jobs, jobOK(j)
  PROVE  /\ jobs[j] \in [status : JobStatus, attemptsMade : Nat, maxAttempts : Nat]
         /\ \/ scheduled[j] = 0 /\ running[j] = 0 /\ jobs[j].status # "PROCESSING"
            \/ scheduled[j] = 1 /\ running[j] = 0 /\ jobs[j].status = "PENDING"
            \/ scheduled[j] = 0 /\ running[j] = 1 /\ jobs[j].status = "PROCESSING"
<1>1. scheduled[j] \in Nat /\ running[j] \in Nat
  BY DEF TypeOK
<1>2. jobs[j] \in [status : JobStatus, attemptsMade : Nat, maxAttempts : Nat]
  BY DEF TypeOK
<1>3. QED
  BY <1>1, <1>2 DEF jobOK

\* A step that touches one job only has to be checked for that job.
LEMMA OneJobStep ==
  ASSUME IInv, NEW j \in Jobs, TypeOK', workers' = workers, jobOK(j)',
         \A k \in Jobs \ {j} : /\ jobs'[k] = jobs[k]
                               /\ scheduled'[k] = scheduled[k]
                               /\ running'[k] = running[k]
  PROVE  IInv'
<1>1. ASSUME NEW k \in Jobs \ {j} PROVE jobOK(k)'
  BY <1>1, IInvPerJob DEF jobOK
<1>2. (TypeOK /\ \A k \in Jobs : jobOK(k))'
  BY <1>1
<1>3. QED
  BY <1>2
  DEF IInv, jobOK, OneActivation, RetryIsArmed

\* Enqueue and the manual retry give a job its only callback.
LEMMA ArmIInv ==
  ASSUME IInv, NEW j \in Jobs,
         (\E attempts \in MaxAttempts : Enqueue(j, attempts)) \/ RetryJob(j)
  PROVE  IInv'
<1>1. TypeOK /\ jobOK(j)
  BY IInvPerJob
<1>0. /\ jobs[j] \in [status : JobStatus, attemptsMade : Nat, maxAttempts : Nat]
      /\ \/ scheduled[j] = 0 /\ running[j] = 0 /\ jobs[j].status # "PROCESSING"
         \/ scheduled[j] = 1 /\ running[j] = 0 /\ jobs[j].status = "PENDING"
         \/ scheduled[j] = 0 /\ running[j] = 1 /\ jobs[j].status = "PROCESSING"
  BY <1>1, Counters
<1>2. CASE \E attempts \in MaxAttempts : Enqueue(j, attempts)
  <2>1. PICK attempts \in MaxAttempts : Enqueue(j, attempts)
    BY <1>2
  <2>2. attempts \in Nat /\ attempts > 0
    BY AttemptsArePositive
  <2>3. TypeOK'
    BY <1>0, <1>1, <2>1, <2>2 DEF TypeOK, Enqueue
  <2>4. jobOK(j)'
    BY <1>0, <1>1, <2>1, <2>2 DEF TypeOK, jobOK, Enqueue
  <2>5. QED
    BY <1>0, <1>1, <2>1, <2>3, <2>4, OneJobStep DEF TypeOK, Enqueue
<1>3. CASE RetryJob(j)
  <2>1. jobs[j].maxAttempts > 0
    BY <1>0, <1>1, <1>3 DEF TypeOK, jobOK, RetryJob
  <2>2. TypeOK'
    <3>1. [status |-> "PENDING", attemptsMade |-> 0, maxAttempts |-> jobs[j].maxAttempts]
            \in [status : JobStatus, attemptsMade : Nat, maxAttempts : Nat]
      BY <1>0
    <3>2. QED
      BY <1>1, <1>3, <2>1, <3>1 DEF TypeOK, RetryJob
  <2>3. jobOK(j)'
    BY <1>0, <1>1, <1>3, <2>1 DEF TypeOK, jobOK, RetryJob
  <2>4. QED
    BY <1>0, <1>1, <1>3, <2>2, <2>3, OneJobStep DEF TypeOK, RetryJob
<1>4. QED
  BY <1>2, <1>3

\* A callback of processJob starts the job, or finds nothing to do.
LEMMA CallbackIInv ==
  ASSUME IInv, NEW j \in Jobs, StartJob(j) \/ SkipJob(j)
  PROVE  IInv'
<1>1. TypeOK /\ jobOK(j)
  BY IInvPerJob
<1>0. /\ jobs[j] \in [status : JobStatus, attemptsMade : Nat, maxAttempts : Nat]
      /\ \/ scheduled[j] = 0 /\ running[j] = 0 /\ jobs[j].status # "PROCESSING"
         \/ scheduled[j] = 1 /\ running[j] = 0 /\ jobs[j].status = "PENDING"
         \/ scheduled[j] = 0 /\ running[j] = 1 /\ jobs[j].status = "PROCESSING"
  BY <1>1, Counters
<1>2. CASE StartJob(j)
  <2>1. /\ jobs[j].status = "PENDING" /\ scheduled[j] = 1 /\ running[j] = 0
        /\ jobs[j].attemptsMade < jobs[j].maxAttempts
    BY <1>0, <1>1, <1>2 DEF TypeOK, jobOK, StartJob
  <2>2. TypeOK'
    BY <1>0, <1>1, <1>2, <2>1 DEF TypeOK, StartJob
  <2>3. jobOK(j)'
    BY <1>0, <1>1, <1>2, <2>1 DEF TypeOK, jobOK, StartJob
  <2>4. QED
    BY <1>0, <1>1, <1>2, <2>2, <2>3, OneJobStep DEF TypeOK, StartJob
<1>3. CASE SkipJob(j)
  <2>0. scheduled[j] > 0 /\ ~mayProcess(j)
    BY <1>3 DEF SkipJob
  <2>1. jobs[j].status = "PENDING" /\ scheduled[j] = 1 /\ queueName[j] \notin workers
    BY <1>0, <2>0
  <2>2. TypeOK'
    BY <1>0, <1>1, <1>3 DEF TypeOK, SkipJob
  <2>3. jobOK(j)'
    BY <1>0, <1>1, <1>3, <2>1 DEF TypeOK, jobOK, SkipJob
  <2>4. QED
    BY <1>0, <1>1, <1>3, <2>2, <2>3, OneJobStep DEF TypeOK, SkipJob
<1>4. QED
  BY <1>2, <1>3

\* The handler settles: the job ends, waits for its next attempt or is given up.
LEMMA SettleIInv ==
  ASSUME IInv, NEW j \in Jobs, CompleteJob(j) \/ FailJob(j)
  PROVE  IInv'
<1>1. TypeOK /\ jobOK(j)
  BY IInvPerJob
<1>0. /\ jobs[j] \in [status : JobStatus, attemptsMade : Nat, maxAttempts : Nat]
      /\ \/ scheduled[j] = 0 /\ running[j] = 0 /\ jobs[j].status # "PROCESSING"
         \/ scheduled[j] = 1 /\ running[j] = 0 /\ jobs[j].status = "PENDING"
         \/ scheduled[j] = 0 /\ running[j] = 1 /\ jobs[j].status = "PROCESSING"
  BY <1>1, Counters
<1>2. /\ jobs[j].status = "PROCESSING" /\ scheduled[j] = 0 /\ running[j] = 1
      /\ queueName[j] \in workers
  BY <1>1, SMTT(30) DEF TypeOK, jobOK, CompleteJob, FailJob
<1>3. CASE CompleteJob(j)
  <2>1. TypeOK'
    BY <1>0, <1>1, <1>3 DEF TypeOK, CompleteJob
  <2>2. jobOK(j)'
    BY <1>0, <1>1, <1>2, <1>3 DEF TypeOK, jobOK, CompleteJob
  <2>3. QED
    BY <1>0, <1>1, <1>3, <2>1, <2>2, OneJobStep DEF TypeOK, CompleteJob
<1>4. CASE FailJob(j)
  <2>1. TypeOK'
    BY <1>0, <1>1, <1>4, SMTT(30) DEF TypeOK, FailJob
  <2>2. jobOK(j)'
    BY <1>0, <1>1, <1>2, <1>4, SMTT(30) DEF TypeOK, jobOK, FailJob
  <2>3. QED
    BY <1>0, <1>1, <1>4, <2>1, <2>2, OneJobStep DEF TypeOK, FailJob
<1>5. QED
  BY <1>3, <1>4

\* The invariant is inductive.
LEMMA Inductive == IInv /\ [Next]_vars => IInv'
<1> SUFFICES ASSUME IInv, [Next]_vars PROVE IInv'
  OBVIOUS
<1>1. CASE \E q \in Queues : RegisterWorker(q)
  BY <1>1
  DEF IInv, TypeOK, OneActivation, RetryIsArmed, RegisterWorker
<1>2. ASSUME NEW j \in Jobs,
             \/ \E attempts \in MaxAttempts : Enqueue(j, attempts)
             \/ RetryJob(j)
      PROVE  IInv'
  BY <1>2, ArmIInv
<1>3. ASSUME NEW j \in Jobs, StartJob(j) \/ SkipJob(j)
      PROVE  IInv'
  BY <1>3, CallbackIInv
<1>4. ASSUME NEW j \in Jobs, CompleteJob(j) \/ FailJob(j)
      PROVE  IInv'
  BY <1>4, SettleIInv
<1>5. CASE Restart
  BY <1>5
  DEF IInv, TypeOK, OneActivation, RetryIsArmed, Restart
<1>6. CASE UNCHANGED vars
  BY <1>6
  DEF IInv, TypeOK, OneActivation, RetryIsArmed, vars
<1>7. QED
  BY <1>1, <1>2, <1>3, <1>4, <1>5, <1>6 DEF Next

\* Every reachable state satisfies IInv.
LEMMA Invariance == Spec => []IInv
BY InitIInv, Inductive, PTL DEF Spec

(***************************************************************************)
(* A job is never processed twice at once and has no callback left once it *)
(* runs or has settled.                                                    *)
(***************************************************************************)
THEOREM OneActivationAtATime == Spec => []OneActivation
<1>1. IInv => OneActivation
  BY DEF IInv
<1>2. QED
  BY <1>1, Invariance, PTL

(***************************************************************************)
(* A job between two attempts has its timer and its handler, and a FAILED  *)
(* one has made exactly as many attempts as it was given                   *)
(* (job-queue.manager.ts:92-108).                                          *)
(***************************************************************************)
THEOREM RetriesAreArmed == Spec => []RetryIsArmed
<1>1. IInv => RetryIsArmed
  BY DEF IInv
<1>2. QED
  BY <1>1, Invariance, PTL

(***************************************************************************)
(* Job records keep their shape, and no job makes more attempts than its   *)
(* limit (job-queue.manager.ts:92).                                        *)
(***************************************************************************)
THEOREM TypeCorrect == Spec => []TypeOK
<1>1. IInv => TypeOK
  BY DEF IInv
<1>2. QED
  BY <1>1, Invariance, PTL

-----------------------------------------------------------------------------
\* An empty Map is a queue that knows no job.
LEMMA InitLife == Init => Promise!Init
BY DEF Init, Promise!Init, Promise!Unknown

\* Enqueue submits a job, the manual retry starts one over.
LEMMA ArmLife ==
  ASSUME IInv, NEW j \in Jobs,
         (\E attempts \in MaxAttempts : Enqueue(j, attempts)) \/ RetryJob(j)
  PROVE  Promise!Next
<1>1. CASE \E attempts \in MaxAttempts : Enqueue(j, attempts)
  <2>1. \E attempts \in MaxAttempts : Promise!Submit(j, attempts)
    BY <1>1 DEF Enqueue, Promise!Submit
  <2>2. QED
    BY <2>1 DEF Promise!Next
<1>2. CASE RetryJob(j)
  <2>1. Promise!StartOver(j)
    BY <1>2 DEF RetryJob, Promise!StartOver
  <2>2. QED
    BY <2>1 DEF Promise!Next
<1>3. QED
  BY <1>1, <1>2

(***************************************************************************)
(* A callback that finds the job starts an attempt that is left: the guard *)
(* of StartJob does not say so, the invariant does (a callback belongs to  *)
(* a PENDING job, which has an attempt left).                              *)
(***************************************************************************)
LEMMA StartLife ==
  ASSUME IInv, NEW j \in Jobs, StartJob(j)
  PROVE  Promise!Next
<1>1. TypeOK /\ jobOK(j)
  BY IInvPerJob
<1>2. scheduled[j] > 0
  BY DEF StartJob
<1>3. jobs[j].status = "PENDING" /\ jobs[j].attemptsMade < jobs[j].maxAttempts
  BY <1>1, <1>2, Counters DEF jobOK
<1>4. Promise!Try(j)
  BY <1>3 DEF StartJob, Promise!Try
<1>5. QED
  BY <1>4 DEF Promise!Next

\* A handler that settles belongs to the one attempt that is being made.
LEMMA SettleLife ==
  ASSUME IInv, NEW j \in Jobs, CompleteJob(j) \/ FailJob(j)
  PROVE  Promise!Next
<1>1. TypeOK /\ jobOK(j)
  BY IInvPerJob
<1>2. running[j] > 0
  BY DEF CompleteJob, FailJob
<1>3. jobs[j].status = "PROCESSING"
  BY <1>1, <1>2, Counters
<1>4. CASE CompleteJob(j)
  <2>1. Promise!Succeed(j)
    BY <1>3, <1>4 DEF CompleteJob, Promise!Succeed
  <2>2. QED
    BY <2>1 DEF Promise!Next
<1>5. CASE FailJob(j) /\ attemptsLeft(j)
  <2>1. Promise!TryAgain(j)
    BY <1>3, <1>5 DEF FailJob, Promise!TryAgain
  <2>2. QED
    BY <2>1 DEF Promise!Next
<1>6. CASE FailJob(j) /\ ~attemptsLeft(j)
  <2>1. jobs[j].attemptsMade \in Nat /\ jobs[j].maxAttempts \in Nat
    BY <1>1 DEF TypeOK
  <2>2. jobs[j].attemptsMade <= jobs[j].maxAttempts
    BY <1>1 DEF TypeOK
  <2>3. jobs[j].attemptsMade = jobs[j].maxAttempts
    BY <1>6, <2>1, <2>2
  <2>4. Promise!GiveUp(j)
    BY <1>3, <1>6, <2>3 DEF FailJob, Promise!GiveUp
  <2>5. QED
    BY <2>4 DEF Promise!Next
<1>7. QED
  BY <1>4, <1>5, <1>6

\* Every step of the queue is a step in the life of a job, or hidden.
LEMMA LifeStep == IInv /\ [Next]_vars => [Promise!Next]_jobs
<1> SUFFICES ASSUME IInv, [Next]_vars PROVE Promise!Next \/ jobs' = jobs
  BY DEF Promise!Next
<1>1. ASSUME NEW j \in Jobs,
             \/ \E attempts \in MaxAttempts : Enqueue(j, attempts)
             \/ RetryJob(j)
      PROVE  Promise!Next
  BY <1>1, ArmLife
<1>2. ASSUME NEW j \in Jobs, StartJob(j) PROVE Promise!Next
  BY <1>2, StartLife
<1>3. ASSUME NEW j \in Jobs, CompleteJob(j) \/ FailJob(j) PROVE Promise!Next
  BY <1>3, SettleLife
<1>4. CASE \E q \in Queues : RegisterWorker(q)
  BY <1>4 DEF RegisterWorker
<1>5. ASSUME NEW j \in Jobs, SkipJob(j) PROVE jobs' = jobs
  BY <1>5 DEF SkipJob
<1>6. CASE Restart
  <2>1. Promise!Forget
    BY <1>6 DEF Restart, Promise!Forget, Promise!Unknown
  <2>2. QED
    BY <2>1 DEF Promise!Next
<1>7. CASE UNCHANGED vars
  BY <1>7 DEF vars
<1>8. QED
  BY <1>1, <1>2, <1>3, <1>4, <1>5, <1>6, <1>7 DEF Next

(***************************************************************************)
(* The in-memory queue implements JobLife: however callbacks, timers and   *)
(* manual retries interleave (job-queue.manager.ts:64-136), each job makes *)
(* one attempt at a time within its limit, and success is final.           *)
(***************************************************************************)
THEOREM JobsHaveOneLife == Spec => ImplementsJobLife
BY InitLife, LifeStep, Invariance, PTL DEF Spec, ImplementsJobLife, Promise!Spec
=============================================================================
