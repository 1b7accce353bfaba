------------------------------- MODULE JobLife -------------------------------
(***************************************************************************)
(* What the job queue promises of each job: it is tried one attempt at a   *)
(* time and at most as often as it was given, it is given up only when all *)
(* attempts are made, it is over once it has succeeded, and only a job     *)
(* given up may start over.  Timers, callbacks and handlers are hidden.    *)
(* The promise ends with the process: a restart forgets every job at once. *)
(***************************************************************************)
EXTENDS Naturals

CONSTANTS Jobs, MaxAttempts

VARIABLE job   \* of each job id: its status, attempts made and attempts given

Unknown == [status |-> "NONE", attemptsMade |-> 0, maxAttempts |-> 0]

Init == job = [j \in Jobs |-> Unknown]

Submit(j, attempts) ==
  /\ job[j].status = "NONE"
  /\ job' = [job EXCEPT ![j] = [status |-> "PENDING", attemptsMade |-> 0,
                                maxAttempts |-> attempts]]

Try(j) ==
  /\ job[j].status = "PENDING"
  /\ job[j].attemptsMade < job[j].maxAttempts
  /\ job' = [job EXCEPT ![j].status = "PROCESSING", ![j].attemptsMade = @ + 1]

Succeed(j) ==
  /\ job[j].status = "PROCESSING"
  /\ job' = [job EXCEPT ![j].status = "COMPLETED"]

\* The attempt fails and another one is left.
TryAgain(j) ==
  /\ job[j].status = "PROCESSING"
  /\ job[j].attemptsMade < job[j].maxAttempts
  /\ job' = [job EXCEPT ![j].status = "PENDING"]

\* The last attempt fails.
GiveUp(j) ==
  /\ job[j].status = "PROCESSING"
  /\ job[j].attemptsMade = job[j].maxAttempts
  /\ job' = [job EXCEPT ![j].status = "FAILED"]

StartOver(j) ==
  /\ job[j].status = "FAILED"
  /\ job' = [job EXCEPT ![j] = [status |-> "PENDING", attemptsMade |-> 0,
                                maxAttempts |-> @.maxAttempts]]

Forget == job' = [j \in Jobs |-> Unknown]

Next ==
  \/ \E j \in Jobs :
       \/ \E attempts \in MaxAttempts : Submit(j, attempts)
       \/ Try(j) \/ Succeed(j) \/ TryAgain(j) \/ GiveUp(j) \/ StartOver(j)
  \/ Forget

Spec == Init /\ [][Next]_job
=============================================================================
