------------------------------ MODULE MCJobQueue ------------------------------
(* A small instance of JobQueue: two jobs, one queue each. *)
EXTENDS JobQueue, TLC

CONSTANTS Mail, Refund, notifications, payments

MCQueueName == (Mail :> notifications) @@ (Refund :> payments)
=============================================================================
