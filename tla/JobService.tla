----------------------------- MODULE JobService -----------------------------
(***************************************************************************)
(* What jobque and weight_jobque promise a program that closes its queue   *)
(* and never aborts it: a job that was accepted stays pending until it is  *)
(* committed, no job is accepted after close, and the queue is closed at   *)
(* the moment the last pending job is committed, neither before nor later. *)
(* The queue, its counter, the workers and the condition variable that     *)
(* JobQueue describes do not appear here.                                  *)
(***************************************************************************)
EXTENDS Naturals

VARIABLES
    jobs,     \* number of jobs accepted so far: the jobs are 1..jobs
    pending,  \* the jobs accepted and not committed
    phase     \* "ALIVE", "CLOSING" or "CLOSED"

vars == <<jobs, pending, phase>>

Init == jobs = 0 /\ pending = {} /\ phase = "ALIVE"

Accept ==
    /\ phase = "ALIVE"
    /\ jobs' = jobs + 1
    /\ pending' = pending \cup {jobs'}
    /\ UNCHANGED phase

Complete(j) ==
    /\ j \in pending
    /\ pending' = pending \ {j}
    /\ phase' = IF phase = "CLOSING" /\ pending' = {} THEN "CLOSED" ELSE phase
    /\ UNCHANGED jobs

Close ==
    /\ phase' = IF pending = {} THEN "CLOSED" ELSE "CLOSING"
    /\ UNCHANGED <<jobs, pending>>

Next == Accept \/ Close \/ \E j \in pending : Complete(j)

Spec == Init /\ [][Next]_vars

\* A pending job is committed in the end: the workers get and commit for ever.
FairSpec == Spec /\ WF_vars(\E j \in pending : Complete(j))
=============================================================================
