----------------------------- MODULE MCJobQueue -----------------------------
(***************************************************************************)
(* JobQueue for TLC.  The initial state picks one of the programs in       *)
(* Scenarios: the same threads use a queue of another class, and control   *)
(* it in other ways.  The constants are those of a weight_jobque that      *)
(* nobody aborts or resets; Jobque differs in the class alone, and is an   *)
(* instance of JobQueue itself: TLC evaluates a definition without         *)
(* variables once for all instances of a module, unless there is an        *)
(* INSTANCE that names the module.                                         *)
(***************************************************************************)
EXTENDS JobQueueProofs

CONSTANT Scenarios

VARIABLE scenario   \* chosen once

Jobque   == INSTANCE JobQueue WITH Kind <- "jobque", Weights <- {1}, MaxPut <- 3
Aborted  == INSTANCE JobQueueProofs WITH ControlOps <- {"close", "abort"}, MaxPut <- 2
Bounded  == INSTANCE JobQueueProofs
                WITH Kind <- "queue", Weights <- {1}, Timed <- {},
                     ControlOps <- {"close", "abort", "reset"}
Resized  == INSTANCE JobQueueProofs
                WITH Kind <- "queue", Weights <- {1}, ControlOps <- {"close", "set_limit"}, InitLimit <- 1
Synced   == INSTANCE JobQueueProofs
                WITH Kind <- "sync_queue", Weights <- {1}, Timed <- {},
                     ControlOps <- {"close", "abort"}, MaxPut <- 2, MaxControl <- 1

mcVars == <<vars, scenario>>

MCInit ==
    /\ scenario \in Scenarios
    /\ IF scenario = "resized" THEN Resized!Init ELSE Init

MCNext ==
    /\ \/ scenario = "weight_jobque" /\ Next
       \/ scenario = "jobque" /\ Jobque!Next
       \/ scenario = "aborted" /\ Aborted!Next
       \/ scenario = "bounded" /\ Bounded!Next
       \/ scenario = "resized" /\ Resized!Next
       \/ scenario = "synced" /\ Synced!Next
    /\ UNCHANGED scenario

MCRuns(t) ==
    /\ \/ scenario = "weight_jobque" /\ Runs(t)
       \/ scenario = "jobque" /\ Jobque!Runs(t)
       \/ scenario = "aborted" /\ Aborted!Runs(t)
       \/ scenario = "bounded" /\ Bounded!Runs(t)
       \/ scenario = "resized" /\ Resized!Runs(t)
       \/ scenario = "synced" /\ Synced!Runs(t)
    /\ UNCHANGED scenario

MCSpec     == MCInit /\ [][MCNext]_mcVars
MCFairSpec == MCSpec /\ \A t \in Threads : WF_mcVars(MCRuns(t))
-----------------------------------------------------------------------------
(* Properties of the scenarios with limits, aborts and resets              *)

\* A queue never holds more than its limit, and a weight_jobque admits no more uncommitted
\* weight than its limit: not even when several putters wake up for one free place.
LimitKept ==
    /\ scenario = "bounded" => Bounded!WithinLimit
    /\ scenario = "synced" => Synced!WithinLimit
    /\ scenario = "weight_jobque" => WithinLimit
    /\ scenario = "aborted" => Aborted!WithinLimit

\* Aborts and resets leave no thread parked that could go on.
NobodyForgotten ==
    /\ scenario = "aborted" => Aborted!NoLostWakeup
    /\ scenario = "bounded" => Bounded!NoLostWakeup
    /\ scenario = "synced" => Synced!NoLostWakeup

\* set_limit notifies nobody, yet as long as workers get, every blocked producer goes on.
ResizedPutReturns == \A p \in Producers : []<>(scenario = "resized" => op[p] # "put")

\* And of the two threads that meet in sync_finish neither stays behind.
BlockedReturns == ResizedPutReturns /\ SyncReturns
=============================================================================
