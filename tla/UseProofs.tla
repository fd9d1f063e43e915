------------------------------ MODULE UseProofs ------------------------------
(***************************************************************************)
(* Theorems about the uses of threads and queues in MCThreads and          *)
(* MCJobQueue: each of them keeps the invariant that JobQueueProofs,       *)
(* ThreadProofs, DataParaProofs and Monitors prove, with constants of its  *)
(* own.                                                                    *)
(***************************************************************************)
EXTENDS MCThreads, MCJobQueue

-----------------------------------------------------------------------------
(* MCThreads, for any N, Capacity and bounds: each use of threads          *)
(* keeps the invariant of its own module.                                  *)

ThreadsInv ==
    /\ alls \in Nat
    /\ use = "alone" => Alone!ThreadInv
    /\ use = "group" => Group!GroupInv
    /\ use = "waits" => Waits!WaitInv
    /\ use = "sound" => Sound!RoundInv
    /\ use = "throws" => Throws!OrderInv
    /\ use = "separate" => Separate!RoundInv
    /\ use = "monitor" => AtMonitor!MonitorInv
    /\ use = "composed" => Composed!MonitorInv
    /\ use = "rounds" => Rounds!MonitorInv
    /\ use = "reset" => Restarts!MonitorInv

LEMMA FiniteThreads == Group!IsFiniteSet(Three) /\ Waits!IsFiniteSet(Two)
<1>1. IsFiniteSet(Two) /\ IsFiniteSet(Three)
  <2>1. IsFiniteSet({"th1"}) /\ IsFiniteSet({"th3"})
    BY FS_Singleton
  <2>2. Two = {"th1"} \cup {"th2"}
    BY DEF Two
  <2>3. IsFiniteSet(Two)
    BY <2>1, <2>2, FS_AddElement
  <2>4. IsFiniteSet(Three)
    BY <2>3, FS_AddElement DEF Three
  <2> QED
    BY <2>3, <2>4
<1>2. ASSUME NEW S PROVE (Group!IsFiniteSet(S) <=> IsFiniteSet(S)) /\ (Waits!IsFiniteSet(S) <=> IsFiniteSet(S))
  BY DEF Group!IsFiniteSet, Waits!IsFiniteSet, IsFiniteSet
<1> QED
  BY <1>1, <1>2

\* The teams are teams whose main threads write an output of their own.
LEMMA TeamsAreSound ==
    /\ Sound!OwnOutput /\ Sound!NobodyThrows
    /\ Throws!OwnOutput
    /\ Separate!OwnOutput /\ Separate!NobodyThrows
  BY DEF Sound!OwnOutput, Sound!NobodyThrows, Throws!OwnOutput, Separate!OwnOutput, Separate!NobodyThrows

LEMMA InitThreadsInv == ThreadsInit => ThreadsInv
<1> SUFFICES ASSUME ThreadsInit PROVE ThreadsInv
  OBVIOUS
<1>1. ASSUME use = "alone" PROVE Alone!ThreadInv
  BY <1>1, Alone!InitThreadInv DEF ThreadsInit, Alone!GroupInit
<1>2. ASSUME use = "group" PROVE Group!GroupInv
  BY <1>2, Group!InitWaitInv DEF ThreadsInit, Group!WaitInv
<1>3. ASSUME use = "waits" PROVE Waits!WaitInv
  BY <1>3, Waits!InitWaitInv DEF ThreadsInit
<1>4. ASSUME use = "sound" PROVE Sound!RoundInv
  BY <1>4, TeamsAssumption, TeamsAreSound, Sound!InitRoundInv DEF ThreadsInit
<1>5. ASSUME use = "throws" PROVE Throws!OrderInv
  BY <1>5, TeamsAssumption, Throws!InitOrderInv DEF ThreadsInit
<1>6. ASSUME use = "separate" PROVE Separate!RoundInv
  BY <1>6, TeamsAssumption, TeamsAreSound, Separate!InitRoundInv DEF ThreadsInit
<1>7. ASSUME use = "monitor" PROVE AtMonitor!MonitorInv
  BY <1>7, ObjectsAssumption, AtMonitor!InitMonitorInv DEF ThreadsInit
<1>8. ASSUME use = "composed" PROVE Composed!MonitorInv
  BY <1>8, ObjectsAssumption, Composed!InitMonitorInv DEF ThreadsInit
<1>9. ASSUME use = "rounds" PROVE Rounds!MonitorInv
  BY <1>9, ObjectsAssumption, Rounds!InitMonitorInv DEF ThreadsInit
<1>10. ASSUME use = "reset" PROVE Restarts!MonitorInv
  BY <1>10, ObjectsAssumption, Restarts!InitMonitorInv DEF ThreadsInit
<1>11. alls \in Nat
  <2>1. Alone!GroupInit \/ Group!GroupInit \/ Waits!GroupInit
    BY DEF ThreadsInit, NoGroup
  <2>2. alls = 0
    BY <2>1 DEF Alone!GroupInit, Group!GroupInit, Waits!GroupInit
  <2> QED
    BY <2>2
<1> QED
  BY <1>11, <1>1, <1>2, <1>3, <1>4, <1>5, <1>6, <1>7, <1>8, <1>9, <1>10 DEF ThreadsInv

\* A step of a group is one of the use's group.
LEMMA GroupSteps ==
    ASSUME [ThreadsNext]_useVars
    PROVE  /\ use = "group" => [Group!GroupNext]_Group!gvars
           /\ use = "waits" => [Waits!GroupNext]_Waits!gvars
  BY DEF ThreadsNext, useVars, teamVars, threadVars, groupVars,
         Group!gvars, Group!threadVars, Group!callVars, Group!cvVars, Group!groupVars,
         Waits!gvars, Waits!threadVars, Waits!callVars, Waits!cvVars, Waits!groupVars

LEMMA AllsOfGroups ==
    ASSUME [ThreadsNext]_useVars, use \notin {"group", "waits"}
    PROVE  alls' = alls
  BY DEF ThreadsNext, useVars, teamVars, groupVars, UsesThreads, UsesPara, UsesMonitor

LEMMA StepThreadsInv == ThreadsInv /\ [ThreadsNext]_useVars => ThreadsInv'
<1> SUFFICES ASSUME ThreadsInv, [ThreadsNext]_useVars PROVE ThreadsInv'
  OBVIOUS
<1>0. use' = use
  BY DEF ThreadsNext, useVars
<1>1. ASSUME use = "alone" PROVE Alone!ThreadInv'
  <2>1. [Alone!Next]_Alone!vars
    BY <1>1 DEF ThreadsNext, useVars, teamVars, threadVars, Alone!vars, Alone!threadVars, Alone!callVars
  <2> QED
    BY <1>1, <2>1, Alone!StepThreadInv DEF ThreadsInv
<1>2. ASSUME use = "group" PROVE Group!GroupInv'
  BY <1>2, GroupSteps, FiniteThreads, Group!StepGroupInv DEF ThreadsInv
<1>3. ASSUME use = "waits" PROVE Waits!WaitInv'
  <2>1. Waits!ThreadAssumption /\ Waits!ThreadGroupAssumption
    BY DEF Waits!ThreadAssumption, Waits!ThreadGroupAssumption, Two, Callers
  <2> QED
    BY <1>3, <2>1, GroupSteps, FiniteThreads, Waits!StepWaitInv DEF ThreadsInv
<1>4. ASSUME use = "sound" PROVE Sound!RoundInv'
  <2>1. [Sound!Next]_Sound!vars
    BY <1>4 DEF ThreadsNext, useVars, teamVars, paraVars, Sound!vars, Sound!buffers, Sound!driver, Sound!work
  <2> QED
    BY <1>4, <2>1, TeamsAssumption, TeamsAreSound, Sound!StepRoundInv DEF ThreadsInv
<1>5. ASSUME use = "throws" PROVE Throws!OrderInv'
  <2>1. [Throws!Next]_Throws!vars
    BY <1>5 DEF ThreadsNext, useVars, teamVars, paraVars, Throws!vars, Throws!buffers, Throws!driver, Throws!work
  <2> QED
    BY <1>5, <2>1, TeamsAssumption, TeamsAreSound, Throws!StepOrderInv DEF ThreadsInv
<1>6. ASSUME use = "separate" PROVE Separate!RoundInv'
  <2>1. [Separate!Next]_Separate!vars
    BY <1>6 DEF ThreadsNext, useVars, teamVars, paraVars, Separate!vars, Separate!buffers, Separate!driver, Separate!work
  <2> QED
    BY <1>6, <2>1, TeamsAssumption, TeamsAreSound, Separate!StepRoundInv DEF ThreadsInv
<1>7. ASSUME use = "monitor" PROVE AtMonitor!MonitorInv'
  <2>1. [AtMonitor!Next]_AtMonitor!vars
    BY <1>7 DEF ThreadsNext, useVars, atVars, AtMonitor!vars, AtMonitor!monitorVars, AtMonitor!maskVars, AtMonitor!eventVars,
                AtMonitor!counterVars, AtMonitor!meetVars, AtMonitor!chanVars
  <2> QED
    BY <1>7, <2>1, ObjectsAssumption, AtMonitor!StepMonitorInv DEF ThreadsInv
<1>8. ASSUME use = "composed" PROVE Composed!MonitorInv'
  <2>1. [Composed!Next]_Composed!vars
    BY <1>8 DEF ThreadsNext, useVars, atVars, Composed!vars, Composed!monitorVars, Composed!maskVars, Composed!eventVars,
                Composed!counterVars, Composed!meetVars, Composed!chanVars
  <2> QED
    BY <1>8, <2>1, ObjectsAssumption, Composed!StepMonitorInv DEF ThreadsInv
<1>9. ASSUME use = "rounds" PROVE Rounds!MonitorInv'
  <2>1. [Rounds!Next]_Rounds!vars
    BY <1>9 DEF ThreadsNext, useVars, atVars, Rounds!vars, Rounds!monitorVars, Rounds!maskVars, Rounds!eventVars,
                Rounds!counterVars, Rounds!meetVars, Rounds!chanVars
  <2> QED
    BY <1>9, <2>1, ObjectsAssumption, Rounds!StepMonitorInv DEF ThreadsInv
<1>10. ASSUME use = "reset" PROVE Restarts!MonitorInv'
  <2>1. [Restarts!Next]_Restarts!vars
    BY <1>10 DEF ThreadsNext, useVars, atVars, Restarts!vars, Restarts!monitorVars, Restarts!maskVars, Restarts!eventVars,
                 Restarts!counterVars, Restarts!meetVars, Restarts!chanVars
  <2> QED
    BY <1>10, <2>1, ObjectsAssumption, Restarts!StepMonitorInv DEF ThreadsInv
<1>11. alls' \in Nat
  <2>1. ASSUME use = "group" PROVE alls' \in Nat
    BY <1>2, <2>1 DEF Group!GroupInv
  <2>2. ASSUME use = "waits" PROVE alls' \in Nat
    BY <1>3, <2>2 DEF Waits!WaitInv, Waits!GroupInv
  <2> QED
    BY <2>1, <2>2, AllsOfGroups DEF ThreadsInv
<1> QED
  BY <1>0, <1>1, <1>2, <1>3, <1>4, <1>5, <1>6, <1>7, <1>8, <1>9, <1>10, <1>11 DEF ThreadsInv

LEMMA ThreadsInvariant == ThreadsSpec => []ThreadsInv
  BY InitThreadsInv, StepThreadsInv, PTL DEF ThreadsSpec
-----------------------------------------------------------------------------
(* What the runs check of a small instance, for any N, Capacity and bounds *)

\* Whoever came back from a join with true came after the end of the thread; and finalize was
\* called once, by the thread or by the start that failed.
THEOREM JoinsMeanOver == ThreadsSpec => []JoinMeansOver
<1>1. ThreadsInv => JoinMeansOver
  BY Alone!ThreadInvMeans, Group!GroupInvMeans DEF ThreadsInv, JoinMeansOver
<1> QED
  BY <1>1, ThreadsInvariant, PTL

\* All targets of a group run or none: no interleaving of add, start, abort and the threads
\* themselves lets one run before start, or in a group that lost a thread.
THEOREM GroupsRunAllOrNothing == ThreadsSpec => []AllOrNothing
<1>1. ThreadsInv => AllOrNothing
  BY Group!GroupInvMeans, Waits!GroupInvMeans DEF ThreadsInv, AllOrNothing, Waits!WaitInv
<1> QED
  BY <1>1, ThreadsInvariant, PTL

\* unfinished_ is the number of threads on their way, whichever end first, throw or fail to
\* start; and a group is not left asleep.
THEOREM GroupsCount == ThreadsSpec => []UnfinishedCounts
<1>1. ThreadsInv => UnfinishedCounts
  BY Group!GroupInvMeans, Waits!GroupInvMeans DEF ThreadsInv, UnfinishedCounts, Waits!WaitInv, Waits!ParkInv
<1> QED
  BY <1>1, ThreadsInvariant, PTL

\* on_all_finish is called in the step in which the last thread of the group ends, and at no
\* other time.
THEOREM FinishIsLast == ThreadsSpec => AllFinishIsLast
<1>1. ASSUME ThreadsInv, [ThreadsNext]_useVars, alls' > alls
      PROVE  \A t \in members : tpc'[t] \in {"none", "leave", "done"}
  <2>1. CASE use = "group"
    BY <1>1, <2>1, GroupSteps, FiniteThreads, Group!LastFinish DEF ThreadsInv
  <2>2. CASE use = "waits"
    BY <1>1, <2>2, GroupSteps, FiniteThreads, Waits!LastFinish DEF ThreadsInv, Waits!WaitInv
  <2>3. CASE use \notin {"group", "waits"}
    BY <1>1, <2>3, AllsOfGroups DEF ThreadsInv
  <2> QED
    BY <2>1, <2>2, <2>3
<1>2. ThreadsInv /\ [ThreadsNext]_useVars => [alls' > alls => \A t \in members : tpc'[t] \in {"none", "leave", "done"}]_useVars
  BY <1>1
<1> QED
  BY <1>2, ThreadsInvariant, PTL DEF ThreadsSpec, AllFinishIsLast

\* The bits of the mask keep the driver, the main threads and the post thread of a team off
\* each other's batches, also when functions throw and end() comes in the middle of a round.
THEOREM TeamsStayApart == ThreadsSpec => []BuffersApart
<1>1. ThreadsInv => BuffersApart
  BY TeamsAssumption, Sound!OrderInvMeans, Throws!OrderInvMeans, Separate!OrderInvMeans
     DEF ThreadsInv, BuffersApart, Sound!RoundInv, Separate!RoundInv
<1> QED
  BY <1>1, ThreadsInvariant, PTL

\* Items are worked on in the order of put and once, whatever throws, and the post thread gets
\* what was made of them.
THEOREM TeamsKeepOrder == ThreadsSpec => []ProcessedInOrder
<1>1. ThreadsInv => ProcessedInOrder
  BY TeamsAssumption, Sound!OrderInvMeans, Throws!OrderInvMeans, Separate!OrderInvMeans
     DEF ThreadsInv, ProcessedInOrder, Sound!RoundInv, Separate!RoundInv
<1> QED
  BY <1>1, ThreadsInvariant, PTL

\* Outside of a round every item that was put has been through all main threads and the post
\* thread, where no function throws.
THEOREM TeamsCompleteRounds == ThreadsSpec => []RoundIsComplete
<1>1. ThreadsInv => RoundIsComplete
  BY TeamsAssumption, Sound!RoundInvMeans, Separate!RoundInvMeans DEF ThreadsInv, RoundIsComplete
<1> QED
  BY <1>1, ThreadsInvariant, PTL

\* At no monitor a thread sleeps on when what it waits for has come, whatever times out.
THEOREM WaitsAreWoken == ThreadsSpec => []NobodySleepsOn
<1>1. ThreadsInv => NobodySleepsOn
  BY AtMonitor!MonitorInvMeans, Composed!MonitorInvMeans, Rounds!MonitorInvMeans DEF ThreadsInv, NobodySleepsOn
<1> QED
  BY <1>1, ThreadsInvariant, PTL

\* What was given once to the threads at a monitor is taken by one of them.
THEOREM GiftsAreTakenOnce == ThreadsSpec => []TakenOnce
<1>1. ThreadsInv => TakenOnce
  BY AtMonitor!MonitorInvMeans DEF ThreadsInv, TakenOnce
<1> QED
  BY <1>1, ThreadsInvariant, PTL

\* The rounds of a rendezvous are of N threads, where no wait times out.
THEOREM RoundsAreFull == ThreadsSpec => []AllMet
<1>1. ThreadsInv => AllMet
  BY Rounds!MonitorInvMeans, Restarts!MonitorInvMeans DEF ThreadsInv, AllMet
<1> QED
  BY <1>1, ThreadsInvariant, PTL
-----------------------------------------------------------------------------
(* LimitKept and NobodyForgotten, for any threads, weights, limits and     *)
(* bounds: each program keeps the invariant of JobQueueProofs with its own *)
(* constants.                                                              *)

\* The program that resizes its queue starts with the limit 1; no other one calls set_limit.
MCAssumption == 1 \in Limits /\ "set_limit" \notin ControlOps

MCInv ==
    /\ scenario = "weight_jobque" => SafeInv
    /\ scenario = "aborted" => Aborted!SafeInv
    /\ scenario = "bounded" => Bounded!SafeInv
    /\ scenario = "synced" => Synced!SafeInv

LEMMA MCInitInv == MCAssumption /\ MCInit => MCInv
<1> SUFFICES ASSUME MCAssumption, MCInit PROVE MCInv
  OBVIOUS
<1> USE ConstantsAssumption DEF MCAssumption, AllControlOps, Threads
<1>1. ASSUME scenario # "resized" PROVE Init
  BY <1>1 DEF MCInit
<1>2. ASSUME scenario = "aborted" PROVE Aborted!SafeInv
  <2>1. Aborted!Init
    BY <1>1, <1>2 DEF Init, Aborted!Init, Aborted!Threads
  <2> QED
    BY <2>1, Aborted!InitSafeInv DEF Aborted!AllControlOps, Aborted!Threads
<1>3. ASSUME scenario = "bounded" PROVE Bounded!SafeInv
  <2>1. Bounded!Init
    BY <1>1, <1>3 DEF Init, Bounded!Init, Bounded!Threads
  <2> QED
    BY <2>1, Bounded!InitSafeInv DEF Bounded!AllControlOps, Bounded!Threads
<1>4. ASSUME scenario = "synced" PROVE Synced!SafeInv
  <2>1. Synced!Init
    BY <1>1, <1>4 DEF Init, Synced!Init, Synced!Threads
  <2> QED
    BY <2>1, Synced!InitSafeInv DEF Synced!AllControlOps, Synced!Threads
<1> QED
  BY <1>1, <1>2, <1>3, <1>4, InitSafeInv DEF MCInv

LEMMA MCStepInv == MCAssumption /\ MCInv /\ [MCNext]_mcVars => MCInv'
<1> SUFFICES ASSUME MCAssumption, MCInv, [MCNext]_mcVars PROVE MCInv'
  OBVIOUS
<1> USE ConstantsAssumption DEF MCAssumption, AllControlOps, Threads
<1>1. scenario' = scenario
  BY DEF MCNext, mcVars
<1>2. ASSUME scenario = "weight_jobque" PROVE SafeInv'
  <2>1. SafeInv /\ [Next]_vars
    BY <1>2 DEF MCInv, MCNext, mcVars
  <2> QED
    BY <2>1, StepSafeInv
<1>3. ASSUME scenario = "aborted" PROVE Aborted!SafeInv'
  <2>1. Aborted!SafeInv /\ [Aborted!Next]_Aborted!vars
    BY <1>3 DEF MCInv, MCNext, mcVars, vars, queVars, history, Aborted!vars, Aborted!queVars, Aborted!history
  <2> QED
    BY <2>1, Aborted!StepSafeInv DEF Aborted!AllControlOps, Aborted!Threads
<1>4. ASSUME scenario = "bounded" PROVE Bounded!SafeInv'
  <2>1. Bounded!SafeInv /\ [Bounded!Next]_Bounded!vars
    BY <1>4 DEF MCInv, MCNext, mcVars, vars, queVars, history, Bounded!vars, Bounded!queVars, Bounded!history
  <2> QED
    BY <2>1, Bounded!StepSafeInv DEF Bounded!AllControlOps, Bounded!Threads
<1>5. ASSUME scenario = "synced" PROVE Synced!SafeInv'
  <2>1. Synced!SafeInv /\ [Synced!Next]_Synced!vars
    BY <1>5 DEF MCInv, MCNext, mcVars, vars, queVars, history, Synced!vars, Synced!queVars, Synced!history
  <2> QED
    BY <2>1, Synced!StepSafeInv DEF Synced!AllControlOps, Synced!Threads
<1> QED
  BY <1>1, <1>2, <1>3, <1>4, <1>5 DEF MCInv

\* A bounded queue, a sync_queue and a weight_jobque never hold more than their limit, also
\* while they are aborted and reset (_queue.hpp put, jobque.hpp is_overflow).
THEOREM LimitsAreKept == MCAssumption => (MCSpec => []LimitKept)
<1>1. MCInv => LimitKept
  BY DEF MCInv, LimitKept, SafeInv, Aborted!SafeInv, Bounded!SafeInv, Synced!SafeInv
<1>2. ASSUME MCAssumption PROVE MCSpec => []LimitKept
  BY <1>1, <1>2, MCInitInv, MCStepInv, PTL DEF MCSpec
<1> QED
  BY <1>2

\* Aborts and resets leave no thread parked in put, get, wait_finished, wait_progress or
\* sync_finish that could go on (_queue.hpp abort, reset).
THEOREM NobodyIsForgotten == MCAssumption => (MCSpec => []NobodyForgotten)
<1>1. MCInv => NobodyForgotten
  BY DEF MCInv, NobodyForgotten, Aborted!SafeInv, Aborted!WakeInv, Bounded!SafeInv, Bounded!WakeInv,
         Synced!SafeInv, Synced!WakeInv
<1>2. ASSUME MCAssumption PROVE MCSpec => []NobodyForgotten
  BY <1>1, <1>2, MCInitInv, MCStepInv, PTL DEF MCSpec
<1> QED
  BY <1>2
=============================================================================
