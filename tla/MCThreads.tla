----------------------------- MODULE MCThreads -----------------------------
(***************************************************************************)
(* What threads are used for, for TLC.  The initial state picks it:        *)
(* threads that are started, joined and reused alone; a group, of three    *)
(* threads of which one cannot be started and one throws from              *)
(* on_any_finish, or of two whose callbacks return; the team of a          *)
(* datapara, whose functions do not throw, or all may while the driver may *)
(* be ended in the middle of a round, or of which the last main thread     *)
(* throws, or with a single main thread and separate output items; or the  *)
(* threads at one of the monitors: any of them, with timeouts, or a mask   *)
(* with waits of the composite kinds, or a rendezvous of two or with       *)
(* resets.                                                                 *)
(***************************************************************************)
EXTENDS Integers, Sequences, FiniteSets

CONSTANTS
    N, Capacity, MaxPuts,  \* of the driver whose functions do not throw
    MaxRounds,            \* bound: rounds of a driver, and of a rendezvous
    MaxSets, MaxUps       \* bounds: sets of a mask or an event, calls of up and reset of a counter

VARIABLES
    use,  \* chosen once
    state, exit, tpc, callOp, finalized, joined,
    parked, lapsed,
    flag, unfinished, adding, members, gop, ran, begun, alls,
    mask, rcv, in, out, snd, dpc, todo, pc, size, inRound, puts, mained, posted, rounds,
    object, sleeping, timedOut, bits, req, turned, maskTaken, maskSets,
    event, eventOp, eventSets, notices, eventTaken, waited, counter, counterOp, ups, given, downs,
    id, aborted, gathered, meetOp, cur, inside, met, controlled,
    pipe, data, at, late, user, leaving, do, hand, asked, replies

Callers == {"c1", "c2"}  \* the threads of the program that use threads and groups
Two   == {"th1", "th2"}
Three == Two \cup {"th3"}

Alone == INSTANCE ThreadProofs
           WITH Ths <- Two, Threads <- Two \cup Callers, Timed <- {},
                Hurried <- {"c1"}, MayFail <- {"th2"},
                MayThrow <- {"th1"}, MayReuse <- TRUE, AnyThrows <- {}, pc <- tpc, op <- callOp, expired <- lapsed
Group == INSTANCE ThreadProofs
           WITH Ths <- Three, Callers <- {"c1"}, Threads <- Three \cup {"c1"}, Timed <- {}, Hurried <- {},
                MayFail <- {"th3"}, MayThrow <- {}, MayReuse <- FALSE, AnyThrows <- {"th1"},
                pc <- tpc, op <- callOp, expired <- lapsed
Waits == INSTANCE ThreadProofs
           WITH Ths <- Two, Threads <- Two \cup Callers, Timed <- {}, Hurried <- {},
                MayFail <- {"th2"}, MayThrow <- {}, MayReuse <- FALSE, AnyThrows <- {},
                pc <- tpc, op <- callOp, expired <- lapsed

Sound      == INSTANCE DataParaProofs WITH MaxPut <- MaxPuts, SameType <- TRUE, MayCrash <- {}, EndAnytime <- FALSE
Throws     == INSTANCE DataParaProofs
                WITH N <- 2, Capacity <- 2, MaxPut <- 4,
                     SameType <- TRUE, MayCrash <- {0, 1, 2}, EndAnytime <- TRUE
MainThrows == INSTANCE DataParaProofs
                WITH N <- 2, Capacity <- 2, MaxPut <- 5,
                     SameType <- TRUE, MayCrash <- {1}, EndAnytime <- FALSE
Separate   == INSTANCE DataParaProofs
                WITH N <- 1, Capacity <- 2, MaxPut <- 5,
                     SameType <- FALSE, MayCrash <- {}, EndAnytime <- FALSE

Req(k, e, a, c) == [kind |-> k, expect |-> e, any |-> a, clear |-> c]

\* Waits as datapara.hpp uses them, and waits of the composite kinds.
Simple    == {Req("any", {1}, {}, {1}), Req("all", {1, 2}, {}, {1})}
Composite == {Req("all_or", {1, 2}, {3}, {}), Req("alloff_or", {1}, {3}, {3}),
              Req("anyoff", {1, 2}, {}, {2}), Req("anyoff_or", {2}, {3}, {}), Req("alloff", {1, 2}, {}, {})}

AtMonitor == INSTANCE Monitors
               WITH Objects <- {"mask", "event", "counter", "rendezvous", "channel"},
                    Threads <- 1 .. 3, Timed <- {2},
                    Bits <- {1, 2}, Requests <- Simple, Changes <- {<<{1}, {2}>>}, Resets <- {0, 1},
                    N <- 3, Controls <- {"abort"}, Ahead <- 3, MayAbort <- TRUE,
                    MaxControl <- 2, MaxWaiting <- 6, MaxReq <- 5,
                    parked <- sleeping, expired <- timedOut, mask <- bits, state <- pipe,
                    waiting <- gathered, controls <- controlled
Composed  == INSTANCE Monitors
               WITH Objects <- {"mask"}, Threads <- 1 .. 2, Timed <- {2},
                    Bits <- 1 .. 3, Requests <- Composite, Changes <- {<<{3}, {1}>>}, Resets <- {0},
                    N <- 3, Controls <- {}, Ahead <- 1, MayAbort <- FALSE,
                    MaxSets <- 1, MaxControl <- 0, MaxWaiting <- 0, MaxReq <- 0,
                    parked <- sleeping, expired <- timedOut, mask <- bits, state <- pipe,
                    waiting <- gathered, controls <- controlled
Rounds    == INSTANCE Monitors
               WITH Objects <- {"rendezvous"}, Threads <- 1 .. 3, Timed <- {},
                    Bits <- {}, Requests <- {}, Changes <- {}, Resets <- {0},
                    N <- 2, Controls <- {}, Ahead <- 1, MayAbort <- FALSE,
                    MaxControl <- 0, MaxWaiting <- 4, MaxReq <- 0,
                    parked <- sleeping, expired <- timedOut, mask <- bits, state <- pipe,
                    waiting <- gathered, controls <- controlled
Restarts  == INSTANCE Monitors
               WITH Objects <- {"rendezvous"}, Threads <- 1 .. 3, Timed <- {},
                    Bits <- {}, Requests <- {}, Changes <- {}, Resets <- {0},
                    N <- 3, Controls <- {"reset"}, Ahead <- 1, MayAbort <- FALSE,
                    MaxControl <- 2, MaxWaiting <- 6, MaxReq <- 0,
                    parked <- sleeping, expired <- timedOut, mask <- bits, state <- pipe,
                    waiting <- gathered, controls <- controlled

ASSUME Alone!ThreadAssumption /\ Alone!CondVarAssumption
ASSUME Group!ThreadAssumption /\ Group!CondVarAssumption /\ Group!ThreadGroupAssumption
ASSUME Waits!ThreadAssumption /\ Waits!CondVarAssumption /\ Waits!ThreadGroupAssumption
ASSUME TeamsAssumption ==
    /\ Sound!DataParaAssumption /\ Throws!DataParaAssumption
    /\ MainThrows!DataParaAssumption /\ Separate!DataParaAssumption
ASSUME ObjectsAssumption ==
    /\ AtMonitor!MonitorsAssumption /\ Composed!MonitorsAssumption
    /\ Rounds!MonitorsAssumption /\ Restarts!MonitorsAssumption

threadVars == <<state, exit, tpc, callOp, finalized, joined>>
groupVars  == <<parked, lapsed, flag, unfinished, adding, members, gop, ran, begun, alls>>
paraVars   == <<mask, rcv, in, out, snd, dpc, todo, pc, size, inRound, puts, mained, posted, rounds>>
teamVars   == <<threadVars, groupVars, paraVars>>
atVars     == <<object, sleeping, timedOut, bits, req, turned, maskTaken, maskSets,
                event, eventOp, eventSets, notices, eventTaken, waited, counter, counterOp, ups, given, downs,
                id, aborted, gathered, meetOp, cur, inside, met, controlled,
                pipe, data, at, late, user, leaving, do, hand, asked, replies>>
useVars    == <<use, teamVars, atVars>>

NoGroup   == Waits!GroupInit
NoPara    == Sound!Init
NoMonitor == AtMonitor!Init /\ object = "mask" /\ counter = 0

ThreadsInit ==
    \/ /\ \/ use = "alone" /\ Alone!GroupInit
          \/ use = "group" /\ Group!GroupInit
          \/ use = "waits" /\ Waits!GroupInit
       /\ NoPara /\ NoMonitor
    \/ /\ \/ use = "sound" /\ Sound!Init
          \/ use = "throws" /\ Throws!Init
          \/ use = "main throws" /\ MainThrows!Init
          \/ use = "separate" /\ Separate!Init
       /\ NoGroup /\ NoMonitor
    \/ /\ \/ use = "monitor" /\ AtMonitor!Init /\ (object # "counter" => counter = 0)
          \/ use = "composed" /\ Composed!Init
          \/ use = "rounds" /\ Rounds!Init
          \/ use = "reset" /\ Restarts!Init
       /\ NoGroup /\ NoPara

UsesThreads == UNCHANGED <<groupVars, paraVars, atVars>>
UsesGroup   == UNCHANGED <<paraVars, atVars>>
UsesPara    == UNCHANGED <<threadVars, groupVars, atVars>>
UsesMonitor == UNCHANGED teamVars

ThreadsNext ==
    /\ \/ use = "alone" /\ Alone!Next /\ UsesThreads
       \/ use = "group" /\ Group!GroupNext /\ UsesGroup
       \/ use = "waits" /\ Waits!GroupNext /\ UsesGroup
       \/ use = "sound" /\ Sound!Next /\ UsesPara
       \/ use = "throws" /\ Throws!Next /\ UsesPara
       \/ use = "main throws" /\ MainThrows!Next /\ UsesPara
       \/ use = "separate" /\ Separate!Next /\ UsesPara
       \/ use = "monitor" /\ AtMonitor!Next /\ UsesMonitor
       \/ use = "composed" /\ Composed!Next /\ UsesMonitor
       \/ use = "rounds" /\ Rounds!Next /\ UsesMonitor
       \/ use = "reset" /\ Restarts!Next /\ UsesMonitor
    /\ UNCHANGED use

ThreadsSpec == ThreadsInit /\ [][ThreadsNext]_useVars

\* Agent k runs: a thread, and the functions it is given return, or a caller in a call; a thread
\* of the team, or its driver (N + 1); a thread at a monitor.
Agents == <<"th1", "th2", "c1", "c2">>

AgentRuns(k) ==
    /\ \/ /\ use = "alone" /\ k \in 1 .. 2 /\ Alone!thread(Agents[k]) /\ UsesThreads
       \/ /\ use = "alone" /\ k \in 3 .. 4
          /\ (\E t \in Two : Alone!InCall(Agents[k], t)) /\ UsesThreads
       \/ use = "waits" /\ k \in 1 .. 2 /\ Waits!member(Agents[k]) /\ UsesGroup
       \/ use = "waits" /\ k \in 3 .. 4 /\ Waits!GroupCall(Agents[k]) /\ UsesGroup
       \/ use = "sound" /\ Sound!TeamRuns(k) /\ UsesPara
       \/ use = "sound" /\ k = N + 1 /\ Sound!DriverRuns /\ UsesPara
       \/ use = "main throws" /\ MainThrows!TeamRuns(k) /\ UsesPara
       \/ use = "main throws" /\ k = N + 1 /\ MainThrows!DriverRuns /\ UsesPara
       \/ use = "separate" /\ Separate!TeamRuns(k) /\ UsesPara
       \/ use = "separate" /\ k = N + 1 /\ Separate!DriverRuns /\ UsesPara
       \/ use = "monitor" /\ k \in 1 .. 3 /\ AtMonitor!Runs(k) /\ UsesMonitor
       \/ use = "composed" /\ k \in 1 .. 2 /\ Composed!Runs(k) /\ UsesMonitor
       \/ use = "rounds" /\ k \in 1 .. 3 /\ Rounds!Runs(k) /\ UsesMonitor
    /\ UNCHANGED use

ThreadsFairSpec == ThreadsSpec /\ \A k \in 0 .. N + 1 : WF_useVars(AgentRuns(k))
-----------------------------------------------------------------------------
(* The properties, in the scenarios in which they hold                     *)

\* A join that returned true means that the thread is over, and its status final; and
\* finalize is called exactly once, whether the thread ran or could not be started.
JoinMeansOver ==
    /\ use = "alone" => Alone!JoinMeansOver /\ Alone!FinalizedOnce
    /\ use = "group" => Group!FinalizedOnce

\* A group of which a thread could not be started runs no target at all, and no group runs
\* one before start().
AllOrNothing ==
    /\ use = "group" => Group!AllOrNothing
    /\ use = "waits" => Waits!AllOrNothing

\* unfinished_ counts the threads of the group that are on their way; and where no callback
\* throws nobody sleeps in the group who could go on.
UnfinishedCounts ==
    /\ use = "group" => Group!UnfinishedCounts
    /\ use = "waits" => Waits!UnfinishedCounts /\ Waits!GroupNoLostWakeup

\* on_all_finish is called when the last thread has finished.
AllFinishIsLast ==
    [][alls' > alls => \A t \in members : tpc'[t] \in {"none", "leave", "done"}]_useVars

\* Each batch is worked on by the right threads and by nobody else at that time, also when
\* threads throw and the driver is ended in the middle of a round.
BuffersApart ==
    /\ use = "sound" => Sound!BuffersApart
    /\ use = "throws" => Throws!BuffersApart
    /\ use = "separate" => Separate!BuffersApart

\* No item is processed twice or out of order, whatever throws; and the post thread gets
\* what the main threads have written for it, and no old batch.
ProcessedInOrder ==
    /\ use = "sound" => Sound!ProcessedInOrder
    /\ use = "throws" => Throws!ProcessedInOrder
    /\ use = "separate" => Separate!ProcessedInOrder /\ Separate!PostSeesResults

\* end_round returns when every item of the round has been processed, where nobody throws.
RoundIsComplete ==
    /\ use = "sound" => Sound!RoundIsComplete
    /\ use = "separate" => Separate!RoundIsComplete

\* No thread sleeps while what it waits for is there: bits, the event, a unit or a value of
\* the counter, the end of its round or its abortion (reset of a rendezvous tells nobody), an
\* element of a channel or a place for it.
NobodySleepsOn ==
    /\ use = "monitor" => AtMonitor!NoLostWakeup
    /\ use = "composed" => Composed!NoLostWakeup
    /\ use = "rounds" => Rounds!NoLostWakeup

\* What was given once is taken once: an exclusive bit of the mask, an event that
\* wait_and_clear takes, a unit of the counter that down takes, the reply to a request.
TakenOnce == use = "monitor" => AtMonitor!TakenOnce

\* Where no wait times out: wait of the rendezvous returns true when N threads have met in its
\* round; waiting_ is the number of threads gathered in the round, reset or not.
AllMet ==
    /\ use = "rounds" => Rounds!AllMet
    /\ use = "reset" => Restarts!AllMet

\* start, join and the wait of a group return; put, end_round and end of a driver never hang,
\* nor when a main thread has thrown; and a thread at a monitor goes on when its condition
\* comes and stays.
AllReturn ==
    \A k \in 1 .. 3 : []<>(
        /\ \A c \in {Agents[2 + k] : x \in {y \in {1} : k < 3}} :
             /\ use = "alone" => callOp[c] = Alone!Idle \/ state[callOp[c][2]] = "START_FAILED"
             /\ use = "waits" => ~(gop[c] = "wait" /\ flag # "WAIT")
        /\ use \in {"sound", "main throws", "separate"} => dpc \in {"idle", "failed", "ended"}
        /\ use = "monitor" => ~AtMonitor!KeptWaiting(k)
        /\ use = "composed" /\ k # 3 => ~Composed!KeptWaiting(k)
        /\ use = "rounds" => ~Rounds!KeptWaiting(k))
=============================================================================
