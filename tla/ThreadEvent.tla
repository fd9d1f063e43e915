---------------------------- MODULE ThreadEvent ----------------------------
(***************************************************************************)
(* c7thread/event.cpp: a flag that threads wait for.  wait leaves it set,  *)
(* wait_and_clear takes it.  on_set is called under the lock, before the   *)
(* waiting threads can see the flag.                                       *)
(***************************************************************************)
EXTENDS CondVar

CONSTANT MaxSets  \* bound: calls of set

ThreadEventAssumption == MaxSets \in Nat

VARIABLES
    event,   \* event_
    op,      \* op[t]: the call thread t is in
    sets,    \* history: calls of set
    notices, \* history: calls of on_set
    taken,   \* history: returns true of wait_and_clear
    waited   \* history: returns true of either wait

vars == <<cvVars, event, op, sets, notices, taken, waited>>

Waits == {"wait", "wait_and_clear"}

TypeOK ==
    /\ CondVarTypeOK
    /\ event \in BOOLEAN
    /\ op \in [Threads -> {"idle"} \cup Waits]
    /\ sets \in 0 .. MaxSets /\ notices \in Nat
    /\ taken \in Nat /\ waited \in BOOLEAN

\* The constructor: whatever init says, the event is not set.
Init ==
    /\ CondVarInit
    /\ event = FALSE
    /\ op = [t \in Threads |-> "idle"]
    /\ sets = 0 /\ notices = 0
    /\ taken = 0 /\ waited = FALSE
-----------------------------------------------------------------------------
set ==
    /\ sets < MaxSets
    /\ sets' = sets + 1
    /\ event' = TRUE
    /\ notices' = notices + 1
    /\ notify_all
    /\ UNCHANGED <<op, taken, waited>>

clear ==
    /\ event' = FALSE
    /\ notify_all
    /\ UNCHANGED <<op, sets, notices, taken, waited>>

wait_call(t) ==
    /\ op[t] = "idle"
    /\ \E w \in Waits : op' = [op EXCEPT ![t] = w]
    /\ UNCHANGED <<cvVars, event, sets, notices, taken, waited>>

wait_park(t) ==
    /\ op[t] \in Waits /\ Awake(t)
    /\ ~event
    /\ wait(t)
    /\ UNCHANGED <<event, op, sets, notices, taken, waited>>

wait_return(t) ==
    /\ op[t] \in Waits /\ Awake(t)
    /\ event
    /\ event' = (op[t] = "wait")
    /\ taken' = IF op[t] = "wait_and_clear" THEN taken + 1 ELSE taken
    /\ waited' = TRUE
    /\ op' = [op EXCEPT ![t] = "idle"]
    /\ UNCHANGED <<cvVars, sets, notices>>

wait_timeout(t) ==
    /\ TimedOut(t)
    /\ op' = [op EXCEPT ![t] = "idle"]
    /\ UNCHANGED <<event, sets, notices, taken, waited>>
-----------------------------------------------------------------------------
Runs(t) == wait_return(t) \/ wait_park(t) \/ wait_timeout(t)

Wakes(t) == (WakeUp(t) \/ Expire(t)) /\ UNCHANGED <<event, op, sets, notices, taken, waited>>

Next == set \/ clear \/ \E t \in Threads : wait_call(t) \/ Runs(t) \/ Wakes(t)

Spec == Init /\ [][Next]_vars

FairSpec == Spec /\ \A t \in Threads : WF_vars(Runs(t))
-----------------------------------------------------------------------------
(* Properties                                                              *)

\* Nobody sleeps on an event that is set, be it one of several who wait for it.
NoLostWakeup == event => parked = {}

\* wait_and_clear takes an event: each set lets at most one of them return true, and no
\* wait at all returns before the first set, whose on_set has been called by then.
TakenOnce ==
    /\ taken <= sets
    /\ waited => notices > 0

\* Thread t waits for an event that is set.
KeptWaiting(t) == event /\ op[t] # "idle"
=============================================================================
