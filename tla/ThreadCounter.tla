--------------------------- MODULE ThreadCounter ---------------------------
(***************************************************************************)
(* c7thread/counter.cpp: a counting semaphore.  down takes one when there  *)
(* is one (and calls on_zero, under the lock, when it took the last);      *)
(* wait_atleast and wait_just wait for a value and take nothing.           *)
(***************************************************************************)
EXTENDS CondVar

CONSTANTS
    Resets,   \* the values reset may be given
    MaxUps    \* bound: calls of up and reset

ThreadCounterAssumption == Resets \subseteq Nat /\ MaxUps \in Nat

VARIABLES
    counter,  \* counter_
    op,       \* op[t]: the call thread t is in, with the value it waits for
    ups,      \* history: calls of up and reset
    given,    \* history: units given by the constructor, reset and up, less those reset took
    downs     \* history: returns true of down

vars == <<cvVars, counter, op, ups, given, downs>>

Ops == {<<"idle", 0>>, <<"down", 1>>} \cup {<<w, n>> : w \in {"atleast", "just"}, n \in 1 .. 2}

TypeOK ==
    /\ CondVarTypeOK
    /\ counter \in Int
    /\ op \in [Threads -> Ops]
    /\ ups \in 0 .. MaxUps
    /\ given \in Int /\ downs \in Nat

Init ==
    /\ CondVarInit
    /\ counter \in Resets
    /\ op = [t \in Threads |-> <<"idle", 0>>]
    /\ ups = 0
    /\ given = counter /\ downs = 0
-----------------------------------------------------------------------------
reset(n) ==
    /\ ups < MaxUps
    /\ ups' = ups + 1
    /\ counter' = n
    /\ given' = n + downs
    /\ notify_all
    /\ UNCHANGED <<op, downs>>

up(n) ==
    /\ ups < MaxUps
    /\ ups' = ups + 1
    /\ counter' = counter + n
    /\ given' = given + n
    /\ notify_all
    /\ UNCHANGED <<op, downs>>

call(t) ==
    /\ op[t] = <<"idle", 0>>
    /\ \E o \in Ops \ {<<"idle", 0>>} : op' = [op EXCEPT ![t] = o]
    /\ UNCHANGED <<cvVars, counter, ups, given, downs>>

\* The conditions of the three while loops.
Ready(o) ==
    CASE o[1] = "down"    -> counter # 0
      [] o[1] = "atleast" -> counter >= o[2]
      [] o[1] = "just"    -> counter = o[2]
      [] OTHER            -> FALSE

park(t) ==
    /\ op[t][1] # "idle" /\ Awake(t)
    /\ ~Ready(op[t])
    /\ wait(t)
    /\ UNCHANGED <<counter, op, ups, given, downs>>

down(t) ==
    /\ op[t][1] = "down" /\ Awake(t)
    /\ Ready(op[t])
    /\ counter' = counter - 1
    /\ downs' = downs + 1
    /\ notify_all
    /\ op' = [op EXCEPT ![t] = <<"idle", 0>>]
    /\ UNCHANGED <<ups, given>>

wait_return(t) ==       \* wait_atleast, wait_just
    /\ op[t][1] \in {"atleast", "just"} /\ Awake(t)
    /\ Ready(op[t])
    /\ op' = [op EXCEPT ![t] = <<"idle", 0>>]
    /\ UNCHANGED <<cvVars, counter, ups, given, downs>>

timeout(t) ==
    /\ TimedOut(t)
    /\ op' = [op EXCEPT ![t] = <<"idle", 0>>]
    /\ UNCHANGED <<counter, ups, given, downs>>
-----------------------------------------------------------------------------
Runs(t) == down(t) \/ park(t) \/ wait_return(t) \/ timeout(t)

Wakes(t) == (WakeUp(t) \/ Expire(t)) /\ UNCHANGED <<counter, op, ups, given, downs>>

Next ==
    \/ \E n \in Resets : reset(n)
    \/ \E n \in 1 .. 2 : up(n)
    \/ \E t \in Threads : call(t) \/ Runs(t) \/ Wakes(t)

Spec == Init /\ [][Next]_vars

FairSpec == Spec /\ \A t \in Threads : WF_vars(Runs(t))
-----------------------------------------------------------------------------
(* Properties                                                              *)

\* down never takes what was not given: the counter is what is left, and never negative,
\* however many threads one up has woken.
NeverOverdrawn == counter >= 0 /\ counter = given - downs

\* Nobody sleeps while the value it waits for is there.
NoLostWakeup == \A t \in parked : ~Ready(op[t])

\* Some thread waits in down, beside units.
UnitsLeft == counter > 0 /\ \E t \in Threads : op[t][1] = "down"
=============================================================================
