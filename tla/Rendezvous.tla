----------------------------- MODULE Rendezvous -----------------------------
(***************************************************************************)
(* c7thread/rendezvous.cpp: wait returns true when n_entry threads have    *)
(* called it.  The last one to come starts the next round by changing id_; *)
(* abort makes n_entry_ negative, reset makes it positive again.           *)
(***************************************************************************)
EXTENDS CondVar

CONSTANTS
    N,          \* n_entry
    Controls,   \* what may be called: some of "abort", "reset"
    MaxRounds,  \* bound: rounds
    MaxControl, \* bound: calls of abort and reset
    MaxWaiting  \* bound: waiting_, which the calls that are refused count up too

RendezvousAssumption ==
    /\ N \in Nat \ {0}
    /\ Controls \subseteq {"abort", "reset"}
    /\ MaxRounds \in Nat /\ MaxControl \in Nat /\ MaxWaiting \in Nat

VARIABLES
    id,        \* id_
    aborted,   \* n_entry_ < 0
    waiting,   \* waiting_
    op,        \* op[t]: "in" wait(), or what its last call returned
    cur,       \* cur[t]: cur_id, the round thread t came to
    inside,    \* history: the threads in the round that is being gathered
    met,       \* history: the rounds that ended with N threads inside
    controls   \* history: calls of abort and reset

vars == <<cvVars, id, aborted, waiting, op, cur, inside, met, controls>>

TypeOK ==
    /\ CondVarTypeOK
    /\ id \in Nat
    /\ aborted \in BOOLEAN
    /\ waiting \in Nat
    /\ op \in [Threads -> {"in", "true", "false"}]
    /\ cur \in [Threads -> Nat]
    /\ inside \subseteq Threads
    /\ met \subseteq Nat
    /\ controls \in 0 .. MaxControl

Init ==
    /\ CondVarInit
    /\ id = 0
    /\ aborted = FALSE
    /\ waiting = 0
    /\ op = [t \in Threads |-> "false"]
    /\ cur = [t \in Threads |-> 0]
    /\ inside = {}
    /\ met = {}
    /\ controls = 0
-----------------------------------------------------------------------------
Calls(t) ==
    /\ op[t] # "in"
    /\ id < MaxRounds /\ waiting < MaxWaiting
    /\ cur' = [cur EXCEPT ![t] = id]

Return(t, value) == op' = [op EXCEPT ![t] = value]

wait_last_silent(t) ==     \* mutant: the last one notifies nobody
    /\ Calls(t)
    /\ ~aborted /\ waiting + 1 = N
    /\ id' = id + 1
    /\ waiting' = 0
    /\ Return(t, "true")
    /\ met' = IF Cardinality(inside \cup {t}) = N THEN met \cup {id} ELSE met
    /\ inside' = {}
    /\ UNCHANGED <<cvVars, aborted, controls>>

wait_last(t) ==
    /\ Calls(t)
    /\ ~aborted /\ waiting + 1 = N
    /\ id' = id + 1
    /\ waiting' = 0
    /\ notify_all
    /\ Return(t, "true")
    /\ met' = IF Cardinality(inside \cup {t}) = N THEN met \cup {id} ELSE met
    /\ inside' = {}
    /\ UNCHANGED <<aborted, controls>>

wait_enter(t) ==
    /\ Calls(t)
    /\ ~aborted /\ waiting + 1 # N
    /\ waiting' = waiting + 1
    /\ wait(t)
    /\ Return(t, "in")
    /\ inside' = inside \cup {t}
    /\ UNCHANGED <<id, aborted, met, controls>>

wait_refused(t) ==         \* aborting
    /\ Calls(t)
    /\ aborted
    /\ waiting' = waiting + 1
    /\ Return(t, "false")
    /\ UNCHANGED <<cvVars, id, aborted, inside, met, controls>>

wait_again_any(t) ==       \* mutant: a thread that was woken does not compare the ids
    /\ op[t] = "in" /\ Awake(t)
    /\ Return(t, IF aborted THEN "false" ELSE "true")
    /\ inside' = inside \ {t}
    /\ UNCHANGED <<cvVars, id, aborted, waiting, cur, met, controls>>

\* After c_.wait: the loop once more, or the return.
wait_again(t) ==
    /\ op[t] = "in" /\ Awake(t)
    /\ \/ /\ ~aborted /\ cur[t] = id
          /\ wait(t)
          /\ UNCHANGED <<op, inside>>
       \/ /\ aborted \/ cur[t] # id
          /\ Return(t, IF aborted THEN "false" ELSE "true")
          /\ inside' = inside \ {t}
          /\ UNCHANGED cvVars
    /\ UNCHANGED <<id, aborted, waiting, cur, met, controls>>

\* waiting_ still counts the thread that leaves.
wait_timeout(t) ==
    /\ TimedOut(t)
    /\ Return(t, "false")
    /\ inside' = inside \ {t}
    /\ UNCHANGED <<id, aborted, waiting, cur, met, controls>>

abort ==
    /\ "abort" \in Controls /\ controls < MaxControl
    /\ controls' = controls + 1
    /\ aborted' = TRUE
    /\ IF aborted THEN UNCHANGED cvVars ELSE notify_all
    /\ UNCHANGED <<id, waiting, op, cur, inside, met>>

\* Nobody is notified: who is parked finds out when it is woken by something else.
reset ==
    /\ "reset" \in Controls /\ controls < MaxControl
    /\ controls' = controls + 1
    /\ aborted' = FALSE
    /\ id' = id + 1
    /\ waiting' = 0
    /\ inside' = {}
    /\ UNCHANGED <<cvVars, op, cur, met>>
-----------------------------------------------------------------------------
wakeup(t) == (WakeUp(t) \/ Expire(t)) /\ UNCHANGED <<id, aborted, waiting, op, cur, inside, met, controls>>

Arrives(t) == wait_last(t) \/ wait_enter(t) \/ wait_refused(t)
Leaves(t)  == wait_again(t) \/ wait_timeout(t)

Next == abort \/ reset \/ \E t \in Threads : Arrives(t) \/ Leaves(t) \/ wakeup(t)

Spec == Init /\ [][Next]_vars

\* A thread that was woken runs.  No thread need call wait.
FairSpec == Spec /\ \A t \in Threads : WF_vars(Leaves(t))
-----------------------------------------------------------------------------
(* Properties                                                              *)

\* wait returns true ("all", rendezvous.cpp:41) when N threads have met in its round.
AllMet == \A t \in Threads : op[t] = "true" => cur[t] \in met

\* No thread sleeps in a round that is over or aborted.
NoLostWakeup == \A t \in parked : ~aborted /\ cur[t] = id

\* As long as no wait timed out or was aborted, waiting_ is the number of threads gathered in
\* the present round, so that a round takes N of them, reset or not.
CountsInside == waiting = Cardinality(inside) /\ waiting < N

\* Thread t waits in a round that is over, or was aborted.
KeptWaiting(t) == op[t] = "in" /\ (aborted \/ cur[t] # id)
=============================================================================
