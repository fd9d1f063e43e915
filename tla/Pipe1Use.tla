------------------------------ MODULE Pipe1Use ------------------------------
(***************************************************************************)
(* One pipe1 (Pipe1) and the threads that put into it, get from it, close  *)
(* it and abort it.                                                        *)
(***************************************************************************)
EXTENDS Pipe1

CONSTANTS
    Putters, Getters,  \* the threads
    Controls,          \* what is called besides put and get: some of "close", "abort"
    MaxPut             \* bound: elements put

Pipe1UseAssumption ==
    /\ Threads = Putters \cup Getters /\ Putters \cap Getters = {}
    /\ Cardinality(Pipes) = 1
    /\ Controls \subseteq {"close", "abort"}
    /\ MaxPut \in Nat

VARIABLES
    op,      \* op[t]: thread t is in its call
    puts,    \* history: elements put; an element is its number
    got,     \* history: the elements got, in order
    ended    \* history: the getters that were told CLOSED, and not again since

vars == <<pipeVars, op, puts, got, ended>>

p1 == CHOOSE p \in Pipes : TRUE

TypeOK ==
    /\ PipeTypeOK(1 .. MaxPut)
    /\ op \in [Threads -> BOOLEAN]
    /\ puts \in 0 .. MaxPut
    /\ got \in Seq(Int)
    /\ ended \in BOOLEAN

Init ==
    /\ PipeInit
    /\ op = [t \in Threads |-> FALSE]
    /\ puts = 0
    /\ got = <<>>
    /\ ended = FALSE
-----------------------------------------------------------------------------
call(t) ==
    /\ ~op[t]
    /\ op' = [op EXCEPT ![t] = TRUE]
    /\ UNCHANGED <<pipeVars, puts, got, ended>>

Runs(t)   == op[t] /\ Awake(t)
Return(t) == op' = [op EXCEPT ![t] = FALSE]

put_framework(t) ==
    /\ Runs(t)
    /\ \/ put_wait(t, p1) /\ UNCHANGED <<op, puts>>
       \/ /\ puts < MaxPut
          /\ put_ok(p1, puts + 1)
          /\ puts' = puts + 1
          /\ Return(t)
       \/ put_refused(p1) /\ Return(t) /\ UNCHANGED puts
    /\ UNCHANGED <<got, ended>>

get(t) ==
    /\ Runs(t)
    /\ \/ get_wait(t, p1) /\ UNCHANGED <<op, got, ended>>
       \/ get_ok(p1) /\ got' = Append(got, data[p1]) /\ Return(t) /\ UNCHANGED ended
       \/ get_refused(p1) /\ Return(t) /\ ended' = (ended \/ state[p1] = "CLOSED") /\ UNCHANGED got
    /\ UNCHANGED puts

timeout(t) == TimedOut(t) /\ Return(t) /\ UNCHANGED <<puts, got, ended>>

control ==
    /\ \/ "close" \in Controls /\ close(p1)
       \/ "abort" \in Controls /\ abort(p1)
    /\ UNCHANGED <<op, puts, got, ended>>

Moves(t) == (t \in Putters /\ put_framework(t)) \/ (t \in Getters /\ get(t)) \/ timeout(t)

Next ==
    \/ control
    \/ \E t \in Threads :
         \/ call(t) \/ Moves(t)
         \/ (WakeUp(t) \/ Expire(t)) /\ UNCHANGED <<op, puts, got, ended>>

Spec == Init /\ [][Next]_vars

\* The threads run, and those who get come back for more.
FairSpec ==
    /\ Spec
    /\ \A t \in Threads : WF_vars(Moves(t))
    /\ \A t \in Getters : WF_vars(call(t))
-----------------------------------------------------------------------------
(* Properties                                                              *)

\* What is put is got, once and in order; only the element in the pipe is on its way, and an
\* abort loses no more than that one.
InOrder ==
    /\ got = [k \in 1 .. Len(got) |-> k]
    /\ puts - Len(got) = (IF state[p1] \in {"EXIST", "CLOSING"} THEN 1 ELSE 0)
       \/ (state[p1] = "ABORTED" /\ puts - Len(got) <= 1)
    /\ state[p1] \in {"EXIST", "CLOSING"} => data[p1] = puts

\* A getter is told CLOSED only when every element that was put has been got.
ClosedIsDrained == ended => Len(got) = puts

\* Nobody sleeps who could go on.
NoLostWakeup ==
    \A t \in Threads : at[t] = {p1} => state[p1] = (IF t \in Putters THEN "EXIST" ELSE "EMPTY")

\* A put returns, and so does a get once the pipe is closed or aborted.
PutReturns == \A t \in Putters : op[t] /\ puts < MaxPut ~> ~op[t] \/ puts = MaxPut
GetReturns == \A t \in Getters : ~<>[](at[t] = {p1} /\ state[p1] \in {"CLOSED", "ABORTED"})
=============================================================================
