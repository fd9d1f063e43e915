----------------------------- MODULE EventQueue -----------------------------
(***************************************************************************)
(* The way from other threads into the event loop that submit, fsm and     *)
(* flagsync share: an item is put into a queue under a lock, and after     *)
(* that 1 is added to the counter of an eventfd.  The loop reads the       *)
(* counter, which resets it, and takes as many items as it says.           *)
(***************************************************************************)
EXTENDS Integers, Sequences, FiniteSets

CONSTANT MaxItems  \* bound: items put

VARIABLES
    que,      \* callbacks_, que_, evque_
    counter,  \* of the eventfd
    rest,     \* what on_event still has to take
    putting,  \* threads between the put and the write
    order,    \* history: the items in the order of their puts
    taken,    \* history: how many were taken
    missed    \* history: on_event found the queue empty

queueVars == <<que, counter, rest, putting, order, taken, missed>>

QueueAssumption == MaxItems \in Nat

QueueInit ==
    /\ que = <<>> /\ counter = 0 /\ rest = 0 /\ putting = {}
    /\ order = <<>> /\ taken = 0 /\ missed = FALSE

put(t, item) ==
    /\ Len(order) < MaxItems /\ t \notin putting
    /\ que' = Append(que, item) /\ order' = Append(order, item)
    /\ putting' = putting \cup {t}
    /\ UNCHANGED <<counter, rest, taken, missed>>

write(t) ==
    /\ t \in putting /\ putting' = putting \ {t}
    /\ counter' = counter + 1
    /\ UNCHANGED <<que, rest, order, taken, missed>>

\* on_event: epoll_wait has seen the counter.
read ==
    /\ rest = 0 /\ counter > 0
    /\ rest' = counter /\ counter' = 0
    /\ UNCHANGED <<que, putting, order, taken, missed>>

\* get(0), or front and pop: the item is Head(que).
take ==
    /\ rest > 0 /\ que # <<>>
    /\ que' = Tail(que) /\ rest' = rest - 1 /\ taken' = taken + 1
    /\ UNCHANGED <<counter, putting, order, missed>>

take_nothing ==
    /\ rest > 0 /\ que = <<>>
    /\ rest' = rest - 1 /\ missed' = TRUE
    /\ UNCHANGED <<que, counter, putting, order, taken>>

\* Every item in the queue is announced, or will be by the thread that has just put it, and no more
\* are announced than there are: the loop finds an item whenever it takes one (submit.cpp:75).
QueueCovers == Len(que) = counter + rest + Cardinality(putting) /\ ~missed
=============================================================================
