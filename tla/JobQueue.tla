------------------------------ MODULE JobQueue ------------------------------
(***************************************************************************)
(* The thread-safe queues of c7thread: the template queue_base             *)
(* (_queue.hpp) and the four classes made from it, queue and sync_queue    *)
(* (queue.hpp), jobque and weight_jobque (jobque.hpp).  Kind says which of *)
(* the four is modelled; the operators is_empty, is_overflow, is_idle,     *)
(* put_item, get_item, commit_job and clear_queue are the hooks by which   *)
(* queue_base calls its target.                                            *)
(*                                                                         *)
(* Every method holds the mutex of cv_ from its first line to its return,  *)
(* and only a wait on cv_ releases it: what a method does between two      *)
(* releases is one step.  A thread in "waiting" is parked in cv_.wait;     *)
(* notify_all empties the set, and a thread that left it tests its         *)
(* condition again.  A timed wait that expires puts its thread in          *)
(* "expired": the thread returns ETIMEDOUT once it has the mutex again,    *)
(* whatever the state has become by then.                                  *)
(***************************************************************************)
EXTENDS Integers, Sequences, FiniteSets

CONSTANTS
    Kind,         \* which class: "queue", "sync_queue", "jobque", "weight_jobque"
    Producers,    \* the threads that put
    Workers,      \* the threads that get, and commit what they got
    Controllers,  \* the threads that close, abort, reset and wait
    Timed,        \* the threads whose calls pass a finite timeout
    ControlOps,   \* what controllers do: some of the members of AllControlOps
    Weights,      \* the weights a producer may give an item ({1} but for weight_jobque)
    Limits,       \* the values set_limit may be given
    InitLimit,    \* the limit before the first step, a member of Limits
    MaxPut,       \* bound: items accepted in a behaviour
    MaxControl    \* bound: close, abort, reset and set_limit calls in a behaviour

Threads == Producers \cup Workers \cup Controllers

AllControlOps == {"close", "abort", "reset", "set_limit"}

ASSUME ConstantsAssumption ==
    /\ Kind \in {"queue", "sync_queue", "jobque", "weight_jobque"}
    /\ Producers \cap Workers = {}
    /\ Controllers \cap (Producers \cup Workers) = {}
    /\ Timed \subseteq Threads
    /\ ControlOps \subseteq AllControlOps
    /\ Weights \subseteq Nat \ {0}
    /\ Kind # "weight_jobque" => Weights = {1}
    /\ Limits \subseteq Nat \ {0}
    /\ InitLimit \in Limits
    /\ MaxPut \in Nat
    /\ MaxControl \in Nat

VARIABLES
    status,       \* run_status: "ALIVE", "CLOSING", "CLOSED" or "ABORTED"
    que,          \* que_: the queued items; an item is its number in order of acceptance
    uncommitted,  \* uncommitted_jobs_ of jobque, uncommitted_ of weight_jobque
    limit,        \* limit_ of queue, uncommitted_limit_ of weight_jobque
    sync,         \* sync_ of sync_queue
    waiting,      \* the threads parked in cv_.wait
    expired,      \* the threads whose timed wait ran out, before they hold the mutex again
    op,           \* op[t]: the call thread t is in, "idle" between calls
    arg,          \* arg[t]: weight to put, or target of wait_progress
    held,         \* held[w]: the item worker w got and has not committed, 0 if none
    weight,       \* history: weight[i] is the weight of item i
    last,         \* history: the last item taken from the queue or cleared away
    dropped,      \* history: the items cleared away before a worker took them
    cleared,      \* history: number of items accepted before the last clear_queue
    committed,    \* history: the items whose commit succeeded
    controls      \* history: number of control calls

queVars  == <<status, que, uncommitted, limit, sync>>
history  == <<weight, last, dropped, cleared, committed, controls>>
vars     == <<queVars, waiting, expired, op, arg, held, history>>

Item     == Nat \ {0}
accepted == Len(weight)                 \* items put so far: they are 1..accepted
Elems(s) == {s[i] : i \in DOMAIN s}

Calls    == {"idle", "put", "get", "finish", "progress", "sync", "end"}

TypeOK ==
    /\ status \in {"ALIVE", "CLOSING", "CLOSED", "ABORTED"}
    /\ que \in Seq(Item)
    /\ uncommitted \in Nat
    /\ limit \in Limits
    /\ sync \in 0 .. 2
    /\ waiting \subseteq Threads
    /\ expired \subseteq Timed
    /\ op \in [Threads -> Calls]
    /\ arg \in [Threads -> Nat]
    /\ held \in [Workers -> Nat]
    /\ weight \in Seq(Weights)
    /\ last \in Nat
    /\ dropped \subseteq Item
    /\ cleared \in Nat
    /\ committed \subseteq Item
    /\ controls \in 0 .. MaxControl

Init ==
    /\ status = "ALIVE"
    /\ que = <<>>
    /\ uncommitted = 0
    /\ limit = InitLimit
    /\ sync = 0
    /\ waiting = {}
    /\ expired = {}
    /\ op = [t \in Threads |-> "idle"]
    /\ arg = [t \in Threads |-> 0]
    /\ held = [w \in Workers |-> 0]
    /\ weight = <<>>
    /\ last = 0
    /\ dropped = {}
    /\ cleared = 0
    /\ committed = {}
    /\ controls = 0
-----------------------------------------------------------------------------
is_alive   == status = "ALIVE"
is_closing == status = "CLOSING"
is_closed  == status = "CLOSED"
is_aborted == status = "ABORTED"

Commits == Kind \in {"jobque", "weight_jobque"}

is_empty == que = <<>>

is_overflow_blind(w) ==       \* mutant: the weight to come is not counted
    \/ Kind \in {"queue", "sync_queue"} /\ Len(que) > limit
    \/ Kind = "weight_jobque" /\ uncommitted >= limit

is_overflow(w) ==
    \/ Kind \in {"queue", "sync_queue"} /\ Len(que) >= limit
    \/ Kind = "weight_jobque" /\ uncommitted + w > limit

is_idle == IF Commits THEN uncommitted = 0 ELSE is_empty

\* What is not committed yet: the queued items and those in the hands of a worker.
HeldItems   == {held[w] : w \in Workers} \ {0}
Outstanding == Elems(que) \cup HeldItems

notify_all == waiting' = {}
Return(t)  == op' = [op EXCEPT ![t] = "idle"]
Leave(t)   == op' = [op EXCEPT ![t] = "end"]
Park(t)    == waiting' = waiting \cup {t}

\* Thread t is in the call c, and runs: it is not parked and did not time out.
Running(t, c) == op[t] = c /\ t \notin waiting /\ t \notin expired
-----------------------------------------------------------------------------
(* put                                                                     *)

put_item_front(w) ==          \* mutant: emplace_front for emplace_back
    /\ que' = <<accepted + 1>> \o que
    /\ weight' = Append(weight, w)
    /\ uncommitted' = IF Commits THEN uncommitted + w ELSE uncommitted

put_item(w) ==
    /\ que' = Append(que, accepted + 1)
    /\ weight' = Append(weight, w)
    /\ uncommitted' = IF Commits THEN uncommitted + w ELSE uncommitted

\* The caller enters put: MaxPut bounds the items accepted and on their way.
PutCall(p, w) ==
    /\ op[p] = "idle"
    /\ accepted + Cardinality({q \in Producers : op[q] = "put"}) < MaxPut
    /\ op' = [op EXCEPT ![p] = "put"]
    /\ arg' = [arg EXCEPT ![p] = w]
    /\ UNCHANGED <<queVars, waiting, expired, held, history>>

PutBlock(p) ==
    /\ Running(p, "put")
    /\ is_alive /\ is_overflow(arg[p])
    /\ Park(p)
    /\ UNCHANGED <<queVars, expired, op, arg, held, history>>

PutAccept_anytime(p) ==       \* mutant: a put that was waiting does not look at status_ again
    /\ Running(p, "put")
    /\ ~is_overflow(arg[p])
    /\ put_item(arg[p])
    /\ notify_all
    /\ Return(p)
    /\ UNCHANGED <<status, limit, sync, expired, arg, held, last, dropped, cleared, committed, controls>>

PutAccept(p) ==
    /\ Running(p, "put")
    /\ is_alive /\ ~is_overflow(arg[p])
    /\ put_item(arg[p])
    /\ notify_all
    /\ Return(p)
    /\ UNCHANGED <<status, limit, sync, expired, arg, held, last, dropped, cleared, committed, controls>>

PutRefuse(p) ==               \* EPIPE
    /\ Running(p, "put")
    /\ ~is_alive
    /\ Return(p)
    /\ UNCHANGED <<queVars, waiting, expired, arg, held, history>>
-----------------------------------------------------------------------------
(* get and commit                                                          *)

GetCall(w) ==
    /\ op[w] = "idle"
    /\ held[w] = 0
    /\ op' = [op EXCEPT ![w] = "get"]
    /\ UNCHANGED <<queVars, waiting, expired, arg, held, history>>

GetBlock(w) ==
    /\ Running(w, "get")
    /\ is_alive /\ is_empty
    /\ Park(w)
    /\ UNCHANGED <<queVars, expired, op, arg, held, history>>

GetTake_silent(w) ==          \* mutant: notify_all forgotten
    /\ Running(w, "get")
    /\ is_alive \/ is_closing
    /\ ~is_empty
    /\ que' = Tail(que)
    /\ last' = Head(que)
    /\ held' = IF Commits THEN [held EXCEPT ![w] = Head(que)] ELSE held
    /\ Return(w)
    /\ UNCHANGED <<status, uncommitted, limit, sync, waiting, expired, arg, weight, dropped, cleared, committed, controls>>

GetTake_counted(w) ==         \* mutant: uncommitted_ decremented by get, not by commit
    /\ Running(w, "get")
    /\ is_alive \/ is_closing
    /\ ~is_empty
    /\ que' = Tail(que)
    /\ last' = Head(que)
    /\ held' = IF Commits THEN [held EXCEPT ![w] = Head(que)] ELSE held
    /\ uncommitted' = IF Commits THEN uncommitted - weight[Head(que)] ELSE uncommitted
    /\ notify_all
    /\ Return(w)
    /\ UNCHANGED <<status, limit, sync, expired, arg, weight, dropped, cleared, committed, controls>>

GetTake_peek(w) ==            \* mutant: front() without pop_front()
    /\ Running(w, "get")
    /\ is_alive \/ is_closing
    /\ ~is_empty
    /\ last' = Head(que)
    /\ held' = IF Commits THEN [held EXCEPT ![w] = Head(que)] ELSE held
    /\ notify_all
    /\ Return(w)
    /\ UNCHANGED <<status, que, uncommitted, limit, sync, expired, arg, weight, dropped, cleared, committed, controls>>

GetTake(w) ==                 \* get_item: uncommitted_ is left alone
    /\ Running(w, "get")
    /\ is_alive \/ is_closing
    /\ ~is_empty
    /\ que' = Tail(que)
    /\ last' = Head(que)
    /\ held' = IF Commits THEN [held EXCEPT ![w] = Head(que)] ELSE held
    /\ notify_all
    /\ Return(w)
    /\ UNCHANGED <<status, uncommitted, limit, sync, expired, arg, weight, dropped, cleared, committed, controls>>

GetEnd(w) ==                  \* ENODATA (closed, or closing and drained) or EPIPE (aborted)
    /\ Running(w, "get")
    /\ is_closed \/ is_aborted \/ (is_closing /\ is_empty)
    /\ Leave(w)
    /\ UNCHANGED <<queVars, waiting, expired, arg, held, history>>

\* A worker that met the end of the queue is started again after a reset.
WorkerRestart(w) ==
    /\ op[w] = "end"
    /\ is_alive
    /\ Kind # "sync_queue"
    /\ Return(w)
    /\ UNCHANGED <<queVars, waiting, expired, arg, held, history>>

CommitAccept_open(w) ==       \* mutant: the closing queue is not closed by the last commit
    LET n == weight[held[w]] IN
    /\ uncommitted >= n
    /\ uncommitted' = uncommitted - n
    /\ committed' = committed \cup {held[w]}
    /\ notify_all
    /\ UNCHANGED status

CommitAccept_silent(w) ==     \* mutant: notify_all forgotten
    LET n == weight[held[w]] IN
    /\ uncommitted >= n
    /\ uncommitted' = uncommitted - n
    /\ status' = IF is_closing /\ uncommitted' = 0 THEN "CLOSED" ELSE status
    /\ committed' = committed \cup {held[w]}
    /\ UNCHANGED waiting

CommitAccept(w) ==
    LET n == weight[held[w]] IN
    /\ uncommitted >= n
    /\ uncommitted' = uncommitted - n
    /\ status' = IF is_closing /\ uncommitted' = 0 THEN "CLOSED" ELSE status
    /\ committed' = committed \cup {held[w]}
    /\ notify_all

CommitRefuse(w) ==            \* EINVAL
    /\ uncommitted < weight[held[w]]
    /\ UNCHANGED <<uncommitted, status, committed, waiting>>

Commit(w) ==
    /\ Commits
    /\ op[w] = "idle"
    /\ held[w] # 0
    /\ CommitAccept(w) \/ CommitRefuse(w)
    /\ held' = [held EXCEPT ![w] = 0]
    /\ UNCHANGED <<que, limit, sync, expired, op, arg, weight, last, dropped, cleared, controls>>
-----------------------------------------------------------------------------
(* close, abort, reset, set_limit                                          *)

Control(c, name) ==
    /\ op[c] = "idle"
    /\ name \in ControlOps
    /\ controls < MaxControl
    /\ controls' = controls + 1

\* clear_queue of jobque leaves uncommitted_jobs_ as it is, that of weight_jobque resets it.
clear_queue ==
    /\ que' = <<>>
    /\ uncommitted' = IF Kind = "weight_jobque" THEN 0 ELSE uncommitted
    /\ dropped' = dropped \cup Elems(que)
    /\ last' = accepted
    /\ cleared' = accepted

Close_silent(c) ==            \* mutant: notify_all forgotten
    /\ Control(c, "close")
    /\ status' = IF is_idle THEN "CLOSED" ELSE "CLOSING"
    /\ UNCHANGED <<que, uncommitted, limit, sync, waiting, expired, op, arg, held,
                   weight, last, dropped, cleared, committed>>

Close(c) ==
    /\ Control(c, "close")
    /\ status' = IF is_idle THEN "CLOSED" ELSE "CLOSING"
    /\ notify_all
    /\ UNCHANGED <<que, uncommitted, limit, sync, expired, op, arg, held, weight, last, dropped, cleared, committed>>

Abort_silent(c) ==            \* mutant: notify_all forgotten
    /\ Control(c, "abort")
    /\ clear_queue
    /\ status' = "ABORTED"
    /\ UNCHANGED <<limit, sync, waiting, expired, op, arg, held, weight, committed>>

Abort(c) ==
    /\ Control(c, "abort")
    /\ clear_queue
    /\ status' = "ABORTED"
    /\ notify_all
    /\ UNCHANGED <<limit, sync, expired, op, arg, held, weight, committed>>

\* reset takes no lock and notifies nobody: a program calls it when no other thread is in
\* a call of the queue.  A worker may still be busy with an item that it got before.
Reset(c) ==
    /\ \A t \in Threads : op[t] \in {"idle", "end"}
    /\ Control(c, "reset")
    /\ clear_queue
    /\ status' = "ALIVE"
    /\ UNCHANGED <<limit, sync, waiting, expired, op, arg, held, weight, committed>>

\* set_limit is a plain assignment: no lock, no notify.
SetLimit(c) ==
    /\ Kind # "jobque"
    /\ Control(c, "set_limit")
    /\ limit' \in Limits
    /\ UNCHANGED <<status, que, uncommitted, sync, waiting, expired, op, arg, held,
                   weight, last, dropped, cleared, committed>>
-----------------------------------------------------------------------------
(* wait_finished, wait_progress, sync_finish                               *)

FinishCall(c) ==
    /\ Commits
    /\ op[c] = "idle"
    /\ op' = [op EXCEPT ![c] = "finish"]
    /\ UNCHANGED <<queVars, waiting, expired, arg, held, history>>

FinishBlock(c) ==
    /\ Running(c, "finish")
    /\ is_alive \/ is_closing
    /\ Park(c)
    /\ UNCHANGED <<queVars, expired, op, arg, held, history>>

FinishReturn(c) ==            \* ok if closed, EPIPE if aborted
    /\ Running(c, "finish")
    /\ is_closed \/ is_aborted
    /\ Return(c)
    /\ UNCHANGED <<queVars, waiting, expired, arg, held, history>>

progress_pending(target) == (is_alive \/ is_closing) /\ target < uncommitted

\* The target is computed from uncommitted_ under the lock that the first test is made with.
ProgressCall(c, done_weight) ==
    /\ Kind = "weight_jobque"
    /\ op[c] = "idle"
    /\ LET target == uncommitted - (IF uncommitted < done_weight THEN uncommitted ELSE done_weight)
       IN  /\ progress_pending(target)
           /\ op' = [op EXCEPT ![c] = "progress"]
           /\ arg' = [arg EXCEPT ![c] = target]
    /\ Park(c)
    /\ UNCHANGED <<queVars, expired, held, history>>

ProgressBlock(c) ==
    /\ Running(c, "progress")
    /\ progress_pending(arg[c])
    /\ Park(c)
    /\ UNCHANGED <<queVars, expired, op, arg, held, history>>

ProgressReturn(c) ==
    /\ Running(c, "progress")
    /\ ~progress_pending(arg[c])
    /\ Return(c)
    /\ UNCHANGED <<queVars, waiting, expired, arg, held, history>>

\* A producer or a worker meets the other side: each of the two calls sync_finish once.
SyncCall(t) ==
    /\ Kind = "sync_queue"
    /\ op[t] = "idle"
    /\ sync < 2
    /\ sync' = sync + 1
    /\ \/ /\ ~is_aborted /\ sync' # 2
          /\ op' = [op EXCEPT ![t] = "sync"]
          /\ waiting' = {t}
       \/ /\ is_aborted \/ sync' = 2
          /\ notify_all
          /\ Leave(t)
    /\ UNCHANGED <<status, que, uncommitted, limit, expired, arg, held, history>>

SyncBlock(t) ==
    /\ Running(t, "sync")
    /\ ~is_aborted /\ sync # 2
    /\ Park(t)
    /\ UNCHANGED <<queVars, expired, op, arg, held, history>>

SyncReturn(t) ==
    /\ Running(t, "sync")
    /\ is_aborted \/ sync = 2
    /\ Leave(t)
    /\ UNCHANGED <<queVars, waiting, expired, arg, held, history>>
-----------------------------------------------------------------------------
(* the condition variable: spurious wake-ups and timeouts                  *)

Spurious(t) ==
    /\ t \in waiting
    /\ waiting' = waiting \ {t}
    /\ UNCHANGED <<queVars, expired, op, arg, held, history>>

Expire_untimed(t) ==          \* mutant: a call without timeout (-1) expires as well
    /\ t \in waiting
    /\ waiting' = waiting \ {t}
    /\ expired' = expired \cup {t}
    /\ UNCHANGED <<queVars, op, arg, held, history>>

Expire(t) ==
    /\ t \in waiting \cap Timed
    /\ waiting' = waiting \ {t}
    /\ expired' = expired \cup {t}
    /\ UNCHANGED <<queVars, op, arg, held, history>>

TimedOut(t) ==                \* ETIMEDOUT, the queue untouched
    /\ t \in expired
    /\ expired' = expired \ {t}
    /\ IF op[t] = "sync" THEN Leave(t) ELSE Return(t)
    /\ UNCHANGED <<queVars, waiting, arg, held, history>>
-----------------------------------------------------------------------------
put(p) == PutBlock(p) \/ PutAccept(p) \/ PutRefuse(p)
get(w) == GetBlock(w) \/ GetTake(w) \/ GetEnd(w)
wait_finished(c) == FinishBlock(c) \/ FinishReturn(c)
wait_progress(c) == ProgressBlock(c) \/ ProgressReturn(c)
sync_finish(t)   == SyncBlock(t) \/ SyncReturn(t)

Next ==
    \/ \E p \in Producers : put(p) \/ \E w \in Weights : PutCall(p, w)
    \/ \E w \in Workers : get(w) \/ GetCall(w) \/ Commit(w) \/ WorkerRestart(w)
    \/ \E c \in Controllers :
          \/ Close(c) \/ Abort(c) \/ Reset(c) \/ SetLimit(c)
          \/ FinishCall(c) \/ wait_finished(c)
          \/ wait_progress(c) \/ \E d \in Weights : ProgressCall(c, d)
    \/ \E t \in Producers \cup Workers : SyncCall(t) \/ sync_finish(t)
    \/ \E t \in Threads : Spurious(t) \/ Expire(t) \/ TimedOut(t)

Spec == Init /\ [][Next]_vars

\* What a thread does once it is in a call; and a worker is a loop of get and commit.
Runs(t) ==
    \/ t \in Producers /\ put(t)
    \/ t \in Workers /\ (get(t) \/ GetCall(t) \/ Commit(t))
    \/ t \in Controllers /\ (wait_finished(t) \/ wait_progress(t))
    \/ t \in Producers \cup Workers /\ sync_finish(t)
    \/ TimedOut(t)

\* Every thread that can run gets the mutex and runs: the scheduler and the mutex are fair.
\* Nobody has to put, close, or call.
Fairness == \A t \in Threads : WF_vars(Runs(t))

FairSpec == Spec /\ Fairness
-----------------------------------------------------------------------------
(* Properties                                                              *)

\* FIFO, nothing lost, nothing twice: the queue holds exactly the items accepted after the
\* last one taken (or cleared away), in the order in which put accepted them, whatever the
\* interleaving of producers, workers and controllers (put_item, get_item, clear_queue).
FifoNoLoss == que = [i \in 1 .. accepted - last |-> last + i]

\* Each accepted item is in exactly one place: queued, in the hands of one worker, or
\* settled (committed, dropped by abort/reset, or refused by commit after an abort).
OnePlace ==
    /\ Elems(que) \cap (HeldItems \cup committed \cup dropped) = {}
    /\ HeldItems \cap (committed \cup dropped) = {}
    /\ committed \cap dropped = {}
    /\ \A v, w \in Workers : held[v] = held[w] => v = w \/ held[v] = 0

\* What keeps thread t parked in the call it is in.
Blocked(t) ==
    \/ op[t] = "put" /\ is_alive /\ is_overflow(arg[t])
    \/ op[t] = "get" /\ is_alive /\ is_empty
    \/ op[t] = "finish" /\ (is_alive \/ is_closing)
    \/ op[t] = "progress" /\ progress_pending(arg[t])
    \/ op[t] = "sync" /\ ~is_aborted /\ sync # 2

\* No lost wake-up: a parked thread has nothing it could do; every change that ends what a
\* thread waits for is followed by notify_all.  It is stated for a limit that does not
\* change, because set_limit notifies nobody.
NoLostWakeup == \A t \in waiting : Blocked(t)

\* A closed queue is finished: status_ is CLOSED, which makes wait_finished return ok, only
\* when nothing is queued and no worker holds an uncommitted job (close, commit).  And a
\* closing queue has something left that will close it, an uncommitted job of which a commit
\* can still come: otherwise wait_finished would wait for ever.
ClosedIsFinished ==
    Commits => /\ is_closed => Outstanding = {}
               /\ is_closing => Outstanding # {}

\* The uncommitted weight a weight_jobque admits never exceeds its limit, nor the length of
\* a queue: not even when several putters wake up for one free place (put's while loop).
WithinLimit ==
    /\ Kind = "weight_jobque" => uncommitted <= limit
    /\ Kind \in {"queue", "sync_queue"} => Len(que) <= limit

\* The comment on is_idle (_queue.hpp line 39): "all items are committed [also queue is
\* empty]", said of the items accepted since the queue was last cleared.
IdleMeansAllCommitted ==
    Commits /\ (is_alive \/ is_closing) => (is_idle <=> {i \in Outstanding : i > cleared} = {})

\* Whoever calls wait_finished on a queue being closed returns.
FinishReturns == \A c \in Controllers : []<>(op[c] # "finish" \/ is_alive)

\* A producer that was blocked by the limit does get its item in, or is told that the queue
\* is no longer alive.
PutReturns == \A p \in Producers : []<>(op[p] # "put")

\* Both, of a queue that is closed and has workers.
CallsReturn == FinishReturns /\ PutReturns

\* Of the two threads that meet in sync_finish neither stays behind.
SyncReturns == sync = 2 ~> \A t \in Threads : op[t] # "sync"

\* The job queues of a program that does not abort implement JobService: a job is pending
\* from the put that accepts it to its commit, and status_ is the phase.
Service == INSTANCE JobService
               WITH jobs <- accepted, pending <- Outstanding, phase <- status

ImplementsService     == Service!Spec
ImplementsFairService == Service!FairSpec
=============================================================================
