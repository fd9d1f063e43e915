--------------------------- MODULE JobQueueProofs ---------------------------
(* Theorems about JobQueue, for every kind of queue, any number of threads, any weights
   and limits. *)
EXTENDS JobQueue, FiniteSetTheorems, TLAPS

\* What a thread in put carries is a weight, an item in a worker's hands was accepted and
\* taken, and the queue is the run of items from last + 1 to the last one accepted.
Ranges ==
    /\ \A p \in Producers : op[p] = "put" => arg[p] \in Weights
    /\ \A w \in Workers : held[w] <= last
    /\ last <= accepted

TypeInv == TypeOK /\ Ranges /\ FifoNoLoss

-----------------------------------------------------------------------------
\* The initial state satisfies the invariant.
LEMMA InitTypeInv == Init => TypeInv
<1> SUFFICES ASSUME Init PROVE TypeInv
  OBVIOUS
<1> USE ConstantsAssumption DEF Init
<1>1. TypeOK
  BY DEF TypeOK, Item, Threads, Calls
<1>2. Ranges
  BY DEF Ranges, accepted, Threads
<1>3. FifoNoLoss
  BY DEF FifoNoLoss, accepted
<1> QED
  BY <1>1, <1>2, <1>3 DEF TypeInv

\* Taking the head of the run leaves the run that starts one later.
LEMMA TakeHead ==
    ASSUME NEW n \in Nat, NEW m \in Nat, NEW s, m <= n,
           s = [i \in 1 .. n - m |-> m + i], s # <<>>
    PROVE  /\ Head(s) = m + 1
           /\ m + 1 <= n
           /\ Tail(s) = [i \in 1 .. n - (m + 1) |-> m + 1 + i]
  OBVIOUS

\* Appending the next number extends the run.
LEMMA PutTail ==
    ASSUME NEW n \in Nat, NEW m \in Nat, NEW s, m <= n,
           s = [i \in 1 .. n - m |-> m + i]
    PROVE  Append(s, n + 1) = [i \in 1 .. (n + 1) - m |-> m + i]
<1> DEFINE r == [i \in 1 .. (n + 1) - m |-> m + i]
<1>1. s \in Seq(Nat) /\ Len(s) = n - m
  OBVIOUS
<1>2. Append(s, n + 1) \in Seq(Nat) /\ Len(Append(s, n + 1)) = (n - m) + 1
  BY <1>1
<1>3. r \in Seq(Nat) /\ Len(r) = (n + 1) - m
  OBVIOUS
<1>4. ASSUME NEW i \in 1 .. (n - m) + 1 PROVE Append(s, n + 1)[i] = r[i]
  <2>1. CASE i = (n - m) + 1
    BY <1>1, <2>1
  <2>2. CASE i \in 1 .. n - m
    BY <1>1, <2>2
  <2> QED
    BY <2>1, <2>2
<1> QED
  BY <1>2, <1>3, <1>4

\* A step that touches neither the queue, nor what the workers hold, nor the history.
LEMMA QuietStep ==
    ASSUME TypeInv,
           UNCHANGED <<queVars, held, history>>,
           waiting' \subseteq Threads, expired' \subseteq Timed,
           op' \in [Threads -> Calls], arg' \in [Threads -> Nat],
           \A p \in Producers : op'[p] = "put" => arg'[p] \in Weights
    PROVE  TypeInv'
<1>1. TypeOK'
  BY DEF TypeInv, TypeOK, queVars, history
<1>2. Ranges'
  BY DEF TypeInv, Ranges, queVars, history, accepted
<1>3. FifoNoLoss'
  BY DEF TypeInv, FifoNoLoss, queVars, history, accepted
<1> QED
  BY <1>1, <1>2, <1>3 DEF TypeInv

\* The actions that are such steps.
LEMMA CallSteps ==
    ASSUME TypeInv, NEW t \in Threads, NEW c \in Calls \ {"put"},
           UNCHANGED <<queVars, held, history, arg>>,
           \/ UNCHANGED <<op, expired>> /\ waiting' \in {waiting \cup {t}, waiting \ {t}}
           \/ UNCHANGED <<waiting, expired>> /\ op' = [op EXCEPT ![t] = c]
           \/ UNCHANGED op /\ waiting' = waiting \ {t} /\ expired' = expired \cup {t} /\ t \in Timed
           \/ UNCHANGED waiting /\ expired' = expired \ {t} /\ op' = [op EXCEPT ![t] = c]
    PROVE  TypeInv'
<1>1. waiting' \subseteq Threads /\ expired' \subseteq Timed
  BY DEF TypeInv, TypeOK
<1>2. op' \in [Threads -> Calls] /\ arg' \in [Threads -> Nat]
  BY DEF TypeInv, TypeOK
<1>3. \A p \in Producers : op'[p] = "put" => arg'[p] \in Weights
  BY DEF TypeInv, TypeOK, Ranges, Threads
<1> QED
  BY <1>1, <1>2, <1>3, QuietStep

\* Every step preserves the invariant, one step of the proof per action.
LEMMA StepTypeInv == TypeInv /\ [Next]_vars => TypeInv'
<1> SUFFICES ASSUME TypeInv, [Next]_vars PROVE TypeInv'
  OBVIOUS
<1> USE ConstantsAssumption DEF TypeInv
<1> USE DEF TypeOK, Ranges, FifoNoLoss, accepted, Item, Threads
<1>1. ASSUME NEW p \in Producers, NEW w \in Weights, PutCall(p, w) PROVE TypeInv'
  <2>1. op' \in [Threads -> Calls] /\ arg' \in [Threads -> Nat]
    BY <1>1 DEF PutCall, Calls
  <2>2. \A q \in Producers : op'[q] = "put" => arg'[q] \in Weights
    BY <1>1 DEF PutCall
  <2>3. UNCHANGED <<queVars, held, history, waiting, expired>>
    BY <1>1 DEF PutCall
  <2> QED
    BY <2>1, <2>2, <2>3, QuietStep
<1>2. ASSUME NEW p \in Producers, PutBlock(p) PROVE TypeInv'
  BY <1>2, CallSteps, "idle" \in Calls \ {"put"} DEF PutBlock, Park, Calls
<1>3. ASSUME NEW p \in Producers, PutAccept(p) PROVE TypeInv'
  <2>1. arg[p] \in Weights /\ arg[p] \in Nat \ {0}
    BY <1>3 DEF PutAccept, Running
  <2>2. accepted' = accepted + 1 /\ weight' \in Seq(Weights)
    BY <1>3, <2>1 DEF PutAccept, put_item
  <2>3. que' \in Seq(Item) /\ FifoNoLoss'
    BY <1>3, <2>2, PutTail DEF PutAccept, put_item
  <2>4. uncommitted' \in Nat
    BY <1>3, <2>1 DEF PutAccept, put_item
  <2>5. TypeOK'
    BY <1>3, <2>2, <2>3, <2>4 DEF PutAccept, notify_all, Return, Calls
  <2>6. Ranges'
    BY <1>3, <2>2 DEF PutAccept, Return
  <2> QED
    BY <2>3, <2>5, <2>6
<1>4. ASSUME NEW p \in Producers, PutRefuse(p) PROVE TypeInv'
  BY <1>4, CallSteps, "idle" \in Calls \ {"put"} DEF PutRefuse, Return, Calls
<1>5. ASSUME NEW w \in Workers, GetCall(w) PROVE TypeInv'
  BY <1>5, CallSteps, "get" \in Calls \ {"put"} DEF GetCall, Calls
<1>6. ASSUME NEW w \in Workers, GetBlock(w) PROVE TypeInv'
  BY <1>6, CallSteps, "idle" \in Calls \ {"put"} DEF GetBlock, Park, Calls
<1>7. ASSUME NEW w \in Workers, GetTake(w) PROVE TypeInv'
  <2>0. /\ que # <<>> /\ que' = Tail(que) /\ last' = Head(que)
        /\ weight' = weight /\ last \in Nat /\ accepted \in Nat /\ last <= accepted
    BY <1>7 DEF GetTake, is_empty
  <2>1. /\ last' = last + 1 /\ last' <= accepted /\ Head(que) = last'
        /\ FifoNoLoss' /\ que' \in Seq(Item)
    <3>1. /\ Head(que) = last + 1
          /\ last + 1 <= accepted
          /\ Tail(que) = [i \in 1 .. accepted - (last + 1) |-> last + 1 + i]
      <4>1. que = [i \in 1 .. accepted - last |-> last + i]
        OBVIOUS
      <4> HIDE DEF accepted, FifoNoLoss, TypeInv
      <4> QED
        BY ONLY <2>0, <4>1, TakeHead
    <3>2. FifoNoLoss'
      BY <2>0, <3>1
    <3>3. Tail(que) \in Seq(Item)
      BY <2>0
    <3> QED
      BY <2>0, <3>1, <3>2, <3>3
  <2>2. TypeOK'
    BY <1>7, <2>1 DEF GetTake, notify_all, Return, Calls
  <2>3. Ranges'
    BY <1>7, <2>1 DEF GetTake, Return
  <2> QED
    BY <2>1, <2>2, <2>3
<1>8. ASSUME NEW w \in Workers, GetEnd(w) PROVE TypeInv'
  BY <1>8, CallSteps, "end" \in Calls \ {"put"} DEF GetEnd, Leave, Calls
<1>9. ASSUME NEW w \in Workers, WorkerRestart(w) PROVE TypeInv'
  BY <1>9, CallSteps, "idle" \in Calls \ {"put"} DEF WorkerRestart, Return, Calls
<1>10. ASSUME NEW w \in Workers, Commit(w) PROVE TypeInv'
  <2>1. held[w] \in 1 .. accepted /\ weight[held[w]] \in Nat
    <3>1. held[w] \in 1 .. Len(weight)
      BY <1>10 DEF Commit
    <3>2. weight[held[w]] \in Weights
      BY <3>1
    <3> QED
      BY <3>1, <3>2
  <2>2. /\ uncommitted' \in Nat /\ committed' \subseteq Item /\ waiting' \subseteq Threads
        /\ status' \in {"ALIVE", "CLOSING", "CLOSED", "ABORTED"}
    <3>1. CASE CommitAccept(w)
      <4>1. uncommitted' \in Nat
        BY <3>1, <2>1 DEF CommitAccept
      <4>2. committed' \subseteq Item
        <5>1. held[w] \in Item /\ committed \subseteq Item
          BY <2>1
        <5>2. committed' = committed \cup {held[w]}
          BY <3>1 DEF CommitAccept
        <5> HIDE DEF Item
        <5> QED
          BY <5>1, <5>2
      <4>3. waiting' = {}
        BY <3>1 DEF CommitAccept, notify_all
      <4>4. status' = "CLOSED" \/ status' = status
        BY <3>1 DEF CommitAccept
      <4> QED
        BY <4>1, <4>2, <4>3, <4>4
    <3>2. CASE CommitRefuse(w)
      BY <3>2 DEF CommitRefuse
    <3> QED
      BY <1>10, <3>1, <3>2 DEF Commit
  <2> QED
    BY <1>10, <2>2 DEF Commit
<1>11. ASSUME NEW c \in Controllers, Close(c) PROVE TypeInv'
  BY <1>11 DEF Close, Control, notify_all
<1>12. ASSUME NEW c \in Controllers, Abort(c) \/ Reset(c) PROVE TypeInv'
  <2>1. clear_queue /\ status' \in {"ALIVE", "ABORTED"} /\ waiting' \subseteq Threads
    BY <1>12 DEF Abort, Reset, notify_all
  <2>2. FifoNoLoss' /\ que' \in Seq(Item) /\ uncommitted' \in Nat /\ last' = accepted
    BY <1>12, <2>1 DEF clear_queue, Abort, Reset
  <2>3. dropped' \subseteq Item
    <3>1. Elems(que) \subseteq Item
      BY DEF Elems
    <3> QED
      BY <2>1, <3>1 DEF clear_queue
  <2>4. TypeOK'
    <3>1. controls' \in 0 .. MaxControl
      BY <1>12 DEF Abort, Reset, Control
    <3>2. cleared' \in Nat /\ last' \in Nat
      BY <2>1, <2>2 DEF clear_queue
    <3>3. UNCHANGED <<limit, sync, expired, op, arg, held, weight, committed>>
      BY <1>12 DEF Abort, Reset
    <3> QED
      BY <2>1, <2>2, <2>3, <3>1, <3>2, <3>3
  <2>5. Ranges'
    BY <1>12, <2>2 DEF Abort, Reset
  <2> QED
    BY <2>2, <2>4, <2>5
<1>13. ASSUME NEW c \in Controllers, SetLimit(c) PROVE TypeInv'
  BY <1>13 DEF SetLimit, Control
<1>14. ASSUME NEW c \in Controllers, FinishCall(c) \/ wait_finished(c) PROVE TypeInv'
  <2>1. CASE FinishCall(c)
    BY <2>1, CallSteps, "finish" \in Calls \ {"put"} DEF FinishCall, Calls
  <2>2. CASE FinishBlock(c)
    BY <2>2, CallSteps, "idle" \in Calls \ {"put"} DEF FinishBlock, Park, Calls
  <2>3. CASE FinishReturn(c)
    BY <2>3, CallSteps, "idle" \in Calls \ {"put"} DEF FinishReturn, Return, Calls
  <2> QED
    BY <1>14, <2>1, <2>2, <2>3 DEF wait_finished
<1>15. ASSUME NEW c \in Controllers, NEW d \in Weights, ProgressCall(c, d) PROVE TypeInv'
  <2>1. op' = [op EXCEPT ![c] = "progress"] /\ waiting' = waiting \cup {c}
    BY <1>15 DEF ProgressCall, Park
  <2>2. arg' \in [Threads -> Nat]
    BY <1>15 DEF ProgressCall
  <2>3. UNCHANGED <<queVars, held, history, expired>>
    BY <1>15 DEF ProgressCall
  <2>4. op' \in [Threads -> Calls]
    BY <2>1 DEF Calls
  <2>5. \A p \in Producers : op'[p] = "put" => arg'[p] \in Weights
    BY <1>15, <2>1 DEF ProgressCall
  <2> QED
    BY <2>1, <2>2, <2>3, <2>4, <2>5, QuietStep
<1>16. ASSUME NEW c \in Controllers, wait_progress(c) PROVE TypeInv'
  <2>1. CASE ProgressBlock(c)
    BY <2>1, CallSteps, "idle" \in Calls \ {"put"} DEF ProgressBlock, Park, Calls
  <2>2. CASE ProgressReturn(c)
    BY <2>2, CallSteps, "idle" \in Calls \ {"put"} DEF ProgressReturn, Return, Calls
  <2> QED
    BY <1>16, <2>1, <2>2 DEF wait_progress
<1>17. ASSUME NEW t \in Producers \cup Workers, SyncCall(t) PROVE TypeInv'
  <2>1. sync' \in 0 .. 2 /\ waiting' \subseteq Threads
    BY <1>17 DEF SyncCall, notify_all
  <2>2. op' \in [Threads -> Calls]
        /\ \A p \in Producers : op'[p] = "put" => op[p] = "put"
    BY <1>17 DEF SyncCall, Leave, Calls
  <2> QED
    BY <1>17, <2>1, <2>2 DEF SyncCall, history
<1>18. ASSUME NEW t \in Producers \cup Workers, sync_finish(t) PROVE TypeInv'
  <2>1. CASE SyncBlock(t)
    BY <2>1, CallSteps, "idle" \in Calls \ {"put"} DEF SyncBlock, Park, Calls
  <2>2. CASE SyncReturn(t)
    BY <2>2, CallSteps, "end" \in Calls \ {"put"} DEF SyncReturn, Leave, Calls
  <2> QED
    BY <1>18, <2>1, <2>2 DEF sync_finish
<1>19. ASSUME NEW t \in Threads, Spurious(t) \/ Expire(t) PROVE TypeInv'
  <2>1. CASE Spurious(t)
    BY <2>1, CallSteps, "idle" \in Calls \ {"put"} DEF Spurious, Calls
  <2>2. CASE Expire(t)
    BY <2>2, CallSteps, "idle" \in Calls \ {"put"} DEF Expire, Calls
  <2> QED
    BY <1>19, <2>1, <2>2
<1>20. ASSUME NEW t \in Threads, TimedOut(t) PROVE TypeInv'
  BY <1>20, CallSteps, "idle" \in Calls \ {"put"}, "end" \in Calls \ {"put"}
     DEF TimedOut, Leave, Return, Calls
<1>21. CASE UNCHANGED vars
  BY <1>21 DEF vars, queVars, history
<1> QED
  BY <1>1, <1>2, <1>3, <1>4, <1>5, <1>6, <1>7, <1>8, <1>9, <1>10, <1>11, <1>12, <1>13,
     <1>14, <1>15, <1>16, <1>17, <1>18, <1>19, <1>20, <1>21 DEF Next, put, get

\* The invariant holds of every behaviour.
LEMMA TypeInvariant == Spec => []TypeInv
  BY InitTypeInv, StepTypeInv, PTL DEF Spec

\* Type correctness of the queue, whichever class it is.
THEOREM TypeCorrect == Spec => []TypeOK
<1>1. TypeInv => TypeOK
  BY DEF TypeInv
<1> QED
  BY <1>1, TypeInvariant, PTL

\* Items leave in the order in which put accepted them; none is lost or repeated.
THEOREM QueueIsFifo == Spec => []FifoNoLoss
<1>1. TypeInv => FifoNoLoss
  BY DEF TypeInv
<1> QED
  BY <1>1, TypeInvariant, PTL
-----------------------------------------------------------------------------
(* No lost wake-up                                                         *)

\* Who is parked is blocked; who timed out is still in its call, and not parked.
WakeInv ==
    /\ NoLostWakeup
    /\ \A t \in expired : t \notin waiting /\ op[t] \notin {"idle", "end"}

\* Blocked depends on the queue, and on the call of the thread.
LEMMA BlockedFrame ==
    ASSUME NEW t, UNCHANGED <<queVars>>, op'[t] = op[t], arg'[t] = arg[t]
    PROVE  Blocked(t)' <=> Blocked(t)
  BY DEF Blocked, queVars, is_alive, is_closing, is_aborted, is_empty, is_overflow, progress_pending

\* A step that changes the call of one thread that is not parked, and nothing of the queue.
LEMMA OneCall ==
    ASSUME TypeInv, WakeInv, NEW t \in Threads, t \notin waiting, UNCHANGED queVars,
           NEW c \in Calls, NEW n \in Nat,
           op' = [op EXCEPT ![t] = c], arg' \in {arg, [arg EXCEPT ![t] = n]},
           UNCHANGED waiting, expired' = expired \ {t}
    PROVE  WakeInv'
<1>1. \A s \in waiting : op'[s] = op[s] /\ arg'[s] = arg[s]
  BY DEF TypeInv, TypeOK
<1>2. NoLostWakeup'
  BY <1>1, BlockedFrame DEF WakeInv, NoLostWakeup
<1>3. \A s \in expired' : s \notin waiting' /\ op'[s] \notin {"idle", "end"}
  BY DEF WakeInv, TypeInv, TypeOK
<1> QED
  BY <1>2, <1>3 DEF WakeInv

\* A step that parks a blocked thread, or unparks any.
LEMMA OnePark ==
    ASSUME TypeInv, WakeInv, NEW t \in Threads, UNCHANGED <<queVars, op, arg>>,
           \/ waiting' = waiting \cup {t} /\ t \notin expired /\ Blocked(t) /\ expired' = expired
           \/ waiting' = waiting \ {t} /\ t \in waiting /\ expired' \in {expired, expired \cup {t}}
    PROVE  WakeInv'
<1>1. \A s \in waiting' : Blocked(s)
  BY DEF WakeInv, NoLostWakeup
<1>2. NoLostWakeup'
  BY <1>1, BlockedFrame DEF NoLostWakeup
<1>3. \A s \in waiting : op[s] \notin {"idle", "end"}
  BY DEF WakeInv, NoLostWakeup, Blocked
<1>4. \A s \in expired' : s \notin waiting' /\ op'[s] \notin {"idle", "end"}
  BY <1>3 DEF WakeInv
<1> QED
  BY <1>2, <1>4 DEF WakeInv

\* A step that notifies: nobody is left parked.
LEMMA Notified ==
    ASSUME TypeInv, WakeInv, waiting' = {}, expired' = expired,
           NEW t \in Threads, t \notin expired, NEW c \in Calls,
           op' \in {op, [op EXCEPT ![t] = c]}
    PROVE  WakeInv'
<1>1. NoLostWakeup'
  BY DEF NoLostWakeup
<1>2. \A s \in expired : op'[s] = op[s]
  BY ConstantsAssumption DEF TypeInv, TypeOK
<1> QED
  BY <1>1, <1>2 DEF WakeInv

\* The steps that park a thread, in the calls that can wait.
LEMMA ParkSteps ==
    ASSUME TypeInv, WakeInv, NEW t \in Threads,
           PutBlock(t) \/ GetBlock(t) \/ FinishBlock(t) \/ ProgressBlock(t) \/ SyncBlock(t)
    PROVE  WakeInv'
<1>1. t \notin expired /\ waiting' = waiting \cup {t} /\ UNCHANGED <<queVars, op, arg, expired>>
  BY DEF PutBlock, GetBlock, FinishBlock, ProgressBlock, SyncBlock, Running, Park
<1>2. Blocked(t)
  BY DEF PutBlock, GetBlock, FinishBlock, ProgressBlock, SyncBlock, Running, Blocked
<1> QED
  BY <1>1, <1>2, OnePark

\* The steps that return from a call, or enter one without looking at the queue.
LEMMA ReturnSteps ==
    ASSUME TypeInv, WakeInv, NEW t \in Threads,
           \/ \E w \in Weights : PutCall(t, w)
           \/ GetCall(t) \/ FinishCall(t) \/ WorkerRestart(t)
           \/ PutRefuse(t) \/ GetEnd(t) \/ FinishReturn(t) \/ ProgressReturn(t) \/ SyncReturn(t)
           \/ TimedOut(t)
    PROVE  WakeInv'
<1> USE DEF Calls
<1>0. /\ t \in waiting => op[t] \notin {"idle", "end"}
      /\ t \in expired => t \notin waiting /\ op[t] \notin {"idle", "end"}
  BY DEF WakeInv, NoLostWakeup, Blocked
<1>1. CASE \E w \in Weights : PutCall(t, w)
  <2>1. PICK w \in Weights : PutCall(t, w)
    BY <1>1
  <2>2. w \in Nat
    BY ConstantsAssumption
  <2>3. /\ t \notin waiting /\ expired' = expired \ {t}
        /\ op' = [op EXCEPT ![t] = "put"] /\ arg' = [arg EXCEPT ![t] = w]
        /\ UNCHANGED <<queVars, waiting>>
    BY <1>0, <2>1 DEF PutCall
  <2> QED
    BY <2>2, <2>3, OneCall, "put" \in Calls
<1>2. CASE GetCall(t) \/ FinishCall(t)
  <2>1. /\ t \notin waiting /\ expired' = expired \ {t}
        /\ op' = [op EXCEPT ![t] = "get"] \/ op' = [op EXCEPT ![t] = "finish"]
        /\ UNCHANGED <<queVars, waiting, arg>>
    BY <1>0, <1>2 DEF GetCall, FinishCall
  <2> QED
    BY <2>1, OneCall, 0 \in Nat, "get" \in Calls, "finish" \in Calls
<1>3. CASE WorkerRestart(t) \/ PutRefuse(t) \/ GetEnd(t) \/ FinishReturn(t) \/ ProgressReturn(t) \/ SyncReturn(t)
  <2>1. /\ t \notin waiting /\ expired' = expired \ {t}
        /\ op' = [op EXCEPT ![t] = "idle"] \/ op' = [op EXCEPT ![t] = "end"]
        /\ UNCHANGED <<queVars, waiting, arg>>
    BY <1>0, <1>3 DEF WorkerRestart, PutRefuse, GetEnd, FinishReturn, ProgressReturn, SyncReturn,
                      Running, Return, Leave
  <2> QED
    BY <2>1, OneCall, 0 \in Nat, "idle" \in Calls, "end" \in Calls
<1>4. CASE TimedOut(t)
  <2>1. /\ t \notin waiting /\ expired' = expired \ {t}
        /\ op' = [op EXCEPT ![t] = "idle"] \/ op' = [op EXCEPT ![t] = "end"]
        /\ UNCHANGED <<queVars, waiting, arg>>
    BY <1>0, <1>4 DEF TimedOut, Return, Leave
  <2> QED
    BY <2>1, OneCall, 0 \in Nat, "idle" \in Calls, "end" \in Calls
<1> QED
  BY <1>1, <1>2, <1>3, <1>4

\* No step loses a wake-up, unless set_limit changes what the parked threads wait for.
LEMMA StepWakeInv ==
    ASSUME "set_limit" \notin ControlOps, TypeInv, WakeInv, [Next]_vars
    PROVE  WakeInv'
<1> USE DEF Threads
<1>1. ASSUME NEW p \in Producers, NEW w \in Weights, PutCall(p, w) PROVE WakeInv'
  BY <1>1, ReturnSteps
<1>2. ASSUME NEW p \in Producers, put(p) PROVE WakeInv'
  <2>1. CASE PutBlock(p)
    BY <2>1, ParkSteps
  <2>2. CASE PutAccept(p)
    <3>1. waiting' = {} /\ expired' = expired /\ p \notin expired /\ op' = [op EXCEPT ![p] = "idle"]
      BY <2>2 DEF PutAccept, notify_all, Running, Return
    <3> QED
      BY <3>1, Notified, "idle" \in Calls DEF Calls
  <2>3. CASE PutRefuse(p)
    BY <2>3, ReturnSteps
  <2> QED
    BY <1>2, <2>1, <2>2, <2>3 DEF put
<1>3. ASSUME NEW w \in Workers, get(w) PROVE WakeInv'
  <2>1. CASE GetBlock(w)
    BY <2>1, ParkSteps
  <2>2. CASE GetTake(w)
    <3>1. waiting' = {} /\ expired' = expired /\ w \notin expired /\ op' = [op EXCEPT ![w] = "idle"]
      BY <2>2 DEF GetTake, notify_all, Running, Return
    <3> QED
      BY <3>1, Notified, "idle" \in Calls DEF Calls
  <2>3. CASE GetEnd(w)
    BY <2>3, ReturnSteps
  <2> QED
    BY <1>3, <2>1, <2>2, <2>3 DEF get
<1>4. ASSUME NEW w \in Workers, GetCall(w) \/ WorkerRestart(w) PROVE WakeInv'
  BY <1>4, ReturnSteps
<1>5. ASSUME NEW w \in Workers, Commit(w) PROVE WakeInv'
  <2>1. UNCHANGED <<que, limit, sync, op, arg, expired>> /\ op[w] = "idle"
    BY <1>5 DEF Commit
  <2>2. CASE CommitAccept(w)
    <3>1. waiting' = {} /\ w \notin expired
      BY <2>1, <2>2 DEF CommitAccept, notify_all, WakeInv
    <3> QED
      BY <3>1, <2>1, Notified, "idle" \in Calls DEF Calls
  <2>3. CASE CommitRefuse(w)
    <3>1. UNCHANGED queVars /\ UNCHANGED waiting
      BY <2>1, <2>3 DEF CommitRefuse, queVars
    <3>2. NoLostWakeup'
      BY <3>1, <2>1, BlockedFrame DEF WakeInv, NoLostWakeup
    <3> QED
      BY <3>1, <3>2, <2>1 DEF WakeInv
  <2> QED
    BY <1>5, <2>2, <2>3 DEF Commit
<1>6. ASSUME NEW c \in Controllers, Close(c) \/ Abort(c) PROVE WakeInv'
  <2>1. waiting' = {} /\ UNCHANGED <<op, expired>> /\ op[c] = "idle"
    BY <1>6 DEF Close, Abort, Control, notify_all
  <2>2. c \notin expired
    BY <2>1 DEF WakeInv
  <2> QED
    BY <2>1, <2>2, Notified, "idle" \in Calls DEF Calls
<1>7. ASSUME NEW c \in Controllers, Reset(c) PROVE WakeInv'
  <2>1. UNCHANGED <<waiting, op, expired>> /\ \A t \in Threads : op[t] \in {"idle", "end"}
    BY <1>7 DEF Reset
  <2>2. \A t \in waiting : op[t] \notin {"idle", "end"}
    BY DEF WakeInv, NoLostWakeup, Blocked
  <2>3. waiting = {}
    BY <2>1, <2>2 DEF TypeInv, TypeOK
  <2> QED
    BY <2>1, <2>3 DEF WakeInv, NoLostWakeup
<1>8. ASSUME NEW c \in Controllers, SetLimit(c) PROVE WakeInv'
  BY <1>8 DEF SetLimit, Control
<1>9. ASSUME NEW c \in Controllers, FinishCall(c) \/ wait_finished(c) \/ wait_progress(c) PROVE WakeInv'
  BY <1>9, ReturnSteps, ParkSteps DEF wait_finished, wait_progress
<1>10. ASSUME NEW c \in Controllers, NEW d \in Weights, ProgressCall(c, d) PROVE WakeInv'
  <2>1. PICK target :
           /\ progress_pending(target)
           /\ op' = [op EXCEPT ![c] = "progress"]
           /\ arg' = [arg EXCEPT ![c] = target]
    BY <1>10 DEF ProgressCall
  <2>2. waiting' = waiting \cup {c} /\ UNCHANGED <<queVars, expired>> /\ op[c] = "idle"
    BY <1>10 DEF ProgressCall, Park
  <2>3. c \notin waiting /\ c \notin expired
    BY <2>2 DEF WakeInv, NoLostWakeup, Blocked
  <2>4. op'[c] = "progress" /\ arg'[c] = target
    BY <2>1 DEF TypeInv, TypeOK
  <2>5. Blocked(c)'
    BY <2>1, <2>2, <2>4 DEF Blocked, progress_pending, is_alive, is_closing, queVars
  <2>6. \A s \in waiting : Blocked(s)'
    <3>1. \A s \in waiting : op'[s] = op[s] /\ arg'[s] = arg[s]
      BY <2>1, <2>3 DEF TypeInv, TypeOK
    <3> QED
      BY <3>1, <2>2, BlockedFrame DEF WakeInv, NoLostWakeup
  <2>7. \A s \in expired' : s \notin waiting' /\ op'[s] \notin {"idle", "end"}
    BY <2>1, <2>2, <2>3 DEF WakeInv, TypeInv, TypeOK
  <2> QED
    BY <2>2, <2>5, <2>6, <2>7 DEF WakeInv, NoLostWakeup
<1>11. ASSUME NEW t \in Producers \cup Workers, SyncCall(t) PROVE WakeInv'
  <2>1. op[t] = "idle" /\ UNCHANGED <<status, que, uncommitted, limit, expired, arg>>
    BY <1>11 DEF SyncCall
  <2>2. t \notin expired
    BY <2>1 DEF WakeInv
  <2>3. CASE waiting' = {} /\ op' = [op EXCEPT ![t] = "end"]
    BY <2>1, <2>2, <2>3, Notified, "end" \in Calls DEF Calls
  <2>4. CASE ~is_aborted /\ sync' # 2 /\ op' = [op EXCEPT ![t] = "sync"] /\ waiting' = {t}
    <3>1. Blocked(t)'
      BY <2>1, <2>4 DEF Blocked, TypeInv, TypeOK, is_aborted
    <3>2. \A s \in expired' : s \notin waiting' /\ op'[s] \notin {"idle", "end"}
      BY <2>1, <2>2, <2>4 DEF WakeInv, TypeInv, TypeOK
    <3> QED
      BY <2>4, <3>1, <3>2 DEF WakeInv, NoLostWakeup
  <2> QED
    BY <1>11, <2>3, <2>4 DEF SyncCall, notify_all, Leave
<1>12. ASSUME NEW t \in Producers \cup Workers, sync_finish(t) PROVE WakeInv'
  BY <1>12, ReturnSteps, ParkSteps DEF sync_finish
<1>13. ASSUME NEW t \in Threads, Spurious(t) \/ Expire(t) PROVE WakeInv'
  BY <1>13, OnePark DEF Spurious, Expire
<1>14. ASSUME NEW t \in Threads, TimedOut(t) PROVE WakeInv'
  BY <1>14, ReturnSteps
<1>15. CASE UNCHANGED vars
  BY <1>15, BlockedFrame DEF vars, WakeInv, NoLostWakeup
<1> QED
  BY <1>1, <1>2, <1>3, <1>4, <1>5, <1>6, <1>7, <1>8, <1>9, <1>10, <1>11, <1>12, <1>13, <1>14,
     <1>15 DEF Next

\* A program that does not change the limit of a queue in use never leaves a thread parked
\* that could go on, whatever it closes, aborts or resets.
THEOREM NoWakeupIsLost ==
    ASSUME "set_limit" \notin ControlOps
    PROVE  Spec => []NoLostWakeup
<1>1. Init => WakeInv
  BY DEF Init, WakeInv, NoLostWakeup
<1>2. TypeInv /\ WakeInv /\ [Next]_vars => WakeInv'
  BY StepWakeInv
<1>3. WakeInv => NoLostWakeup
  BY DEF WakeInv
<1> QED
  BY <1>1, <1>2, <1>3, TypeInvariant, PTL DEF Spec
-----------------------------------------------------------------------------
(* Where the items are                                                     *)

\* The queued items are those after the last one taken.
LEMMA QueuedRange ==
    ASSUME TypeInv PROVE Elems(que) = (last + 1) .. accepted
<1> DEFINE n == accepted - last
<1>1. last \in Nat /\ accepted \in Nat /\ last <= accepted
  BY DEF TypeInv, TypeOK, Ranges, accepted
<1>2. Elems(que) = {last + i : i \in 1 .. n}
  BY DEF Elems, TypeInv, FifoNoLoss
<1>3. ASSUME NEW j \in (last + 1) .. accepted PROVE j \in {last + i : i \in 1 .. n}
  <2>1. j - last \in 1 .. n /\ j = last + (j - last)
    BY <1>1
  <2> QED
    BY <2>1
<1>4. {last + i : i \in 1 .. n} \subseteq (last + 1) .. accepted
  BY <1>1
<1> QED
  BY <1>2, <1>3, <1>4

\* No item is held twice, or settled twice, and what is settled was taken from the queue.
PlaceInv ==
    /\ committed \subseteq 1 .. last
    /\ dropped \subseteq 1 .. last
    /\ HeldItems \cap (committed \cup dropped) = {}
    /\ committed \cap dropped = {}
    /\ \A v, w \in Workers : held[v] = held[w] => v = w \/ held[v] = 0

LEMMA PlaceFrame ==
    ASSUME PlaceInv, UNCHANGED <<held, last, dropped, committed>> PROVE PlaceInv'
  BY DEF PlaceInv, HeldItems

LEMMA StepPlaceInv ==
    ASSUME TypeInv, PlaceInv, [Next]_vars
    PROVE  PlaceInv'
<1>0. last \in Nat /\ accepted \in Nat /\ last <= accepted /\ accepted = Len(weight)
      /\ held \in [Workers -> Nat]
  BY DEF TypeInv, TypeOK, Ranges, accepted
<1>1. ASSUME NEW w \in Workers, GetTake(w) PROVE PlaceInv'
  <2>1. Head(que) = last + 1 /\ last' = last + 1
    BY <1>0, <1>1, TakeHead DEF GetTake, is_empty, TypeInv, FifoNoLoss
  <2>2. UNCHANGED <<dropped, committed>> /\ held' \in {held, [held EXCEPT ![w] = last + 1]}
    BY <1>1, <2>1 DEF GetTake
  <2>3. committed' \subseteq 1 .. last' /\ dropped' \subseteq 1 .. last'
    BY <1>0, <2>1, <2>2 DEF PlaceInv
  <2>4. \A v \in Workers : held[v] <= last
    BY DEF TypeInv, Ranges
  <2>5. HeldItems' \subseteq HeldItems \cup {last + 1}
    BY <1>0, <2>2 DEF HeldItems
  <2>6. HeldItems' \cap (committed' \cup dropped') = {}
    BY <1>0, <2>2, <2>5 DEF PlaceInv
  <2>7. \A u, v \in Workers : held'[u] = held'[v] => u = v \/ held'[u] = 0
    BY <1>0, <2>2, <2>4 DEF PlaceInv
  <2> QED
    BY <2>2, <2>3, <2>6, <2>7 DEF PlaceInv
<1>2. ASSUME NEW w \in Workers, Commit(w) PROVE PlaceInv'
  <2>1. UNCHANGED <<last, dropped>> /\ held' = [held EXCEPT ![w] = 0]
        /\ committed' \in {committed, committed \cup {held[w]}} /\ held[w] # 0
    BY <1>2 DEF Commit, CommitAccept, CommitRefuse
  <2>2. held[w] \in HeldItems /\ held[w] \in 1 .. last
    BY <1>0, <2>1 DEF HeldItems, TypeInv, Ranges
  <2>3. HeldItems' \subseteq HeldItems \ {held[w]}
    BY <1>0, <2>1 DEF HeldItems, PlaceInv
  <2>4. \A u, v \in Workers : held'[u] = held'[v] => u = v \/ held'[u] = 0
    BY <1>0, <2>1 DEF PlaceInv
  <2>5. committed' \subseteq 1 .. last' /\ dropped' \subseteq 1 .. last'
    BY <2>1, <2>2 DEF PlaceInv
  <2>6. committed' \cap dropped' = {} /\ HeldItems' \cap (committed' \cup dropped') = {}
    BY <2>1, <2>2, <2>3 DEF PlaceInv
  <2> QED
    BY <2>4, <2>5, <2>6 DEF PlaceInv
<1>3. ASSUME NEW c \in Controllers, Abort(c) \/ Reset(c) PROVE PlaceInv'
  <2>1. dropped' = dropped \cup ((last + 1) .. accepted) /\ last' = accepted /\ UNCHANGED <<committed, held>>
    BY <1>3, QueuedRange DEF Abort, Reset, clear_queue
  <2>2. HeldItems \subseteq 1 .. last
    BY <1>0 DEF HeldItems, TypeInv, Ranges
  <2>3. HeldItems' = HeldItems
    BY <2>1 DEF HeldItems
  <2>4. committed' \subseteq 1 .. last' /\ dropped' \subseteq 1 .. last'
    <3>1. 1 .. last \subseteq 1 .. accepted /\ (last + 1) .. accepted \subseteq 1 .. accepted
      BY <1>0
    <3>2. committed \subseteq 1 .. last /\ dropped \subseteq 1 .. last
      BY DEF PlaceInv
    <3>3. committed' \subseteq 1 .. accepted /\ dropped' \subseteq 1 .. accepted
      BY <2>1, <3>1, <3>2
    <3> QED
      BY <2>1, <3>3
  <2>5. \A i \in (last + 1) .. accepted : i \notin 1 .. last
    BY <1>0
  <2>6. HeldItems' \cap (committed' \cup dropped') = {} /\ committed' \cap dropped' = {}
    BY <2>1, <2>2, <2>3, <2>5 DEF PlaceInv
  <2> QED
    BY <2>1, <2>4, <2>6 DEF PlaceInv
<1>4. CASE UNCHANGED <<held, last, dropped, committed>>
  BY <1>4, PlaceFrame
<1>5. \/ \E w \in Workers : GetTake(w) \/ Commit(w)
      \/ \E c \in Controllers : Abort(c) \/ Reset(c)
      \/ UNCHANGED <<held, last, dropped, committed>>
  BY DEF Next, vars, history, queVars, put, PutCall, PutBlock, PutAccept, PutRefuse, get, GetCall, GetBlock,
         GetEnd, WorkerRestart, Close, SetLimit, FinishCall, wait_finished, FinishBlock,
         FinishReturn, wait_progress, ProgressBlock, ProgressReturn, ProgressCall, SyncCall, sync_finish,
         SyncBlock, SyncReturn, Spurious, Expire, TimedOut
<1> QED
  BY <1>1, <1>2, <1>3, <1>4, <1>5

\* An accepted item is in one place at a time: queued, in the hands of one worker,
\* committed, or dropped; with any use of abort and reset.
THEOREM ItemIsInOnePlace == Spec => []OnePlace
<1>1. Init => PlaceInv
  BY DEF Init, PlaceInv, HeldItems
<1>2. TypeInv /\ PlaceInv /\ [Next]_vars => PlaceInv'
  BY StepPlaceInv
<1>3. TypeInv /\ PlaceInv => OnePlace
  <2> SUFFICES ASSUME TypeInv, PlaceInv PROVE OnePlace
    OBVIOUS
  <2>1. last \in Nat /\ Elems(que) = (last + 1) .. accepted
    BY QueuedRange DEF TypeInv, TypeOK
  <2>2. HeldItems \subseteq 1 .. last
    BY DEF HeldItems, TypeInv, TypeOK, Ranges
  <2>3. \A i \in Elems(que) : i \notin 1 .. last
    BY <2>1 DEF TypeInv, TypeOK, accepted
  <2> QED
    BY <2>2, <2>3 DEF OnePlace, PlaceInv
<1> QED
  BY <1>1, <1>2, <1>3, TypeInvariant, PTL DEF Spec
-----------------------------------------------------------------------------
(* The counter of a jobque, and the moment it is closed                    *)

\* A worker asks for an item only when it holds none.
HandInv == \A w \in Workers : op[w] = "get" => held[w] = 0

PlacedInv == TypeInv /\ PlaceInv /\ HandInv

LEMMA StepHandInv ==
    ASSUME TypeInv, HandInv, [Next]_vars PROVE HandInv'
<1>0. op \in [Threads -> Calls] /\ held \in [Workers -> Nat]
  BY DEF TypeInv, TypeOK
<1>1. ASSUME NEW w \in Workers, GetCall(w) PROVE HandInv'
  BY <1>0, <1>1 DEF HandInv, GetCall, Threads
<1>2. ASSUME NEW w \in Workers, GetTake(w) PROVE HandInv'
  BY <1>0, <1>2 DEF HandInv, GetTake, Return, Threads
<1>3. ASSUME NEW w \in Workers, Commit(w) PROVE HandInv'
  BY <1>0, <1>3 DEF HandInv, Commit
<1>4. ASSUME UNCHANGED held, NEW t \in Threads, NEW c \in Calls \ {"get"},
             op' \in {op, [op EXCEPT ![t] = c]}
      PROVE  HandInv'
  BY <1>0, <1>4 DEF HandInv, Threads
<1>5. \/ \E w \in Workers : GetCall(w) \/ GetTake(w) \/ Commit(w)
      \/ UNCHANGED held /\ \E t \in Threads : \E c \in Calls \ {"get"} : op' \in {op, [op EXCEPT ![t] = c]}
      \/ UNCHANGED <<op, held>>
  <2>1. ASSUME NEW p \in Producers, put(p) \/ \E w \in Weights : PutCall(p, w)
        PROVE  UNCHANGED held /\ \E c \in {"idle", "put"} : op' \in {op, [op EXCEPT ![p] = c]}
    BY <2>1 DEF put, PutCall, PutBlock, PutAccept, PutRefuse, Return
  <2>2. ASSUME NEW w \in Workers, GetBlock(w) \/ GetEnd(w) \/ WorkerRestart(w)
        PROVE  UNCHANGED held /\ \E c \in {"idle", "end"} : op' \in {op, [op EXCEPT ![w] = c]}
    BY <2>2 DEF GetBlock, GetEnd, WorkerRestart, Return, Leave
  <2>3. ASSUME NEW c \in Controllers, Close(c) \/ Abort(c) \/ Reset(c) \/ SetLimit(c)
        PROVE  UNCHANGED <<op, held>>
    BY <2>3 DEF Close, Abort, Reset, SetLimit
  <2>4. ASSUME NEW c \in Controllers,
               FinishCall(c) \/ wait_finished(c) \/ wait_progress(c) \/ \E d \in Weights : ProgressCall(c, d)
        PROVE  UNCHANGED held /\ \E e \in {"idle", "finish", "progress"} : op' \in {op, [op EXCEPT ![c] = e]}
    BY <2>4 DEF FinishCall, wait_finished, FinishBlock, FinishReturn, wait_progress, ProgressBlock,
                ProgressReturn, ProgressCall, Return
  <2>5. ASSUME NEW t \in Producers \cup Workers, SyncCall(t) \/ sync_finish(t)
        PROVE  UNCHANGED held /\ \E e \in {"end", "sync"} : op' \in {op, [op EXCEPT ![t] = e]}
    BY <2>5 DEF SyncCall, sync_finish, SyncBlock, SyncReturn, Leave
  <2>6. ASSUME NEW t \in Threads, Spurious(t) \/ Expire(t) \/ TimedOut(t)
        PROVE  UNCHANGED held /\ \E e \in {"idle", "end"} : op' \in {op, [op EXCEPT ![t] = e]}
    BY <2>6 DEF Spurious, Expire, TimedOut, Leave, Return
  <2>7. \A e \in {"idle", "put", "end", "finish", "progress", "sync"} : e \in Calls \ {"get"}
    BY DEF Calls
  <2>8. UNCHANGED vars => UNCHANGED <<op, held>>
    BY DEF vars
  <2> HIDE DEF put, get
  <2> QED
    BY <2>1, <2>2, <2>3, <2>4, <2>5, <2>6, <2>7, <2>8 DEF Next, get, Threads
<1>6. CASE UNCHANGED <<op, held>>
  BY <1>6 DEF HandInv
<1> QED
  BY <1>1, <1>2, <1>3, <1>4, <1>5, <1>6

LEMMA PlacedInvariant == Spec => []PlacedInv
<1>1. Init => PlaceInv /\ HandInv
  BY DEF Init, PlaceInv, HeldItems, HandInv
<1>2. TypeInv /\ PlaceInv /\ HandInv /\ [Next]_vars => PlaceInv' /\ HandInv'
  BY StepPlaceInv, StepHandInv
<1> QED
  BY <1>1, <1>2, TypeInvariant, PTL DEF Spec, PlacedInv

\* How the three steps that move an item change what is outstanding.
LEMMA OutstandingPut ==
    ASSUME PlacedInv, NEW p \in Producers, PutAccept(p)
    PROVE  /\ Outstanding' = Outstanding \cup {accepted + 1} /\ accepted + 1 \notin Outstanding
           /\ accepted' = accepted + 1
<1>0. last \in Nat /\ accepted \in Nat /\ last <= accepted /\ TypeInv /\ TypeInv'
  <2>1. TypeInv /\ [Next]_vars
    BY DEF PlacedInv, Next, put
  <2>2. TypeInv'
    BY <2>1, StepTypeInv
  <2> QED
    BY <2>1, <2>2 DEF TypeInv, TypeOK, Ranges, accepted
<1>1. HeldItems' = HeldItems /\ UNCHANGED last /\ accepted' = accepted + 1
  BY <1>0 DEF PutAccept, put_item, HeldItems, accepted, TypeInv, TypeOK
<1>2. Elems(que) = (last + 1) .. accepted /\ Elems(que)' = (last + 1) .. (accepted + 1)
  <2>1. (TypeInv => Elems(que) = (last + 1) .. accepted)'
    BY QueuedRange, PTL
  <2> QED
    BY <1>0, <1>1, <2>1, QueuedRange
<1>3. HeldItems \subseteq 1 .. last
  BY <1>0 DEF HeldItems, TypeInv, TypeOK, Ranges
<1>4. Elems(que)' = Elems(que) \cup {accepted + 1} /\ accepted + 1 \notin Elems(que)
  BY <1>0, <1>2
<1>5. accepted + 1 \notin HeldItems
  BY <1>0, <1>3
<1> QED
  BY <1>1, <1>4, <1>5 DEF Outstanding

LEMMA OutstandingTake ==
    ASSUME PlacedInv, Commits, NEW w \in Workers, GetTake(w)
    PROVE  Outstanding' = Outstanding
<1>0. last \in Nat /\ accepted \in Nat /\ last <= accepted /\ TypeInv /\ TypeInv'
      /\ held \in [Workers -> Nat] /\ held[w] = 0
  <2>1. TypeInv'
    BY StepTypeInv DEF PlacedInv, Next, get
  <2>2. held[w] = 0
    BY DEF PlacedInv, HandInv, GetTake, Running
  <2>3. last \in Nat /\ accepted \in Nat /\ last <= accepted /\ held \in [Workers -> Nat]
    BY DEF PlacedInv, TypeInv, TypeOK, Ranges, accepted
  <2> QED
    BY <2>1, <2>2, <2>3 DEF PlacedInv
<1>1. Head(que) = last + 1 /\ last' = last + 1 /\ last + 1 <= accepted /\ accepted' = accepted
  BY <1>0, TakeHead DEF GetTake, is_empty, TypeInv, FifoNoLoss, accepted
<1>2. Elems(que) = (last + 1) .. accepted /\ Elems(que)' = (last + 2) .. accepted
  <2>1. (TypeInv => Elems(que) = (last + 1) .. accepted)'
    BY QueuedRange, PTL
  <2> QED
    BY <1>0, <1>1, <2>1, QueuedRange
<1>3. held' = [held EXCEPT ![w] = last + 1]
  BY <1>1 DEF GetTake
<1>4. HeldItems' = HeldItems \cup {last + 1}
  BY <1>0, <1>3 DEF HeldItems
<1>5. Elems(que) = Elems(que)' \cup {last + 1}
  BY <1>0, <1>1, <1>2
<1> QED
  BY <1>4, <1>5 DEF Outstanding

LEMMA OutstandingCommit ==
    ASSUME PlacedInv, NEW w \in Workers, Commit(w)
    PROVE  /\ held[w] \in Outstanding
           /\ Outstanding' = Outstanding \ {held[w]}
<1>0. last \in Nat /\ accepted \in Nat /\ held \in [Workers -> Nat] /\ held[w] <= last /\ held[w] # 0
  BY DEF PlacedInv, TypeInv, TypeOK, Ranges, accepted, Commit
<1>1. held' = [held EXCEPT ![w] = 0] /\ UNCHANGED que
  BY DEF Commit
<1>2. held[w] \in HeldItems /\ HeldItems' = HeldItems \ {held[w]}
  BY <1>0, <1>1 DEF HeldItems, PlacedInv, PlaceInv
<1>3. held[w] \notin Elems(que)
  BY <1>0, QueuedRange DEF PlacedInv
<1> QED
  BY <1>1, <1>2, <1>3 DEF Outstanding, Elems

\* Every other step that is no abort and no reset leaves what is outstanding alone.
LEMMA OutstandingFrame ==
    ASSUME UNCHANGED <<que, held>> PROVE Outstanding' = Outstanding
  BY DEF Outstanding, HeldItems, Elems

\* The steps of a program that only closes its queue: who puts, takes and commits, who
\* closes, and what the others leave alone.
LEMMA ServiceSteps ==
    ASSUME ControlOps \subseteq {"close"}, [Next]_vars
    PROVE  \/ \E p \in Producers : PutAccept(p)
           \/ \E w \in Workers : GetTake(w) \/ Commit(w)
           \/ \E c \in Controllers : Close(c)
           \/ UNCHANGED <<status, que, uncommitted, held, weight>>
<1>1. ASSUME NEW c \in Controllers, Abort(c) \/ Reset(c) \/ SetLimit(c) PROVE FALSE
  BY <1>1 DEF Abort, Reset, SetLimit, Control
<1>2. ASSUME NEW p \in Producers, put(p) \/ \E w \in Weights : PutCall(p, w)
      PROVE  PutAccept(p) \/ UNCHANGED <<status, que, uncommitted, held, weight>>
  BY <1>2 DEF put, PutCall, PutBlock, PutRefuse, queVars, history
<1>3. ASSUME NEW w \in Workers, get(w) \/ GetCall(w) \/ WorkerRestart(w)
      PROVE  GetTake(w) \/ UNCHANGED <<status, que, uncommitted, held, weight>>
  BY <1>3 DEF get, GetCall, GetBlock, GetEnd, WorkerRestart, queVars, history
<1>4. ASSUME NEW c \in Controllers,
             FinishCall(c) \/ wait_finished(c) \/ wait_progress(c) \/ \E d \in Weights : ProgressCall(c, d)
      PROVE  UNCHANGED <<status, que, uncommitted, held, weight>>
  BY <1>4 DEF FinishCall, wait_finished, FinishBlock, FinishReturn, wait_progress, ProgressBlock,
              ProgressReturn, ProgressCall, queVars, history
<1>5. ASSUME NEW t \in Producers \cup Workers, SyncCall(t) \/ sync_finish(t)
      PROVE  UNCHANGED <<status, que, uncommitted, held, weight>>
  BY <1>5 DEF SyncCall, sync_finish, SyncBlock, SyncReturn, queVars, history
<1>6. ASSUME NEW t \in Threads, Spurious(t) \/ Expire(t) \/ TimedOut(t)
      PROVE  UNCHANGED <<status, que, uncommitted, held, weight>>
  BY <1>6 DEF Spurious, Expire, TimedOut, queVars, history
<1>7. UNCHANGED vars => UNCHANGED <<status, que, uncommitted, held, weight>>
  BY DEF vars, queVars, history
<1> QED
  BY <1>1, <1>2, <1>3, <1>4, <1>5, <1>6, <1>7 DEF Next

\* uncommitted_jobs_ counts the outstanding jobs; CLOSED and CLOSING say whether any is left.
CountInv ==
    /\ IsFiniteSet(Outstanding)
    /\ uncommitted = Cardinality(Outstanding)
    /\ status \in {"ALIVE", "CLOSING", "CLOSED"}
    /\ status = "CLOSED" => Outstanding = {}
    /\ status = "CLOSING" => Outstanding # {}

LEMMA StepCountInv ==
    ASSUME Kind = "jobque", ControlOps \subseteq {"close"}, PlacedInv, CountInv, [Next]_vars
    PROVE  CountInv'
<1>0. Commits /\ Weights = {1}
  BY ConstantsAssumption DEF Commits
<1>1. ASSUME NEW p \in Producers, PutAccept(p) PROVE CountInv'
  <2>1. arg[p] = 1
    BY <1>0, <1>1 DEF PutAccept, Running, PlacedInv, TypeInv, Ranges
  <2>2. uncommitted' = uncommitted + 1 /\ status' = status /\ status = "ALIVE"
    BY <1>0, <1>1, <2>1 DEF PutAccept, put_item, is_alive
  <2>3. /\ IsFiniteSet(Outstanding')
        /\ Cardinality(Outstanding') = Cardinality(Outstanding) + 1
    BY <1>1, OutstandingPut, FS_AddElement DEF CountInv
  <2> QED
    BY <2>2, <2>3 DEF CountInv
<1>2. ASSUME NEW w \in Workers, GetTake(w) PROVE CountInv'
  <2>1. Outstanding' = Outstanding
    BY <1>0, <1>2, OutstandingTake
  <2>2. UNCHANGED <<uncommitted, status>>
    BY <1>2 DEF GetTake
  <2> QED
    BY <2>1, <2>2 DEF CountInv
<1>3. ASSUME NEW w \in Workers, Commit(w) PROVE CountInv'
  <2>1. /\ IsFiniteSet(Outstanding')
        /\ Cardinality(Outstanding') = Cardinality(Outstanding) - 1
        /\ Cardinality(Outstanding') \in Nat
        /\ Outstanding # {}
    BY <1>3, OutstandingCommit, FS_RemoveElement, FS_CardinalityType DEF CountInv
  <2>2. weight[held[w]] = 1
    <3>1. held[w] \in 1 .. Len(weight) /\ weight \in Seq({1})
      BY <1>0, <1>3 DEF Commit, PlacedInv, TypeInv, TypeOK, Ranges, accepted
    <3> QED
      BY <3>1
  <2>3. uncommitted \in Nat /\ Cardinality(Outstanding) \in Nat /\ uncommitted = Cardinality(Outstanding)
    BY FS_CardinalityType DEF CountInv, PlacedInv, TypeInv, TypeOK
  <2>4. CASE CommitAccept(w)
    <3>1. uncommitted' = uncommitted - 1
          /\ status' = IF status = "CLOSING" /\ uncommitted' = 0 THEN "CLOSED" ELSE status
      BY <2>2, <2>4 DEF CommitAccept, is_closing
    <3>2. uncommitted' = Cardinality(Outstanding')
      BY <2>1, <2>3, <3>1
    <3>3. uncommitted' = 0 <=> Outstanding' = {}
      BY <2>1, <3>2, FS_EmptySet
    <3> QED
      BY <2>1, <3>1, <3>2, <3>3 DEF CountInv
  <2>5. CASE CommitRefuse(w)
    BY <2>1, <2>2, <2>3, <2>5 DEF CommitRefuse
  <2> QED
    BY <1>3, <2>4, <2>5 DEF Commit
<1>4. ASSUME NEW c \in Controllers, Close(c) PROVE CountInv'
  <2>1. Outstanding' = Outstanding
    BY <1>4, OutstandingFrame DEF Close
  <2>2. is_idle <=> Outstanding = {}
    BY <1>0, FS_EmptySet DEF is_idle, CountInv
  <2>3. UNCHANGED uncommitted /\ status' = IF is_idle THEN "CLOSED" ELSE "CLOSING"
    BY <1>4 DEF Close
  <2> QED
    BY <2>1, <2>2, <2>3 DEF CountInv
<1>5. CASE UNCHANGED <<status, que, uncommitted, held, weight>>
  BY <1>5, OutstandingFrame DEF CountInv
<1> QED
  BY <1>1, <1>2, <1>3, <1>4, <1>5, ServiceSteps

LEMMA InitCountInv == Init => CountInv
<1> SUFFICES ASSUME Init PROVE CountInv
  OBVIOUS
<1>1. Outstanding = {}
  BY DEF Init, Outstanding, HeldItems, Elems
<1> QED
  BY <1>1, FS_EmptySet DEF Init, CountInv

\* A jobque that is closed has no job left, queued or in the hands of a worker, so
\* wait_finished returns ok only when every accepted job was committed; a jobque that is
\* closing has one, whose commit will close it.
THEOREM ClosedJobqueIsFinished ==
    ASSUME Kind = "jobque", ControlOps \subseteq {"close"}
    PROVE  Spec => []ClosedIsFinished
<1>1. PlacedInv /\ CountInv /\ [Next]_vars => CountInv'
  BY StepCountInv
<1>2. CountInv => ClosedIsFinished
  BY DEF CountInv, ClosedIsFinished, is_closed, is_closing
<1> QED
  BY <1>1, <1>2, InitCountInv, PlacedInvariant, PTL DEF Spec

\* The jobque implements JobService: every step is an acceptance, a completion, a close, or
\* one that JobService does not see.
THEOREM JobqueImplementsService ==
    ASSUME Kind = "jobque", ControlOps \subseteq {"close"}
    PROVE  Spec => ImplementsService
<1>0. Commits
  BY DEF Commits
<1>1. Init => Service!Init
  BY DEF Init, Service!Init, Outstanding, HeldItems, Elems, accepted
<1>2. ASSUME PlacedInv, CountInv, CountInv', [Next]_vars
      PROVE  [Service!Next]_(Service!vars)
  <2>1. ASSUME NEW p \in Producers, PutAccept(p) PROVE Service!Accept
    <3>1. Outstanding' = Outstanding \cup {accepted + 1} /\ accepted' = accepted + 1
      BY <1>2, <2>1, OutstandingPut
    <3>2. status = "ALIVE" /\ status' = status
      BY <2>1 DEF PutAccept, is_alive
    <3> QED
      BY <3>1, <3>2 DEF Service!Accept
  <2>2. ASSUME NEW w \in Workers, GetTake(w) PROVE UNCHANGED Service!vars
    <3>1. Outstanding' = Outstanding /\ accepted' = accepted /\ status' = status
      BY <1>0, <1>2, <2>2, OutstandingTake DEF GetTake, accepted
    <3> QED
      BY <3>1 DEF Service!vars
  <2>3. ASSUME NEW w \in Workers, Commit(w) PROVE Service!Complete(held[w]) /\ held[w] \in Outstanding
    <3>1. held[w] \in Outstanding /\ Outstanding' = Outstanding \ {held[w]}
      BY <1>2, <2>3, OutstandingCommit
    <3>2. accepted' = accepted
      BY <2>3 DEF Commit, accepted
    <3>3. status' = IF status = "CLOSING" /\ Outstanding' = {} THEN "CLOSED" ELSE status
      <4>1. status' = status \/ (status = "CLOSING" /\ status' = "CLOSED")
        BY <2>3 DEF Commit, CommitAccept, CommitRefuse, is_closing
      <4> QED
        BY <1>2, <4>1 DEF CountInv
    <3> QED
      BY <3>1, <3>2, <3>3 DEF Service!Complete
  <2>4. ASSUME NEW c \in Controllers, Close(c) PROVE Service!Close
    <3>1. Outstanding' = Outstanding /\ accepted' = accepted
      BY <2>4, OutstandingFrame DEF Close, accepted
    <3>2. status' = IF Outstanding = {} THEN "CLOSED" ELSE "CLOSING"
      BY <1>0, <1>2, <2>4, FS_EmptySet DEF Close, is_idle, CountInv
    <3> QED
      BY <3>1, <3>2 DEF Service!Close
  <2>5. CASE UNCHANGED <<status, que, uncommitted, held, weight>>
    BY <2>5, OutstandingFrame DEF Service!vars, accepted
  <2> QED
    BY <1>2, <2>1, <2>2, <2>3, <2>4, <2>5, ServiceSteps DEF Service!Next
<1>3. PlacedInv /\ CountInv /\ [Next]_vars => CountInv'
  BY StepCountInv
<1> QED
  BY <1>1, <1>2, <1>3, InitCountInv, PlacedInvariant, PTL DEF Spec, ImplementsService, Service!Spec
-----------------------------------------------------------------------------
(* The limits                                                              *)

LEMMA StepWithinLimit ==
    ASSUME "set_limit" \notin ControlOps
    PROVE  TypeInv /\ WithinLimit /\ [Next]_vars => WithinLimit'
<1> SUFFICES ASSUME TypeInv, WithinLimit, [Next]_vars PROVE WithinLimit'
  OBVIOUS
<1> USE ConstantsAssumption
<1>0. /\ que \in Seq(Item) /\ uncommitted \in Nat /\ limit \in Nat /\ arg \in [Threads -> Nat]
      /\ held \in [Workers -> Nat] /\ weight \in Seq(Weights)
      /\ \A w \in Workers : held[w] <= Len(weight)
  BY DEF TypeInv, TypeOK, Ranges, accepted
<1>1. ASSUME UNCHANGED <<que, uncommitted, limit>> PROVE WithinLimit'
  BY <1>1 DEF WithinLimit
<1>2. ASSUME NEW p \in Producers, PutAccept(p) PROVE WithinLimit'
  <2>1. Len(Append(que, accepted + 1)) = Len(que) + 1
    BY <1>0
  <2>2. arg[p] \in Nat
    BY <1>0 DEF Threads
  <2> QED
    BY <1>0, <1>2, <2>1, <2>2 DEF PutAccept, put_item, is_overflow, Commits, WithinLimit
<1>3. ASSUME NEW w \in Workers, GetTake(w) PROVE WithinLimit'
  <2>1. Len(Tail(que)) <= Len(que)
    BY <1>0, <1>3 DEF GetTake, is_empty
  <2>2. Len(que) \in Nat /\ Len(Tail(que)) \in Nat
    BY <1>0, <1>3 DEF GetTake, is_empty
  <2> QED
    BY <1>0, <1>3, <2>1, <2>2 DEF GetTake, WithinLimit
<1>4. ASSUME NEW w \in Workers, Commit(w) PROVE WithinLimit'
  <2>1. held[w] \in 1 .. Len(weight)
    BY <1>0, <1>4 DEF Commit
  <2>2. weight[held[w]] \in Nat
    <3>1. weight[held[w]] \in Weights
      BY <1>0, <2>1
    <3> QED
      BY <3>1
  <2>3. uncommitted' \in Nat /\ uncommitted' <= uncommitted
    BY <1>0, <1>4, <2>2 DEF Commit, CommitAccept, CommitRefuse
  <2> QED
    BY <1>0, <1>4, <2>3 DEF Commit, WithinLimit
<1>5. ASSUME NEW c \in Controllers, Abort(c) \/ Reset(c) PROVE WithinLimit'
  <2>1. que' = <<>> /\ limit' = limit
    BY <1>5 DEF Abort, Reset, clear_queue
  <2>2. Kind = "weight_jobque" => uncommitted' = 0
    BY <1>5 DEF Abort, Reset, clear_queue
  <2> QED
    BY <1>0, <2>1, <2>2 DEF WithinLimit
<1>6. ASSUME NEW c \in Controllers, SetLimit(c) PROVE FALSE
  BY <1>6 DEF SetLimit, Control
<1>7. CASE UNCHANGED vars
  BY <1>1, <1>7 DEF vars, queVars
<1>8. CASE Next
  <2>1. ASSUME NEW p \in Producers, PutBlock(p) \/ PutRefuse(p) \/ \E w \in Weights : PutCall(p, w)
        PROVE  WithinLimit'
    BY <1>1, <2>1 DEF PutBlock, PutRefuse, PutCall, queVars
  <2>2. ASSUME NEW w \in Workers, GetBlock(w) \/ GetEnd(w) \/ GetCall(w) \/ WorkerRestart(w)
        PROVE  WithinLimit'
    BY <1>1, <2>2 DEF GetBlock, GetEnd, GetCall, WorkerRestart, queVars
  <2>3. ASSUME NEW c \in Controllers, FinishCall(c) \/ wait_finished(c) \/ wait_progress(c)
                                      \/ \E d \in Weights : ProgressCall(c, d)
        PROVE  WithinLimit'
    BY <1>1, <2>3 DEF FinishCall, wait_finished, FinishBlock, FinishReturn, wait_progress,
                      ProgressBlock, ProgressReturn, ProgressCall, queVars
  <2>4. ASSUME NEW c \in Controllers, Close(c) PROVE WithinLimit'
    BY <1>1, <2>4 DEF Close
  <2>5. ASSUME NEW t \in Producers \cup Workers, SyncCall(t) \/ sync_finish(t) PROVE WithinLimit'
    BY <1>1, <2>5 DEF SyncCall, sync_finish, SyncBlock, SyncReturn, queVars
  <2>6. ASSUME NEW t \in Threads, Spurious(t) \/ Expire(t) \/ TimedOut(t) PROVE WithinLimit'
    BY <1>1, <2>6 DEF Spurious, Expire, TimedOut, queVars
  <2> QED
    BY <1>2, <1>3, <1>4, <1>5, <1>6, <1>8, <2>1, <2>2, <2>3, <2>4, <2>5, <2>6 DEF Next, put, get
<1> QED
  BY <1>7, <1>8

\* A queue never holds more than its limit and a weight_jobque admits no more uncommitted
\* weight than its limit, however many putters one notify_all wakes, and whatever is
\* aborted, reset or refused: put tests the limit again under the lock it puts with.
THEOREM LimitIsKept ==
    ASSUME "set_limit" \notin ControlOps
    PROVE  Spec => []WithinLimit
<1>1. Init => WithinLimit
  BY ConstantsAssumption DEF Init, WithinLimit
<1>2. TypeInv /\ WithinLimit /\ [Next]_vars => WithinLimit'
  BY StepWithinLimit
<1> QED
  BY <1>1, <1>2, TypeInvariant, PTL DEF Spec
-----------------------------------------------------------------------------
(* One invariant for the programs of MCJobQueue, which instantiates the    *)
(* lemmas with the constants of each                                       *)

SafeInv == TypeInv /\ WakeInv /\ WithinLimit

LEMMA InitSafeInv == Init => SafeInv
<1>1. Init => WithinLimit
  BY ConstantsAssumption DEF Init, WithinLimit
<1>2. Init => WakeInv
  BY DEF Init, WakeInv, NoLostWakeup
<1> QED
  BY <1>1, <1>2, InitTypeInv DEF SafeInv

LEMMA StepSafeInv ==
    ASSUME "set_limit" \notin ControlOps
    PROVE  SafeInv /\ [Next]_vars => SafeInv'
  BY StepTypeInv, StepWakeInv, StepWithinLimit DEF SafeInv
=============================================================================
