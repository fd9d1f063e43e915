------------------------------- MODULE MsgBox -------------------------------
(***************************************************************************)
(* c7thread/msgbox.hpp: trays of messages.  A tray lives from reserve      *)
(* until close, or until the last tray_key to it is gone; its key also     *)
(* travels as a plain number, with which anybody may put a message or      *)
(* close the tray. The threads that own tray_keys copy and drop them, and  *)
(* wait.                                                                   *)
(***************************************************************************)
EXTENDS CondVar, Sequences, SequencesExt

CONSTANTS
    MaxKeys,  \* bound: trays reserved
    MaxCopies,\* bound: tray_keys of one thread to one tray
    MaxMsg    \* bound: messages

MsgBoxAssumption == MaxKeys \in Nat /\ MaxCopies \in Nat /\ MaxMsg \in Nat

Keys == 1 .. MaxKeys
Msgs == 1 .. MaxMsg

VARIABLES
    box,      \* box_: the trays, a function on the keys that are in the box
    tray_id,  \* the last key that was given
    owned,    \* owned[t][k]: the number of tray_key objects thread t has for tray k
    op,       \* op[t]: the key thread t waits with, 0 if it does not
    put,      \* history: put[k] is the messages accepted for tray k
    got,      \* history: got[k] is the messages wait returned of tray k
    lost,     \* history: the messages that were in tray k when it was erased
    closed    \* history: the keys that were closed

boxVars == <<box, tray_id, owned>>
history == <<put, got, lost, closed>>
vars    == <<cvVars, boxVars, op, history>>

TypeOK ==
    /\ CondVarTypeOK
    /\ DOMAIN box \subseteq Keys
    /\ \A k \in DOMAIN box : box[k] \in [msgs : Seq(Msgs), rc : Nat]
    /\ tray_id \in 0 .. MaxKeys
    /\ owned \in [Threads -> [Keys -> 0 .. MaxCopies]]
    /\ op \in [Threads -> {0} \cup Keys]
    /\ put \in [Keys -> Seq(Msgs)] /\ got \in [Keys -> Seq(Msgs)] /\ lost \in [Keys -> Seq(Msgs)]
    /\ closed \subseteq Keys

Init ==
    /\ CondVarInit
    /\ box = [k \in {} |-> {}]
    /\ tray_id = 0
    /\ owned = [t \in Threads |-> [k \in Keys |-> 0]]
    /\ op = [t \in Threads |-> 0]
    /\ put = [k \in Keys |-> <<>>]
    /\ got = [k \in Keys |-> <<>>]
    /\ lost = [k \in Keys |-> <<>>]
    /\ closed = {}
-----------------------------------------------------------------------------
Free(t) == op[t] = 0

reserve(t) ==
    /\ Free(t)
    /\ tray_id < MaxKeys /\ MaxCopies > 0
    /\ tray_id' = tray_id + 1
    /\ box' = [k \in DOMAIN box \cup {tray_id'} |->
                 IF k = tray_id' THEN [msgs |-> <<>>, rc |-> 1] ELSE box[k]]
    /\ owned' = [owned EXCEPT ![t][tray_id'] = 1]
    /\ UNCHANGED <<cvVars, op, history>>

copy_uncounted(t, u, k) ==    \* mutant: the copy constructor does not ref
    /\ Free(t) /\ owned[t][k] > 0
    /\ owned[u][k] < MaxCopies
    /\ owned' = [owned EXCEPT ![u][k] = owned[u][k] + 1]
    /\ UNCHANGED <<cvVars, box, tray_id, op, history>>

\* Thread t copies one of its tray_keys for thread u: ref finds the tray, or does nothing.
copy(t, u, k) ==
    /\ Free(t) /\ owned[t][k] > 0
    /\ owned[u][k] < MaxCopies
    /\ owned' = [owned EXCEPT ![u][k] = owned[u][k] + 1]
    /\ box' = IF k \in DOMAIN box THEN [box EXCEPT ![k].rc = box[k].rc + 1] ELSE box
    /\ UNCHANGED <<cvVars, tray_id, op, history>>

Without(k) == [j \in DOMAIN box \ {k} |-> box[j]]
Lose(k)    == lost' = IF k \in DOMAIN box THEN [lost EXCEPT ![k] = box[k].msgs] ELSE lost

\* ~tray_key: unref, which erases the tray with the last key to it.
drop(t, k) ==
    /\ Free(t) /\ owned[t][k] > 0
    /\ owned' = [owned EXCEPT ![t][k] = owned[t][k] - 1]
    /\ IF k \in DOMAIN box /\ box[k].rc = 1
       THEN box' = Without(k) /\ Lose(k) /\ notify_all
       ELSE /\ box' = IF k \in DOMAIN box THEN [box EXCEPT ![k].rc = box[k].rc - 1] ELSE box
            /\ UNCHANGED <<lost, cvVars>>
    /\ UNCHANGED <<tray_id, op, put, got, closed>>

close_silent(k) ==            \* mutant: no notify_all
    /\ k \in DOMAIN box
    /\ box' = Without(k) /\ Lose(k)
    /\ closed' = closed \cup {k}
    /\ UNCHANGED <<cvVars, tray_id, owned, op, put, got>>

close(k) ==
    /\ k \in DOMAIN box
    /\ box' = Without(k) /\ Lose(k)
    /\ closed' = closed \cup {k}
    /\ notify_all
    /\ UNCHANGED <<tray_id, owned, op, put, got>>

Total == Cardinality(UNION {ToSet(put[k]) : k \in Keys})

put_internal(k) ==
    /\ k \in DOMAIN box /\ Total < MaxMsg
    /\ box' = [box EXCEPT ![k].msgs = Append(box[k].msgs, Total + 1)]
    /\ put' = [put EXCEPT ![k] = Append(put[k], Total + 1)]
    /\ notify_all
    /\ UNCHANGED <<tray_id, owned, op, got, lost, closed>>

wait_call(t, k) ==
    /\ Free(t) /\ owned[t][k] > 0
    /\ op' = [op EXCEPT ![t] = k]
    /\ UNCHANGED <<cvVars, boxVars, history>>

Waits(t) == op[t] # 0 /\ Awake(t)
Return(t) == op' = [op EXCEPT ![t] = 0]

wait_gone(t) ==               \* ENOENT
    /\ Waits(t)
    /\ op[t] \notin DOMAIN box
    /\ Return(t)
    /\ UNCHANGED <<cvVars, boxVars, history>>

wait_take(t) ==
    /\ Waits(t)
    /\ op[t] \in DOMAIN box /\ box[op[t]].msgs # <<>>
    /\ got' = [got EXCEPT ![op[t]] = got[op[t]] \o box[op[t]].msgs]
    /\ box' = [box EXCEPT ![op[t]].msgs = <<>>]
    /\ Return(t)
    /\ UNCHANGED <<cvVars, tray_id, owned, put, lost, closed>>

wait_park(t) ==
    /\ Waits(t)
    /\ op[t] \in DOMAIN box /\ box[op[t]].msgs = <<>>
    /\ wait(t)
    /\ UNCHANGED <<boxVars, op, history>>

wait_timeout(t) ==            \* EAGAIN
    /\ TimedOut(t)
    /\ Return(t)
    /\ UNCHANGED <<boxVars, history>>
-----------------------------------------------------------------------------
Runs(t)   == wait_gone(t) \/ wait_take(t) \/ wait_park(t) \/ wait_timeout(t)
Wakes(t)  == (WakeUp(t) \/ Expire(t)) /\ UNCHANGED <<boxVars, op, history>>

Next ==
    \/ \E k \in Keys : close(k) \/ put_internal(k)
    \/ \E t \in Threads :
         \/ reserve(t) \/ Runs(t) \/ Wakes(t)
         \/ \E k \in Keys : drop(t, k) \/ wait_call(t, k) \/ \E u \in Threads : copy(t, u, k)

Spec == Init /\ [][Next]_vars

FairSpec == Spec /\ \A t \in Threads : WF_vars(Runs(t))
-----------------------------------------------------------------------------
(* Properties                                                              *)

\* Every message that put accepted is returned by one wait, in the order of put, or is
\* still in the tray, or went with it.
NoMessageLost ==
    \A k \in Keys :
        put[k] = got[k] \o (IF k \in DOMAIN box THEN box[k].msgs ELSE lost[k])

\* A tray that was not closed is in the box exactly as long as somebody owns a tray_key to it.
TrayLivesWithItsKeys ==
    \A k \in Keys \ closed : k \in DOMAIN box <=> \E t \in Threads : owned[t][k] > 0

\* Nobody sleeps on a tray that has messages or that is gone: the one condition variable
\* of the box wakes those of all trays.
NoLostWakeup == \A t \in parked : op[t] \in DOMAIN box /\ box[op[t]].msgs = <<>>

\* A wait on a tray that was closed returns; and so does one of the waits on a tray that
\* has messages.
WaitReturns ==
    \A k \in Keys :
        /\ \A t \in Threads : ~<>[](op[t] = k /\ k \in closed)
        /\ ~<>[](k \in DOMAIN box /\ box[k].msgs # <<>> /\ \E t \in Threads : op[t] = k)
=============================================================================
