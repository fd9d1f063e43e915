----------------------------- MODULE ProcProofs -----------------------------
(***************************************************************************)
(* Theorems about Signal, Proc, Pipeline and MCProcs, for any signals, any *)
(* procs, managed or started, whose exec may fail, and any number of       *)
(* programs in a pipeline.                                                 *)
(*                                                                         *)
(* Where start of a proc is (pc) tells what its state, its child and the   *)
(* holder of its lock may be; the lock held from RUNNING to the first look *)
(* at the child keeps everybody else out.                                  *)
(*                                                                         *)
(* In a pipeline, the descriptors the parent holds are its variables',     *)
(* each by itself; a pipe between two programs is at both ends what the    *)
(* programs to its left and right have as their own; and the items on      *)
(* their way are the ones between what the programs have taken.            *)
(***************************************************************************)
EXTENDS MCProcs, FiniteSetTheorems, WellFoundedInduction, TLAPS

Children == {"none", "forked", "running", "zombie", "reaped"}

Fields ==
    /\ state \in [Procs -> States] /\ child \in [Procs -> Children]
    /\ pc \in [Procs -> Places] /\ cv \in [Procs -> {"free", "start"}]
    /\ finished \in [Procs -> Nat]
    /\ procs \subseteq Procs /\ parked \subseteq Procs /\ started \subseteq Procs

NotReaped(p) == child[p] \in {"running", "zombie"}

\* What is true of a proc at each place of its start.
InStart(p) ==
    /\ pc[p] = "idle" => /\ state[p] = "IDLE" /\ cv[p] = "free"
                         /\ IF p \in Managed THEN NotReaped(p) ELSE child[p] = "none"
    /\ pc[p] = "read" => /\ state[p] = "IDLE" /\ cv[p] = "free"
                         /\ child[p] \in {"forked", "running", "zombie"}
    /\ pc[p] \in {"check", "lock"} => state[p] = "IDLE" /\ cv[p] = "free" /\ NotReaped(p)
    /\ pc[p] \in {"insert", "start", "try"} => state[p] = "RUNNING" /\ cv[p] = "start" /\ NotReaped(p)
    /\ pc[p] = "try" => p \in started \cup Managed
    /\ pc[p] = "done" => cv[p] = "free" /\ state[p] # "IDLE" /\ child[p] # "forked"
    /\ pc[p] = "done" /\ state[p] # "FAILED" => p \in started \cup Managed
    /\ pc[p] = "done" /\ state[p] = "RUNNING" => NotReaped(p)

\* A proc that is over is so once and for good; who is registered runs, and who sleeps in
\* wait sleeps for one that runs and whose start is through.
Ended(p) ==
    /\ finished[p] = IF state[p] = "OVER" THEN 1 ELSE 0
    /\ state[p] = "OVER" => pc[p] = "done" /\ child[p] = "reaped"
    /\ p \in procs => pc[p] \in {"start", "try", "done"} /\ state[p] = "RUNNING"
    /\ p \in parked => pc[p] = "done" /\ state[p] = "RUNNING"

ProcInv == Fields /\ \A p \in Procs : InStart(p) /\ Ended(p)

\* Nothing is changed but what belongs to p.
Only(p) ==
    /\ \A q \in Procs \ {p} :
        /\ state'[q] = state[q] /\ child'[q] = child[q] /\ pc'[q] = pc[q] /\ cv'[q] = cv[q]
        /\ finished'[q] = finished[q]
        /\ (q \in procs' => q \in procs) /\ (q \in parked' => q \in parked)
    /\ started \subseteq started' /\ Managed' = Managed

LEMMA OnlyKeeps ==
    ASSUME ProcInv, NEW p \in Procs, Only(p), Fields', InStart(p)', Ended(p)'
    PROVE  ProcInv'
<1>1. ASSUME NEW q \in Procs \ {p} PROVE InStart(q)' /\ Ended(q)'
  BY DEF ProcInv, Only, InStart, Ended, NotReaped
<1> QED
  BY <1>1 DEF ProcInv

\* A step of the child changes only the child.
LEMMA ChildSteps ==
    ASSUME ProcInv, NEW p \in Procs, NEW c \in {"running", "zombie"},
           child[p] \in {"forked", "running"}, child' = [child EXCEPT ![p] = c],
           child[p] = "forked" \/ NotReaped(p),
           UNCHANGED <<state, pc, cv, procs, parked, started, finished, Managed>>
    PROVE  ProcInv'
<1>1. Fields' /\ Only(p)
  BY DEF ProcInv, Fields, Children, Only
<1>2. child'[p] = c /\ NotReaped(p)'
  BY DEF ProcInv, Fields, NotReaped
<1>3. InStart(p)' /\ Ended(p)'
  BY <1>2 DEF ProcInv, InStart, Ended, NotReaped
<1> QED
  BY <1>1, <1>3, OnlyKeeps

LEMMA StepProcInv == ProcInv /\ [Next]_vars => ProcInv'
<1> SUFFICES ASSUME ProcInv, [Next]_vars PROVE ProcInv'
  OBVIOUS
<1>0. Fields /\ \A p \in Procs : InStart(p) /\ Ended(p)
  BY DEF ProcInv
<1>m. Managed' = Managed
  BY DEF Next, vars, Managed
<1>1. ASSUME NEW p \in Procs, child_execs(p) \/ child_fails(p) \/ child_exits(p) PROVE ProcInv'
  BY <1>1, <1>m, ChildSteps DEF child_execs, child_fails, child_exits, hist, waits, NotReaped
<1>2. ASSUME NEW p \in Procs, fork(p) PROVE ProcInv'
  <2>1. /\ child' = [child EXCEPT ![p] = "forked"] /\ pc' = [pc EXCEPT ![p] = "read"]
        /\ UNCHANGED <<state, cv, procs, parked, started, finished>>
        /\ pc[p] = "idle" /\ p \notin Managed
    BY <1>2 DEF fork, Goto, hist, waits
  <2>2. Fields' /\ Only(p) /\ child'[p] = "forked" /\ pc'[p] = "read"
    BY <1>0, <1>m, <2>1 DEF Fields, Children, Places, Only
  <2>3. InStart(p)' /\ Ended(p)'
    BY <1>0, <1>m, <2>1, <2>2 DEF InStart, Ended
  <2> QED
    BY <2>2, <2>3, OnlyKeeps
<1>3. ASSUME NEW p \in Procs, fork_failed(p) PROVE ProcInv'
  <2>1. /\ state' = [state EXCEPT ![p] = "FAILED"] /\ pc' = [pc EXCEPT ![p] = "done"]
        /\ UNCHANGED <<child, cv, procs, parked, started, finished>>
        /\ pc[p] = "idle" /\ p \notin Managed
    BY <1>3 DEF fork_failed, Goto, hist, waits
  <2>2. Fields' /\ Only(p) /\ state'[p] = "FAILED" /\ pc'[p] = "done"
    BY <1>0, <1>m, <2>1 DEF Fields, States, Places, Only
  <2>3. InStart(p)' /\ Ended(p)'
    BY <1>0, <1>m, <2>1, <2>2 DEF InStart, Ended
  <2> QED
    BY <2>2, <2>3, OnlyKeeps
<1>4. ASSUME NEW p \in Procs, pc[p] \in {"read", "check"}, Fails(p),
             UNCHANGED <<cv, procs, parked, started, finished>>
      PROVE  ProcInv'
  <2>1. Fields' /\ Only(p) /\ state'[p] = "FAILED" /\ pc'[p] = "done" /\ child'[p] = "reaped"
    BY <1>0, <1>m, <1>4 DEF Fails, Goto, Fields, States, Places, Children, Only
  <2>2. InStart(p)' /\ Ended(p)'
    BY <1>0, <1>m, <1>4, <2>1 DEF InStart, Ended
  <2> QED
    BY <2>1, <2>2, OnlyKeeps
<1>5. ASSUME NEW p \in Procs, NEW k \in Places, pc' = [pc EXCEPT ![p] = k],
             UNCHANGED <<state, child, cv, procs, parked, started, finished>>,
             (pc[p] = "read" /\ k = "check" /\ child[p] # "forked") \/ (pc[p] = "check" /\ k = "lock")
      PROVE  ProcInv'
  <2>1. Fields' /\ Only(p) /\ pc'[p] = k
    BY <1>0, <1>m, <1>5 DEF Fields, Only
  <2>2. InStart(p)' /\ Ended(p)'
    BY <1>0, <1>m, <1>5, <2>1 DEF InStart, Ended, NotReaped
  <2> QED
    BY <2>1, <2>2, OnlyKeeps
<1>6. ASSUME NEW p \in Procs, read_pipe(p) PROVE ProcInv'
  BY <1>4, <1>5, <1>6 DEF read_pipe, Goto, hist, waits, Places
<1>7. ASSUME NEW p \in Procs, check_exited(p) PROVE ProcInv'
  BY <1>4, <1>5, <1>7 DEF check_exited, Goto, hist, waits, Places
<1>8. ASSUME NEW p \in Procs, set_running(p) PROVE ProcInv'
  <2>1. /\ state' = [state EXCEPT ![p] = "RUNNING"] /\ pc' = [pc EXCEPT ![p] = "insert"]
        /\ cv' = [cv EXCEPT ![p] = "start"]
        /\ UNCHANGED <<child, procs, parked, started, finished>>
        /\ IF p \in Managed THEN pc[p] = "idle" ELSE pc[p] = "lock"
    BY <1>8 DEF set_running, Goto, hist, waits
  <2>2. Fields' /\ Only(p) /\ state'[p] = "RUNNING" /\ pc'[p] = "insert" /\ cv'[p] = "start"
    BY <1>0, <1>m, <2>1 DEF Fields, States, Places, Only
  <2>3. InStart(p)' /\ Ended(p)'
    BY <1>0, <1>m, <2>1, <2>2 DEF InStart, Ended, NotReaped
  <2> QED
    BY <2>2, <2>3, OnlyKeeps
<1>9. ASSUME NEW p \in Procs, insert(p) PROVE ProcInv'
  <2>1. PICK k \in {"start", "try"} :
        /\ pc' = [pc EXCEPT ![p] = k] /\ (k = "try" => p \in Managed)
        /\ procs' = procs \cup {p} /\ UNCHANGED <<state, child, cv, parked, started, finished>>
        /\ pc[p] = "insert"
    BY <1>9 DEF insert, Goto, hist, waits
  <2>2. Fields' /\ Only(p) /\ pc'[p] = k
    BY <1>0, <1>m, <2>1 DEF Fields, Places, Only
  <2>3. InStart(p)' /\ Ended(p)'
    BY <1>0, <1>m, <2>1, <2>2 DEF InStart, Ended, NotReaped
  <2> QED
    BY <2>2, <2>3, OnlyKeeps
<1>10. ASSUME NEW p \in Procs, call_on_start(p) PROVE ProcInv'
  <2>1. /\ pc' = [pc EXCEPT ![p] = "try"] /\ started' = started \cup {p}
        /\ UNCHANGED <<state, child, cv, procs, parked, finished>>
        /\ pc[p] = "start"
    BY <1>10 DEF call_on_start, Goto, waits
  <2>2. Fields' /\ Only(p) /\ pc'[p] = "try"
    BY <1>0, <1>m, <2>1 DEF Fields, Places, Only
  <2>3. InStart(p)' /\ Ended(p)'
    BY <1>0, <1>m, <2>1, <2>2 DEF InStart, Ended, NotReaped
  <2> QED
    BY <2>2, <2>3, OnlyKeeps
<1>11. ASSUME NEW p \in Procs, pc[p] \in {"try", "done"}, state[p] = "RUNNING", child[p] = "zombie",
              child' = [child EXCEPT ![p] = "reaped"], state' = [state EXCEPT ![p] = "OVER"],
              procs' = procs \ {p}, finished' = [finished EXCEPT ![p] = finished[p] + 1],
              pc' = [pc EXCEPT ![p] = "done"], cv' = [cv EXCEPT ![p] = "free"],
              parked' \subseteq parked, p \notin parked', started' = started
       PROVE  ProcInv'
  <2>1. /\ state'[p] = "OVER" /\ child'[p] = "reaped" /\ finished'[p] = finished[p] + 1
        /\ pc'[p] = "done" /\ cv'[p] = "free" /\ Only(p)
    BY <1>0, <1>m, <1>11 DEF Fields, Only
  <2>2. Fields'
    BY <1>0, <1>m, <1>11 DEF Fields, States, Places, Children
  <2>3. InStart(p)' /\ Ended(p)'
    BY <1>0, <1>m, <1>11, <2>1 DEF Fields, InStart, Ended, NotReaped
  <2> QED
    BY <2>1, <2>2, <2>3, OnlyKeeps
<1>12. ASSUME NEW p \in Procs, start_try_wait(p) PROVE ProcInv'
  <2>1. /\ pc[p] = "try" /\ state[p] = "RUNNING" /\ p \notin parked
        /\ pc' = [pc EXCEPT ![p] = "done"] /\ cv' = [cv EXCEPT ![p] = "free"]
        /\ parked' = parked /\ started' = started
    BY <1>0, <1>m, <1>12 DEF start_try_wait, Goto, waits, InStart, Ended
  <2>2. CASE child[p] = "zombie"
    BY <1>11, <1>12, <2>1, <2>2 DEF start_try_wait
  <2>3. CASE child[p] # "zombie"
    <3>1. UNCHANGED <<child, state, procs, finished>>
      BY <1>12, <2>3 DEF start_try_wait
    <3>2. Fields' /\ Only(p) /\ pc'[p] = "done" /\ cv'[p] = "free"
      BY <1>0, <1>m, <2>1, <3>1 DEF Fields, Places, Only
    <3>3. InStart(p)' /\ Ended(p)'
      BY <1>0, <1>m, <2>1, <3>1, <3>2 DEF InStart, Ended, NotReaped
    <3> QED
      BY <3>2, <3>3, OnlyKeeps
  <2> QED
    BY <2>2, <2>3
<1>13. ASSUME NEW p \in Procs, kill(p) PROVE ProcInv'
  <2>1. CASE child[p] = "running"
    BY <1>13, <1>m, <2>1, ChildSteps DEF kill, waits, NotReaped
  <2>2. CASE child[p] # "running"
    BY <1>0, <1>m, <1>13, <2>2 DEF kill, waits, ProcInv, Fields, InStart, Ended, NotReaped
  <2> QED
    BY <2>1, <2>2
<1>14. ASSUME NEW p \in Procs, wait(p) PROVE ProcInv'
  <2>1. /\ parked' = parked \/ (parked' = parked \cup {p} /\ state[p] = "RUNNING") 
        /\ cv[p] = "free" /\ UNCHANGED <<state, child, pc, cv, procs, started, finished>>
    BY <1>14 DEF wait, Free, procVars, hist
  <2>2. Fields' /\ Only(p)
    BY <1>0, <1>m, <2>1 DEF Fields, Only
  <2>3. InStart(p)'
    BY <1>0, <1>m, <2>1 DEF InStart, NotReaped
  <2>4. state[p] = "RUNNING" => pc[p] = "done"
    BY <1>0, <1>m, <2>1 DEF Fields, Places, InStart
  <2>5. Ended(p)'
    BY <1>0, <1>m, <2>1, <2>4 DEF Ended
  <2> QED
    BY <2>2, <2>3, <2>5, OnlyKeeps
<1>15. ASSUME UNCHANGED <<state, child, pc, cv, procs, parked, started, finished>> PROVE ProcInv'
  BY <1>0, <1>m, <1>15 DEF ProcInv, Fields, InStart, Ended, NotReaped
<1>16. ASSUME NEW p \in Procs, wait_call(p) PROVE ProcInv'
  BY <1>15, <1>16 DEF wait_call, procVars, hist
<1>17. ASSUME waitprocs PROVE ProcInv'
  BY <1>15, <1>17 DEF waitprocs, procVars, waits, hist
<1>18. ASSUME NEW p \in Procs, visit(p) PROVE ProcInv'
  <2>1. UNCHANGED <<pc, cv, started>> /\ cv[p] = "free"
    BY <1>18 DEF visit, Free
  <2>2. CASE try_wait(p)
    <3>1. /\ p \in procs /\ child[p] = "zombie" /\ child' = [child EXCEPT ![p] = "reaped"]
          /\ state' = [state EXCEPT ![p] = "OVER"] /\ procs' = procs \ {p}
          /\ finished' = [finished EXCEPT ![p] = finished[p] + 1] /\ parked' = parked \ {p}
      BY <2>2 DEF try_wait
    <3>2. pc[p] = "done" /\ state[p] = "RUNNING"
      BY <1>0, <1>m, <2>1, <3>1 DEF InStart, Ended
    <3>3. pc' = [pc EXCEPT ![p] = "done"] /\ cv' = [cv EXCEPT ![p] = "free"]
      BY <1>0, <1>m, <2>1, <3>2 DEF Fields
    <3> QED
      BY <1>11, <2>1, <3>1, <3>2, <3>3
  <2>3. CASE try_wait_not(p)
    BY <1>15, <2>1, <2>3 DEF try_wait_not, waits
  <2> QED
    BY <1>18, <2>2, <2>3 DEF visit
<1>19. CASE UNCHANGED vars
  BY <1>15, <1>19 DEF vars, procVars, waits, hist
<1>20. ASSUME Next PROVE ProcInv'
  <2>1. ASSUME UNCHANGED <<procVars, scan, waits, hist>> PROVE ProcInv'
    BY <1>15, <2>1 DEF procVars, waits, hist
  <2> QED
    BY <1>1, <1>2, <1>3, <1>6, <1>7, <1>8, <1>9, <1>10, <1>12, <1>13, <1>14, <1>16, <1>17, <1>18,
       <1>20, <2>1 DEF Next, StartThread, Handler, Loop
<1> QED
  BY <1>19, <1>20

LEMMA InitProcInv == Init => ProcInv
<1> SUFFICES ASSUME Init PROVE ProcInv
  OBVIOUS
<1>1. Fields
  BY DEF Init, ProcInit, Fields, States, Children, Places
<1>2. \A p \in Procs : InStart(p) /\ Ended(p)
  BY DEF Init, ProcInit, InStart, Ended, NotReaped
<1> QED
  BY <1>1, <1>2 DEF ProcInv

LEMMA ProcInvariant == ProcAssumption => (Spec => []ProcInv)
<1>1. ASSUME ProcAssumption PROVE Spec => []ProcInv
  BY <1>1, InitProcInv, StepProcInv, PTL DEF Spec
<1> QED
  BY <1>1

LEMMA ProcInvSuffices == ProcInv => FinishOnce /\ WaitersAreWoken
BY DEF ProcInv, Fields, InStart, Ended, FinishOnce, WaitersAreWoken

LEMMA KillKeeps == ProcInv /\ KillHitsOwnChild /\ [Next]_vars => KillHitsOwnChild'
<1> SUFFICES ASSUME ProcInv, ~stray, [Next]_vars PROVE ~stray'
  BY DEF KillHitsOwnChild
<1>1. ASSUME NEW p \in Procs, kill(p) PROVE ~stray'
  <2>1. pc[p] = "done" /\ state[p] = "RUNNING"
    BY <1>1 DEF kill, ProcInv, Fields, States, InStart
  <2>2. child[p] # "reaped"
    BY <2>1 DEF ProcInv, InStart, NotReaped
  <2> QED
    BY <1>1, <2>2, Zenon DEF kill
<1>2. CASE UNCHANGED stray
  BY <1>2
<1>3. CASE UNCHANGED vars
  BY <1>3 DEF vars, hist
<1> QED
  BY <1>1, <1>2, <1>3 DEF Next, StartThread, Handler, Loop, hist, child_execs, child_fails, child_exits,
     fork, fork_failed, read_pipe, check_exited, set_running, insert, call_on_start, start_try_wait,
     wait_call, wait, waitprocs, visit

\* on_finish is called once and after on_start: start holds the lock of the proc from RUNNING
\* until on_start is over, and waitprocs needs it to look at the child.
THEOREM FinishComesAfterStart == ProcAssumption => (Spec => []FinishOnce)
BY ProcInvariant, ProcInvSuffices, PTL

\* Nobody sleeps in wait for a proc that is over: the one that start itself reaps is never
\* waited for, as wait needs the lock that start holds.
THEOREM ProcWakes == ProcAssumption => (Spec => []WaitersAreWoken)
BY ProcInvariant, ProcInvSuffices, PTL

\* The signal of kill goes to the child, which is not reaped before the state says so.
THEOREM KillHitsTheChild == ProcAssumption => (Spec => []KillHitsOwnChild)
<1>1. Init => KillHitsOwnChild
  BY DEF Init, ProcInit, KillHitsOwnChild
<1>2. ASSUME ProcAssumption PROVE Spec => []KillHitsOwnChild
  BY <1>1, <1>2, KillKeeps, ProcInvariant, PTL DEF Spec
<1> QED
  BY <1>2
-----------------------------------------------------------------------------
(* The signal thread, by itself and under Proc: each step of Proc is one   *)
(* of its steps, a signal that is sent, a change of the mask, or none.     *)

SignalInv == SignalTypeOK /\ SignalNotLost /\ SignalNotRepeated

Remask(m) == block(m) \/ unblock(m) \/ setmask(m)

SignalMoves ==
    \/ SignalThread
    \/ \E s \in Sigs : send(s) /\ UNCHANGED <<user_mask, blocked_mask, loop>>
    \/ \E m \in SUBSET Sigs : Remask(m)

LEMMA StepSignalInv == SignalInv /\ [SignalMoves]_signalVars => SignalInv'
<1> SUFFICES ASSUME SignalInv, [SignalMoves]_signalVars PROVE SignalInv'
  OBVIOUS
<1>0. SignalTypeOK /\ SignalNotLost /\ SignalNotRepeated
  BY DEF SignalInv
<1>1. CASE sigwait
  <2>1. PICK s \in pending : /\ loop = Idle /\ pending' = pending \ {s} /\ loop' = <<"got", s>>
                             /\ tally' = [tally EXCEPT ![s].due = FALSE]
                             /\ UNCHANGED <<user_mask, blocked_mask>>
    BY <1>1 DEF sigwait
  <2>2. SignalTypeOK' /\ s \in Sigs
    BY <1>0, <2>1 DEF SignalTypeOK, Idle
  <2>3. SignalNotLost'
    BY <1>0, <2>1 DEF SignalNotLost, SignalTypeOK
  <2>4. SignalNotRepeated'
    BY <1>0, <2>1, <2>2 DEF SignalNotRepeated, SignalTypeOK, Idle
  <2> QED
    BY <2>2, <2>3, <2>4 DEF SignalInv
<1>2. CASE loop_masked
  <2>1. PICK s \in Sigs : loop = <<"got", s>>
    BY <1>0, <1>2 DEF loop_masked, SignalTypeOK, Idle
  <2>2. /\ s \in user_mask /\ blocked_mask' = blocked_mask \cup {s} /\ loop' = Idle
        /\ tally' = [tally EXCEPT ![s].due = TRUE] /\ UNCHANGED <<pending, user_mask>>
    BY <1>2, <2>1 DEF loop_masked
  <2>3. SignalTypeOK'
    BY <1>0, <2>2 DEF SignalTypeOK
  <2>4. SignalNotLost'
    BY <1>0, <2>2 DEF SignalNotLost, SignalTypeOK
  <2>5. SignalNotRepeated'
    BY <1>0, <2>1, <2>2 DEF SignalNotRepeated, SignalTypeOK, Idle
  <2> QED
    BY <2>3, <2>4, <2>5 DEF SignalInv
<1>3. CASE loop_handle
  <2>1. PICK s \in Sigs : loop = <<"got", s>>
    BY <1>0, <1>3 DEF loop_handle, SignalTypeOK, Idle
  <2>2. /\ loop' = <<"handler", s>> /\ UNCHANGED <<pending, user_mask, blocked_mask>>
        /\ tally' = [tally EXCEPT ![s].handled = tally[s].handled + 1]
    BY <1>3, <2>1 DEF loop_handle
  <2>3. SignalTypeOK'
    BY <1>0, <2>2 DEF SignalTypeOK
  <2>4. SignalNotLost'
    BY <1>0, <2>2 DEF SignalNotLost, SignalTypeOK
  <2>5. SignalNotRepeated'
    BY <1>0, <2>1, <2>2 DEF SignalNotRepeated, SignalTypeOK
  <2> QED
    BY <2>3, <2>4, <2>5 DEF SignalInv
<1>4. CASE handled
  BY <1>0, <1>4 DEF handled, SignalInv, SignalTypeOK, SignalNotLost, SignalNotRepeated, Idle
<1>5. ASSUME NEW s \in Sigs, send(s), UNCHANGED <<user_mask, blocked_mask, loop>> PROVE SignalInv'
  <2>1. SignalTypeOK'
    BY <1>0, <1>5 DEF send, SignalTypeOK
  <2>2. SignalNotLost'
    BY <1>0, <1>5 DEF send, SignalNotLost, SignalTypeOK
  <2>3. SignalNotRepeated'
    BY <1>0, <1>5 DEF send, SignalNotRepeated, SignalTypeOK
  <2> QED
    BY <2>1, <2>2, <2>3 DEF SignalInv
<1>6. ASSUME NEW m \in SUBSET Sigs, block(m) PROVE SignalInv'
  BY <1>0, <1>6 DEF block, SignalInv, SignalTypeOK, SignalNotLost, SignalNotRepeated
<1>7. ASSUME NEW m \in SUBSET Sigs, unblock(m) \/ setmask(m) PROVE SignalInv'
  <2>1. /\ user_mask' \subseteq Sigs /\ pending' = pending \cup (blocked_mask \ user_mask')
        /\ blocked_mask' = blocked_mask \cap user_mask' /\ UNCHANGED <<loop, tally>>
    BY <1>0, <1>7 DEF unblock, setmask, check_blocked, SignalTypeOK
  <2>2. SignalTypeOK' /\ SignalNotLost'
    BY <1>0, <2>1 DEF SignalTypeOK, SignalNotLost
  <2>3. SignalNotRepeated'
    BY <1>0, <2>1 DEF SignalNotRepeated, SignalTypeOK
  <2> QED
    BY <2>2, <2>3 DEF SignalInv
<1>8. CASE UNCHANGED signalVars
  BY <1>0, <1>8 DEF signalVars, SignalInv, SignalTypeOK, SignalNotLost, SignalNotRepeated
<1> QED
  BY <1>1, <1>2, <1>3, <1>4, <1>5, <1>6, <1>7, <1>8 DEF SignalMoves, SignalThread, Remask

LEMMA InitSignalInv == SignalInit => SignalInv
BY DEF SignalInit, SignalInv, SignalTypeOK, SignalNotLost, SignalNotRepeated, Idle

\* A signal that is sent is pending or kept until the signal thread takes it, and what is kept is
\* masked; a handler is not called more often than its signal was sent: through block, unblock and
\* setmask at any time.
THEOREM SignalsAreHandledOnce == SignalAssumption => (SignalSpec => [](SignalNotLost /\ SignalNotRepeated))
<1>1. SignalAssumption /\ [SignalNext]_signalVars => [SignalMoves]_signalVars
  BY DEF SignalAssumption, SignalNext, SignalMoves, Remask
<1>2. SignalInv => SignalNotLost /\ SignalNotRepeated
  BY DEF SignalInv
<1>3. ASSUME SignalAssumption PROVE SignalSpec => [](SignalNotLost /\ SignalNotRepeated)
  BY <1>1, <1>2, <1>3, InitSignalInv, StepSignalInv, PTL DEF SignalSpec
<1> QED
  BY <1>3

\* Each step of Proc is one of the signal thread, a signal that is sent, or a change of the mask.
LEMMA NextSignals == ProcAssumption /\ [Next]_vars => [SignalMoves]_signalVars
<1> SUFFICES ASSUME ProcAssumption, [Next]_vars PROVE [SignalMoves]_signalVars
  OBVIOUS
<1>1. "CHLD" \in Sigs /\ {"CHLD"} \in SUBSET Sigs
  BY DEF ProcAssumption
<1>2. ASSUME NEW p \in Procs, child_fails(p) \/ child_exits(p) \/ kill(p) PROVE [SignalMoves]_signalVars
  BY <1>1, <1>2 DEF child_fails, child_exits, kill, SignalMoves, send, signalVars
<1>3. ASSUME NEW p \in Procs,
             \/ child_execs(p) \/ fork(p) \/ fork_failed(p) \/ set_running(p)
             \/ StartThread(p) \/ wait_call(p) \/ wait(p)
      PROVE  UNCHANGED signalVars
  BY <1>3 DEF child_execs, fork, fork_failed, set_running, StartThread, read_pipe, check_exited, insert,
     call_on_start, start_try_wait, wait_call, wait
<1>4. CASE Handler
  BY <1>4 DEF Handler, waitprocs, visit, try_wait, try_wait_not, Step, SignalMoves, SignalThread, handled, signalVars
<1>5. CASE Loop
  BY <1>5 DEF Loop, SignalMoves, SignalThread
<1>6. CASE block({"CHLD"}) \/ unblock({"CHLD"})
  BY <1>1, <1>6 DEF SignalMoves, Remask
<1>7. CASE UNCHANGED vars
  BY <1>7 DEF vars
<1> QED
  BY <1>2, <1>3, <1>4, <1>5, <1>6, <1>7 DEF Next, vars

\* The same under Proc, where the children send SIGCHLD and the handler is waitprocs: no SIGCHLD
\* is lost while procs are started.
THEOREM ChildSignalsAreHandledOnce == ProcAssumption => (Spec => [](SignalNotLost /\ SignalNotRepeated))
<1>1. SignalInv => SignalNotLost /\ SignalNotRepeated
  BY DEF SignalInv
<1>2. Init => SignalInv
  BY InitSignalInv DEF Init
<1>3. ASSUME ProcAssumption PROVE Spec => [](SignalNotLost /\ SignalNotRepeated)
  BY <1>1, <1>2, <1>3, NextSignals, StepSignalInv, PTL DEF Spec
<1> QED
  BY <1>3
-----------------------------------------------------------------------------
(* Pipelines.  The descriptors: what exec and build hold is open, each by  *)
(* itself, and nothing else is open but what the user has to close.        *)

Vars == {"fd0", "p1", "null2", "keep0", "keep1"}
Ours == {var[k] : k \in Vars} \ {-1}

Keeps0 == at = "use" /\ (way = "command" => reader.pc \in {"read", "have"})
Keeps1 == way = "command" /\ sender.pc \in {"fill", "write"}
Kept   == ((IF Keeps0 THEN {var.keep0} ELSE {}) \cup (IF Keeps1 THEN {var.keep1} ELSE {})) \ {-1}

Ends == [rd : Int, wr : Int]

FdTypes ==
    /\ way \in {"command", "socket", "fds"}
    /\ at \in {"exec", "build", "use", "wait", "gone", "failed"}
    /\ table \in [Pipes!Fds -> Ends]
    /\ var \in [fd0 : Int, p1 : Int, fd2 : Int, null2 : Int, keep0 : Int, keep1 : Int]
    /\ own \in [open : SUBSET Pipes!Fds, wrong : SUBSET Int]
    /\ DOMAIN sender = {"pc", "next", "buf"} /\ sender.pc \in {"fill", "write", "end", "error"}
    /\ DOMAIN reader = {"pc", "vec", "out"} /\ reader.pc \in {"read", "have", "closed", "end", "raised"}

ProgFields == {"st", "ends", "others", "item", "status"}

ProgTypes ==
    /\ prog = [i \in Pipes!Progs |-> prog[i]]
    /\ \A i \in Pipes!Progs : DOMAIN prog[i] = ProgFields

Apart ==
    /\ Ours \subseteq Pipes!Fds
    /\ \A j, k \in Vars : j # k /\ var[j] = var[k] => var[j] = -1
    /\ own.open \cap Ours = {}
    /\ Pipes!Open = own.open \cup Ours

Unstarted == \E m \in 0 .. N : Pipes!Todo = 1 .. m

FdsInv ==
    /\ own.wrong = {}
    /\ at \in {"exec", "build"} => sender.pc = "fill" /\ reader.pc = "read" /\ Unstarted
    /\ at = "exec" => Pipes!Open = (IF way = "fds" THEN {3, 4} ELSE {}) /\ Pipes!Todo = Pipes!Progs
    /\ at = "build" =>
         /\ Apart /\ own.open \subseteq {3, 4}
         /\ IF way = "fds" THEN {var.keep0, var.keep1} = {-1} ELSE own.open = {}
         /\ IF Pipes!Todo = {} THEN {var.fd0, var.p1} = {-1} ELSE {var.fd0, var.p1} \cap {-1} = {}
    /\ at \in {"build", "use", "gone"} /\ way = "command" => {var.keep0, var.keep1} \cap {-1} = {}
    /\ at # "exec" /\ way # "command" => var.keep1 = -1
    /\ at \in {"use", "wait", "gone"} =>
         /\ Pipes!Open = own.open \cup Kept
         /\ own.open \cap {var.keep0, var.keep1} = {}
         /\ var.keep0 = var.keep1 => var.keep0 = -1
         /\ {var.keep0, var.keep1} \subseteq Pipes!Fds \cup {-1}
    /\ at = "failed" => Pipes!Open = own.open
    /\ at = "wait" => way # "command"

-----------------------------------------------------------------------------
(* The items: every channel and every buffer holds a run of the sequence,  *)
(* and each begins where what comes after it has ended.                    *)

IsRun(s, a) == s \in Seq(Nat) /\ s = [k \in 1 .. Len(s) |-> a + k]

Failed(i)  == prog[i].st = "dead" /\ prog[i].status \notin {0, -13}
SomeFailed == \E i \in Pipes!Progs : Failed(i)
Over(i)    == prog[i].st = "dead" /\ prog[i].status = 0
Fed(i)     == IF i = 1 THEN sender.pc \in {"end", "error"} ELSE prog[i - 1].st = "dead"

\* taken[c]: how much was read from channel c.  A program that runs, or has come to its end, has
\* written what it read, but for the item it holds.
ProgFlow(i, taken) ==
    /\ prog[i].st # "dead" \/ Over(i) =>
         taken[i] = taken[i + 1] + Len(chan[i + 1]) + (IF prog[i].item = 0 THEN 0 ELSE 1)
    /\ prog[i].item # 0 => prog[i].item = taken[i]
    /\ Over(i) => chan[i] = <<>> /\ Fed(i) /\ (taken[i] = MaxItems \/ SomeFailed)

Flow(taken) ==
    /\ \A c \in 1 .. N + 1 : IsRun(chan[c], taken[c])
    /\ IsRun(sender.buf, taken[1] + Len(chan[1]))
    /\ sender.next = taken[1] + Len(chan[1]) + Len(sender.buf) + 1
    /\ IsRun(reader.out, 0) /\ IsRun(reader.vec, Len(reader.out))
    /\ Len(reader.out) + Len(reader.vec) = taken[N + 1]
    /\ \A i \in Pipes!Progs : ProgFlow(i, taken)

\* The ends a program has, of the channel it reads and of the one it writes
Linked(i) ==
    /\ prog[i].st \in {"none", "forked", "runs", "dead"}
    /\ prog[i].st # "runs" => prog[i].item = 0
    /\ prog[i].st = "runs" => prog[i].ends[1].rd = i /\ prog[i].ends[2].wr = i + 1
    /\ prog[i].st = "forked" =>
         /\ \A e, f \in prog[i].others : e[1] = f[1] => e = f
         /\ \E e \in prog[i].others : e[1] = prog[i].ends[1] /\ e[2].rd = i
         /\ \E e \in prog[i].others : e[1] = prog[i].ends[2] /\ e[2].wr = i + 1

ParentLinks ==
    /\ at = "build" \/ (at = "use" /\ Keeps0) => table[var.keep0].rd = N + 1
    /\ at = "build" \/ (at \in {"use", "gone"} /\ Keeps1) => table[var.keep1].wr = 1
    /\ at = "build" => \A m \in 1 .. N : Pipes!Todo = 1 .. m => table[var.fd0].rd = 1 /\ table[var.p1].wr = m + 1

Links == ParentLinks /\ \A i \in Pipes!Progs : Linked(i)

\* Why it is over: a program that dies before it has passed everything on has failed, or does not
\* reach one that has.
Ending ==
    /\ sender.next <= MaxItems + 1
    /\ sender.pc = "write" => sender.buf # <<>>
    /\ sender.pc = "end" => sender.next = MaxItems + 1 /\ sender.buf = <<>>
    /\ sender.pc = "error" => SomeFailed
    /\ \A i \in Pipes!Progs : prog[i].st = "dead" /\ prog[i].status = -13 => SomeFailed
    /\ reader.pc = "have" => reader.vec # <<>>
    /\ reader.pc \in {"closed", "end", "raised"} =>
         chan[N + 1] = <<>> /\ reader.vec = <<>> /\ prog[N].st = "dead"
    /\ reader.pc = "end" => ~SomeFailed /\ Pipes!AllDead
    /\ at = "use" => \A i \in Pipes!Progs : prog[i].st # "none"
    /\ at \in {"gone", "failed"} => Pipes!AllDead

Items   == chan = [c \in 1 .. N + 1 |-> chan[c]] /\ \E taken \in [1 .. N + 1 -> Nat] : Flow(taken)
FlowInv == Items /\ Links /\ Ending

\* Only command_iter reads.
Unread == reader.pc = "read" /\ reader.vec = <<>> /\ reader.out = <<>>

PipeTypes == FdTypes /\ ProgTypes
PipeInv   == PipeTypes /\ FdsInv /\ IF way = "command" THEN FlowInv ELSE Unread

-----------------------------------------------------------------------------
(* Descriptors that are free                                               *)

\* A set of naturals has a smallest element.
LEMMA Smallest == ASSUME NEW S, S \subseteq Nat, S # {} PROVE \E x \in S : \A y \in S : x <= y
<1>1. \A x, y \in Nat : x < y => <<x, y>> \in OpToRel(<, Nat)
  BY DEF OpToRel
<1>2. PICK R : IsWellFoundedOn(R, Nat) /\ \A x, y \in Nat : x < y => <<x, y>> \in R
  BY <1>1, NatLessThanWellFounded, Zenon
<1>3. IsWellFoundedOn(R, Nat)
  BY <1>2
<1>4. PICK x \in S : \A y \in S : <<y, x>> \notin R
  BY <1>3, WFMin, Zenon
<1>5. \A y \in S : ~(y < x)
  BY <1>2, <1>4
<1>6. \A y \in S : x <= y
  BY <1>5
<1> QED
  BY <1>6

Unused  == Pipes!Fds \ Pipes!Open
UpTo(f) == {g \in Unused : g <= f}

LEMMA FdsAreMany == Pipes!Fds \subseteq Nat /\ 3 .. 10 \subseteq Pipes!Fds
BY ProcsAssumption DEF Pipes!PipelineAssumption, Pipes!Fds

LEMMA PipeCounts ==
    ASSUME NEW S
    PROVE  Pipes!Cardinality(S) = Cardinality(S)
  BY DEF Pipes!Cardinality, Cardinality

\* Lowest(k) is free and not the same as another one, if there are as many.
LEMMA LowestIsFree ==
    ASSUME NEW k, \E f \in Unused : Cardinality(UpTo(f)) = k
    PROVE  Pipes!Lowest(k) \in Unused /\ Cardinality(UpTo(Pipes!Lowest(k))) = k
<1> DEFINE P(f) == f \in Unused /\ Cardinality(UpTo(f)) = k
<1>1. Pipes!Lowest(k) = CHOOSE f \in Unused : Cardinality(UpTo(f)) = k
  BY PipeCounts DEF Pipes!Lowest, UpTo, Unused
<1> QED
  BY <1>1, Zenon

\* The first two
LEMMA TwoLowest ==
    ASSUME NEW x \in Unused, NEW y \in Unused, x # y
    PROVE  /\ {Pipes!Lowest(1), Pipes!Lowest(2)} \subseteq Unused
           /\ Pipes!Lowest(1) # Pipes!Lowest(2)
<1>0. Unused \subseteq Nat
  BY FdsAreMany DEF Unused
<1>1. PICK a \in Unused : \A z \in Unused : a <= z
  BY <1>0, Smallest
<1>2. PICK b \in Unused \ {a} : \A z \in Unused \ {a} : b <= z
  <2>1. Unused \ {a} # {} /\ Unused \ {a} \subseteq Nat
    BY <1>0
  <2> QED
    BY <2>1, Smallest
<1>3. UpTo(a) = {a} /\ UpTo(b) = {a} \cup {b}
  <2>1. ASSUME NEW z \in Unused PROVE (z <= a <=> z = a) /\ (z <= b <=> z \in {a, b})
    BY <1>0, <1>1, <1>2
  <2> QED
    BY <2>1, <1>1, <1>2 DEF UpTo
<1>4. IsFiniteSet({a}) /\ Cardinality(UpTo(a)) = 1
  BY <1>3, FS_Singleton
<1>5. Cardinality(UpTo(b)) = 2
  BY <1>2, <1>3, <1>4, FS_AddElement
<1>6. /\ Pipes!Lowest(1) \in Unused /\ Cardinality(UpTo(Pipes!Lowest(1))) = 1
      /\ Pipes!Lowest(2) \in Unused /\ Cardinality(UpTo(Pipes!Lowest(2))) = 2
  BY <1>4, <1>5, LowestIsFree
<1> QED
  BY <1>6

\* The first five, when exec begins
LEMMA FiveLowest ==
    ASSUME Pipes!Open \in {{}, {3, 4}}, NEW k \in 1 .. 5
    PROVE  /\ Pipes!Lowest(k) \in Unused
           /\ \A j \in 1 .. 5 : Pipes!Lowest(j) = Pipes!Lowest(k) => j = k
<1>1. ASSUME NEW j \in 1 .. 5 PROVE \E f \in Unused : Cardinality(UpTo(f)) = j
  <2>1. PICK a \in {2, 4} : Unused = Pipes!Fds \ 3 .. a
    <3>1. 3 .. 2 = {} /\ 3 .. 4 = {3, 4}
      OBVIOUS
    <3> QED
      BY <3>1 DEF Unused
  <2>2. a + j \in Unused /\ UpTo(a + j) = a + 1 .. a + j
    BY <2>1, ProcsAssumption DEF Pipes!PipelineAssumption, Pipes!Fds, UpTo
  <2>3. Cardinality(a + 1 .. a + j) = j
    BY FS_Interval
  <2> QED
    BY <2>2, <2>3
<1>2. ASSUME NEW j \in 1 .. 5
      PROVE  Pipes!Lowest(j) \in Unused /\ Cardinality(UpTo(Pipes!Lowest(j))) = j
  BY <1>1, LowestIsFree
<1> QED
  BY <1>2

\* Who has five descriptors finds two that are free.
LEMMA OneSpare ==
    ASSUME NEW a, NEW b, NEW c, NEW d, NEW e, NEW f
    PROVE  \E x \in 3 .. 9 : x \notin {a, b, c, d, e, f}
<1> DEFINE S == {a, b, c, d, e, f}
<1>1. ~({3, 4, 5, 6, 7, 8, 9} \subseteq S)
  BY SMT
<1> QED
  BY <1>1
-----------------------------------------------------------------------------
(* The steps keep the types, and the descriptors                           *)

LEMMA Kinds ==
    /\ N \in Nat \ {0} /\ MaxItems \in Nat /\ BufSize \in Nat \ {0}
    /\ Pipes!Free = [rd |-> -1, wr |-> -1] /\ Pipes!DevNull = [rd |-> 0, wr |-> 0]
    /\ \A r, w \in Int : Pipes!End(r, w) \in Ends /\ (Pipes!End(r, w) = Pipes!Free => r = -1 /\ w = -1)
    /\ \A r, w \in Int : Pipes!End(r, w).rd = r /\ Pipes!End(r, w).wr = w
  BY ProcsAssumption DEF Pipes!PipelineAssumption, Pipes!End, Pipes!Free, Pipes!DevNull, Ends

\* exec opens pipes, or sockets: each descriptor it keeps is one of its own.
LEMMA BuildBegins ==
    ASSUME PipeTypes, FdsInv, at = "exec", NEW tab, NEW values, NEW mine, Pipes!Build(tab, values, mine),
           tab \in [Pipes!Fds -> Ends], mine \subseteq {3, 4},
           values \in [fd0 : Pipes!Fds, p1 : Pipes!Fds, fd2 : Int, null2 : Int, keep0 : Int, keep1 : Int],
           IF way = "fds" THEN {values.keep0, values.keep1} = {-1} ELSE mine = {},
           IF way = "command" THEN {values.keep0, values.keep1} \cap {-1} = {} ELSE values.keep1 = -1,
           Apart'
    PROVE  PipeTypes' /\ FdsInv'
<1>1. /\ table' = tab /\ var' = values /\ own' = [own EXCEPT !.open = mine] /\ at' = "build"
      /\ UNCHANGED <<way, chan, prog, sender, reader>>
  BY DEF Pipes!Build
<1>2. Pipes!Fds \subseteq Int /\ -1 \notin Pipes!Fds /\ {3, 4} \subseteq Pipes!Fds
  BY FdsAreMany
<1>3. FdTypes' /\ own'.open = mine /\ own'.wrong = own.wrong
  BY <1>1, <1>2 DEF PipeTypes, FdTypes
<1>4. ProgTypes'
  BY <1>1 DEF PipeTypes, ProgTypes
<1>5. Pipes!Todo' = Pipes!Todo /\ Unstarted' /\ Pipes!Todo # {}
  BY <1>1, Kinds DEF FdsInv, Unstarted, Pipes!Todo, Pipes!Progs
<1>6. var'.fd0 # -1 /\ var'.p1 # -1
  BY <1>1, <1>2
<1> QED
  BY <1>1, <1>3, <1>4, <1>5, <1>6 DEF PipeTypes, FdsInv

LEMMA PipesMade ==
    ASSUME PipeTypes, FdsInv, Pipes!exec_pipes
    PROVE  \E f1, f2, f3, f4, f5 \in Pipes!Fds :
             /\ f1 \notin {f2, f3, f4, f5} /\ f2 \notin {f3, f4, f5} /\ f3 \notin {f4, f5} /\ f4 # f5
             /\ Pipes!Build([table EXCEPT ![f1] = Pipes!End(1, -1), ![f2] = Pipes!End(-1, 1),
                                          ![f3] = Pipes!End(N + 1, -1), ![f4] = Pipes!End(-1, N + 1),
                                          ![f5] = Pipes!DevNull],
                            [fd0 |-> f1, p1 |-> f4, fd2 |-> f5, null2 |-> f5, keep0 |-> f3, keep1 |-> f2], {})
<1> DEFINE f == [k \in 1 .. 5 |-> Pipes!Lowest(k)]
<1>1. Pipes!Open = {}
  BY DEF FdsInv, Pipes!exec_pipes
<1>2. \A k \in 1 .. 5 : f[k] \in Pipes!Fds /\ \A j \in 1 .. 5 : f[j] = f[k] => j = k
  BY <1>1, FiveLowest DEF Unused
<1>3. Pipes!Build([table EXCEPT ![f[1]] = Pipes!End(1, -1), ![f[2]] = Pipes!End(-1, 1), ![f[3]] = Pipes!End(N + 1, -1),
                               ![f[4]] = Pipes!End(-1, N + 1), ![f[5]] = Pipes!DevNull],
                 [fd0 |-> f[1], p1 |-> f[4], fd2 |-> f[5], null2 |-> f[5], keep0 |-> f[3], keep1 |-> f[2]], {})
  BY Zenon DEF Pipes!exec_pipes
<1> HIDE DEF f
<1>4. /\ f[1] \notin {f[2], f[3], f[4], f[5]} /\ f[2] \notin {f[3], f[4], f[5]} /\ f[3] \notin {f[4], f[5]}
      /\ f[4] # f[5] /\ {f[1], f[2], f[3], f[4], f[5]} \subseteq Pipes!Fds
  BY <1>2
<1> QED
  BY <1>3, <1>4, Zenon

LEMMA ExecPipesKeepsFds ==
    ASSUME PipeTypes, FdsInv, Pipes!exec_pipes
    PROVE  PipeTypes' /\ FdsInv'
<1>1. PICK f1, f2, f3, f4, f5 \in Pipes!Fds :
        /\ f1 \notin {f2, f3, f4, f5} /\ f2 \notin {f3, f4, f5} /\ f3 \notin {f4, f5} /\ f4 # f5
        /\ Pipes!Build([table EXCEPT ![f1] = Pipes!End(1, -1), ![f2] = Pipes!End(-1, 1), ![f3] = Pipes!End(N + 1, -1),
                                     ![f4] = Pipes!End(-1, N + 1), ![f5] = Pipes!DevNull],
                       [fd0 |-> f1, p1 |-> f4, fd2 |-> f5, null2 |-> f5, keep0 |-> f3, keep1 |-> f2], {})
  BY PipesMade
<1> DEFINE tab == [table EXCEPT ![f1] = Pipes!End(1, -1), ![f2] = Pipes!End(-1, 1), ![f3] = Pipes!End(N + 1, -1),
                                ![f4] = Pipes!End(-1, N + 1), ![f5] = Pipes!DevNull]
           values == [fd0 |-> f1, p1 |-> f4, fd2 |-> f5, null2 |-> f5, keep0 |-> f3, keep1 |-> f2]
<1>2. at = "exec" /\ way = "command" /\ Pipes!Open = {}
  BY DEF Pipes!exec_pipes, FdsInv
<1>3. Pipes!Fds \subseteq Int /\ -1 \notin Pipes!Fds
  BY FdsAreMany
<1>4. ASSUME NEW e \in {Pipes!End(1, -1), Pipes!End(-1, 1), Pipes!End(N + 1, -1), Pipes!End(-1, N + 1), Pipes!DevNull}
      PROVE  e \in Ends /\ e # Pipes!Free
  BY Kinds DEF Pipes!End, Pipes!Free, Pipes!DevNull, Ends
<1>5. /\ tab \in [Pipes!Fds -> Ends]
      /\ \A f \in {f1, f2, f3, f4, f5} : tab[f] # Pipes!Free
      /\ \A f \in Pipes!Fds \ {f1, f2, f3, f4, f5} : tab[f] = table[f]
  <2> DEFINE e1 == Pipes!End(1, -1)  e2 == Pipes!End(-1, 1)  e3 == Pipes!End(N + 1, -1)
             e4 == Pipes!End(-1, N + 1)  e5 == Pipes!DevNull
  <2>1. {e1, e2, e3, e4, e5} \subseteq Ends \ {Pipes!Free} /\ table \in [Pipes!Fds -> Ends]
    BY <1>4 DEF PipeTypes, FdTypes
  <2>2. tab = [table EXCEPT ![f1] = e1, ![f2] = e2, ![f3] = e3, ![f4] = e4, ![f5] = e5]
    OBVIOUS
  <2> HIDE DEF e1, e2, e3, e4, e5, tab
  <2> QED
    BY <2>1, <2>2
<1>6. values \in [fd0 : Pipes!Fds, p1 : Pipes!Fds, fd2 : Int, null2 : Int, keep0 : Int, keep1 : Int]
  BY <1>3
<1>7. table' = tab /\ var' = values /\ own'.open = {}
  BY <1>1 DEF Pipes!Build, PipeTypes, FdTypes
<1>8. Ours' = {f1, f2, f3, f4, f5} /\ \A j, k \in Vars : j # k /\ var'[j] = var'[k] => var'[j] = -1
  <2> HIDE DEF tab
  <2> QED
    BY <1>1, <1>3, <1>7 DEF Ours, Vars
<1> HIDE DEF tab, values
<1>9. Pipes!Open' = {f1, f2, f3, f4, f5}
  BY <1>2, <1>5, <1>7 DEF Pipes!Open
<1>10. Apart'
  BY <1>7, <1>8, <1>9 DEF Apart
<1>11. {values.keep0, values.keep1} \cap {-1} = {}
  BY <1>3 DEF values
<1> QED
  BY <1>1, <1>2, <1>5, <1>6, <1>10, <1>11, BuildBegins DEF tab, values

LEMMA ExecSocketKeepsFds ==
    ASSUME PipeTypes, FdsInv, Pipes!exec_socket
    PROVE  PipeTypes' /\ FdsInv'
<1> DEFINE f   == [k \in 1 .. 4 |-> Pipes!Lowest(k)]
           tab == [table EXCEPT ![f[1]] = Pipes!End(N + 1, 1), ![f[2]] = Pipes!End(1, N + 1), ![f[3]] = Pipes!DevNull,
                                ![f[4]] = Pipes!End(1, N + 1)]
           values == [fd0 |-> f[2], p1 |-> f[4], fd2 |-> f[3], null2 |-> f[3], keep0 |-> f[1], keep1 |-> -1]
<1>1. at = "exec" /\ way = "socket" /\ Pipes!Open = {}
  BY DEF Pipes!exec_socket, FdsInv
<1>2. \A k \in 1 .. 4 : f[k] \in Pipes!Fds /\ \A j \in 1 .. 4 : f[j] = f[k] => j = k
  BY <1>1, FiveLowest DEF Unused
<1>3. Pipes!Build(tab, values, {})
  BY Zenon DEF Pipes!exec_socket
<1> HIDE DEF f
<1>4. Pipes!Fds \subseteq Int /\ -1 \notin Pipes!Fds
  BY FdsAreMany
<1>5. ASSUME NEW e \in {Pipes!End(N + 1, 1), Pipes!End(1, N + 1), Pipes!DevNull}
      PROVE  e \in Ends /\ e # Pipes!Free
  BY Kinds DEF Pipes!End, Pipes!Free, Pipes!DevNull, Ends
<1>6. f[1] \notin {f[2], f[3], f[4]} /\ f[2] \notin {f[3], f[4]} /\ f[3] # f[4] /\ {f[1], f[2], f[3], f[4]} \subseteq Pipes!Fds
  BY <1>2
<1>7. /\ tab \in [Pipes!Fds -> Ends]
      /\ \A g \in {f[1], f[2], f[3], f[4]} : tab[g] # Pipes!Free
      /\ \A g \in Pipes!Fds \ {f[1], f[2], f[3], f[4]} : tab[g] = table[g]
  BY <1>5, <1>6 DEF PipeTypes, FdTypes
<1>8. values \in [fd0 : Pipes!Fds, p1 : Pipes!Fds, fd2 : Int, null2 : Int, keep0 : Int, keep1 : Int]
  <2>1. f[1] \in Pipes!Fds /\ f[2] \in Pipes!Fds /\ f[3] \in Pipes!Fds /\ f[4] \in Pipes!Fds
    BY <1>6
  <2>2. f[3] \in Int /\ f[1] \in Int
    BY <1>4, <2>1, Zenon
  <2> QED
    BY <2>1, <2>2
<1>9. table' = tab /\ var' = values /\ own'.open = {}
  BY <1>3 DEF Pipes!Build, PipeTypes, FdTypes
<1> HIDE DEF tab
<1>10. Ours' = {f[1], f[2], f[3], f[4]} /\ \A j, k \in Vars : j # k /\ var'[j] = var'[k] => var'[j] = -1
  BY <1>4, <1>6, <1>9 DEF Ours, Vars
<1>11. values.keep1 = -1
  OBVIOUS
<1> HIDE DEF values
<1>12. Pipes!Open' = {f[1], f[2], f[3], f[4]}
  BY <1>1, <1>6, <1>7, <1>9 DEF Pipes!Open
<1>13. Apart'
  BY <1>6, <1>9, <1>10, <1>12 DEF Apart
<1> QED
  BY <1>1, <1>3, <1>7, <1>8, <1>11, <1>13, BuildBegins

LEMMA ExecFdsKeepsFds ==
    ASSUME PipeTypes, FdsInv, Pipes!exec_fds
    PROVE  PipeTypes' /\ FdsInv'
<1>1. at = "exec" /\ way = "fds" /\ Pipes!Open = {3, 4}
  BY DEF Pipes!exec_fds, FdsInv
<1>2. PICK u0, u1, u2 \in {-1, 3, 4} :
        /\ u0 # u2 \/ u0 = -1
        /\ LET fd0 == IF u0 = -1 THEN Pipes!Lowest(1) ELSE u0
               fd1 == IF u1 \in {-1, u0, u2} THEN Pipes!Lowest(2) ELSE u1
               fd2 == IF u2 = -1 THEN Pipes!Lowest(3) ELSE u2
           IN Pipes!Build([f \in Pipes!Fds |-> IF f \in {fd0, fd1, fd2} THEN Pipes!DevNull ELSE table[f]],
                    [fd0 |-> fd0, p1 |-> fd1, fd2 |-> fd2, null2 |-> IF u2 = -1 THEN fd2 ELSE -1,
                     keep0 |-> -1, keep1 |-> -1],
                    {3, 4} \ ({u0, u1} \ {u2}))
  BY Zenon DEF Pipes!exec_fds
<1> DEFINE fd0 == IF u0 = -1 THEN Pipes!Lowest(1) ELSE u0
           fd1 == IF u1 \in {-1, u0, u2} THEN Pipes!Lowest(2) ELSE u1
           fd2 == IF u2 = -1 THEN Pipes!Lowest(3) ELSE u2
           null2 == IF u2 = -1 THEN fd2 ELSE -1
           mine == {3, 4} \ ({u0, u1} \ {u2})
           tab == [f \in Pipes!Fds |-> IF f \in {fd0, fd1, fd2} THEN Pipes!DevNull ELSE table[f]]
           values == [fd0 |-> fd0, p1 |-> fd1, fd2 |-> fd2, null2 |-> null2, keep0 |-> -1, keep1 |-> -1]
<1>3. Pipes!Build(tab, values, mine)
  BY <1>2, Zenon
<1>4. Pipes!Fds \subseteq Int /\ -1 \notin Pipes!Fds /\ {3, 4} \subseteq Pipes!Fds
  BY FdsAreMany
<1>5. /\ Pipes!Lowest(1) \in Unused /\ Pipes!Lowest(2) \in Unused /\ Pipes!Lowest(3) \in Unused
      /\ Pipes!Lowest(1) # Pipes!Lowest(2) /\ Pipes!Lowest(1) # Pipes!Lowest(3) /\ Pipes!Lowest(2) # Pipes!Lowest(3)
  BY <1>1, FiveLowest
<1>6. /\ {fd0, fd1, fd2} \subseteq Pipes!Fds
      /\ fd0 # fd1 /\ fd0 # fd2 /\ fd1 # fd2
      /\ (null2 = -1 /\ fd2 \in mine) \/ (null2 = fd2 /\ fd2 \notin mine)
      /\ {fd0, fd1} \cap mine = {}
      /\ {3, 4} \cup {fd0, fd1, fd2} = mine \cup {fd0, fd1, fd2}
  BY <1>1, <1>2, <1>4, <1>5 DEF Unused
<1>7. mine \subseteq {3, 4}
  OBVIOUS
<1> HIDE DEF fd0, fd1, fd2, null2, mine
<1>8. tab \in [Pipes!Fds -> Ends]
  BY <1>4, Kinds DEF PipeTypes, FdTypes, Ends
<1>9. \A f \in Pipes!Fds : tab[f] # Pipes!Free <=> f \in {3, 4} \cup {fd0, fd1, fd2}
  BY <1>1, Kinds DEF Pipes!Open
<1>10. values \in [fd0 : Pipes!Fds, p1 : Pipes!Fds, fd2 : Int, null2 : Int, keep0 : Int, keep1 : Int]
  <2>1. fd0 \in Pipes!Fds /\ fd1 \in Pipes!Fds /\ fd2 \in Pipes!Fds
    BY <1>6
  <2>2. fd2 \in Int /\ null2 \in Int
    BY <1>4, <1>6, <2>1
  <2> QED
    BY <2>1, <2>2
<1>11. table' = tab /\ var' = values /\ own'.open = mine
  BY <1>3 DEF Pipes!Build, PipeTypes, FdTypes
<1> HIDE DEF tab
<1>12. Ours' = {fd0, fd1, null2} \ {-1} /\ \A j, k \in Vars : j # k /\ var'[j] = var'[k] => var'[j] = -1
  BY <1>4, <1>6, <1>11 DEF Ours, Vars
<1>13. {values.keep0, values.keep1} = {-1} /\ values.keep1 = -1
  OBVIOUS
<1> HIDE DEF values
<1>14. Pipes!Open' = {3, 4} \cup {fd0, fd1, fd2}
  BY <1>4, <1>6, <1>9, <1>11 DEF Pipes!Open
<1>15. Apart'
  BY <1>4, <1>6, <1>11, <1>12, <1>14 DEF Apart
<1> QED
  BY <1>1, <1>3, <1>7, <1>8, <1>10, <1>13, <1>15, BuildBegins

LEMMA OpenIs == \A f \in Pipes!Fds : f \in Pipes!Open <=> table[f] # Pipes!Free
BY DEF Pipes!Open

\* The programs are started from the last to the first.
LEMMA LastTodo ==
    ASSUME Unstarted, Pipes!Todo # {}
    PROVE  Pipes!Last \in Nat \ {0} /\ Pipes!Last <= N /\ Pipes!Todo = 1 .. Pipes!Last
<1>1. PICK m \in 0 .. N : Pipes!Todo = 1 .. m
  BY DEF Unstarted
<1>2. m \in Nat /\ m # 0
  BY <1>1, Kinds
<1>3. \A i \in 1 .. m : (\A j \in 1 .. m : j <= i) => i = m
  BY <1>2
<1>4. m \in 1 .. m /\ \A j \in 1 .. m : j <= m
  BY <1>2
<1>5. Pipes!Last = CHOOSE i \in 1 .. m : \A j \in 1 .. m : j <= i
  BY <1>1 DEF Pipes!Last
<1>6. Pipes!Last = m
  BY <1>3, <1>4, <1>5
<1> QED
  BY <1>1, <1>2, <1>6, Kinds

\* In build two descriptors are free.
LEMMA BuildFinds ==
    ASSUME PipeTypes, FdsInv, at = "build"
    PROVE  /\ {Pipes!Lowest(1), Pipes!Lowest(2)} \subseteq Unused
           /\ Pipes!Lowest(1) # Pipes!Lowest(2)
<1>1. \E a, b, c, d, e : Pipes!Open \subseteq {a, b, c, d, e}
  <2>1. Pipes!Open = own.open \cup Ours /\ own.open \subseteq {3, 4}
    BY DEF FdsInv, Apart
  <2>2. Ours = {var.fd0, var.p1, var.null2, var.keep0, var.keep1} \ {-1}
    BY DEF Ours, Vars
  <2>3. CASE way = "fds"
    <3>1. var.keep0 = -1 /\ var.keep1 = -1
      BY <2>3 DEF FdsInv
    <3>2. Pipes!Open \subseteq {3, 4, var.fd0, var.p1, var.null2}
      BY <2>1, <2>2, <3>1
    <3> QED
      BY <3>2
  <2>4. CASE way # "fds"
    <3>1. Pipes!Open \subseteq {var.fd0, var.p1, var.null2, var.keep0, var.keep1}
      BY <2>1, <2>2, <2>4 DEF FdsInv
    <3> QED
      BY <3>1
  <2> QED
    BY <2>3, <2>4
<1>2. PICK a, b, c, d, e : Pipes!Open \subseteq {a, b, c, d, e}
  BY <1>1
<1>3. PICK x \in 3 .. 9 : x \notin {a, b, c, d, e, e}
  BY OneSpare
<1>4. PICK y \in 3 .. 9 : y \notin {a, b, c, d, e, x}
  BY OneSpare
<1>5. x \in Unused /\ y \in Unused /\ x # y
  BY <1>2, <1>3, <1>4, FdsAreMany DEF Unused
<1> QED
  BY <1>5, TwoLowest

LEMMA NoProgFields ==
    /\ DOMAIN Pipes!NoProg = ProgFields
    /\ Pipes!NoProg.st = "none" /\ Pipes!NoProg.item = 0 /\ Pipes!NoProg.status = 0
  BY DEF Pipes!NoProg, ProgFields

LEMMA DeadFields ==
    ASSUME NEW i, NEW status
    PROVE  /\ DOMAIN Pipes!Dead(i, status) = ProgFields
           /\ Pipes!Dead(i, status).st = "dead" /\ Pipes!Dead(i, status).item = 0
           /\ Pipes!Dead(i, status).status = status
  BY NoProgFields DEF Pipes!Dead, ProgFields

LEMMA BuildNextKeepsFds ==
    ASSUME PipeTypes, FdsInv, Pipes!build_next
    PROVE  PipeTypes' /\ FdsInv'
<1> DEFINE i  == Pipes!Last
           p0 == IF i = 1 THEN var.fd0 ELSE Pipes!Lowest(1)
           w  == IF i = 1 THEN -1 ELSE Pipes!Lowest(2)
           tab == IF i = 1 THEN table
                  ELSE [table EXCEPT ![p0] = Pipes!End(i, -1), ![w] = Pipes!End(-1, i)]
           others == {<<f, tab[f]>> : f \in {g \in Pipes!Fds : tab[g] # Pipes!Free}}
<1>1. /\ at = "build" /\ Pipes!Todo # {} /\ UNCHANGED <<way, at, chan, sender, reader>>
      /\ prog' = [prog EXCEPT ![i] = [Pipes!NoProg EXCEPT !.st = "forked", !.ends = <<p0, var.p1, var.fd2>>,
                                                         !.others = others]]
      /\ table' = Pipes!Without(tab, {p0} \cup {var[k] : k \in {"p1"}})
      /\ own' = [own EXCEPT !.wrong = @ \cup Pipes!Wrong(tab, {p0} \cup {var[k] : k \in {"p1"}})]
      /\ var' = [var EXCEPT !.p1 = w, !.fd0 = IF i = 1 THEN -1 ELSE @]
  BY Zenon DEF Pipes!build_next, Pipes!Start, Pipes!Into
<1>2. i \in Nat \ {0} /\ i <= N /\ Pipes!Todo = 1 .. i
  BY <1>1, LastTodo DEF FdsInv
<1>3. Apart /\ {var.fd0, var.p1} \cap {-1} = {} /\ var.fd0 \in Pipes!Fds /\ var.p1 \in Pipes!Fds
  BY <1>1 DEF FdsInv, Apart, Ours, Vars
<1>4. var.fd0 # var.p1 /\ {var.fd0, var.p1} \subseteq Pipes!Open
  BY <1>3 DEF Apart, Ours, Vars
<1>5. i # 1 => {p0, w} \subseteq Unused /\ p0 # w
  BY <1>1, BuildFinds
<1>6. {var[k] : k \in {"p1"}} = {var.p1}
  OBVIOUS
<1>7. Pipes!Fds \subseteq Int /\ -1 \notin Pipes!Fds
  BY FdsAreMany
<1>8. tab \in [Pipes!Fds -> Ends] /\ \A f \in Pipes!Fds : tab[f] # Pipes!Free <=> f \in Pipes!Open \cup ({p0, w} \ {-1})
  <2>1. CASE i = 1
    BY <1>4, <2>1, OpenIs DEF PipeTypes, FdTypes
  <2>2. CASE i # 1
    <3> DEFINE e1 == Pipes!End(i, -1)  e2 == Pipes!End(-1, i)
    <3>1. tab = [table EXCEPT ![p0] = e1, ![w] = e2] /\ table \in [Pipes!Fds -> Ends]
      BY <2>2 DEF PipeTypes, FdTypes
    <3>2. {e1, e2} \subseteq Ends \ {Pipes!Free}
      BY <1>2, Kinds DEF Pipes!End, Pipes!Free, Ends
    <3>3. {p0, w} \subseteq Pipes!Fds /\ p0 # w
      BY <1>5, <2>2 DEF Unused
    <3> HIDE DEF e1, e2, tab, p0, w
    <3>4. tab \in [Pipes!Fds -> Ends] /\ \A f \in Pipes!Fds : tab[f] # Pipes!Free <=> f \in {p0, w} \/ table[f] # Pipes!Free
      BY <3>1, <3>2, <3>3
    <3> QED
      BY <1>7, <3>3, <3>4, OpenIs
  <2> QED
    BY <2>1, <2>2
<1>9. p0 \in Pipes!Fds /\ p0 # var.p1 /\ w \in Pipes!Fds \cup {-1} /\ w # var.p1 /\ w # p0
  BY <1>3, <1>4, <1>5, <1>7 DEF Unused
<1>a. p0 = var.fd0 \/ (p0 \in Unused /\ i # 1)
  BY <1>5
<1>b. w \in Unused \/ (w = -1 /\ i = 1)
  BY <1>5
<1>10. own' = own
  <2>1. Pipes!Wrong(tab, {p0} \cup {var[k] : k \in {"p1"}}) = {}
    <3> HIDE DEF tab, p0, w
    <3>1. var.p1 \in Pipes!Open /\ var.p1 \in Pipes!Fds
      BY <1>3, <1>4
    <3>2. tab[var.p1] # Pipes!Free /\ tab[p0] # Pipes!Free
      BY <1>7, <1>8, <1>9, <3>1
    <3> QED
      BY <1>6, <3>2 DEF Pipes!Wrong
  <2> QED
    BY <1>1, <2>1 DEF PipeTypes, FdTypes
<1>11. /\ table' \in [Pipes!Fds -> Ends]
       /\ \A f \in Pipes!Fds : table'[f] # Pipes!Free <=> f \in (Pipes!Open \cup ({p0, w} \ {-1})) \ {p0, var.p1}
  <2> HIDE DEF tab, p0, w
  <2> QED
    BY <1>1, <1>6, <1>8, Kinds DEF Pipes!Without, Ends
<1>12. /\ var' \in [fd0 : Int, p1 : Int, fd2 : Int, null2 : Int, keep0 : Int, keep1 : Int]
       /\ var'.p1 = w /\ var'.fd0 = (IF i = 1 THEN -1 ELSE var.fd0)
       /\ var'.null2 = var.null2 /\ var'.keep0 = var.keep0 /\ var'.keep1 = var.keep1
  <2> HIDE DEF w, i
  <2>1. w \in Int
    BY <1>7, <1>9
  <2> DEFINE first == IF i = 1 THEN -1 ELSE var.fd0
  <2>2. var \in [fd0 : Int, p1 : Int, fd2 : Int, null2 : Int, keep0 : Int, keep1 : Int] /\ first \in Int
    BY DEF PipeTypes, FdTypes
  <2>3. var' = [var EXCEPT !.p1 = w, !.fd0 = first]
    <3>1. var' = [var EXCEPT !.p1 = w, !.fd0 = IF i = 1 THEN -1 ELSE @]
      BY <1>1
    <3>2. CASE i = 1
      BY <3>1, <3>2
    <3>3. CASE i # 1
      BY <3>1, <3>3
    <3> QED
      BY <3>2, <3>3
  <2> HIDE DEF first
  <2>4. /\ var' \in [fd0 : Int, p1 : Int, fd2 : Int, null2 : Int, keep0 : Int, keep1 : Int]
        /\ var'.p1 = w /\ var'.fd0 = first
        /\ var'.null2 = var.null2 /\ var'.keep0 = var.keep0 /\ var'.keep1 = var.keep1
    BY <2>1, <2>2, <2>3
  <2> QED
    BY <2>4 DEF first
<1>13. FdTypes'
  BY <1>1, <1>10, <1>11, <1>12 DEF PipeTypes, FdTypes
<1>14. ProgTypes' /\ \A j \in Pipes!Progs : prog'[j].st = IF j = i THEN "forked" ELSE prog[j].st
  <2> HIDE DEF others, p0, i
  <2>1. i \in Pipes!Progs
    BY <1>2, Kinds DEF Pipes!Progs
  <2> DEFINE r == [Pipes!NoProg EXCEPT !.st = "forked", !.ends = <<p0, var.p1, var.fd2>>, !.others = others]
  <2>2. DOMAIN r = ProgFields /\ r.st = "forked" /\ r.item = 0 /\ r.status = 0
    BY NoProgFields DEF ProgFields
  <2>3. prog' = [prog EXCEPT ![i] = r]
    BY <1>1
  <2> HIDE DEF r
  <2> QED
    BY <2>1, <2>2, <2>3 DEF PipeTypes, ProgTypes
<1>15. Pipes!Todo' = 1 .. i - 1 /\ Unstarted'
  <2>1. \A j \in Pipes!Progs : prog[j].st = "none" <=> j \in 1 .. i
    BY <1>2 DEF Pipes!Todo
  <2>2. Pipes!Todo' = 1 .. i - 1
    BY <1>2, <1>14, <2>1, Kinds DEF Pipes!Todo, Pipes!Progs
  <2> QED
    BY <1>2, <2>2, Kinds DEF Unstarted
<1> HIDE DEF tab, others
<1>16. Pipes!Open' = (Pipes!Open \cup ({p0, w} \ {-1})) \ {p0, var.p1}
  <2> HIDE DEF p0, w
  <2>1. Pipes!Open \subseteq Pipes!Fds
    BY DEF Pipes!Open
  <2> QED
    BY <1>9, <1>11, <2>1 DEF Pipes!Open
<1>17. /\ Ours = {var.fd0, var.p1, var.null2, var.keep0, var.keep1} \ {-1}
       /\ Ours' = {var'.fd0, var'.p1, var.null2, var.keep0, var.keep1} \ {-1}
  BY <1>12 DEF Ours, Vars
<1>18. /\ {var.fd0, var.p1} \cap {var.null2, var.keep0, var.keep1} = {} /\ {var.fd0, var.p1} \cap own.open = {}
  BY <1>3 DEF Apart, Ours, Vars
<1>19. Ours \subseteq Pipes!Open /\ own.open \subseteq Pipes!Open
  BY <1>3 DEF Apart
<1> HIDE DEF p0, w
<1>20. Pipes!Open' = own.open \cup Ours'
  <2>1. Pipes!Open = own.open \cup Ours
    BY <1>3 DEF Apart
  <2>2. CASE i = 1
    <3>1. p0 = var.fd0 /\ w = -1
      BY <2>2 DEF p0, w
    <3> QED
      BY <1>7, <1>12, <1>16, <1>17, <1>18, <2>1, <2>2, <3>1
  <2>3. CASE i # 1
    <3>1. {p0, w} \cap (own.open \cup Ours) = {} /\ {p0, w} \cap {-1} = {}
      BY <1>5, <1>7, <2>1, <2>3 DEF Unused
    <3>2. Ours = {var.fd0, var.p1} \cup ({var.null2, var.keep0, var.keep1} \ {-1})
      BY <1>3, <1>17
    <3>3. Ours' = {var.fd0, w} \cup ({var.null2, var.keep0, var.keep1} \ {-1})
      BY <1>3, <1>12, <1>17, <2>3, <3>1
    <3>4. p0 # var.fd0 /\ w # var.p1 /\ p0 # w /\ var.fd0 # var.p1
      BY <1>4, <1>9, <2>1, <3>1, <3>2
    <3>5. Pipes!Open' = (Pipes!Open \cup {p0, w}) \ {p0, var.p1}
      BY <1>16, <3>1
    <3> QED
      BY <1>18, <2>1, <3>1, <3>2, <3>3, <3>4, <3>5
  <2> QED
    BY <2>2, <2>3
<1>21. /\ Ours' \subseteq Pipes!Fds /\ own.open \cap Ours' = {}
  <2>1. Ours' \subseteq Ours \cup ({w} \ {-1})
    BY <1>12, <1>17
  <2>2. w = -1 \/ (w \notin own.open /\ w \in Pipes!Fds)
    BY <1>b, <1>19 DEF Unused
  <2> QED
    BY <1>3, <2>1, <2>2 DEF Apart
<1>22. \A j, k \in Vars : j # k /\ var'[j] = var'[k] => var'[j] = -1
  <2>1. \A k \in Vars \ {"p1", "fd0"} : var'[k] = var[k]
    BY <1>12 DEF Vars
  <2>2. \A k \in Vars : var[k] # -1 => var[k] # w
    BY <1>b, <1>7, <1>19 DEF Ours, Unused
  <2>3. var'["p1"] = w /\ var'["fd0"] \in {-1, var["fd0"]}
    BY <1>12
  <2> QED
    BY <1>3, <2>1, <2>2, <2>3 DEF Apart, Vars
<1>23. Apart'
  BY <1>10, <1>20, <1>21, <1>22 DEF Apart
<1>24. IF Pipes!Todo' = {} THEN {var'.fd0, var'.p1} = {-1} ELSE {var'.fd0, var'.p1} \cap {-1} = {}
  <2>1. Pipes!Todo' = {} <=> i = 1
    BY <1>2, <1>15
  <2>2. i # 1 => w # -1
    BY <1>5, <1>7 DEF Unused, w
  <2>3. i = 1 => w = -1
    BY DEF w
  <2> QED
    BY <1>3, <1>12, <2>1, <2>2, <2>3
<1> QED
  BY <1>1, <1>10, <1>12, <1>13, <1>14, <1>15, <1>23, <1>24 DEF PipeTypes, FdsInv

LEMMA Closes ==
    ASSUME PipeTypes, NEW S, table' = Pipes!Without(table, S)
    PROVE  table' \in [Pipes!Fds -> Ends] /\ Pipes!Open' = Pipes!Open \ S
<1>1. Pipes!Free \in Ends
  BY Kinds DEF Ends
<1>2. table \in [Pipes!Fds -> Ends] /\ table' = [f \in Pipes!Fds |-> IF f \in S THEN Pipes!Free ELSE table[f]]
  BY DEF PipeTypes, FdTypes, Pipes!Without
<1>3. table' \in [Pipes!Fds -> Ends]
  BY <1>1, <1>2
<1>4. \A f \in Pipes!Fds : table'[f] # Pipes!Free <=> table[f] # Pipes!Free /\ f \notin S
  BY <1>2
<1> QED
  BY <1>3, <1>4 DEF Pipes!Open, Pipes!Free, Pipes!End

LEMMA NoneWrong ==
    ASSUME NEW S, S \ {-1} \subseteq Pipes!Open
    PROVE  Pipes!Wrong(table, S) = {}
  BY DEF Pipes!Wrong, Pipes!Open

LEMMA BuildReturnKeepsFds ==
    ASSUME PipeTypes, FdsInv, Pipes!build_return
    PROVE  PipeTypes' /\ FdsInv'
<1> DEFINE S == {var.fd0, var.p1, var.null2}
<1>1. /\ at = "build" /\ Pipes!Todo = {} /\ at' = "use" /\ table' = Pipes!Without(table, S)
      /\ own' = [own EXCEPT !.wrong = @ \cup Pipes!Wrong(table, S)]
      /\ UNCHANGED <<way, var, chan, prog, sender, reader>>
  BY DEF Pipes!build_return
<1>2. Apart /\ Ours = {var.fd0, var.p1, var.null2, var.keep0, var.keep1} \ {-1}
  BY <1>1 DEF FdsInv, Ours, Vars
<1>3. S \ {-1} \subseteq Pipes!Open
  BY <1>2 DEF Apart
<1>4. table' \in [Pipes!Fds -> Ends] /\ Pipes!Open' = Pipes!Open \ S
  BY <1>1, Closes
<1>5. own' = own
  BY <1>1, <1>3, NoneWrong DEF PipeTypes, FdTypes
<1>6. PipeTypes'
  BY <1>1, <1>4, <1>5 DEF PipeTypes, FdTypes, ProgTypes
<1>7. Kept' = {var.keep0, var.keep1} \ {-1}
  <2>1. Keeps0'
    BY <1>1 DEF FdsInv, Keeps0
  <2>2. Keeps1' \/ var.keep1 = -1
    BY <1>1 DEF FdsInv, Keeps1
  <2> QED
    BY <1>1, <2>1, <2>2 DEF Kept
<1>8. S \cap ({var.keep0, var.keep1} \ {-1}) = {} /\ (var.keep0 = var.keep1 => var.keep0 = -1)
  BY <1>2 DEF Apart, Vars
<1>9. Pipes!Open' = own.open \cup Kept'
  <2>1. Pipes!Open = own.open \cup Ours /\ own.open \cap Ours = {} /\ own.open \cap {-1} = {}
    BY <1>2, FdsAreMany DEF Apart, PipeTypes, FdTypes
  <2> QED
    BY <1>2, <1>4, <1>7, <1>8, <2>1
<1>10. own.open \cap {var.keep0, var.keep1} = {} /\ {var.keep0, var.keep1} \subseteq Pipes!Fds \cup {-1}
  <2>1. own.open \cap Ours = {} /\ own.open \subseteq Pipes!Fds /\ Ours \subseteq Pipes!Fds /\ -1 \notin Pipes!Fds
    BY <1>2, FdsAreMany DEF Apart, PipeTypes, FdTypes
  <2>2. \A x \in {var.keep0, var.keep1} : x = -1 \/ x \in Ours
    BY <1>2
  <2> QED
    BY <2>1, <2>2
<1> QED
  BY <1>1, <1>5, <1>6, <1>8, <1>9, <1>10 DEF FdsInv

LEMMA BuildFailsKeepsFds ==
    ASSUME PipeTypes, FdsInv, Pipes!build_fails
    PROVE  PipeTypes' /\ FdsInv'
<1> DEFINE S == {var.fd0, var.p1, var.null2, var.keep0, var.keep1}
<1>1. /\ at = "build" /\ at' = "failed" /\ table' = Pipes!Without(table, S)
      /\ own' = [own EXCEPT !.wrong = @ \cup Pipes!Wrong(table, S)]
      /\ prog' = [i \in Pipes!Progs |-> Pipes!Dead(i, -9)]
      /\ UNCHANGED <<way, var, chan, sender, reader>>
  BY DEF Pipes!build_fails
<1>2. Apart /\ Ours = S \ {-1}
  BY <1>1 DEF FdsInv, Ours, Vars
<1>3. table' \in [Pipes!Fds -> Ends] /\ Pipes!Open' = Pipes!Open \ S
  BY <1>1, Closes
<1>4. own' = own
  BY <1>1, <1>2, NoneWrong DEF PipeTypes, FdTypes, Apart
<1>5. ProgTypes'
  BY <1>1, DeadFields DEF ProgTypes
<1>6. PipeTypes'
  BY <1>1, <1>3, <1>4, <1>5 DEF PipeTypes, FdTypes
<1>7. Pipes!Open' = own.open
  BY <1>2, <1>3, FdsAreMany DEF Apart, PipeTypes, FdTypes
<1> QED
  BY <1>1, <1>4, <1>6, <1>7 DEF FdsInv

\* Later steps leave what build has made as it is, and close one descriptor or none.
LEMMA UseKeepsFds ==
    ASSUME PipeTypes, FdsInv, at \in {"use", "wait", "gone"}, at' \in {"use", "wait", "gone"},
           UNCHANGED <<way, var>>, own' = own, PipeTypes',
           Pipes!Open' = Pipes!Open \ (Kept \ Kept'), Kept' \subseteq Kept,
           at' = "wait" => way # "command", at' = "gone" /\ way = "command" => at = "use" \/ at = "gone"
    PROVE  FdsInv'
<1>1. Pipes!Open' = own.open \cup Kept'
  <2>1. own.open \cap Kept = {}
    BY DEF FdsInv, Kept
  <2> QED
    BY <2>1 DEF FdsInv
<1> QED
  BY <1>1 DEF FdsInv

\* Nothing is opened or closed.
LEMMA ProgsKeepFds ==
    ASSUME FdsInv, UNCHANGED <<way, var, at, table, own, sender, reader>>, Pipes!Todo' = Pipes!Todo
    PROVE  FdsInv'
<1>1. Pipes!Open' = Pipes!Open
  BY DEF Pipes!Open
<1>2. Kept' = Kept /\ (Apart => Apart') /\ (Unstarted => Unstarted')
  BY <1>1 DEF Apart, Ours, Unstarted, Kept, Keeps0, Keeps1
<1> QED
  BY <1>1, <1>2 DEF FdsInv

\* Nobody stops reading or writing.
LEMMA QuietKeepsFds ==
    ASSUME PipeTypes, FdsInv, UNCHANGED <<way, var, at, table, own>>, PipeTypes', at \in {"use", "gone"},
           sender'.pc = sender.pc \/ ({sender.pc, sender'.pc} \subseteq {"fill", "write"}),
           reader'.pc = reader.pc \/ ({reader.pc, reader'.pc} \subseteq {"read", "have"})
             \/ ({reader.pc, reader'.pc} \subseteq {"closed", "end", "raised"})
    PROVE  FdsInv'
<1>1. Pipes!Open' = Pipes!Open
  BY DEF Pipes!Open
<1>2. (Keeps0' <=> Keeps0) /\ (Keeps1' <=> Keeps1)
  BY DEF Keeps0, Keeps1
<1>3. Kept' = Kept
  BY <1>2 DEF Kept
<1> QED
  BY <1>1, <1>3, UseKeepsFds DEF FdsInv

\* A child that was started goes on, or dies.
LEMMA ProgMoves ==
    ASSUME PipeTypes, NEW i \in Pipes!Progs, NEW r, prog' = [prog EXCEPT ![i] = r],
           DOMAIN r = ProgFields, r.st # "none", prog[i].st # "none"
    PROVE  ProgTypes' /\ Pipes!Todo' = Pipes!Todo
BY DEF PipeTypes, ProgTypes, Pipes!Todo

LEMMA ProgRunsKeepsFds ==
    ASSUME PipeTypes, FdsInv, NEW i \in Pipes!Progs, Pipes!ProgRuns(i)
    PROVE  PipeTypes' /\ FdsInv'
<1>0. UNCHANGED <<way, table, var, at, sender, reader, own>> /\ prog[i].st \in {"forked", "runs"}
  BY DEF Pipes!ProgRuns, Pipes!exec_on_child, Pipes!prog_reads, Pipes!prog_writes, Pipes!prog_exits
<1>1. DOMAIN prog[i] = ProgFields /\ prog = [j \in Pipes!Progs |-> prog[j]]
  BY DEF PipeTypes, ProgTypes
<1>2. ProgTypes' /\ Pipes!Todo' = Pipes!Todo
  <2>1. ASSUME NEW r, prog' = [prog EXCEPT ![i] = r], DOMAIN r = ProgFields, r.st # "none"
        PROVE  ProgTypes' /\ Pipes!Todo' = Pipes!Todo
    BY <1>0, <2>1, ProgMoves
  <2>2. ASSUME NEW status, prog' = [prog EXCEPT ![i] = Pipes!Dead(i, status)]
        PROVE  ProgTypes' /\ Pipes!Todo' = Pipes!Todo
    BY <2>1, <2>2, DeadFields
  <2>3. ASSUME NEW e, NEW o, prog' = [prog EXCEPT ![i].st = "runs", ![i].ends = e, ![i].others = o]
        PROVE  ProgTypes' /\ Pipes!Todo' = Pipes!Todo
    <3> DEFINE r == [prog[i] EXCEPT !.st = "runs", !.ends = e, !.others = o]
    <3>1. prog' = [prog EXCEPT ![i] = r] /\ DOMAIN r = ProgFields /\ r.st = "runs"
      BY <1>1, <2>3 DEF ProgFields
    <3> QED
      BY <2>1, <3>1
  <2>4. ASSUME NEW x, prog' = [prog EXCEPT ![i].item = x]
        PROVE  ProgTypes' /\ Pipes!Todo' = Pipes!Todo
    <3> DEFINE r == [prog[i] EXCEPT !.item = x]
    <3>1. prog' = [prog EXCEPT ![i] = r] /\ DOMAIN r = ProgFields /\ r.st = prog[i].st
      BY <1>1, <2>4 DEF ProgFields
    <3> QED
      BY <1>0, <2>1, <3>1
  <2>5. CASE Pipes!exec_on_child(i)
    BY <2>2, <2>3, <2>5 DEF Pipes!exec_on_child
  <2>6. CASE Pipes!prog_reads(i)
    BY <2>4, <2>6 DEF Pipes!prog_reads
  <2>7. CASE Pipes!prog_writes(i)
    BY <2>2, <2>4, <2>7 DEF Pipes!prog_writes
  <2>8. CASE Pipes!prog_exits(i)
    BY <2>2, <2>8 DEF Pipes!prog_exits
  <2> QED
    BY <2>5, <2>6, <2>7, <2>8 DEF Pipes!ProgRuns
<1>3. FdTypes'
  BY <1>0 DEF PipeTypes, FdTypes
<1> QED
  BY <1>0, <1>2, <1>3, ProgsKeepFds DEF PipeTypes

LEMMA SenderClosesKeepsFds ==
    ASSUME PipeTypes, FdsInv, Pipes!Sending, Keeps1, NEW to \in {"end", "error"}, Pipes!SenderCloses(to),
           UNCHANGED <<way, var, at, prog, reader>>
    PROVE  PipeTypes' /\ FdsInv'
<1>1. at \in {"use", "gone"} /\ way = "command" /\ var.keep1 # -1 /\ var.keep0 # var.keep1
  BY DEF Pipes!Sending, FdsInv
<1>2. var.keep1 \in Kept /\ Kept \subseteq Pipes!Open
  BY <1>1 DEF Kept, FdsInv
<1>3. own' = own
  BY <1>2, NoneWrong DEF Pipes!SenderCloses, PipeTypes, FdTypes
<1>4. table' \in [Pipes!Fds -> Ends] /\ Pipes!Open' = Pipes!Open \ {var.keep1}
  BY Closes DEF Pipes!SenderCloses
<1>5. sender' = [sender EXCEPT !.pc = to] /\ sender'.pc = to
  BY DEF Pipes!SenderCloses, PipeTypes, FdTypes
<1>6. PipeTypes'
  BY <1>3, <1>4, <1>5 DEF PipeTypes, FdTypes, ProgTypes
<1>7. Kept' = Kept \ {var.keep1}
  BY <1>1, <1>5 DEF Kept, Keeps0, Keeps1
<1> QED
  BY <1>1, <1>2, <1>3, <1>4, <1>6, <1>7, UseKeepsFds

LEMMA SenderRunsKeepsFds ==
    ASSUME PipeTypes, FdsInv, Pipes!SenderRuns
    PROVE  PipeTypes' /\ FdsInv'
<1>1. at \in {"use", "gone"} /\ Keeps1 /\ UNCHANGED <<way, var, at, prog, reader>>
  BY DEF Pipes!SenderRuns, Pipes!sender_fill, Pipes!sender_write, Pipes!sender_end, Pipes!Sending, Pipes!MustWrite,
         Keeps1
<1>2. ASSUME NEW to \in {"end", "error"}, Pipes!SenderCloses(to), Pipes!Sending PROVE PipeTypes' /\ FdsInv'
  BY <1>1, <1>2, SenderClosesKeepsFds
<1>3. ASSUME UNCHANGED <<table, own>>, DOMAIN sender' = DOMAIN sender, sender'.pc \in {"fill", "write"}
      PROVE  PipeTypes' /\ FdsInv'
  <2>1. PipeTypes'
    BY <1>1, <1>3 DEF PipeTypes, FdTypes, ProgTypes
  <2>2. sender.pc \in {"fill", "write"}
    BY <1>1 DEF Keeps1
  <2> QED
    BY <1>1, <1>3, <2>1, <2>2, QuietKeepsFds
<1>4. DOMAIN sender = {"pc", "next", "buf"}
  BY DEF PipeTypes, FdTypes
<1>5. CASE Pipes!sender_fill
  BY <1>3, <1>4, <1>5 DEF Pipes!sender_fill
<1>6. CASE Pipes!sender_end
  BY <1>2, <1>6 DEF Pipes!sender_end
<1>7. CASE Pipes!sender_write
  BY <1>2, <1>3, <1>4, <1>7 DEF Pipes!sender_write
<1> QED
  BY <1>5, <1>6, <1>7 DEF Pipes!SenderRuns

\* Who reads closes what build kept for him.
LEMMA KeepCloses ==
    ASSUME PipeTypes, FdsInv, ProgTypes', at = "use", table' = Pipes!Without(table, {var.keep0}),
           UNCHANGED <<way, var, sender, own>>,
           DOMAIN reader' = DOMAIN reader, reader'.pc \in {"read", "have", "closed", "end", "raised"},
           Keeps0 \/ var.keep0 = -1, ~Keeps0', at' \in {"use", "wait", "gone"},
           at' = "wait" => way # "command"
    PROVE  PipeTypes' /\ FdsInv'
<1>1. table' \in [Pipes!Fds -> Ends] /\ Pipes!Open' = Pipes!Open \ {var.keep0}
  BY Closes
<1>2. PipeTypes'
  BY <1>1 DEF PipeTypes, FdTypes
<1>3. Kept' = Kept \ {var.keep0}
  <2>1. Keeps1' <=> Keeps1
    BY DEF Keeps1
  <2>2. var.keep0 = var.keep1 => var.keep0 = -1
    BY DEF FdsInv
  <2> QED
    BY <2>1, <2>2 DEF Kept
<1>4. Pipes!Open' = Pipes!Open \ (Kept \ Kept')
  <2>1. var.keep0 = -1 \/ var.keep0 \in Kept
    BY DEF Kept
  <2>2. -1 \notin Pipes!Open
    BY FdsAreMany DEF Pipes!Open
  <2> QED
    BY <1>1, <1>3, <2>1, <2>2
<1> QED
  BY <1>2, <1>3, <1>4, UseKeepsFds

LEMMA ReadvecKeepsFds ==
    ASSUME PipeTypes, FdsInv, Pipes!readvec
    PROVE  PipeTypes' /\ FdsInv'
<1>1. at = "use" /\ way = "command" /\ reader.pc = "read" /\ UNCHANGED <<way, var, at, prog, sender>>
  BY DEF Pipes!readvec, Pipes!Reading
<1>2. ProgTypes' /\ DOMAIN reader = {"pc", "vec", "out"}
  BY <1>1 DEF PipeTypes, ProgTypes, FdTypes
<1>3. DOMAIN reader' = DOMAIN reader /\ reader'.pc \in {"read", "have", "closed"}
  BY <1>2 DEF Pipes!readvec
<1>4. CASE reader'.pc = "closed"
  <2>1. /\ table' = Pipes!Without(table, {var.keep0})
        /\ own' = [own EXCEPT !.wrong = @ \cup Pipes!Wrong(table, {var.keep0})]
    BY <1>2, <1>4 DEF Pipes!readvec
  <2>2. Keeps0 /\ ~Keeps0'
    BY <1>1, <1>4 DEF Keeps0
  <2>3. {var.keep0} \ {-1} \subseteq Pipes!Open
    BY <1>1, <2>2 DEF Kept, FdsInv
  <2>4. own' = own
    BY <2>1, <2>3, NoneWrong DEF PipeTypes, FdTypes
  <2> QED
    BY <1>1, <1>2, <1>3, <1>4, <2>1, <2>2, <2>4, KeepCloses
<1>5. CASE reader'.pc \in {"read", "have"}
  <2>1. UNCHANGED <<table, own>>
    BY <1>2, <1>5 DEF Pipes!readvec
  <2>2. PipeTypes'
    BY <1>1, <1>2, <1>3, <2>1 DEF PipeTypes, FdTypes
  <2> QED
    BY <1>1, <1>5, <2>1, <2>2, QuietKeepsFds
<1> QED
  BY <1>3, <1>4, <1>5

LEMMA DropKeepsFds ==
    ASSUME PipeTypes, FdsInv, Pipes!drop
    PROVE  PipeTypes' /\ FdsInv'
<1>1. /\ way = "command" /\ at = "use" /\ at' = "gone" /\ reader.pc \in {"have", "end", "raised"}
      /\ UNCHANGED <<way, var, sender, reader, own>>
  BY DEF Pipes!drop
<1>2. ProgTypes' /\ DOMAIN reader' = DOMAIN reader
  BY <1>1, DeadFields DEF Pipes!drop, PipeTypes, ProgTypes
<1>3. CASE reader.pc = "have"
  <2>1. table' = Pipes!Without(table, {var.keep0}) /\ Keeps0 /\ ~Keeps0'
    BY <1>1, <1>3 DEF Pipes!drop, Keeps0
  <2> QED
    BY <1>1, <1>2, <2>1, KeepCloses DEF PipeTypes, FdTypes
<1>4. CASE reader.pc # "have"
  <2>1. table' = table /\ ~Keeps0 /\ ~Keeps0' /\ (Keeps1' <=> Keeps1)
    BY <1>1, <1>4 DEF Pipes!drop, Keeps0, Keeps1
  <2>2. Pipes!Open' = Pipes!Open /\ Kept' = Kept
    BY <1>1, <2>1 DEF Pipes!Open, Kept
  <2>3. PipeTypes'
    BY <1>1, <1>2, <2>1 DEF PipeTypes, FdTypes
  <2> QED
    BY <1>1, <2>2, <2>3, UseKeepsFds
<1> QED
  BY <1>3, <1>4

LEMMA WaitKeepsFds ==
    ASSUME PipeTypes, FdsInv, Pipes!wait
    PROVE  PipeTypes' /\ FdsInv'
<1>1. way # "command" /\ UNCHANGED <<way, var, prog, sender, reader, own>>
  BY DEF Pipes!wait
<1>2. ProgTypes'
  BY <1>1 DEF PipeTypes, ProgTypes
<1>3. CASE at = "use"
  <2>1. table' = Pipes!Without(table, {var.keep0}) /\ at' = "wait" /\ Keeps0 /\ ~Keeps0'
    BY <1>1, <1>3 DEF Pipes!wait, Keeps0
  <2> QED
    BY <1>1, <1>2, <1>3, <2>1, KeepCloses DEF PipeTypes, FdTypes
<1>4. CASE at # "use"
  <2>1. at = "wait" /\ at' = "gone" /\ table' = table /\ ~Keeps0 /\ ~Keeps0' /\ (Keeps1' <=> Keeps1)
    BY <1>1, <1>4 DEF Pipes!wait, Keeps0, Keeps1
  <2>2. Pipes!Open' = Pipes!Open /\ Kept' = Kept
    BY <1>1, <2>1 DEF Pipes!Open, Kept
  <2>3. PipeTypes'
    BY <1>1, <1>2, <2>1 DEF PipeTypes, FdTypes
  <2> QED
    BY <1>1, <2>1, <2>2, <2>3, UseKeepsFds
<1> QED
  BY <1>3, <1>4

LEMMA StepFdsInv ==
    ASSUME PipeTypes, FdsInv, [Pipes!PipeNext]_pipeVars
    PROVE  PipeTypes' /\ FdsInv'
<1>1. CASE Pipes!exec
  BY <1>1, ExecPipesKeepsFds, ExecSocketKeepsFds, ExecFdsKeepsFds DEF Pipes!exec
<1>2. ASSUME UNCHANGED <<way, var, at, prog, sender, table, own>>, at = "use",
             DOMAIN reader' = DOMAIN reader,
             \/ {reader.pc, reader'.pc} \subseteq {"read", "have"}
             \/ {reader.pc, reader'.pc} \subseteq {"closed", "end", "raised"}
      PROVE  PipeTypes' /\ FdsInv'
  <2>1. PipeTypes'
    BY <1>2 DEF PipeTypes, FdTypes, ProgTypes
  <2> QED
    BY <1>2, <2>1, QuietKeepsFds
<1>3. DOMAIN reader = {"pc", "vec", "out"}
  BY DEF PipeTypes, FdTypes
<1>4. CASE Pipes!next_item
  BY <1>2, <1>3, <1>4 DEF Pipes!next_item, Pipes!Reading
<1>5. CASE Pipes!iter_end
  BY <1>2, <1>3, <1>5 DEF Pipes!iter_end, Pipes!Reading
<1>6. CASE UNCHANGED pipeVars
  <2>1. PipeTypes' /\ Pipes!Todo' = Pipes!Todo
    BY <1>6 DEF pipeVars, PipeTypes, FdTypes, ProgTypes, Pipes!Todo
  <2> QED
    BY <1>6, <2>1, ProgsKeepFds DEF pipeVars
<1> QED
  BY <1>1, <1>4, <1>5, <1>6, BuildNextKeepsFds, BuildReturnKeepsFds, BuildFailsKeepsFds, ReadvecKeepsFds,
     DropKeepsFds, WaitKeepsFds, SenderRunsKeepsFds, ProgRunsKeepsFds
  DEF Pipes!PipeNext, Pipes!ParentRuns

LEMMA InitFdsInv == Pipes!PipeInit => PipeTypes /\ FdsInv
<1> SUFFICES ASSUME Pipes!PipeInit PROVE PipeTypes /\ FdsInv
  OBVIOUS
<1>1. /\ way \in {"command", "socket", "fds"} /\ at = "exec"
      /\ table = [f \in Pipes!Fds |-> IF way = "fds" /\ f \in {3, 4} THEN Pipes!DevNull ELSE Pipes!Free]
      /\ prog = [i \in Pipes!Progs |-> Pipes!NoProg]
      /\ own = [open |-> {}, wrong |-> {}]
      /\ sender = [pc |-> "fill", next |-> 1, buf |-> <<>>] /\ reader = [pc |-> "read", vec |-> <<>>, out |-> <<>>]
  BY ProcsAssumption DEF Pipes!PipeInit, Pipes!PipelineAssumption
<1>2. Pipes!DevNull \in Ends /\ Pipes!Free \in Ends /\ Pipes!DevNull # Pipes!Free
  BY Kinds DEF Ends
<1>3. table \in [Pipes!Fds -> Ends] /\ Pipes!Open = (IF way = "fds" THEN {3, 4} ELSE {})
  <2>1. {3, 4} \subseteq Pipes!Fds
    BY FdsAreMany
  <2>2. table \in [Pipes!Fds -> Ends]
    BY <1>1, <1>2
  <2>3. \A f \in Pipes!Fds : table[f] # Pipes!Free <=> way = "fds" /\ f \in {3, 4}
    BY <1>1, <1>2
  <2> QED
    BY <2>1, <2>2, <2>3 DEF Pipes!Open
<1>4. var \in [fd0 : Int, p1 : Int, fd2 : Int, null2 : Int, keep0 : Int, keep1 : Int]
  <2> DEFINE none == -1
  <2>1. none \in Int /\ var = [fd0 |-> none, p1 |-> none, fd2 |-> none, null2 |-> none, keep0 |-> none, keep1 |-> none]
    BY DEF Pipes!PipeInit
  <2> HIDE DEF none
  <2> QED
    BY <2>1
<1>5. FdTypes
  BY <1>1, <1>3, <1>4 DEF FdTypes
<1>6. ProgTypes
  BY <1>1, NoProgFields DEF ProgTypes
<1>7. Pipes!Todo = Pipes!Progs /\ Unstarted
  BY <1>1, NoProgFields, Kinds DEF Pipes!Todo, Pipes!Progs, Unstarted
<1> QED
  BY <1>1, <1>3, <1>5, <1>6, <1>7 DEF PipeTypes, FdsInv

LEMMA FdsInvSuffices == PipeTypes /\ FdsInv => Pipes!FdsAreClosed
<1> SUFFICES ASSUME PipeTypes, FdsInv PROVE Pipes!FdsAreClosed
  OBVIOUS
<1>1. at = "use" => Pipes!Open \ {var.keep0, var.keep1} = own.open
  BY DEF FdsInv, Kept
<1>2. at = "gone" /\ (way = "command" => sender.pc \in {"end", "error"}) => Pipes!Open = own.open
  BY DEF FdsInv, Kept, Keeps0, Keeps1
<1> QED
  BY <1>1, <1>2 DEF FdsInv, Pipes!FdsAreClosed
-----------------------------------------------------------------------------
(* The items                                                               *)

LEMMA RunTail ==
    ASSUME NEW s, NEW a \in Nat, IsRun(s, a), s # <<>>
    PROVE  Head(s) = a + 1 /\ IsRun(Tail(s), a + 1) /\ Len(Tail(s)) = Len(s) - 1 /\ Len(s) \in Nat \ {0}
<1>1. s \in Seq(Nat) /\ Len(s) \in Nat \ {0} /\ \A k \in 1 .. Len(s) : s[k] = a + k
  BY DEF IsRun
<1>2. Head(s) = a + 1
  BY <1>1
<1>3. Tail(s) \in Seq(Nat) /\ Len(Tail(s)) = Len(s) - 1 /\ \A k \in 1 .. Len(s) - 1 : Tail(s)[k] = s[k + 1]
  BY <1>1
<1>4. \A k \in 1 .. Len(s) - 1 : Tail(s)[k] = (a + 1) + k
  BY <1>1, <1>3
<1>5. Tail(s) = [k \in 1 .. Len(Tail(s)) |-> (a + 1) + k]
  <2> DEFINE t == Tail(s)  n == Len(s) - 1
  <2>1. t \in Seq(Nat) /\ Len(t) = n /\ \A k \in 1 .. n : t[k] = (a + 1) + k
    BY <1>3, <1>4
  <2> HIDE DEF t, n
  <2>2. t = [k \in 1 .. Len(t) |-> (a + 1) + k]
    BY <2>1
  <2> QED
    BY <2>2 DEF t
<1> QED
  BY <1>1, <1>2, <1>3, <1>5 DEF IsRun

LEMMA RunAppend ==
    ASSUME NEW s, NEW a \in Nat, IsRun(s, a), NEW x, x = a + Len(s) + 1
    PROVE  IsRun(Append(s, x), a) /\ Len(Append(s, x)) = Len(s) + 1 /\ Append(s, x) # <<>> /\ Len(s) \in Nat
<1>1. s \in Seq(Nat) /\ Len(s) \in Nat /\ x \in Nat /\ \A k \in 1 .. Len(s) : s[k] = a + k
  BY DEF IsRun
<1>2. Append(s, x) \in Seq(Nat) /\ Len(Append(s, x)) = Len(s) + 1
  BY <1>1
<1>3. \A k \in 1 .. Len(s) + 1 : Append(s, x)[k] = a + k
  BY <1>1
<1>4. Append(s, x) = [k \in 1 .. Len(Append(s, x)) |-> a + k]
  BY <1>2, <1>3
<1> QED
  BY <1>1, <1>2, <1>4 DEF IsRun

LEMMA RunEmpty == \A a : IsRun(<<>>, a)
BY DEF IsRun

LEMMA RunLen == \A s, a : IsRun(s, a) => s \in Seq(Nat) /\ Len(s) \in Nat /\ (s = <<>> <=> Len(s) = 0)
BY DEF IsRun

\* Who has an end of a channel is seen by those at its other end.
LEMMA AliveHolds ==
    ASSUME NEW i \in Pipes!Progs, Linked(i), prog[i].st \in {"forked", "runs"}
    PROVE  Pipes!Readers(i) /\ Pipes!Writers(i + 1)
<1>1. \A e \in Pipes!Held(i) : e \in Pipes!InUse
  BY DEF Pipes!InUse, Pipes!Lives
<1>2. CASE prog[i].st = "runs"
  <2>1. prog[i].ends[1] \in Pipes!Held(i) /\ prog[i].ends[2] \in Pipes!Held(i)
    BY <1>2 DEF Pipes!Held
  <2> QED
    BY <1>1, <1>2, <2>1 DEF Linked, Pipes!Readers, Pipes!Writers
<1>3. CASE prog[i].st = "forked"
  <2>1. \A e \in prog[i].others : e[2] \in Pipes!Held(i)
    BY DEF Pipes!Held
  <2> QED
    BY <1>1, <1>3, <2>1 DEF Linked, Pipes!Readers, Pipes!Writers
<1> QED
  BY <1>2, <1>3

LEMMA ParentHolds ==
    ASSUME NEW f \in Pipes!Open
    PROVE  Pipes!Readers(table[f].rd) /\ Pipes!Writers(table[f].wr)
BY DEF Pipes!InUse, Pipes!Readers, Pipes!Writers

LEMMA StartedAfter ==
    ASSUME PipeTypes, FdsInv, Links, Ending, way = "command", NEW i \in Pipes!Progs, prog[i].st # "none",
           NEW j \in Pipes!Progs, i <= j
    PROVE  prog[j].st # "none" /\ at # "exec"
<1>1. CASE at \in {"use", "gone", "failed"}
  BY <1>1 DEF Ending, Pipes!AllDead
<1>2. CASE at \in {"exec", "build"}
  <2>1. PICK m \in 0 .. N : Pipes!Todo = 1 .. m
    BY <1>2 DEF FdsInv, Unstarted
  <2>2. i \notin Pipes!Todo
    BY DEF Pipes!Todo
  <2> QED
    BY <2>1, <2>2, Kinds DEF Pipes!Todo, Pipes!Progs, FdsInv
<1> QED
  BY <1>1, <1>2 DEF PipeTypes, FdTypes, FdsInv

LEMMA DeadForAReason ==
    ASSUME Ending, NEW i \in Pipes!Progs, prog[i].st = "dead", ~Over(i)
    PROVE  SomeFailed
BY DEF Ending, Over, SomeFailed, Failed

\* The ends stay where they are.
LEMMA ExecPipesKeepsLinks ==
    ASSUME PipeTypes, FdsInv, Links, Pipes!exec_pipes
    PROVE  Links'
<1>1. PICK f1, f2, f3, f4, f5 \in Pipes!Fds :
        /\ f1 \notin {f2, f3, f4, f5} /\ f2 \notin {f3, f4, f5} /\ f3 \notin {f4, f5} /\ f4 # f5
        /\ Pipes!Build([table EXCEPT ![f1] = Pipes!End(1, -1), ![f2] = Pipes!End(-1, 1), ![f3] = Pipes!End(N + 1, -1),
                                     ![f4] = Pipes!End(-1, N + 1), ![f5] = Pipes!DevNull],
                       [fd0 |-> f1, p1 |-> f4, fd2 |-> f5, null2 |-> f5, keep0 |-> f3, keep1 |-> f2], {})
  BY PipesMade
<1>2. /\ table' = [table EXCEPT ![f1] = Pipes!End(1, -1), ![f2] = Pipes!End(-1, 1), ![f3] = Pipes!End(N + 1, -1),
                                ![f4] = Pipes!End(-1, N + 1), ![f5] = Pipes!DevNull]
      /\ var'.fd0 = f1 /\ var'.p1 = f4 /\ var'.keep0 = f3 /\ var'.keep1 = f2
      /\ at' = "build" /\ prog' = prog /\ at = "exec"
  <2>1. at' = "build" /\ prog' = prog /\ at = "exec"
    BY <1>1 DEF Pipes!Build, Pipes!exec_pipes
  <2>2. var' = [fd0 |-> f1, p1 |-> f4, fd2 |-> f5, null2 |-> f5, keep0 |-> f3, keep1 |-> f2]
    BY <1>1, Zenon DEF Pipes!Build
  <2>3. table' = [table EXCEPT ![f1] = Pipes!End(1, -1), ![f2] = Pipes!End(-1, 1), ![f3] = Pipes!End(N + 1, -1),
                               ![f4] = Pipes!End(-1, N + 1), ![f5] = Pipes!DevNull]
    BY <1>1, Zenon DEF Pipes!Build
  <2> QED
    BY <2>1, <2>2, <2>3, Zenon
<1>3. /\ table'[f1] = Pipes!End(1, -1) /\ table'[f2] = Pipes!End(-1, 1) /\ table'[f3] = Pipes!End(N + 1, -1)
      /\ table'[f4] = Pipes!End(-1, N + 1)
  <2> DEFINE e1 == Pipes!End(1, -1)  e2 == Pipes!End(-1, 1)  e3 == Pipes!End(N + 1, -1)
             e4 == Pipes!End(-1, N + 1)  e5 == Pipes!DevNull
  <2>1. table' = [table EXCEPT ![f1] = e1, ![f2] = e2, ![f3] = e3, ![f4] = e4, ![f5] = e5]
    BY <1>2
  <2>2. table \in [Pipes!Fds -> Ends]
    BY DEF PipeTypes, FdTypes
  <2> HIDE DEF e1, e2, e3, e4, e5
  <2>3. table'[f1] = e1 /\ table'[f2] = e2 /\ table'[f3] = e3 /\ table'[f4] = e4
    BY <1>1, <2>1, <2>2
  <2> QED
    BY <2>3 DEF e1, e2, e3, e4
<1>4. table'[f1].rd = 1 /\ table'[f2].wr = 1 /\ table'[f3].rd = N + 1 /\ table'[f4].wr = N + 1
  BY <1>3, Kinds
<1>5. Pipes!Todo' = 1 .. N /\ \A m \in 1 .. N : 1 .. N = 1 .. m => m = N
  BY <1>2, Kinds DEF FdsInv, Pipes!Todo, Pipes!Progs
<1>6. ParentLinks'
  BY <1>2, <1>4, <1>5 DEF ParentLinks
<1> QED
  BY <1>2, <1>6 DEF Links, Linked

LEMMA BuildReturnKeepsLinks ==
    ASSUME PipeTypes, FdsInv, Links, way = "command", Pipes!build_return
    PROVE  Links'
<1>1. /\ at = "build" /\ at' = "use" /\ UNCHANGED <<way, var, prog, sender, reader>>
      /\ table' = Pipes!Without(table, {var.fd0, var.p1, var.null2})
  BY DEF Pipes!build_return
<1>2. {var.keep0, var.keep1} \cap {var.fd0, var.p1, var.null2} = {} /\ {var.keep0, var.keep1} \subseteq Pipes!Fds
  BY <1>1 DEF FdsInv, Apart, Ours, Vars
<1>3. table'[var.keep0] = table[var.keep0] /\ table'[var.keep1] = table[var.keep1]
  BY <1>1, <1>2 DEF Pipes!Without
<1>4. ParentLinks'
  BY <1>1, <1>3 DEF Links, ParentLinks
<1> QED
  BY <1>1, <1>4 DEF Links, Linked

LEMMA BuildFailsKeepsLinks ==
    ASSUME Pipes!build_fails
    PROVE  Links'
<1>1. at' = "failed" /\ prog' = [i \in Pipes!Progs |-> Pipes!Dead(i, -9)]
  BY DEF Pipes!build_fails
<1>2. ASSUME NEW i \in Pipes!Progs PROVE prog'[i].st = "dead" /\ prog'[i].item = 0
  BY <1>1, DeadFields
<1> QED
  BY <1>1, <1>2 DEF Links, ParentLinks, Linked

\* One program is another, or it is dead.
LEMMA ProgKeepsLinks ==
    ASSUME PipeTypes, Links, NEW i \in Pipes!Progs, NEW r, prog' = [prog EXCEPT ![i] = r],
           UNCHANGED <<way, table, var, at, sender, reader>>,
           r.st \in {"runs", "dead"}, r.st = "dead" => r.item = 0, prog[i].st # "none",
           r.st = "runs" => r.ends[1].rd = i /\ r.ends[2].wr = i + 1
    PROVE  Links'
<1>1. prog'[i] = r /\ \A j \in Pipes!Progs \ {i} : prog'[j] = prog[j]
  BY DEF PipeTypes, ProgTypes
<1>2. Linked(i)'
  BY <1>1 DEF Linked
<1>3. ASSUME NEW j \in Pipes!Progs \ {i} PROVE Linked(j)'
  BY <1>1 DEF Links, Linked
<1>4. Pipes!Todo' = Pipes!Todo
  BY <1>1 DEF Pipes!Todo
<1>5. ParentLinks'
  BY <1>4 DEF Links, ParentLinks, Keeps0, Keeps1
<1> QED
  BY <1>2, <1>3, <1>5 DEF Links

\* What exec_on_child finds
LEMMA ChildEnds ==
    ASSUME NEW i \in Pipes!Progs, Linked(i), prog[i].st = "forked"
    PROVE  /\ (CHOOSE e \in prog[i].others : e[1] = prog[i].ends[1])[2].rd = i
           /\ (CHOOSE e \in prog[i].others : e[1] = prog[i].ends[2])[2].wr = i + 1
BY DEF Linked

LEMMA ProgRunsKeepsLinks ==
    ASSUME PipeTypes, Links, NEW i \in Pipes!Progs, Pipes!ProgRuns(i)
    PROVE  Links'
<1>0. UNCHANGED <<way, table, var, at, sender, reader>> /\ prog[i].st \in {"forked", "runs"} /\ Linked(i)
  BY DEF Pipes!ProgRuns, Pipes!exec_on_child, Pipes!prog_reads, Pipes!prog_writes, Pipes!prog_exits, Links
<1>1. DOMAIN prog[i] = ProgFields /\ prog = [j \in Pipes!Progs |-> prog[j]]
  BY DEF PipeTypes, ProgTypes
<1>2. ASSUME NEW status, prog' = [prog EXCEPT ![i] = Pipes!Dead(i, status)] PROVE Links'
  <2> DEFINE r == Pipes!Dead(i, status)
  <2>1. r.st = "dead" /\ r.item = 0 /\ prog' = [prog EXCEPT ![i] = r]
    BY <1>2, DeadFields
  <2> HIDE DEF r
  <2> QED
    BY <1>0, <2>1, ProgKeepsLinks
<1>3. ASSUME prog[i].st = "runs", NEW x, prog' = [prog EXCEPT ![i].item = x] PROVE Links'
  <2> DEFINE r == [prog[i] EXCEPT !.item = x]
  <2>1. prog' = [prog EXCEPT ![i] = r] /\ r.st = "runs" /\ r.ends = prog[i].ends
    BY <1>1, <1>3 DEF ProgFields
  <2>2. r.ends[1].rd = i /\ r.ends[2].wr = i + 1
    BY <1>0, <1>3, <2>1 DEF Linked
  <2> HIDE DEF r
  <2> QED
    BY <1>0, <2>1, <2>2, ProgKeepsLinks
<1>4. CASE Pipes!exec_on_child(i)
  <2> DEFINE EndOf(f) == (CHOOSE e \in prog[i].others : e[1] = f)[2]
             ends == [k \in 1 .. 3 |-> EndOf(prog[i].ends[k])]
             others == {e \in prog[i].others : e[1] >= CloseLimit}
             r == [prog[i] EXCEPT !.st = "runs", !.ends = ends, !.others = others]
  <2>1. CASE prog' = [prog EXCEPT ![i].st = "runs", ![i].ends = ends, ![i].others = others]
    <3>1. ends[1].rd = i /\ ends[2].wr = i + 1
      <4>1. ends[1] = EndOf(prog[i].ends[1]) /\ ends[2] = EndOf(prog[i].ends[2])
        OBVIOUS
      <4> QED
        BY <1>0, <1>4, <4>1, ChildEnds DEF Pipes!exec_on_child
    <3> HIDE DEF ends, others
    <3>2. prog' = [prog EXCEPT ![i] = r] /\ r.st = "runs" /\ r.ends = ends
      BY <1>1, <2>1 DEF ProgFields
    <3> HIDE DEF r
    <3> QED
      BY <1>0, <3>1, <3>2, ProgKeepsLinks
  <2>2. CASE prog' = [prog EXCEPT ![i] = Pipes!Dead(i, 1)]
    BY <1>2, <2>2
  <2> QED
    BY <1>4, <2>1, <2>2 DEF Pipes!exec_on_child
<1>5. CASE Pipes!prog_reads(i)
  BY <1>3, <1>5 DEF Pipes!prog_reads
<1>6. CASE Pipes!prog_writes(i)
  BY <1>2, <1>3, <1>6 DEF Pipes!prog_writes
<1>7. CASE Pipes!prog_exits(i)
  BY <1>2, <1>7 DEF Pipes!prog_exits
<1> QED
  BY <1>4, <1>5, <1>6, <1>7 DEF Pipes!ProgRuns

\* Somebody closes what he does not need any more.
LEMMA UseKeepsLinks ==
    ASSUME Links, prog' = prog \/ \A i \in Pipes!Progs : Linked(i)', var' = var,
           at \in {"use", "gone"}, at' \in {"use", "gone"}, way' = way,
           Keeps0' => Keeps0 /\ table'[var.keep0] = table[var.keep0],
           Keeps1' => Keeps1 /\ table'[var.keep1] = table[var.keep1]
    PROVE  Links'
<1>1. \A i \in Pipes!Progs : Linked(i)'
  BY DEF Links, Linked
<1>2. ParentLinks'
  BY DEF Links, ParentLinks, Keeps0
<1> QED
  BY <1>1, <1>2 DEF Links

LEMMA BuildNextKeepsLinks ==
    ASSUME PipeTypes, FdsInv, Links, way = "command", Pipes!build_next
    PROVE  Links'
<1>0. PICK i : i = Pipes!Last
  OBVIOUS
<1> DEFINE p0 == IF i = 1 THEN var.fd0 ELSE Pipes!Lowest(1)
           w  == IF i = 1 THEN -1 ELSE Pipes!Lowest(2)
           tab == IF i = 1 THEN table
                  ELSE [table EXCEPT ![p0] = Pipes!End(i, -1), ![w] = Pipes!End(-1, i)]
           open == {g \in Pipes!Fds : tab[g] # Pipes!Free}
           others == {<<f, tab[f]>> : f \in open}
           ends == <<p0, var.p1, var.fd2>>
<1>1. /\ at = "build" /\ Pipes!Todo # {} /\ UNCHANGED <<way, at, sender, reader>>
      /\ prog' = [prog EXCEPT ![i] = [Pipes!NoProg EXCEPT !.st = "forked", !.ends = ends, !.others = others]]
      /\ table' = Pipes!Without(tab, {p0} \cup {var[k] : k \in {"p1"}})
      /\ var' = [var EXCEPT !.p1 = w, !.fd0 = IF i = 1 THEN -1 ELSE @]
  BY <1>0, Zenon DEF Pipes!build_next, Pipes!Start, Pipes!Into
<1>2. i \in Nat \ {0} /\ i <= N /\ Pipes!Todo = 1 .. i
  BY <1>0, <1>1, LastTodo DEF FdsInv
<1>3. /\ Apart /\ {var.fd0, var.p1} \cap {-1} = {}
      /\ {var.fd0, var.p1, var.keep0, var.keep1} \subseteq Pipes!Fds
  BY <1>1 DEF FdsInv, Apart, Ours, Vars
<1>4. /\ var.fd0 \notin {var.p1, var.keep0, var.keep1} /\ var.p1 \notin {var.keep0, var.keep1}
      /\ {var.fd0, var.p1, var.keep0, var.keep1} \subseteq Pipes!Open
  BY <1>3, FdsAreMany DEF Apart, Ours, Vars
<1>5. i # 1 => {p0, w} \subseteq Unused /\ p0 # w
  BY <1>1, BuildFinds
<1>6. /\ table \in [Pipes!Fds -> Ends] /\ i \in Int /\ -1 \in Int
      /\ table[var.keep0].rd = N + 1 /\ table[var.keep1].wr = 1
      /\ table[var.fd0].rd = 1 /\ table[var.p1].wr = i + 1
  BY <1>1, <1>2 DEF PipeTypes, FdTypes, Links, ParentLinks
<1>7. /\ tab[p0].rd = i /\ (i # 1 => tab[w].wr = i)
      /\ \A f \in {var.p1, var.keep0, var.keep1} : tab[f] = table[f]
      /\ i # 1 => tab[var.fd0] = table[var.fd0]
  <2>1. CASE i = 1
    BY <1>6, <2>1
  <2>2. CASE i # 1
    <3> DEFINE e1 == Pipes!End(i, -1)  e2 == Pipes!End(-1, i)
    <3>1. tab = [table EXCEPT ![p0] = e1, ![w] = e2] /\ table \in [Pipes!Fds -> Ends]
      BY <1>6, <2>2
    <3>2. e1.rd = i /\ e2.wr = i
      BY <1>6, Kinds
    <3>3. {p0, w} \subseteq Pipes!Fds \ Pipes!Open /\ p0 # w
      BY <1>5, <2>2 DEF Unused
    <3> HIDE DEF e1, e2, tab, p0, w
    <3>4. tab[p0] = e1 /\ tab[w] = e2 /\ \A f \in Pipes!Open : tab[f] = table[f]
      BY <3>1, <3>3 DEF Pipes!Open
    <3> QED
      BY <1>4, <3>2, <3>4
  <2> QED
    BY <2>1, <2>2
<1>8. /\ p0 \in open /\ var.p1 \in open /\ p0 # var.p1
      /\ {p0, var.p1} \cap {var.keep0, var.keep1} = {} /\ p0 \in Pipes!Fds
      /\ i # 1 => var.fd0 \notin {p0, var.p1} /\ w \notin {p0, var.p1} /\ w \in Pipes!Fds
  <2>1. Pipes!Free.rd = -1 /\ Pipes!Free.wr = -1
    BY Kinds
  <2>2. p0 \in Pipes!Fds /\ p0 \notin {var.p1, var.keep0, var.keep1} /\ (i # 1 => p0 # var.fd0 /\ w # var.p1 /\ w \in Pipes!Fds)
    BY <1>3, <1>4, <1>5 DEF Unused
  <2> HIDE DEF tab, p0, w
  <2> QED
    BY <1>2, <1>3, <1>4, <1>5, <1>6, <1>7, <2>1, <2>2
<1>9. /\ table'[var.keep0] = table[var.keep0] /\ table'[var.keep1] = table[var.keep1]
      /\ i # 1 => table'[var.fd0] = table[var.fd0] /\ table'[w] = tab[w]
  <2> HIDE DEF tab, p0, w
  <2>1. \A f \in Pipes!Fds : f \notin {p0, var.p1} => table'[f] = tab[f]
    BY <1>1 DEF Pipes!Without
  <2> QED
    BY <1>3, <1>7, <1>8, <2>1
<1>10. /\ prog' = [prog EXCEPT ![i] = prog'[i]] /\ i \in Pipes!Progs
       /\ \A j \in Pipes!Progs \ {i} : prog'[j] = prog[j]
       /\ prog'[i].st = "forked" /\ prog'[i].item = 0 /\ prog'[i].ends = ends /\ prog'[i].others = others
  <2> HIDE DEF others, ends
  <2>1. i \in Pipes!Progs
    BY <1>2, Kinds DEF Pipes!Progs
  <2> DEFINE r == [Pipes!NoProg EXCEPT !.st = "forked", !.ends = ends, !.others = others]
  <2>2. r.st = "forked" /\ r.item = 0 /\ r.ends = ends /\ r.others = others
    BY NoProgFields DEF ProgFields
  <2>3. prog' = [prog EXCEPT ![i] = r]
    BY <1>1
  <2> HIDE DEF r
  <2> QED
    BY <2>1, <2>2, <2>3 DEF PipeTypes, ProgTypes
<1>11. Linked(i)'
  <2>1. /\ \A e, f \in others : e[1] = f[1] => e = f
        /\ <<p0, tab[p0]>> \in others /\ <<var.p1, tab[var.p1]>> \in others
    <3> HIDE DEF tab, p0, open
    <3> QED
      BY <1>8
  <2>2. ends[1] = p0 /\ ends[2] = var.p1
    OBVIOUS
  <2>3. tab[p0].rd = i /\ tab[var.p1].wr = i + 1
    BY <1>6, <1>7
  <2> HIDE DEF tab, others, p0, ends
  <2>4. /\ \E e \in others : e[1] = ends[1] /\ e[2].rd = i
        /\ \E e \in others : e[1] = ends[2] /\ e[2].wr = i + 1
    BY <2>1, <2>2, <2>3
  <2> QED
    BY <1>10, <2>1, <2>4 DEF Linked
<1>12. ASSUME NEW j \in Pipes!Progs \ {i} PROVE Linked(j)'
  BY <1>10, <1>12 DEF Links, Linked
<1>13. Pipes!Todo' = 1 .. i - 1
  <2>1. \A j \in Pipes!Progs : prog[j].st = "none" <=> j \in 1 .. i
    BY <1>2 DEF Pipes!Todo
  <2>2. \A j \in Pipes!Progs : prog'[j].st = "none" <=> j \in 1 .. i /\ j # i
    BY <1>10, <2>1
  <2> QED
    BY <1>2, <2>2, Kinds DEF Pipes!Todo, Pipes!Progs
<1>14. /\ var'.keep0 = var.keep0 /\ var'.keep1 = var.keep1 /\ var'.p1 = w
       /\ i # 1 => var'.fd0 = var.fd0
  <2> HIDE DEF w
  <2> DEFINE first == IF i = 1 THEN -1 ELSE var.fd0
  <2>1. var' = [var EXCEPT !.p1 = w, !.fd0 = first]
    <3>1. CASE i = 1
      BY <1>1, <3>1
    <3>2. CASE i # 1
      BY <1>1, <3>2
    <3> QED
      BY <3>1, <3>2
  <2>2. var \in [fd0 : Int, p1 : Int, fd2 : Int, null2 : Int, keep0 : Int, keep1 : Int]
    BY DEF PipeTypes, FdTypes
  <2> HIDE DEF first
  <2>3. var'.keep0 = var.keep0 /\ var'.keep1 = var.keep1 /\ var'.p1 = w /\ var'.fd0 = first
    BY <2>1, <2>2
  <2> QED
    BY <2>3 DEF first
<1>15. ASSUME NEW m \in 1 .. N, Pipes!Todo' = 1 .. m PROVE table'[var'.fd0].rd = 1 /\ table'[var'.p1].wr = m + 1
  <2> HIDE DEF w, tab
  <2>1. m = i - 1 /\ i # 1
    BY <1>2, <1>13, <1>15, Kinds
  <2> QED
    BY <1>2, <1>6, <1>7, <1>9, <1>14, <2>1
<1>16. ParentLinks'
  <2> HIDE DEF w, tab
  <2> QED
    BY <1>1, <1>6, <1>9, <1>14, <1>15 DEF ParentLinks
<1> QED
  BY <1>11, <1>12, <1>16 DEF Links

LEMMA KeptApart ==
    ASSUME PipeTypes, FdsInv, at \in {"use", "gone"}, way = "command"
    PROVE  var.keep0 # var.keep1 /\ {var.keep0, var.keep1} \subseteq Pipes!Fds
BY DEF FdsInv

LEMMA StepLinks ==
    ASSUME PipeTypes, FdsInv, Links, Ending, way = "command", [Pipes!PipeNext]_pipeVars
    PROVE  Links'
<1>1. CASE Pipes!exec
  BY <1>1, ExecPipesKeepsLinks DEF Pipes!exec, Pipes!exec_socket, Pipes!exec_fds
<1>2. CASE Pipes!SenderRuns
  <2>1. at \in {"use", "gone"} /\ Keeps1 /\ UNCHANGED <<way, var, at, prog, reader>>
    BY <1>2 DEF Pipes!SenderRuns, Pipes!sender_fill, Pipes!sender_write, Pipes!sender_end, Pipes!Sending, Pipes!MustWrite,
           Keeps1
  <2>2. table' = table \/ \E to \in {"end", "error"} : Pipes!SenderCloses(to)
    BY <1>2 DEF Pipes!SenderRuns, Pipes!sender_fill, Pipes!sender_write, Pipes!sender_end
  <2>3. table'[var.keep0] = table[var.keep0] /\ (Keeps1' => table' = table)
    <3>1. ASSUME NEW to \in {"end", "error"}, Pipes!SenderCloses(to)
          PROVE  table'[var.keep0] = table[var.keep0] /\ ~Keeps1'
      BY <2>1, <3>1, KeptApart DEF Pipes!SenderCloses, Pipes!Without, Keeps1, PipeTypes, FdTypes
    <3> QED
      BY <2>2, <3>1
  <2> QED
    BY <2>1, <2>3, UseKeepsLinks DEF Keeps0
<1>3. CASE Pipes!readvec \/ Pipes!next_item \/ Pipes!iter_end
  <2>1. at = "use" /\ UNCHANGED <<way, var, at, prog, sender>>
    BY <1>3 DEF Pipes!readvec, Pipes!next_item, Pipes!iter_end, Pipes!Reading
  <2>2. table' = table \/ (table' = Pipes!Without(table, {var.keep0}) /\ reader'.pc = "closed")
    BY <1>3 DEF Pipes!readvec, Pipes!next_item, Pipes!iter_end, PipeTypes, FdTypes
  <2>3. Keeps0' => Keeps0
    BY <1>3, <2>1 DEF Pipes!readvec, Pipes!next_item, Pipes!iter_end, Pipes!Reading, Keeps0, PipeTypes, FdTypes
  <2>4. (Keeps0' => table' = table) /\ table'[var.keep1] = table[var.keep1]
    BY <2>1, <2>2, KeptApart DEF Pipes!Without, Keeps0
  <2> QED
    BY <2>1, <2>3, <2>4, UseKeepsLinks DEF Keeps1
<1>4. CASE Pipes!drop
  <2>1. at = "use" /\ at' = "gone" /\ UNCHANGED <<way, var, sender, reader>>
    BY <1>4 DEF Pipes!drop
  <2>2. table'[var.keep1] = table[var.keep1]
    BY <1>4, <2>1, KeptApart DEF Pipes!drop, Pipes!Without
  <2>3. ASSUME NEW i \in Pipes!Progs PROVE Linked(i)'
    <3>1. prog'[i] = IF Pipes!Lives(i) THEN Pipes!Dead(i, -9) ELSE prog[i]
      BY <1>4 DEF Pipes!drop
    <3> QED
      BY <3>1, DeadFields DEF Links, Linked
  <2> QED
    BY <2>1, <2>2, <2>3, UseKeepsLinks DEF Keeps0, Keeps1
<1>5. CASE UNCHANGED pipeVars
  BY <1>5 DEF pipeVars, Links, ParentLinks, Linked, Keeps0, Keeps1, Pipes!Todo
<1> QED
  BY <1>1, <1>2, <1>3, <1>4, <1>5, BuildNextKeepsLinks, BuildReturnKeepsLinks, BuildFailsKeepsLinks,
     ProgRunsKeepsLinks
  DEF Pipes!PipeNext, Pipes!ParentRuns, Pipes!wait

\* Why nobody is at the other end of a channel
LEMMA EndsOpen ==
    ASSUME PipeTypes, FdsInv, Links, Ending, way = "command", at \in {"build", "use", "gone"}
    PROVE  /\ at = "build" \/ Keeps0 => Pipes!Readers(N + 1)
           /\ at = "build" \/ Keeps1 => Pipes!Writers(1)
           /\ \A m \in 1 .. N : at = "build" /\ Pipes!Todo = 1 .. m => Pipes!Writers(m + 1)
<1>1. CASE at = "build"
  <2>1. {var.keep0, var.keep1} \subseteq Pipes!Open
    BY <1>1 DEF FdsInv, Apart, Ours, Vars
  <2>2. ASSUME NEW m \in 1 .. N, Pipes!Todo = 1 .. m PROVE Pipes!Writers(m + 1)
    <3>1. 1 \in 1 .. m
      BY Kinds
    <3>2. var.p1 \in Pipes!Open
      BY <1>1, <2>2, <3>1 DEF FdsInv, Apart, Ours, Vars
    <3> QED
      BY <1>1, <2>2, <3>2, ParentHolds DEF Links, ParentLinks
  <2>3. Pipes!Readers(N + 1) /\ Pipes!Writers(1)
    <3>1. table[var.keep0].rd = N + 1 /\ table[var.keep1].wr = 1
      BY <1>1 DEF Links, ParentLinks
    <3>2. Pipes!Readers(table[var.keep0].rd) /\ Pipes!Writers(table[var.keep1].wr)
      BY <2>1, ParentHolds
    <3> QED
      BY <3>1, <3>2
  <2> QED
    BY <2>2, <2>3
<1>2. CASE at \in {"use", "gone"}
  <2>1. (Keeps0 => var.keep0 \in Pipes!Open) /\ (Keeps1 => var.keep1 \in Pipes!Open)
    BY <1>2 DEF FdsInv, Kept
  <2>2. (Keeps0 => table[var.keep0].rd = N + 1) /\ (Keeps1 => table[var.keep1].wr = 1)
    BY <1>2 DEF Links, ParentLinks, Keeps0
  <2>3. (Keeps0 => Pipes!Readers(table[var.keep0].rd)) /\ (Keeps1 => Pipes!Writers(table[var.keep1].wr))
    BY <2>1, ParentHolds
  <2> QED
    BY <1>2, <2>2, <2>3
<1> QED
  BY <1>1, <1>2

LEMMA WhileOneRuns ==
    ASSUME PipeTypes, FdsInv, Links, Ending, way = "command", NEW i \in Pipes!Progs, prog[i].st = "runs"
    PROVE  at \in {"build", "use"}
<1>1. at # "exec"
  <2>1. i <= i
    BY Kinds DEF Pipes!Progs
  <2> QED
    BY <2>1, StartedAfter
<1>2. at \notin {"gone", "failed", "wait"}
  BY DEF Ending, Pipes!AllDead, FdsInv
<1> QED
  BY <1>1, <1>2 DEF PipeTypes, FdTypes

LEMMA NobodyReads ==
    ASSUME PipeTypes, FdsInv, Links, Ending, way = "command", NEW taken, Flow(taken),
           NEW c \in 1 .. N + 1, ~Pipes!Readers(c),
           IF c = 1 THEN Pipes!Sending /\ Keeps1 ELSE prog[c - 1].st = "runs"
    PROVE  SomeFailed
<1>1. CASE c \in Pipes!Progs
  <2>1. prog[c].st # "none"
    <3>1. CASE c = 1
      BY <1>1, <3>1 DEF Pipes!Sending, Ending, Pipes!AllDead
    <3>2. CASE c # 1
      <4>1. c - 1 \in Pipes!Progs /\ c - 1 <= c
        BY <1>1, <3>2, Kinds DEF Pipes!Progs
      <4> QED
        BY <1>1, <3>2, <4>1, StartedAfter
    <3> QED
      BY <3>1, <3>2
  <2>2. prog[c].st = "dead"
    BY <1>1, <2>1, AliveHolds DEF Links, Linked
  <2>3. ~Over(c)
    BY <1>1 DEF Flow, ProgFlow, Fed, Keeps1
  <2> QED
    BY <1>1, <2>2, <2>3, DeadForAReason
<1>2. CASE c \notin Pipes!Progs
  <2>1. c = N + 1 /\ c # 1 /\ N \in Pipes!Progs /\ c - 1 = N
    BY <1>2, Kinds DEF Pipes!Progs
  <2>2. prog[N].st = "runs"
    BY <2>1
  <2>3. at \in {"build", "use"}
    BY <2>1, <2>2, WhileOneRuns
  <2>4. reader.pc \notin {"closed", "end", "raised"}
    BY <2>2 DEF Ending
  <2>5. at = "build" \/ Keeps0
    BY <2>3, <2>4 DEF Keeps0, PipeTypes, FdTypes
  <2> QED
    BY <2>1, <2>3, <2>5, EndsOpen
<1> QED
  BY <1>1, <1>2

LEMMA NobodyWrites ==
    ASSUME PipeTypes, FdsInv, Links, Ending, way = "command",
           NEW c \in 1 .. N + 1, ~Pipes!Writers(c),
           IF c = N + 1 THEN at = "use" ELSE prog[c].st = "runs"
    PROVE  IF c = 1 THEN sender.pc \in {"end", "error"} ELSE prog[c - 1].st = "dead"
<1>1. at \in {"build", "use"} /\ (at = "build" => c \in Pipes!Progs /\ prog[c].st = "runs")
  <2>1. CASE c = N + 1
    BY <2>1
  <2>2. CASE c # N + 1
    <3>1. c \in Pipes!Progs
      BY <2>2, Kinds DEF Pipes!Progs
    <3> QED
      BY <2>2, <3>1, WhileOneRuns
  <2> QED
    BY <2>1, <2>2
<1>2. CASE c = 1
  <2>1. ~Keeps1
    BY <1>1, <1>2, EndsOpen
  <2> QED
    BY <1>2, <2>1 DEF Keeps1, PipeTypes, FdTypes
<1>3. CASE c # 1
  <2>1. c - 1 \in Pipes!Progs /\ (c - 1) + 1 = c
    BY <1>3, Kinds DEF Pipes!Progs
  <2>2. prog[c - 1].st \notin {"forked", "runs"}
    BY <2>1, AliveHolds DEF Links
  <2>3. prog[c - 1].st # "none"
    <3>1. CASE at = "use"
      BY <2>1, <3>1 DEF Ending
    <3>2. CASE at = "build"
      <4>1. PICK m \in 0 .. N : Pipes!Todo = 1 .. m
        BY <3>2 DEF FdsInv, Unstarted
      <4>2. c \notin Pipes!Todo /\ c \in Pipes!Progs
        BY <1>1, <3>2 DEF Pipes!Todo
      <4>3. c - 1 \in Pipes!Todo => m = c - 1
        BY <4>1, <4>2, Kinds DEF Pipes!Progs
      <4>4. c - 1 \notin Pipes!Todo
        BY <1>1, <2>1, <3>2, <4>1, <4>3, EndsOpen DEF Pipes!Progs
      <4> QED
        BY <2>1, <4>4 DEF Pipes!Todo
    <3> QED
      BY <1>1, <3>1, <3>2
  <2> QED
    BY <1>3, <2>1, <2>2, <2>3 DEF Links, Linked
<1> QED
  BY <1>2, <1>3

\* What is read or written: the end of a channel moves with its beginning.
LEMMA ReadMoves ==
    ASSUME chan = [c \in 1 .. N + 1 |-> chan[c]], NEW taken \in [1 .. N + 1 -> Nat],
           \A c \in 1 .. N + 1 : IsRun(chan[c], taken[c]),
           NEW c \in 1 .. N + 1, chan[c] # <<>>, chan'[c] = Tail(chan[c]),
           \A d \in (1 .. N + 1) \ {c} : chan'[d] = chan[d]
    PROVE  /\ Head(chan[c]) = taken[c] + 1
           /\ \E t \in [1 .. N + 1 -> Nat] :
                /\ t[c] = taken[c] + 1
                /\ \A d \in 1 .. N + 1 : IsRun(chan'[d], t[d]) /\ t[d] + Len(chan'[d]) = taken[d] + Len(chan[d])
                /\ \A d \in (1 .. N + 1) \ {c} : t[d] = taken[d] /\ chan'[d] = chan[d]
<1>a. PICK t : t = [taken EXCEPT ![c] = @ + 1]
  OBVIOUS
<1>1. /\ t \in [1 .. N + 1 -> Nat] /\ t[c] = taken[c] + 1 /\ taken[c] \in Nat
      /\ \A d \in (1 .. N + 1) \ {c} : t[d] = taken[d]
  BY <1>a
<1>2. chan'[c] = Tail(chan[c]) /\ \A d \in (1 .. N + 1) \ {c} : chan'[d] = chan[d]
  OBVIOUS
<1>3. /\ Head(chan[c]) = taken[c] + 1 /\ IsRun(Tail(chan[c]), taken[c] + 1)
      /\ Len(Tail(chan[c])) = Len(chan[c]) - 1 /\ Len(chan[c]) \in Nat
  BY <1>1, RunTail
<1>4. IsRun(chan'[c], t[c]) /\ t[c] + Len(chan'[c]) = taken[c] + Len(chan[c])
  BY <1>1, <1>2, <1>3
<1>5. ASSUME NEW d \in 1 .. N + 1
      PROVE  IsRun(chan'[d], t[d]) /\ t[d] + Len(chan'[d]) = taken[d] + Len(chan[d])
  BY <1>1, <1>2, <1>4
<1> QED
  BY <1>1, <1>2, <1>3, <1>5

LEMMA WriteMoves ==
    ASSUME chan = [c \in 1 .. N + 1 |-> chan[c]], NEW taken \in [1 .. N + 1 -> Nat],
           \A c \in 1 .. N + 1 : IsRun(chan[c], taken[c]),
           NEW c \in 1 .. N + 1, NEW x, x = taken[c] + Len(chan[c]) + 1, chan' = [chan EXCEPT ![c] = Append(@, x)]
    PROVE  /\ chan' = [d \in 1 .. N + 1 |-> chan'[d]]
           /\ \A d \in 1 .. N + 1 : IsRun(chan'[d], taken[d])
           /\ Len(chan[c]) \in Nat /\ Len(chan'[c]) = Len(chan[c]) + 1
           /\ \A d \in (1 .. N + 1) \ {c} : chan'[d] = chan[d]
<1>1. /\ chan' = [d \in 1 .. N + 1 |-> chan'[d]] /\ chan'[c] = Append(chan[c], x)
      /\ \A d \in (1 .. N + 1) \ {c} : chan'[d] = chan[d]
  OBVIOUS
<1>2. taken[c] \in Nat /\ IsRun(chan[c], taken[c])
  OBVIOUS
<1>3. IsRun(chan'[c], taken[c]) /\ Len(chan'[c]) = Len(chan[c]) + 1 /\ Len(chan[c]) \in Nat
  BY <1>1, <1>2, RunAppend
<1> QED
  BY <1>1, <1>3

\* A program that is dead stays as it is.
LEMMA ReasonsStay ==
    ASSUME \A i \in Pipes!Progs : prog[i].st = "dead" => prog'[i] = prog[i],
           sender.pc \in {"end", "error"} => sender'.pc = sender.pc
    PROVE  /\ SomeFailed => SomeFailed'
           /\ \A i \in Pipes!Progs : Fed(i) => Fed(i)'
<1>1. SomeFailed => SomeFailed'
  BY DEF SomeFailed, Failed
<1>2. ASSUME NEW i \in Pipes!Progs, Fed(i) PROVE Fed(i)'
  <2>1. i = 1 \/ i - 1 \in Pipes!Progs
    BY Kinds DEF Pipes!Progs
  <2> QED
    BY <1>2, <2>1 DEF Fed
<1> QED
  BY <1>1, <1>2

\* For a program that does nothing, only what it has written may be read.
LEMMA ProgFlowStays ==
    ASSUME NEW i \in Pipes!Progs, NEW taken \in [1 .. N + 1 -> Nat], NEW t \in [1 .. N + 1 -> Nat], ProgFlow(i, taken),
           prog'[i] = prog[i], t[i] = taken[i], Over(i) => chan'[i] = chan[i],
           t[i + 1] + Len(chan'[i + 1]) = taken[i + 1] + Len(chan[i + 1]),
           SomeFailed => SomeFailed', Fed(i) => Fed(i)'
    PROVE  ProgFlow(i, t)'
<1>1. Over(i)' <=> Over(i)
  BY DEF Over
<1> QED
  BY <1>1 DEF ProgFlow

\* A program that dies without having come to its end is not asked for anything.
LEMMA DeadFlow ==
    ASSUME NEW i \in Pipes!Progs, NEW taken, NEW status \in {-13, -9, 1}, prog'[i] = Pipes!Dead(i, status)
    PROVE  ProgFlow(i, taken)'
<1>1. prog'[i].st = "dead" /\ prog'[i].item = 0 /\ prog'[i].status = status
  BY DeadFields
<1> QED
  BY <1>1 DEF ProgFlow, Over

LEMMA OnlyProgs ==
    ASSUME NEW taken \in [1 .. N + 1 -> Nat], Flow(taken), chan = [c \in 1 .. N + 1 |-> chan[c]],
           chan' = chan, sender'.buf = sender.buf, sender'.next = sender.next,
           reader'.vec = reader.vec, reader'.out = reader.out, \A i \in Pipes!Progs : ProgFlow(i, taken)'
    PROVE  Items'
BY DEF Flow, Items

\* Nothing moves.
LEMMA StaysFlow ==
    ASSUME Items, chan' = chan, sender'.buf = sender.buf, sender'.next = sender.next,
           reader'.vec = reader.vec, reader'.out = reader.out, prog' = prog,
           sender.pc \in {"end", "error"} => sender'.pc = sender.pc
    PROVE  Items'
<1>1. PICK taken \in [1 .. N + 1 -> Nat] : Flow(taken)
  BY DEF Items
<1>2. ASSUME NEW i \in Pipes!Progs PROVE ProgFlow(i, taken)'
  <2>1. ProgFlow(i, taken)
    BY <1>1 DEF Flow
  <2> QED
    BY <2>1, ReasonsStay, ProgFlowStays
<1> QED
  BY <1>1, <1>2, OnlyProgs DEF Items

\* One program starts, or dies, and no item moves.
LEMMA OneFlow ==
    ASSUME Items, PipeTypes, NEW i \in Pipes!Progs, UNCHANGED <<chan, sender, reader>>, prog[i].st # "dead",
           NEW r, prog' = [prog EXCEPT ![i] = r],
           NEW taken \in [1 .. N + 1 -> Nat], Flow(taken), ProgFlow(i, taken)'
    PROVE  Items'
<1>1. \A j \in Pipes!Progs \ {i} : prog'[j] = prog[j]
  BY DEF PipeTypes, ProgTypes
<1>2. ASSUME NEW j \in Pipes!Progs \ {i} PROVE ProgFlow(j, taken)'
  <2>1. ProgFlow(j, taken)
    BY DEF Flow
  <2> QED
    BY <1>1, <2>1, ReasonsStay, ProgFlowStays
<1> QED
  BY <1>2, OnlyProgs DEF Items

LEMMA OneDies ==
    ASSUME Items, PipeTypes, NEW i \in Pipes!Progs, UNCHANGED <<chan, sender, reader>>, prog[i].st # "dead",
           NEW status \in {-13, -9, 1}, prog' = [prog EXCEPT ![i] = Pipes!Dead(i, status)]
    PROVE  Items'
<1>1. PICK taken \in [1 .. N + 1 -> Nat] : Flow(taken)
  BY DEF Items
<1>2. prog'[i] = Pipes!Dead(i, status)
  BY DEF PipeTypes, ProgTypes
<1> QED
  BY <1>1, <1>2, DeadFlow, OneFlow

LEMMA BuildFlow ==
    ASSUME Items, PipeTypes, FdsInv, Links, Ending, Pipes!build_next \/ Pipes!build_fails \/ Pipes!build_return
    PROVE  Items'
<1>1. PICK taken \in [1 .. N + 1 -> Nat] : Flow(taken)
  BY DEF Items
<1>2. CASE Pipes!build_return
  BY <1>2, StaysFlow DEF Pipes!build_return
<1>3. CASE Pipes!build_fails
  <2>1. UNCHANGED <<chan, sender, reader>> /\ \A i \in Pipes!Progs : prog'[i] = Pipes!Dead(i, -9)
    BY <1>3 DEF Pipes!build_fails
  <2>2. \A i \in Pipes!Progs : ProgFlow(i, taken)'
    BY <2>1, DeadFlow
  <2> QED
    BY <1>1, <2>1, <2>2, OnlyProgs DEF Items
<1>4. CASE Pipes!build_next
  <2>1. PICK i : i = Pipes!Last
    OBVIOUS
  <2>2. PICK e, o : prog' = [prog EXCEPT ![i] = [Pipes!NoProg EXCEPT !.st = "forked", !.ends = e, !.others = o]]
    BY <1>4, <2>1, Zenon DEF Pipes!build_next, Pipes!Start
  <2>3. i \in Pipes!Progs /\ prog[i].st = "none"
    <3>1. i \in Pipes!Todo
      BY <1>4, <2>1, LastTodo DEF Pipes!build_next, Pipes!Start, FdsInv
    <3> QED
      BY <3>1 DEF Pipes!Todo
  <2>4. UNCHANGED <<chan, sender, reader>>
    BY <1>4 DEF Pipes!build_next, Pipes!Start
  <2> DEFINE r == [Pipes!NoProg EXCEPT !.st = "forked", !.ends = e, !.others = o]
  <2>5. r.st = "forked" /\ r.item = 0
    BY NoProgFields DEF ProgFields
  <2>6. prog' = [prog EXCEPT ![i] = r]
    BY <2>2
  <2> HIDE DEF r
  <2>7. prog'[i] = r /\ prog[i].item = 0
    BY <2>3, <2>6 DEF PipeTypes, ProgTypes, Links, Linked
  <2>8. ProgFlow(i, taken)
    BY <1>1, <2>3 DEF Flow
  <2>9. ProgFlow(i, taken)'
    BY <2>3, <2>4, <2>5, <2>7, <2>8 DEF ProgFlow, Over
  <2> QED
    BY <1>1, <2>3, <2>4, <2>6, <2>9, OneFlow
<1> QED
  BY <1>2, <1>3, <1>4

LEMMA ExecChildFlow ==
    ASSUME Items, PipeTypes, Links, NEW i \in Pipes!Progs, Pipes!exec_on_child(i)
    PROVE  Items'
<1>1. PICK taken \in [1 .. N + 1 -> Nat] : Flow(taken)
  BY DEF Items
<1>2. prog[i].st = "forked" /\ UNCHANGED <<chan, sender, reader>> /\ prog[i].item = 0
  BY DEF Pipes!exec_on_child, Links, Linked
<1>3. CASE prog' = [prog EXCEPT ![i] = Pipes!Dead(i, 1)]
  BY <1>2, <1>3, OneDies
<1>4. ASSUME NEW e, NEW o, prog' = [prog EXCEPT ![i].st = "runs", ![i].ends = e, ![i].others = o] PROVE Items'
  <2> DEFINE r == [prog[i] EXCEPT !.st = "runs", !.ends = e, !.others = o]
  <2>1. prog' = [prog EXCEPT ![i] = r] /\ r.st = "runs" /\ r.item = 0
    BY <1>2, <1>4 DEF PipeTypes, ProgTypes, ProgFields
  <2> HIDE DEF r
  <2>2. prog'[i] = r
    BY <2>1 DEF PipeTypes, ProgTypes
  <2>3. ProgFlow(i, taken)
    BY <1>1 DEF Flow
  <2>4. ProgFlow(i, taken)'
    BY <1>2, <2>1, <2>2, <2>3 DEF ProgFlow, Over
  <2> QED
    BY <1>1, <1>2, <2>1, <2>4, OneFlow
<1> QED
  BY <1>3, <1>4 DEF Pipes!exec_on_child

LEMMA ExitFlow ==
    ASSUME Items, PipeTypes, FdsInv, Links, Ending, way = "command", NEW i \in Pipes!Progs, Pipes!prog_exits(i)
    PROVE  Items'
<1>1. PICK taken \in [1 .. N + 1 -> Nat] : Flow(taken)
  BY DEF Items
<1>2. prog[i].st = "runs" /\ UNCHANGED <<chan, sender, reader>> /\ prog[i].ends[1].rd = i
  BY DEF Pipes!prog_exits, Links, Linked
<1>3. CASE prog' = [prog EXCEPT ![i] = Pipes!Dead(i, 1)]
  BY <1>2, <1>3, OneDies
<1>4. CASE ~(prog' = [prog EXCEPT ![i] = Pipes!Dead(i, 1)])
  <2>1. i \in 1 .. N /\ i \in 1 .. N + 1 /\ i # N + 1 /\ i # 0
    BY Kinds DEF Pipes!Progs
  <2>2. prog[i].item = 0 /\ chan[i] = <<>> /\ ~Pipes!Writers(i) /\ prog' = [prog EXCEPT ![i] = Pipes!Dead(i, 0)]
    BY <1>2, <1>4, <2>1 DEF Pipes!prog_exits
  <2>3. Fed(i)
    BY <1>2, <2>1, <2>2, NobodyWrites DEF Fed
  <2>4. taken[i] = MaxItems \/ SomeFailed
    <3>1. CASE i = 1
      <4>1. CASE sender.pc = "error"
        BY <4>1 DEF Ending
      <4>2. CASE sender.pc = "end"
        <5>1. sender.next = MaxItems + 1 /\ sender.buf = <<>>
          BY <4>2 DEF Ending
        <5>2. sender.next = taken[1] + Len(chan[1]) + Len(sender.buf) + 1
          BY <1>1 DEF Flow
        <5>3. Len(chan[1]) = 0 /\ Len(sender.buf) = 0 /\ taken[1] \in Nat
          BY <2>1, <2>2, <3>1, <5>1
        <5> QED
          BY <3>1, <5>1, <5>2, <5>3, Kinds
      <4> QED
        BY <2>3, <3>1, <4>1, <4>2 DEF Fed
    <3>2. CASE i # 1
      <4>1. i - 1 \in Pipes!Progs /\ prog[i - 1].st = "dead" /\ (i - 1) + 1 = i
        <5>1. prog[i - 1].st = "dead"
          BY <2>3, <3>2 DEF Fed
        <5>2. i - 1 \in Pipes!Progs /\ (i - 1) + 1 = i
          BY <2>1, <3>2, Kinds DEF Pipes!Progs
        <5> QED
          BY <5>1, <5>2
      <4>2. CASE ~Over(i - 1)
        BY <4>1, <4>2, DeadForAReason
      <4>3. CASE Over(i - 1)
        <5>1. ProgFlow(i - 1, taken) /\ prog[i - 1].item = 0
          BY <1>1, <4>1 DEF Flow, Links, Linked
        <5>2. taken[i - 1] = taken[i] + Len(chan[i]) + 0
          BY <4>1, <4>3, <5>1 DEF ProgFlow
        <5>3. Len(chan[i]) = 0 /\ taken[i] \in Nat
          BY <2>1, <2>2
        <5>4. taken[i - 1] = MaxItems \/ SomeFailed
          BY <4>3, <5>1 DEF ProgFlow
        <5> QED
          BY <5>2, <5>3, <5>4
      <4> QED
        BY <4>2, <4>3
    <3> QED
      BY <3>1, <3>2
  <2>5. prog'[i].st = "dead" /\ prog'[i].item = 0 /\ prog'[i].status = 0 /\ \A j \in Pipes!Progs \ {i} : prog'[j] = prog[j]
    BY <2>2, DeadFields DEF PipeTypes, ProgTypes
  <2>6. Fed(i)' /\ (SomeFailed => SomeFailed')
    BY <1>2, <2>3, <2>5, ReasonsStay
  <2>7. ProgFlow(i, taken)
    BY <1>1 DEF Flow
  <2>8. ProgFlow(i, taken)'
    BY <1>2, <2>2, <2>4, <2>5, <2>6, <2>7 DEF ProgFlow
  <2> QED
    BY <1>1, <1>2, <2>2, <2>8, OneFlow
<1> QED
  BY <1>3, <1>4

LEMMA ReadsFlow ==
    ASSUME Items, PipeTypes, Links, NEW i \in Pipes!Progs, Pipes!prog_reads(i)
    PROVE  Items'
<1>1. PICK taken \in [1 .. N + 1 -> Nat] : Flow(taken)
  BY DEF Items
<1>2. /\ prog[i].st = "runs" /\ prog[i].ends[1].rd = i /\ prog[i].item = 0 /\ chan[i] # <<>>
      /\ prog' = [prog EXCEPT ![i].item = Head(chan[i])] /\ chan' = [chan EXCEPT ![i] = Tail(@)]
      /\ UNCHANGED <<sender, reader>>
  BY DEF Pipes!prog_reads, Links, Linked
<1>3. i \in 1 .. N /\ i \in 1 .. N + 1 /\ i + 1 \in 1 .. N + 1 /\ N + 1 \in 1 .. N + 1 /\ i # N + 1 /\ i # i + 1 /\ 1 \in 1 .. N + 1
  BY Kinds DEF Pipes!Progs
<1>a. chan = [c \in 1 .. N + 1 |-> chan[c]] /\ \A c \in 1 .. N + 1 : IsRun(chan[c], taken[c])
  BY <1>1 DEF Flow, Items
<1>c. /\ chan' = [d \in 1 .. N + 1 |-> chan'[d]] /\ chan'[i] = Tail(chan[i])
      /\ \A d \in (1 .. N + 1) \ {i} : chan'[d] = chan[d]
  BY <1>2, <1>3, <1>a
<1>b. /\ Head(chan[i]) = taken[i] + 1
      /\ \E t \in [1 .. N + 1 -> Nat] :
           /\ t[i] = taken[i] + 1
           /\ \A d \in 1 .. N + 1 : IsRun(chan'[d], t[d]) /\ t[d] + Len(chan'[d]) = taken[d] + Len(chan[d])
           /\ \A d \in (1 .. N + 1) \ {i} : t[d] = taken[d] /\ chan'[d] = chan[d]
  <2>1. i \in 1 .. N + 1 /\ chan[i] # <<>>
    BY <1>2, <1>3
  <2> QED
    BY <1>a, <1>c, <2>1, ReadMoves
<1>4. PICK t \in [1 .. N + 1 -> Nat] :
        /\ t[i] = taken[i] + 1
        /\ \A d \in 1 .. N + 1 : IsRun(chan'[d], t[d]) /\ t[d] + Len(chan'[d]) = taken[d] + Len(chan[d])
        /\ \A d \in (1 .. N + 1) \ {i} : t[d] = taken[d] /\ chan'[d] = chan[d]
  BY <1>b
<1>5. /\ prog'[i].st = "runs" /\ prog'[i].item = taken[i] + 1 /\ taken[i] + 1 # 0
      /\ \A j \in Pipes!Progs \ {i} : prog'[j] = prog[j]
  <2> DEFINE x == Head(chan[i])
             r == [prog[i] EXCEPT !.item = x]
  <2>1. prog' = [prog EXCEPT ![i] = r] /\ r.st = "runs" /\ r.item = x
    <3> HIDE DEF x
    <3>1. prog' = [prog EXCEPT ![i].item = x]
      BY <1>2 DEF x
    <3> QED
      BY <1>2, <3>1 DEF PipeTypes, ProgTypes, ProgFields
  <2>2. x = taken[i] + 1 /\ taken[i] \in Nat
    BY <1>3, <1>b
  <2> HIDE DEF r, x
  <2>3. prog'[i] = r /\ \A j \in Pipes!Progs \ {i} : prog'[j] = prog[j]
    BY <2>1 DEF PipeTypes, ProgTypes
  <2> QED
    BY <2>1, <2>2, <2>3
<1>6. ProgFlow(i, t)'
  <2>1. taken[i] = taken[i + 1] + Len(chan[i + 1])
    <3>1. ProgFlow(i, taken)
      BY <1>1 DEF Flow
    <3>2. taken[i + 1] \in Nat /\ Len(chan[i + 1]) \in Nat
      BY <1>1, <1>3, RunLen DEF Flow
    <3> QED
      BY <1>2, <3>1, <3>2 DEF ProgFlow
  <2>2. t[i + 1] = taken[i + 1] /\ chan'[i + 1] = chan[i + 1]
    BY <1>3, <1>4
  <2>3. t[i] = t[i + 1] + Len(chan'[i + 1]) + 1
    BY <1>4, <2>1, <2>2
  <2>4. ~Over(i)'
    BY <1>5 DEF Over
  <2> QED
    BY <1>4, <1>5, <2>3, <2>4 DEF ProgFlow
<1>7. ASSUME NEW j \in Pipes!Progs \ {i} PROVE ProgFlow(j, t)'
  <2>1. ProgFlow(j, taken)
    BY <1>1 DEF Flow
  <2>2. j \in 1 .. N + 1 /\ j + 1 \in 1 .. N + 1
    BY Kinds DEF Pipes!Progs
  <2>3. (SomeFailed => SomeFailed') /\ (Fed(j) => Fed(j)')
    BY <1>2, <1>5, ReasonsStay
  <2>4. prog'[j] = prog[j] /\ t[j] = taken[j] /\ chan'[j] = chan[j]
    BY <1>4, <1>5, <2>2
  <2>5. t[j + 1] + Len(chan'[j + 1]) = taken[j + 1] + Len(chan[j + 1])
    BY <1>4, <2>2
  <2> QED
    BY <1>4, <2>1, <2>3, <2>4, <2>5, ProgFlowStays
<1>8. Flow(t)'
  <2>1. t[1] + Len(chan'[1]) = taken[1] + Len(chan[1]) /\ t[N + 1] = taken[N + 1]
    BY <1>3, <1>4
  <2> QED
    BY <1>1, <1>2, <1>4, <1>6, <1>7, <2>1 DEF Flow
<1> QED
  BY <1>c, <1>8 DEF Items

LEMMA WritesFlow ==
    ASSUME Items, PipeTypes, FdsInv, Links, Ending, way = "command", NEW i \in Pipes!Progs, Pipes!prog_writes(i)
    PROVE  Items'
<1>1. PICK taken \in [1 .. N + 1 -> Nat] : Flow(taken)
  BY DEF Items
<1>2. i \in 1 .. N /\ i + 1 \in 1 .. N + 1 /\ 1 \in 1 .. N + 1 /\ N + 1 \in 1 .. N + 1 /\ i + 1 # 1 /\ i + 1 # 0
  BY Kinds DEF Pipes!Progs
<1>3. prog[i].st = "runs" /\ prog[i].ends[2].wr = i + 1 /\ prog[i].item # 0 /\ UNCHANGED <<sender, reader>>
  BY DEF Pipes!prog_writes, Links, Linked
<1>a. chan = [c \in 1 .. N + 1 |-> chan[c]] /\ \A c \in 1 .. N + 1 : IsRun(chan[c], taken[c])
  BY <1>1 DEF Flow, Items
<1>4. CASE ~Pipes!Readers(i + 1)
  <2>1. prog' = [prog EXCEPT ![i] = Pipes!Dead(i, -13)] /\ chan' = chan
    BY <1>2, <1>3, <1>4 DEF Pipes!prog_writes
  <2> QED
    BY <1>3, <2>1, OneDies
<1>5. CASE Pipes!Readers(i + 1)
  <2>1. /\ prog' = [prog EXCEPT ![i].item = 0]
        /\ chan' = [chan EXCEPT ![i + 1] = Append(@, prog[i].item)]
    BY <1>2, <1>3, <1>5 DEF Pipes!prog_writes
  <2>2. taken[i + 1] \in Nat /\ Len(chan[i + 1]) \in Nat /\ taken[i] \in Nat
    <3>1. i \in 1 .. N + 1
      BY <1>2, Kinds
    <3> QED
      BY <1>2, <1>a, <3>1, RunLen
  <2>3. taken[i] = taken[i + 1] + Len(chan[i + 1]) + 1 /\ prog[i].item = taken[i]
    <3>1. ProgFlow(i, taken)
      BY <1>1 DEF Flow
    <3> QED
      BY <1>3, <2>2, <3>1 DEF ProgFlow
  <2>4. /\ chan' = [d \in 1 .. N + 1 |-> chan'[d]]
        /\ \A d \in 1 .. N + 1 : IsRun(chan'[d], taken[d])
        /\ Len(chan'[i + 1]) = Len(chan[i + 1]) + 1
        /\ \A d \in (1 .. N + 1) \ {i + 1} : chan'[d] = chan[d]
    BY <1>2, <1>a, <2>1, <2>3, WriteMoves
  <2>5. /\ prog'[i].st = "runs" /\ prog'[i].item = 0
        /\ \A j \in Pipes!Progs \ {i} : prog'[j] = prog[j]
    BY <1>3, <2>1 DEF PipeTypes, ProgTypes, ProgFields
  <2>6. ProgFlow(i, taken)'
    <3>1. ~Over(i)'
      BY <2>5 DEF Over
    <3>2. taken[i] = taken[i + 1] + Len(chan'[i + 1]) + 0
      BY <2>2, <2>3, <2>4
    <3> QED
      BY <2>5, <3>1, <3>2 DEF ProgFlow
  <2>7. ASSUME NEW j \in Pipes!Progs \ {i} PROVE ProgFlow(j, taken)'
    <3>1. ProgFlow(j, taken)
      BY <1>1 DEF Flow
    <3>2. j \in 1 .. N + 1 /\ j + 1 \in 1 .. N + 1 /\ j + 1 # i + 1
      BY <1>2, Kinds DEF Pipes!Progs
    <3>3. (SomeFailed => SomeFailed') /\ (Fed(j) => Fed(j)')
      BY <1>3, <2>5, ReasonsStay
    <3>4. Over(j) => j # i + 1
      <4>1. ASSUME j = i + 1 PROVE ~Over(j)
        <5>1. j # 1 /\ j - 1 = i
          BY <1>2, <4>1
        <5> QED
          BY <1>3, <3>1, <5>1 DEF ProgFlow, Fed
      <4> QED
        BY <4>1
    <3>5. prog'[j] = prog[j] /\ (Over(j) => chan'[j] = chan[j]) /\ chan'[j + 1] = chan[j + 1]
      BY <2>4, <2>5, <3>2, <3>4
    <3> QED
      BY <3>1, <3>3, <3>5, ProgFlowStays
  <2>8. Flow(taken)'
    <3>1. chan'[1] = chan[1]
      BY <1>2, <2>4
    <3> QED
      BY <1>1, <1>3, <2>4, <2>6, <2>7, <3>1 DEF Flow
  <2> QED
    BY <2>4, <2>8 DEF Items
<1> QED
  BY <1>4, <1>5

LEMMA ChannelsTyped ==
    ASSUME NEW taken \in [1 .. N + 1 -> Nat], Flow(taken), Items
    PROVE  /\ chan = [c \in 1 .. N + 1 |-> chan[c]]
           /\ \A c \in 1 .. N + 1 : IsRun(chan[c], taken[c]) /\ taken[c] \in Nat /\ Len(chan[c]) \in Nat
           /\ {1, N + 1} \subseteq 1 .. N + 1 /\ N # 0
<1>1. \A c \in 1 .. N + 1 : IsRun(chan[c], taken[c])
  BY DEF Flow
<1>2. {1, N + 1} \subseteq 1 .. N + 1 /\ N # 0
  BY Kinds
<1> QED
  BY <1>1, <1>2, RunLen DEF Items

LEMMA SenderFlow ==
    ASSUME Items, PipeTypes, FdsInv, Links, Ending, way = "command", Pipes!SenderRuns
    PROVE  Items'
<1>1. PICK taken \in [1 .. N + 1 -> Nat] : Flow(taken)
  BY DEF Items
<1>2. /\ UNCHANGED <<prog, reader>> /\ sender.pc \in {"fill", "write"} /\ Pipes!Sending
      /\ DOMAIN sender = {"pc", "next", "buf"}
  BY DEF Pipes!SenderRuns, Pipes!sender_fill, Pipes!sender_write, Pipes!sender_end, Pipes!MustWrite, PipeTypes, FdTypes
<1>3. /\ chan = [c \in 1 .. N + 1 |-> chan[c]]
      /\ \A c \in 1 .. N + 1 : IsRun(chan[c], taken[c]) /\ taken[c] \in Nat /\ Len(chan[c]) \in Nat
      /\ {1, N + 1} \subseteq 1 .. N + 1 /\ N # 0
  BY <1>1, ChannelsTyped
<1>4. /\ taken[1] \in Nat /\ Len(chan[1]) \in Nat /\ taken[1] + Len(chan[1]) \in Nat
      /\ IsRun(sender.buf, taken[1] + Len(chan[1])) /\ Len(sender.buf) \in Nat
      /\ sender.next = taken[1] + Len(chan[1]) + Len(sender.buf) + 1
  <2>1. taken[1] \in Nat /\ Len(chan[1]) \in Nat
    BY <1>3
  <2>2. /\ IsRun(sender.buf, taken[1] + Len(chan[1]))
        /\ sender.next = taken[1] + Len(chan[1]) + Len(sender.buf) + 1
    BY <1>1 DEF Flow
  <2>3. Len(sender.buf) \in Nat
    BY <2>2, RunLen
  <2> QED
    BY <2>1, <2>2, <2>3
<1>5. CASE chan' = chan /\ sender'.buf = sender.buf /\ sender'.next = sender.next
  BY <1>2, <1>5, StaysFlow
<1>6. CASE Pipes!sender_fill
  <2>1. /\ sender'.next = sender.next + 1 /\ sender'.buf = Append(sender.buf, sender.next) /\ chan' = chan
        /\ sender'.pc = sender.pc
    BY <1>2, <1>6 DEF Pipes!sender_fill
  <2>2. IsRun(sender'.buf, taken[1] + Len(chan[1])) /\ Len(sender'.buf) = Len(sender.buf) + 1
    BY <1>4, <2>1, RunAppend
  <2>3. ASSUME NEW i \in Pipes!Progs PROVE ProgFlow(i, taken)'
    <3>1. ProgFlow(i, taken)
      BY <1>1 DEF Flow
    <3> QED
      BY <1>2, <2>1, <3>1, ReasonsStay, ProgFlowStays
  <2>4. sender'.next = taken[1] + Len(chan'[1]) + Len(sender'.buf) + 1
    BY <1>4, <2>1, <2>2
  <2>5. Flow(taken)'
    BY <1>1, <1>2, <2>1, <2>2, <2>3, <2>4 DEF Flow
  <2> QED
    BY <1>3, <2>1, <2>5 DEF Items
<1>7. CASE chan' = [chan EXCEPT ![1] = Append(@, Head(sender.buf))] /\ sender.buf # <<>>
           /\ sender' = [sender EXCEPT !.buf = Tail(@), !.pc = IF Len(sender.buf) = 1 THEN "fill" ELSE "write"]
  <2>1. sender'.next = sender.next /\ sender'.buf = Tail(sender.buf)
    BY <1>2, <1>7
  <2>2. /\ Head(sender.buf) = taken[1] + Len(chan[1]) + 1
        /\ IsRun(sender'.buf, taken[1] + Len(chan[1]) + 1) /\ Len(sender'.buf) = Len(sender.buf) - 1
    BY <1>4, <1>7, <2>1, RunTail
  <2>3. /\ chan' = [d \in 1 .. N + 1 |-> chan'[d]]
        /\ \A d \in 1 .. N + 1 : IsRun(chan'[d], taken[d])
        /\ Len(chan'[1]) = Len(chan[1]) + 1
        /\ \A d \in (1 .. N + 1) \ {1} : chan'[d] = chan[d]
    <3>1. 1 \in 1 .. N + 1 /\ \A c \in 1 .. N + 1 : IsRun(chan[c], taken[c])
      BY <1>3
    <3> QED
      BY <1>3, <1>7, <2>2, <3>1, WriteMoves
  <2>4. ASSUME NEW i \in Pipes!Progs PROVE ProgFlow(i, taken)'
    <3>1. ProgFlow(i, taken)
      BY <1>1 DEF Flow
    <3>2. i \in 1 .. N + 1 /\ i + 1 \in 1 .. N + 1 /\ i + 1 # 1
      BY Kinds DEF Pipes!Progs
    <3>3. Over(i) => i # 1
      BY <1>2, <3>1 DEF ProgFlow, Fed
    <3>4. (Over(i) => chan'[i] = chan[i]) /\ chan'[i + 1] = chan[i + 1]
      BY <2>3, <3>2, <3>3
    <3>5. (SomeFailed => SomeFailed') /\ (Fed(i) => Fed(i)')
      BY <1>2, ReasonsStay
    <3> QED
      BY <1>2, <3>1, <3>4, <3>5, ProgFlowStays
  <2>5. taken[1] + Len(chan'[1]) = taken[1] + Len(chan[1]) + 1
    BY <1>4, <2>3
  <2>6. sender'.next = taken[1] + Len(chan'[1]) + Len(sender'.buf) + 1
    BY <1>4, <2>1, <2>2, <2>5
  <2>7. Flow(taken)'
    BY <1>1, <1>2, <2>2, <2>3, <2>4, <2>5, <2>6 DEF Flow
  <2> QED
    BY <2>3, <2>7 DEF Items
<1>8. CASE Pipes!sender_end
  <2>1. chan' = chan /\ sender' = [sender EXCEPT !.pc = "end"]
    BY <1>8 DEF Pipes!sender_end, Pipes!SenderCloses
  <2> QED
    BY <1>2, <1>5, <2>1
<1>9. CASE Pipes!sender_write
  <2>1. sender.buf # <<>>
    BY <1>9 DEF Pipes!sender_write, Pipes!MustWrite, Ending
  <2>2. CASE chan' = chan /\ sender' = [sender EXCEPT !.pc = "error"]
    BY <1>2, <1>5, <2>2
  <2> QED
    BY <1>7, <1>9, <2>1, <2>2 DEF Pipes!sender_write, Pipes!SenderCloses
<1> QED
  BY <1>6, <1>8, <1>9 DEF Pipes!SenderRuns

LEMMA ReaderFlow ==
    ASSUME Items, PipeTypes, FdsInv, Links, Ending, way = "command", Pipes!readvec \/ Pipes!next_item \/ Pipes!iter_end
    PROVE  Items'
<1>1. PICK taken \in [1 .. N + 1 -> Nat] : Flow(taken)
  BY DEF Items
<1>2. UNCHANGED <<prog, sender>> /\ DOMAIN reader = {"pc", "vec", "out"}
  BY DEF Pipes!readvec, Pipes!next_item, Pipes!iter_end, PipeTypes, FdTypes
<1>3. /\ chan = [c \in 1 .. N + 1 |-> chan[c]]
      /\ \A c \in 1 .. N + 1 : IsRun(chan[c], taken[c]) /\ taken[c] \in Nat /\ Len(chan[c]) \in Nat
      /\ {1, N + 1} \subseteq 1 .. N + 1 /\ N # 0
  BY <1>1, ChannelsTyped
<1>4. /\ IsRun(reader.out, 0) /\ IsRun(reader.vec, Len(reader.out))
      /\ Len(reader.out) + Len(reader.vec) = taken[N + 1] /\ Len(reader.out) \in Nat /\ Len(reader.vec) \in Nat
  BY <1>1, RunLen DEF Flow
<1>5. CASE chan' = chan /\ reader'.vec = reader.vec /\ reader'.out = reader.out
  BY <1>2, <1>5, StaysFlow
<1>6. CASE Pipes!next_item
  <2>1. /\ reader'.vec = Tail(reader.vec) /\ reader'.out = Append(reader.out, Head(reader.vec)) /\ chan' = chan
        /\ reader.vec # <<>>
    BY <1>2, <1>6 DEF Pipes!next_item, Pipes!Reading, Ending
  <2>2. /\ Head(reader.vec) = Len(reader.out) + 1 /\ IsRun(reader'.vec, Len(reader.out) + 1)
        /\ Len(reader'.vec) = Len(reader.vec) - 1
    <3>1. /\ Head(reader.vec) = Len(reader.out) + 1 /\ IsRun(Tail(reader.vec), Len(reader.out) + 1)
          /\ Len(Tail(reader.vec)) = Len(reader.vec) - 1
      BY <1>4, <2>1, RunTail
    <3> QED
      BY <2>1, <3>1
  <2>3. IsRun(reader'.out, 0) /\ Len(reader'.out) = Len(reader.out) + 1
    <3>1. Head(reader.vec) = 0 + Len(reader.out) + 1
      BY <1>4, <2>2
    <3>2. IsRun(Append(reader.out, Head(reader.vec)), 0) /\ Len(Append(reader.out, Head(reader.vec))) = Len(reader.out) + 1
      BY <1>4, <3>1, RunAppend
    <3> QED
      BY <2>1, <3>2
  <2>4. ASSUME NEW i \in Pipes!Progs PROVE ProgFlow(i, taken)'
    <3>1. ProgFlow(i, taken)
      BY <1>1 DEF Flow
    <3> QED
      BY <1>2, <2>1, <3>1, ReasonsStay, ProgFlowStays
  <2>5. Flow(taken)'
    BY <1>1, <1>2, <1>4, <2>1, <2>2, <2>3, <2>4 DEF Flow
  <2> QED
    BY <1>3, <2>1, <2>5 DEF Items
<1>7. ASSUME NEW to, chan[N + 1] # <<>>, chan' = [chan EXCEPT ![N + 1] = Tail(@)],
             reader' = [reader EXCEPT !.vec = Append(@, Head(chan[N + 1])), !.pc = to]
      PROVE  Items'
  <2>1. reader'.vec = Append(reader.vec, Head(chan[N + 1])) /\ reader'.out = reader.out
    BY <1>2, <1>7
  <2>2. /\ chan' = [d \in 1 .. N + 1 |-> chan'[d]] /\ chan'[N + 1] = Tail(chan[N + 1])
        /\ \A d \in (1 .. N + 1) \ {N + 1} : chan'[d] = chan[d]
    BY <1>3, <1>7
  <2>3. /\ Head(chan[N + 1]) = taken[N + 1] + 1
        /\ \E t \in [1 .. N + 1 -> Nat] :
             /\ t[N + 1] = taken[N + 1] + 1
             /\ \A d \in 1 .. N + 1 : IsRun(chan'[d], t[d]) /\ t[d] + Len(chan'[d]) = taken[d] + Len(chan[d])
             /\ \A d \in (1 .. N + 1) \ {N + 1} : t[d] = taken[d] /\ chan'[d] = chan[d]
    <3>1. chan = [c \in 1 .. N + 1 |-> chan[c]] /\ \A c \in 1 .. N + 1 : IsRun(chan[c], taken[c])
      BY <1>3
    <3>2. N + 1 \in 1 .. N + 1 /\ chan[N + 1] # <<>>
      BY <1>3, <1>7
    <3> QED
      BY <2>2, <3>1, <3>2, ReadMoves
  <2>4. PICK t \in [1 .. N + 1 -> Nat] :
             /\ t[N + 1] = taken[N + 1] + 1
             /\ \A d \in 1 .. N + 1 : IsRun(chan'[d], t[d]) /\ t[d] + Len(chan'[d]) = taken[d] + Len(chan[d])
             /\ \A d \in (1 .. N + 1) \ {N + 1} : t[d] = taken[d] /\ chan'[d] = chan[d]
    BY <2>3
  <2>5. IsRun(reader'.vec, Len(reader.out)) /\ Len(reader'.vec) = Len(reader.vec) + 1
    <3>1. Head(chan[N + 1]) = Len(reader.out) + Len(reader.vec) + 1
      BY <1>4, <2>3
    <3>2. /\ IsRun(Append(reader.vec, Head(chan[N + 1])), Len(reader.out))
          /\ Len(Append(reader.vec, Head(chan[N + 1]))) = Len(reader.vec) + 1
      BY <1>4, <3>1, RunAppend
    <3> QED
      BY <2>1, <3>2
  <2>6. ASSUME NEW i \in Pipes!Progs PROVE ProgFlow(i, t)'
    <3>1. ProgFlow(i, taken)
      BY <1>1 DEF Flow
    <3>2. i \in 1 .. N + 1 /\ i + 1 \in 1 .. N + 1 /\ i # N + 1
      BY Kinds DEF Pipes!Progs
    <3>3. t[i] = taken[i] /\ chan'[i] = chan[i] /\ t[i + 1] + Len(chan'[i + 1]) = taken[i + 1] + Len(chan[i + 1])
      BY <2>4, <3>2
    <3>4. (SomeFailed => SomeFailed') /\ (Fed(i) => Fed(i)')
      BY <1>2, ReasonsStay
    <3> QED
      BY <1>2, <3>1, <3>3, <3>4, ProgFlowStays
  <2>7. t[1] + Len(chan'[1]) = taken[1] + Len(chan[1])
    BY <1>3, <2>4
  <2>8. Flow(t)'
    BY <1>1, <1>2, <1>4, <2>1, <2>4, <2>5, <2>6, <2>7 DEF Flow
  <2> QED
    BY <2>2, <2>8 DEF Items
<1>8. CASE Pipes!iter_end
  BY <1>2, <1>5, <1>8 DEF Pipes!iter_end
<1>9. CASE Pipes!readvec
  <2>1. ASSUME NEW to, chan' = chan, reader' = [reader EXCEPT !.pc = to] PROVE Items'
    BY <1>2, <1>5, <2>1
  <2> QED
    BY <1>7, <1>9, <2>1 DEF Pipes!readvec
<1> QED
  BY <1>6, <1>8, <1>9

LEMMA DropFlow ==
    ASSUME Items, PipeTypes, Links, Ending, Pipes!drop
    PROVE  Items'
<1>1. PICK taken \in [1 .. N + 1 -> Nat] : Flow(taken)
  BY DEF Items
<1>2. /\ UNCHANGED <<chan, sender, reader>>
      /\ \A i \in Pipes!Progs : prog'[i] = IF Pipes!Lives(i) THEN Pipes!Dead(i, -9) ELSE prog[i]
  BY DEF Pipes!drop
<1>3. \A i \in Pipes!Progs : prog[i].st = "dead" => prog'[i] = prog[i]
  BY <1>2 DEF Pipes!Lives
<1>4. ASSUME NEW i \in Pipes!Progs PROVE ProgFlow(i, taken)'
  <2>1. CASE Pipes!Lives(i)
    BY <1>2, <2>1, DeadFlow
  <2>2. CASE ~Pipes!Lives(i)
    <3>1. ProgFlow(i, taken) /\ prog'[i] = prog[i]
      BY <1>1, <1>2, <2>2 DEF Flow
    <3>2. (SomeFailed => SomeFailed') /\ (Fed(i) => Fed(i)')
      BY <1>2, <1>3, ReasonsStay
    <3> QED
      BY <1>2, <3>1, <3>2, ProgFlowStays
  <2> QED
    BY <2>1, <2>2
<1> QED
  BY <1>1, <1>2, <1>4, OnlyProgs DEF Items

LEMMA StepItems ==
    ASSUME Items, PipeTypes, FdsInv, Links, Ending, way = "command", [Pipes!PipeNext]_pipeVars
    PROVE  Items'
<1>1. CASE Pipes!exec \/ UNCHANGED pipeVars
  BY <1>1, StaysFlow DEF Pipes!exec, Pipes!exec_pipes, Pipes!exec_socket, Pipes!exec_fds, Pipes!Build, pipeVars
<1>2. ASSUME NEW i \in Pipes!Progs, Pipes!ProgRuns(i) PROVE Items'
  BY <1>2, ExecChildFlow, ReadsFlow, WritesFlow, ExitFlow DEF Pipes!ProgRuns
<1> QED
  BY <1>1, <1>2, BuildFlow, SenderFlow, ReaderFlow, DropFlow
  DEF Pipes!PipeNext, Pipes!ParentRuns, Pipes!wait

LEMMA ProgRunsEnding ==
    ASSUME Items, PipeTypes, FdsInv, Links, Ending, way = "command", NEW i \in Pipes!Progs, Pipes!ProgRuns(i)
    PROVE  Ending'
<1>0. UNCHANGED <<at, sender, reader>> /\ prog[i].st \in {"forked", "runs"} /\ N + 1 # i /\ N \in Pipes!Progs
  <2>1. UNCHANGED <<at, sender, reader>> /\ prog[i].st \in {"forked", "runs"}
    BY DEF Pipes!ProgRuns, Pipes!exec_on_child, Pipes!prog_reads, Pipes!prog_writes, Pipes!prog_exits
  <2>2. N + 1 # i /\ N \in Pipes!Progs
    BY Kinds DEF Pipes!Progs
  <2> QED
    BY <2>1, <2>2
<1>1. at \notin {"gone", "failed"} /\ reader.pc # "end"
  BY <1>0 DEF Ending, Pipes!AllDead
<1>2. \A j \in Pipes!Progs \ {i} : prog'[j] = prog[j]
  BY DEF Pipes!ProgRuns, Pipes!exec_on_child, Pipes!prog_reads, Pipes!prog_writes, Pipes!prog_exits, PipeTypes, ProgTypes
<1>3. SomeFailed => SomeFailed'
  BY <1>0, <1>2, ReasonsStay
<1>4. PipeTypes' /\ FdsInv'
  BY ProgRunsKeepsFds
<1>5. prog'[i].st # "none" /\ (prog'[i].st = "dead" /\ prog'[i].status = -13 => SomeFailed)
  <2>1. DOMAIN prog[i] = ProgFields /\ prog = [j \in Pipes!Progs |-> prog[j]]
    BY DEF PipeTypes, ProgTypes
  <2>2. ASSUME NEW status, prog' = [prog EXCEPT ![i] = Pipes!Dead(i, status)]
        PROVE  prog'[i].st = "dead" /\ prog'[i].status = status
    BY <2>1, <2>2, DeadFields
  <2>a. ASSUME NEW status, status # -13, prog' = [prog EXCEPT ![i] = Pipes!Dead(i, status)]
        PROVE  prog'[i].st # "none" /\ (prog'[i].st = "dead" /\ prog'[i].status = -13 => SomeFailed)
    BY <2>2, <2>a
  <2>3. ASSUME NEW x, prog' = [prog EXCEPT ![i].item = x] PROVE prog'[i].st = prog[i].st
    BY <2>1, <2>3 DEF ProgFields
  <2>4. ASSUME NEW e, NEW o, prog' = [prog EXCEPT ![i].st = "runs", ![i].ends = e, ![i].others = o]
        PROVE  prog'[i].st = "runs"
    BY <2>1, <2>4 DEF ProgFields
  <2>5. CASE Pipes!exec_on_child(i)
    <3>1. CASE prog' = [prog EXCEPT ![i] = Pipes!Dead(i, 1)]
      <4>1. prog'[i].st = "dead" /\ prog'[i].status = 1
        BY <2>2, <3>1
      <4> QED
        BY <4>1
    <3>2. CASE ~(prog' = [prog EXCEPT ![i] = Pipes!Dead(i, 1)])
      BY <2>4, <2>5, <3>2 DEF Pipes!exec_on_child
    <3> QED
      BY <3>1, <3>2
  <2>6. CASE Pipes!prog_reads(i)
    BY <1>0, <2>3, <2>6 DEF Pipes!prog_reads
  <2>7. CASE Pipes!prog_exits(i)
    BY <2>7, <2>a DEF Pipes!prog_exits
  <2>8. CASE Pipes!prog_writes(i)
    <3>1. prog[i].st = "runs" /\ prog[i].ends[2].wr = i + 1 /\ i + 1 \in 1 .. N + 1 /\ i + 1 # 1 /\ (i + 1) - 1 = i /\ i + 1 # 0
      BY <2>8, Kinds DEF Pipes!prog_writes, Links, Linked, Pipes!Progs
    <3>2. CASE Pipes!Readers(i + 1)
      <4>1. prog' = [prog EXCEPT ![i].item = 0]
        BY <2>1, <2>8, <3>1, <3>2 DEF Pipes!prog_writes
      <4> QED
        BY <2>3, <3>1, <4>1
    <3>3. CASE ~Pipes!Readers(i + 1)
      <4>1. prog' = [prog EXCEPT ![i] = Pipes!Dead(i, -13)]
        BY <2>8, <3>1, <3>3 DEF Pipes!prog_writes
      <4>2. PICK taken \in [1 .. N + 1 -> Nat] : Flow(taken)
        BY DEF Items
      <4>3. SomeFailed
        BY <3>1, <3>3, <4>2, NobodyReads
      <4> QED
        BY <2>2, <4>1, <4>3
    <3> QED
      BY <3>2, <3>3
  <2> QED
    BY <2>5, <2>6, <2>7, <2>8 DEF Pipes!ProgRuns
<1>6. \A j \in Pipes!Progs : prog'[j].st = "dead" /\ prog'[j].status = -13 => SomeFailed'
  BY <1>2, <1>3, <1>5 DEF Ending
<1>7. reader.pc \in {"closed", "raised"} => chan'[N + 1] = <<>> /\ prog'[N].st = "dead"
  <2>1. ASSUME reader.pc \in {"closed", "raised"} PROVE chan'[N + 1] = <<>> /\ prog'[N].st = "dead"
    <3>1. chan[N + 1] = <<>> /\ prog[N].st = "dead" /\ i # N
      BY <1>0, <2>1 DEF Ending
    <3>2. i + 1 # N + 1
      BY <3>1, Kinds DEF Pipes!Progs
    <3>3. chan'[N + 1] = chan[N + 1]
      <4>1. prog[i].st = "runs" => prog[i].ends[1].rd = i /\ prog[i].ends[2].wr = i + 1
        BY DEF Links, Linked
      <4>2. chan = [c \in 1 .. N + 1 |-> chan[c]] /\ N + 1 \in 1 .. N + 1
        BY Kinds DEF Items
      <4> QED
        BY <1>0, <3>2, <4>1, <4>2
        DEF Pipes!ProgRuns, Pipes!exec_on_child, Pipes!prog_reads, Pipes!prog_writes, Pipes!prog_exits
    <3> QED
      BY <1>0, <1>2, <3>1, <3>3
  <2> QED
    BY <2>1
<1>8. at = "use" => \A j \in Pipes!Progs : prog'[j].st # "none"
  BY <1>2, <1>5 DEF Ending
<1> QED
  BY <1>0, <1>1, <1>3, <1>6, <1>7, <1>8 DEF Ending

LEMMA SenderEnding ==
    ASSUME Items, PipeTypes, FdsInv, Links, Ending, way = "command", Pipes!SenderRuns
    PROVE  Ending'
<1>1. PICK taken \in [1 .. N + 1 -> Nat] : Flow(taken)
  BY DEF Items
<1>2. /\ UNCHANGED <<prog, reader, at>> /\ sender.pc \in {"fill", "write"} /\ Pipes!Sending
      /\ DOMAIN sender = {"pc", "next", "buf"}
  BY DEF Pipes!SenderRuns, Pipes!sender_fill, Pipes!sender_write, Pipes!sender_end, Pipes!MustWrite, PipeTypes, FdTypes
<1>3. chan'[N + 1] = chan[N + 1]
  <2>1. chan = [c \in 1 .. N + 1 |-> chan[c]] /\ N + 1 \in 1 .. N + 1 /\ N + 1 # 1
    BY Kinds DEF Items
  <2> QED
    BY <2>1 DEF Pipes!SenderRuns, Pipes!sender_fill, Pipes!sender_write, Pipes!sender_end
<1>4. SomeFailed' <=> SomeFailed
  BY <1>2 DEF SomeFailed, Failed
<1>5. sender.next \in Nat /\ (sender.buf # <<>> /\ Len(sender.buf) # 1 => Tail(sender.buf) # <<>>)
  <2>1. IsRun(sender.buf, taken[1] + Len(chan[1])) /\ sender.next = taken[1] + Len(chan[1]) + Len(sender.buf) + 1
    BY <1>1 DEF Flow
  <2>2. taken[1] \in Nat /\ Len(chan[1]) \in Nat
    BY <1>1, ChannelsTyped
  <2>3. Len(sender.buf) \in Nat /\ taken[1] + Len(chan[1]) \in Nat
    BY <2>1, <2>2, RunLen
  <2>4. ASSUME sender.buf # <<>>, Len(sender.buf) # 1 PROVE Tail(sender.buf) # <<>>
    <3>1. IsRun(Tail(sender.buf), taken[1] + Len(chan[1]) + 1) /\ Len(Tail(sender.buf)) = Len(sender.buf) - 1
      BY <2>1, <2>3, <2>4, RunTail
    <3>2. Len(Tail(sender.buf)) # 0
      BY <2>3, <2>4, <3>1
    <3> QED
      BY <3>1, <3>2, RunLen
  <2> QED
    BY <2>1, <2>2, <2>3, <2>4
<1>6. ASSUME sender'.next <= MaxItems + 1, sender'.pc = "write" => sender'.buf # <<>>,
             sender'.pc = "end" => sender'.next = MaxItems + 1 /\ sender'.buf = <<>>,
             sender'.pc = "error" => SomeFailed
      PROVE  Ending'
  BY <1>2, <1>3, <1>4, <1>6 DEF Ending, Pipes!AllDead
<1>7. CASE Pipes!sender_fill
  <2>1. sender'.next = sender.next + 1 /\ sender'.pc = "fill" /\ sender.next <= MaxItems
    BY <1>2, <1>7 DEF Pipes!sender_fill
  <2> QED
    BY <1>5, <1>6, <2>1, Kinds
<1>8. CASE Pipes!sender_end
  <2>1. sender'.next = sender.next /\ sender'.pc = "end" /\ sender.next > MaxItems /\ sender'.buf = <<>>
    BY <1>2, <1>8 DEF Pipes!sender_end, Pipes!SenderCloses
  <2>2. sender.next <= MaxItems + 1
    BY DEF Ending
  <2> QED
    BY <1>5, <1>6, <2>1, <2>2, Kinds
<1>9. CASE Pipes!sender_write
  <2>1. sender.buf # <<>> /\ sender.next <= MaxItems + 1
    BY <1>9 DEF Pipes!sender_write, Pipes!MustWrite, Ending
  <2>2. ASSUME ~Pipes!Readers(1), sender' = [sender EXCEPT !.pc = "error"] PROVE Ending'
    <3>1. 1 \in 1 .. N + 1 /\ Keeps1
      BY <1>2, Kinds DEF Keeps1
    <3>2. SomeFailed
      BY <1>1, <1>2, <2>2, <3>1, NobodyReads
    <3> QED
      BY <1>2, <1>6, <2>1, <2>2, <3>2
  <2>3. ASSUME sender' = [sender EXCEPT !.buf = Tail(@), !.pc = IF Len(sender.buf) = 1 THEN "fill" ELSE "write"]
        PROVE  Ending'
    <3>1. sender'.next = sender.next /\ sender'.buf = Tail(sender.buf)
          /\ sender'.pc = IF Len(sender.buf) = 1 THEN "fill" ELSE "write"
      BY <1>2, <2>3
    <3>2. Len(sender.buf) # 1 => Tail(sender.buf) # <<>>
      BY <1>5, <2>1
    <3> QED
      BY <1>6, <2>1, <3>1, <3>2
  <2> QED
    BY <1>9, <2>2, <2>3 DEF Pipes!sender_write, Pipes!SenderCloses
<1> QED
  BY <1>7, <1>8, <1>9 DEF Pipes!SenderRuns

LEMMA ReaderEnding ==
    ASSUME Items, PipeTypes, FdsInv, Links, Ending, way = "command", Pipes!readvec \/ Pipes!next_item \/ Pipes!iter_end
    PROVE  Ending'
<1>1. PICK taken \in [1 .. N + 1 -> Nat] : Flow(taken)
  BY DEF Items
<1>2. UNCHANGED <<prog, sender, at>> /\ DOMAIN reader = {"pc", "vec", "out"} /\ at = "use"
  BY DEF Pipes!readvec, Pipes!next_item, Pipes!iter_end, Pipes!Reading, PipeTypes, FdTypes
<1>3. (SomeFailed' <=> SomeFailed) /\ (Pipes!AllDead' <=> Pipes!AllDead)
  BY <1>2 DEF SomeFailed, Failed, Pipes!AllDead
<1>4. ASSUME reader'.pc = "have" => reader'.vec # <<>>,
             reader'.pc \in {"closed", "end", "raised"} =>
               chan'[N + 1] = <<>> /\ reader'.vec = <<>> /\ prog[N].st = "dead",
             reader'.pc = "end" => ~SomeFailed /\ Pipes!AllDead
      PROVE  Ending'
  BY <1>2, <1>3, <1>4 DEF Ending
<1>5. CASE Pipes!iter_end
  <2>1. /\ reader.pc = "closed" /\ reader'.vec = reader.vec /\ chan' = chan
        /\ reader'.pc = IF \A i \in Pipes!Progs : prog[i].status \in {0, -13} THEN "end" ELSE "raised"
        /\ Pipes!AllDead
    BY <1>2, <1>5 DEF Pipes!iter_end, Pipes!Reading
  <2>2. chan[N + 1] = <<>> /\ reader.vec = <<>> /\ prog[N].st = "dead"
    BY <2>1 DEF Ending
  <2>3. reader'.pc = "end" => ~SomeFailed
    BY <2>1 DEF SomeFailed, Failed
  <2> QED
    BY <1>4, <2>1, <2>2, <2>3
<1>6. CASE Pipes!next_item
  <2>1. /\ reader.pc = "have" /\ reader'.vec = Tail(reader.vec) /\ reader.vec # <<>>
        /\ reader'.pc = IF Len(reader.vec) = 1 THEN "read" ELSE "have"
    BY <1>2, <1>6 DEF Pipes!next_item, Pipes!Reading, Ending
  <2>2. IsRun(reader.vec, Len(reader.out)) /\ Len(reader.out) \in Nat /\ Len(reader.vec) \in Nat
    BY <1>1, RunLen DEF Flow
  <2>3. IsRun(Tail(reader.vec), Len(reader.out) + 1) /\ Len(Tail(reader.vec)) = Len(reader.vec) - 1
    BY <2>1, <2>2, RunTail
  <2>4. ASSUME Len(reader.vec) # 1 PROVE Tail(reader.vec) # <<>>
    <3>1. Len(Tail(reader.vec)) # 0
      BY <2>2, <2>3, <2>4
    <3> QED
      BY <2>3, <3>1, RunLen
  <2> QED
    BY <1>4, <2>1, <2>4
<1>7. CASE Pipes!readvec
  <2>1. ASSUME NEW x, reader' = [reader EXCEPT !.vec = Append(@, x),
                                               !.pc = IF Len(reader.vec) + 1 = BufSize THEN "have" ELSE "read"],
               x = Head(chan[N + 1]), chan[N + 1] # <<>>
        PROVE  Ending'
    <3>1. reader'.vec = Append(reader.vec, x) /\ reader'.pc \in {"have", "read"}
      BY <1>2, <2>1
    <3>2. IsRun(reader.vec, Len(reader.out)) /\ Len(reader.out) + Len(reader.vec) = taken[N + 1]
          /\ Len(reader.out) \in Nat /\ Len(reader.vec) \in Nat
      BY <1>1, RunLen DEF Flow
    <3>3. IsRun(chan[N + 1], taken[N + 1]) /\ taken[N + 1] \in Nat
      BY <1>1, ChannelsTyped
    <3>4. x = taken[N + 1] + 1
      BY <2>1, <3>3, RunTail
    <3>5. x = Len(reader.out) + Len(reader.vec) + 1
      BY <3>2, <3>4
    <3>6. Append(reader.vec, x) # <<>>
      BY <3>2, <3>5, RunAppend
    <3> QED
      BY <1>4, <3>1, <3>6
  <2>2. ASSUME chan[N + 1] = <<>>, ~Pipes!Writers(N + 1), chan' = chan,
               reader' = [reader EXCEPT !.pc = IF reader.vec = <<>> THEN "closed" ELSE "have"]
        PROVE  Ending'
    <3>1. reader'.vec = reader.vec /\ reader'.pc = IF reader.vec = <<>> THEN "closed" ELSE "have"
      BY <1>2, <2>2
    <3>2. N + 1 \in 1 .. N + 1 /\ N + 1 # 1 /\ (N + 1) - 1 = N
      BY Kinds
    <3>3. prog[N].st = "dead"
      BY <1>2, <2>2, <3>2, NobodyWrites
    <3> QED
      BY <1>4, <2>2, <3>1, <3>3
  <2> QED
    BY <1>7, <2>1, <2>2 DEF Pipes!readvec
<1> QED
  BY <1>5, <1>6, <1>7

LEMMA DropEnding ==
    ASSUME PipeTypes, Ending, Links, Pipes!drop
    PROVE  Ending'
<1>1. /\ UNCHANGED <<chan, sender, reader>> /\ at = "use" /\ at' = "gone"
      /\ \A i \in Pipes!Progs : prog'[i] = IF Pipes!Lives(i) THEN Pipes!Dead(i, -9) ELSE prog[i]
  BY DEF Pipes!drop
<1>2. ASSUME NEW i \in Pipes!Progs
      PROVE  /\ prog'[i].st = "dead" /\ (prog[i].st = "dead" => prog'[i] = prog[i])
             /\ prog'[i].status = -13 => prog'[i] = prog[i] /\ prog[i].st = "dead"
  <2>1. CASE Pipes!Lives(i)
    <3>1. prog'[i].st = "dead" /\ prog'[i].status = -9
      BY <1>1, <2>1, DeadFields
    <3> QED
      BY <2>1, <3>1 DEF Pipes!Lives
  <2>2. CASE ~Pipes!Lives(i)
    <3>1. prog[i].st = "dead"
      BY <1>1, <2>2 DEF Pipes!Lives, Links, Linked, Ending
    <3> QED
      BY <1>1, <2>2, <3>1
  <2> QED
    BY <2>1, <2>2
<1>3. SomeFailed => SomeFailed'
  BY <1>1, <1>2, ReasonsStay
<1>4. Pipes!AllDead'
  BY <1>2 DEF Pipes!AllDead
<1>5. reader.pc = "end" => ~SomeFailed'
  BY <1>2 DEF Ending, Pipes!AllDead, SomeFailed, Failed
<1>6. \A i \in Pipes!Progs : prog'[i].st = "dead" /\ prog'[i].status = -13 => SomeFailed'
  BY <1>2, <1>3 DEF Ending
<1>7. prog'[N].st = "dead"
  BY <1>2, Kinds DEF Pipes!Progs
<1> QED
  BY <1>1, <1>3, <1>4, <1>5, <1>6, <1>7 DEF Ending

LEMMA BuildEnding ==
    ASSUME PipeTypes, FdsInv, Links, Ending, UNCHANGED <<chan, sender, reader>>,
           at \in {"exec", "build"}, at' \in {"build", "use", "failed"},
           at' = "use" => prog' = prog /\ Pipes!Todo = {},
           IF at' = "failed" THEN \A i \in Pipes!Progs : prog'[i] = Pipes!Dead(i, -9)
           ELSE \A i \in Pipes!Progs : prog'[i] = prog[i] \/ (prog[i].st = "none" /\ prog'[i].st = "forked")
    PROVE  Ending'
<1>1. sender.pc = "fill" /\ reader.pc = "read" /\ sender.next <= MaxItems + 1
  BY DEF FdsInv, Ending
<1>2. CASE at' = "failed"
  <2>1. ASSUME NEW i \in Pipes!Progs PROVE prog'[i].st = "dead" /\ prog'[i].status = -9
    BY <1>2, DeadFields
  <2> QED
    BY <1>1, <1>2, <2>1 DEF Ending, Pipes!AllDead
<1>3. CASE at' # "failed"
  <2>1. \A i \in Pipes!Progs : prog[i].st = "dead" => prog'[i] = prog[i]
    BY <1>3
  <2>2. SomeFailed => SomeFailed'
    BY <2>1, ReasonsStay
  <2>3. \A i \in Pipes!Progs : prog'[i].st = "dead" => prog'[i] = prog[i]
    BY <1>3
  <2>4. \A i \in Pipes!Progs : prog'[i].st = "dead" /\ prog'[i].status = -13 => SomeFailed'
    BY <2>2, <2>3 DEF Ending
  <2>5. at' = "use" => \A i \in Pipes!Progs : prog'[i].st # "none"
    BY DEF Pipes!Todo
  <2> QED
    BY <1>1, <1>3, <2>4, <2>5 DEF Ending
<1> QED
  BY <1>2, <1>3

LEMMA StepEnding ==
    ASSUME Items, PipeTypes, FdsInv, Links, Ending, way = "command", [Pipes!PipeNext]_pipeVars
    PROVE  Ending'
<1>1. CASE Pipes!exec
  BY <1>1, BuildEnding DEF Pipes!exec, Pipes!exec_pipes, Pipes!exec_socket, Pipes!exec_fds, Pipes!Build
<1>2. CASE Pipes!build_return
  BY <1>2, BuildEnding DEF Pipes!build_return
<1>3. CASE Pipes!build_fails
  <2>1. /\ UNCHANGED <<chan, sender, reader>> /\ at = "build" /\ at' = "failed"
        /\ \A i \in Pipes!Progs : prog'[i] = Pipes!Dead(i, -9)
    BY <1>3 DEF Pipes!build_fails
  <2> QED
    BY <2>1, BuildEnding
<1>4. CASE Pipes!build_next
  <2>1. PICK i : i = Pipes!Last
    OBVIOUS
  <2>2. PICK e, o : prog' = [prog EXCEPT ![i] = [Pipes!NoProg EXCEPT !.st = "forked", !.ends = e, !.others = o]]
    BY <1>4, <2>1, Zenon DEF Pipes!build_next, Pipes!Start
  <2>3. i \in Pipes!Progs /\ prog[i].st = "none"
    <3>1. i \in Pipes!Todo
      BY <1>4, <2>1, LastTodo DEF Pipes!build_next, Pipes!Start, FdsInv
    <3> QED
      BY <3>1 DEF Pipes!Todo
  <2> DEFINE r == [Pipes!NoProg EXCEPT !.st = "forked", !.ends = e, !.others = o]
  <2>4. r.st = "forked" /\ prog' = [prog EXCEPT ![i] = r]
    BY <2>2, NoProgFields DEF ProgFields
  <2> HIDE DEF r
  <2>5. \A j \in Pipes!Progs : prog'[j] = prog[j] \/ (prog[j].st = "none" /\ prog'[j].st = "forked")
    BY <2>3, <2>4 DEF PipeTypes, ProgTypes
  <2>6. UNCHANGED <<at, chan, sender, reader>> /\ at = "build"
    BY <1>4 DEF Pipes!build_next, Pipes!Start
  <2> QED
    BY <2>5, <2>6, BuildEnding
<1>5. CASE UNCHANGED pipeVars
  BY <1>5 DEF pipeVars, Ending, SomeFailed, Failed, Pipes!AllDead
<1> QED
  BY <1>1, <1>2, <1>3, <1>4, <1>5, ProgRunsEnding, SenderEnding, ReaderEnding, DropEnding
  DEF Pipes!PipeNext, Pipes!ParentRuns, Pipes!wait
-----------------------------------------------------------------------------
LEMMA InitFlow == Pipes!PipeInit => Items /\ Links /\ Ending /\ Unread
<1> SUFFICES ASSUME Pipes!PipeInit PROVE Items /\ Links /\ Ending /\ Unread
  OBVIOUS
<1>1. /\ at = "exec" /\ chan = [c \in 1 .. N + 1 |-> <<>>] /\ prog = [i \in Pipes!Progs |-> Pipes!NoProg]
      /\ sender = [pc |-> "fill", next |-> 1, buf |-> <<>>] /\ reader = [pc |-> "read", vec |-> <<>>, out |-> <<>>]
  BY DEF Pipes!PipeInit
<1>2. \A i \in Pipes!Progs : prog[i].st = "none" /\ prog[i].item = 0
  BY <1>1, NoProgFields
<1>3. Links
  BY <1>1, <1>2 DEF Links, ParentLinks, Linked
<1>4. Ending
  BY <1>1, <1>2, Kinds DEF Ending
<1>5. PICK taken : taken = [c \in 1 .. N + 1 |-> 0]
  OBVIOUS
<1>6. taken \in [1 .. N + 1 -> Nat]
  BY <1>5
<1>7. \A c \in 1 .. N + 1 : taken[c] = 0 /\ chan[c] = <<>> /\ Len(chan[c]) = 0
  BY <1>1, <1>5
<1>8. ASSUME NEW i \in Pipes!Progs PROVE ProgFlow(i, taken)
  <2>1. i \in 1 .. N + 1 /\ i + 1 \in 1 .. N + 1
    BY Kinds DEF Pipes!Progs
  <2>2. taken[i] = taken[i + 1] + Len(chan[i + 1]) + 0
    BY <1>7, <2>1
  <2> QED
    BY <1>2, <2>2 DEF ProgFlow, Over
<1>9. Flow(taken)
  <2>1. 1 \in 1 .. N + 1 /\ N + 1 \in 1 .. N + 1
    BY Kinds
  <2>2. /\ sender.next = 1 /\ sender.buf = <<>> /\ reader.out = <<>> /\ reader.vec = <<>>
        /\ Len(sender.buf) = 0 /\ Len(reader.out) = 0 /\ Len(reader.vec) = 0
    BY <1>1
  <2>3. sender.next = taken[1] + Len(chan[1]) + Len(sender.buf) + 1 /\ Len(reader.out) + Len(reader.vec) = taken[N + 1]
    BY <1>7, <2>1, <2>2
  <2>4. \A c \in 1 .. N + 1 : IsRun(chan[c], taken[c])
    BY <1>7, RunEmpty
  <2> QED
    BY <1>8, <2>2, <2>3, <2>4, RunEmpty DEF Flow
<1>10. Items
  BY <1>1, <1>6, <1>9 DEF Items
<1> QED
  BY <1>1, <1>3, <1>4, <1>10 DEF Unread

LEMMA StepPipeInv == PipeInv /\ [Pipes!PipeNext]_pipeVars => PipeInv'
<1> SUFFICES ASSUME PipeInv, [Pipes!PipeNext]_pipeVars PROVE PipeInv'
  OBVIOUS
<1>1. PipeTypes' /\ FdsInv'
  BY StepFdsInv DEF PipeInv
<1>2. way' = way
  BY DEF pipeVars, Pipes!PipeNext, Pipes!ParentRuns, Pipes!SenderRuns, Pipes!ProgRuns, Pipes!exec, Pipes!exec_pipes,
         Pipes!exec_socket, Pipes!exec_fds, Pipes!Build, Pipes!build_next, Pipes!Start, Pipes!build_return,
         Pipes!build_fails, Pipes!readvec, Pipes!next_item, Pipes!iter_end, Pipes!drop, Pipes!wait,
         Pipes!sender_fill, Pipes!sender_write, Pipes!sender_end, Pipes!exec_on_child, Pipes!prog_reads,
         Pipes!prog_writes, Pipes!prog_exits
<1>3. CASE way = "command"
  <2>1. Items' /\ Links' /\ Ending'
    BY <1>3, StepItems, StepLinks, StepEnding DEF PipeInv, FlowInv
  <2> QED
    BY <1>1, <1>2, <1>3, <2>1 DEF PipeInv, FlowInv
<1>4. CASE way # "command"
  <2>1. reader' = reader
    BY <1>4
    DEF pipeVars, Pipes!PipeNext, Pipes!ParentRuns, Pipes!SenderRuns, Pipes!ProgRuns, Pipes!exec, Pipes!exec_pipes,
        Pipes!exec_socket, Pipes!exec_fds, Pipes!Build, Pipes!build_next, Pipes!Start, Pipes!build_return,
        Pipes!build_fails, Pipes!readvec, Pipes!next_item, Pipes!iter_end, Pipes!Reading, Pipes!drop, Pipes!wait,
        Pipes!sender_fill, Pipes!sender_write, Pipes!sender_end, Pipes!Sending, Pipes!exec_on_child,
        Pipes!prog_reads, Pipes!prog_writes, Pipes!prog_exits
  <2> QED
    BY <1>1, <1>2, <1>4, <2>1 DEF PipeInv, Unread
<1> QED
  BY <1>3, <1>4

LEMMA InitPipeInv == Pipes!PipeInit => PipeInv
BY InitFdsInv, InitFlow DEF PipeInv, FlowInv

\* What was read is a run that begins with 1; and when nobody has failed, the last program has come
\* to its end, and what it has passed on is everything.
LEMMA FlowSuffices == PipeInv => Pipes!PipedInOrder
<1> SUFFICES ASSUME PipeInv PROVE Pipes!PipedInOrder
  OBVIOUS
<1>1. CASE way # "command"
  <2>1. reader.pc = "read" /\ reader.vec = <<>> /\ reader.out = <<>>
    BY <1>1 DEF PipeInv, Unread
  <2>2. <<>> \o <<>> = [k \in 1 .. Len(<<>>) + Len(<<>>) |-> k]
    OBVIOUS
  <2> QED
    BY <2>1, <2>2 DEF Pipes!PipedInOrder
<1>2. CASE way = "command"
  <2>1. PICK taken \in [1 .. N + 1 -> Nat] : Flow(taken)
    BY <1>2 DEF PipeInv, FlowInv, Items
  <2>2. /\ IsRun(reader.out, 0) /\ IsRun(reader.vec, Len(reader.out))
        /\ Len(reader.out) + Len(reader.vec) = taken[N + 1]
    BY <2>1 DEF Flow
  <2> DEFINE out == reader.out  vec == reader.vec  m == Len(reader.out)  n == Len(reader.vec)
  <2>3. m \in Nat /\ n \in Nat /\ out \in Seq(Nat) /\ vec \in Seq(Nat) /\ m = Len(out) /\ n = Len(vec)
    BY <2>2, RunLen
  <2>4. (\A k \in 1 .. m : out[k] = k) /\ (\A k \in 1 .. n : vec[k] = m + k)
    BY <2>2 DEF IsRun
  <2>5. out \o vec = [k \in 1 .. m + n |-> k]
    <3> HIDE DEF out, vec, m, n
    <3>1. out \o vec \in Seq(Nat) /\ Len(out \o vec) = m + n
      BY <2>3
    <3>2. ASSUME NEW k \in 1 .. m + n PROVE (out \o vec)[k] = k
      <4>1. CASE k <= m
        <5>1. k \in 1 .. m /\ (out \o vec)[k] = out[k]
          BY <2>3, <4>1
        <5> QED
          BY <2>4, <5>1
      <4>2. CASE ~(k <= m)
        <5>1. k - m \in 1 .. n /\ (out \o vec)[k] = vec[k - m] /\ m + (k - m) = k
          BY <2>3, <4>2
        <5> QED
          BY <2>4, <5>1
      <4> QED
        BY <4>1, <4>2
    <3>3. PICK s : s = out \o vec
      OBVIOUS
    <3>4. s \in Seq(Nat) /\ Len(s) = m + n /\ \A k \in 1 .. m + n : s[k] = k
      BY <3>1, <3>2, <3>3
    <3>5. s = [k \in 1 .. m + n |-> k]
      BY <3>4
    <3> QED
      BY <3>3, <3>5
  <2>6. ASSUME reader.pc = "end" PROVE out = [k \in 1 .. MaxItems |-> k]
    <3>1. ~SomeFailed /\ chan[N + 1] = <<>> /\ vec = <<>> /\ prog[N].st = "dead" /\ N \in Pipes!Progs
      BY <1>2, <2>6, Kinds DEF PipeInv, FlowInv, Ending, Pipes!Progs
    <3>2. Over(N)
      BY <1>2, <3>1, DeadForAReason DEF PipeInv, FlowInv
    <3>3. ProgFlow(N, taken) /\ prog[N].item = 0
      BY <1>2, <2>1, <3>1 DEF Flow, PipeInv, FlowInv, Links, Linked
    <3>4. taken[N] = MaxItems /\ taken[N] = taken[N + 1] + Len(chan[N + 1]) + 0
      BY <3>1, <3>2, <3>3 DEF ProgFlow
    <3>5. Len(chan[N + 1]) = 0 /\ n = 0 /\ taken[N + 1] \in Nat
      <4>1. N + 1 \in 1 .. N + 1
        BY Kinds
      <4> QED
        BY <3>1, <4>1
    <3>6. m = MaxItems
      BY <2>2, <2>3, <3>4, <3>5
    <3> HIDE DEF vec, n
    <3>7. out = [k \in 1 .. m |-> 0 + k] /\ \A k \in 1 .. m : 0 + k = k
      BY <2>2, <2>3 DEF IsRun
    <3> QED
      BY <3>6, <3>7
  <2> QED
    BY <2>5, <2>6 DEF Pipes!PipedInOrder
<1> QED
  BY <1>1, <1>2
-----------------------------------------------------------------------------
(* A pipeline by itself, and the three properties of MCProcs: each step of *)
(* MCProcs is one of the signal thread, of Proc, or of a pipeline.         *)

PipeSpec == Pipes!PipeInit /\ [][Pipes!PipeNext]_pipeVars

LEMMA PipeInvariant == PipeSpec => []PipeInv
BY InitPipeInv, StepPipeInv, PTL DEF PipeSpec

\* A pipeline of any number of programs, of which any may fail, started in each of the three ways,
\* closes every descriptor it opened or was given, none twice, and none that is not its own.
THEOREM PipelineClosesItsFds == PipeSpec => []Pipes!FdsAreClosed
<1>1. PipeInv => Pipes!FdsAreClosed
  BY FdsInvSuffices DEF PipeInv
<1> QED
  BY <1>1, PipeInvariant, PTL

\* What is read at the end of a pipeline is a first part of what was sent, in order; and all of it
\* when the reader sees the end of file and no exception, as then no program has failed.
THEOREM PipelineKeepsOrder == PipeSpec => []Pipes!PipedInOrder
BY FlowSuffices, PipeInvariant, PTL

MCProcsInv == SignalInv /\ ProcInv /\ KillHitsOwnChild /\ PipeInv

LEMMA StepMCProcs == MCProcsInv /\ [MCNext]_mcVars => MCProcsInv'
<1> SUFFICES ASSUME MCProcsInv, [MCNext]_mcVars PROVE MCProcsInv'
  OBVIOUS
<1>1. SignalInv /\ ProcInv /\ KillHitsOwnChild /\ PipeInv
  BY DEF MCProcsInv
<1>2. ProcAssumption /\ SignalAssumption
  BY ProcsAssumption DEF ProcAssumption
<1>3. UNCHANGED startVars => ProcInv' /\ KillHitsOwnChild'
  BY <1>1 DEF startVars, procVars, hist, waits, ProcInv, Fields, InStart, Ended, NotReaped, Managed, KillHitsOwnChild
<1>4. UNCHANGED pipeVars => PipeInv'
  BY <1>1, StepPipeInv
<1>5. CASE SignalNext /\ UNCHANGED <<startVars, pipeVars>>
  <2>1. [SignalMoves]_signalVars
    BY <1>2, <1>5 DEF SignalAssumption, SignalNext, SignalMoves, Remask
  <2> QED
    BY <1>1, <1>3, <1>4, <1>5, <2>1, StepSignalInv DEF MCProcsInv
<1>6. CASE Next /\ UNCHANGED pipeVars
  <2>1. SignalInv'
    BY <1>1, <1>2, <1>6, NextSignals, StepSignalInv
  <2> QED
    BY <1>1, <1>4, <1>6, <2>1, StepProcInv, KillKeeps DEF MCProcsInv
<1>7. CASE Pipes!PipeNext /\ UNCHANGED vars
  <2>1. SignalInv'
    BY <1>1, <1>7, StepSignalInv DEF vars
  <2>2. PipeInv'
    BY <1>1, <1>7, StepPipeInv
  <2> QED
    BY <1>3, <1>7, <2>1, <2>2 DEF MCProcsInv, vars, startVars
<1>8. CASE UNCHANGED mcVars
  <2>1. SignalInv'
    BY <1>1, <1>8, StepSignalInv DEF mcVars, vars
  <2> QED
    BY <1>3, <1>4, <1>8, <2>1 DEF MCProcsInv, mcVars, vars, startVars
<1> QED
  BY <1>5, <1>6, <1>7, <1>8 DEF MCNext

LEMMA MCProcsInvariant == MCSpec => []MCProcsInv
<1>1. MCInit => MCProcsInv
  BY InitSignalInv, InitProcInv, InitPipeInv DEF MCInit, MCProcsInv, Init, ProcInit, KillHitsOwnChild
<1> QED
  BY <1>1, StepMCProcs, PTL DEF MCSpec

\* SignalOnce of the run `procs`: by itself and under waitprocs, a signal that was sent is pending,
\* kept by the mask, or about to be handled, and no handler is called twice for it.
THEOREM SignalsOnce == MCSpec => []SignalOnce
<1>1. MCProcsInv => SignalOnce
  BY DEF MCProcsInv, SignalInv, SignalOnce
<1> QED
  BY <1>1, MCProcsInvariant, PTL

\* FinishAfterStart of the run `procs`: on_finish is called once, after on_start, of a child that
\* was reaped, whoever looked for it; and nobody sleeps in wait for a proc that is over.
THEOREM FinishesAfterStart == MCSpec => []FinishAfterStart
<1>1. MCProcsInv => FinishAfterStart
  BY ProcInvSuffices DEF MCProcsInv, FinishAfterStart
<1> QED
  BY <1>1, MCProcsInvariant, PTL

\* OnlyItsOwn of the run `procs`: kill hits the child, and a pipeline its own descriptors; what is
\* read from it was sent to it, whole and in order.
THEOREM OnlyItsOwnIsTouched == MCSpec => []OnlyItsOwn
<1>1. MCProcsInv => OnlyItsOwn
  BY FdsInvSuffices, FlowSuffices DEF MCProcsInv, PipeInv, OnlyItsOwn
<1> QED
  BY <1>1, MCProcsInvariant, PTL
=============================================================================
