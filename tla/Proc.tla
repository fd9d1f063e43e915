-------------------------------- MODULE Proc --------------------------------
(***************************************************************************)
(* c7signal.cpp: all signals are blocked in all threads; one thread takes  *)
(* them with sigwait and calls the handlers.  block, unblock and setmask   *)
(* change a mask of the library's own: a masked signal that was taken is   *)
(* kept in blocked_mask_ and sent again by the call that unmasks it.       *)
(*                                                                         *)
(* c7proc.cpp: child processes, one thread of the program for each proc    *)
(* that starts it, one that waits for it, and the signal thread, whose     *)
(* SIGCHLD handler waitprocs looks at every registered proc.               *)
(*                                                                         *)
(* start holds the lock of the proc from RUNNING until it has looked for a *)
(* child that is dead already, which guard_finish may delay at will.  That *)
(* look takes the proc out of procs_ without the lock of procs_: waitprocs *)
(* may stand on it, and then goes on from an iterator that is not valid    *)
(* any more: to a proc it has still to visit, to the end, or to a crash.   *)
(***************************************************************************)
EXTENDS Naturals, FiniteSets

CONSTANTS
    Sigs,   \* the signals
    Masks,  \* the sets of signals given to block, unblock and setmask
    MaxSent \* bound: how often each signal is sent

SignalAssumption == Masks \subseteq SUBSET Sigs /\ MaxSent \in Nat

VARIABLES
    pending,       \* the kernel's pending signals
    user_mask,     \* user_mask_
    blocked_mask,  \* blocked_mask_
    loop,          \* where the signal thread is, and with which signal
    tally          \* history: how often each signal was sent and handled, and whether it
                   \* is due: sent, or kept, since it was last taken

signalVars == <<pending, user_mask, blocked_mask, loop, tally>>

Idle == <<"wait", "none">>

SignalTypeOK ==
    /\ pending \subseteq Sigs
    /\ tally \in [Sigs -> [sent : Nat, handled : Nat, due : BOOLEAN]]
    /\ user_mask \subseteq Sigs /\ blocked_mask \subseteq Sigs
    /\ loop \in {Idle} \cup ({"got", "handler"} \X Sigs)

SignalInit ==
    /\ pending = {}
    /\ tally = [s \in Sigs |-> [sent |-> 0, handled |-> 0, due |-> FALSE]]
    /\ user_mask = {} /\ blocked_mask = {}
    /\ loop = Idle
-----------------------------------------------------------------------------
\* The kernel keeps one instance of a pending signal.
send(s) ==
    /\ pending' = pending \cup {s}
    /\ tally' = [tally EXCEPT ![s] = [sent |-> tally[s].sent + 1, handled |-> tally[s].handled, due |-> TRUE]]

sigwait ==
    /\ loop = Idle
    /\ \E s \in pending :
        /\ pending' = pending \ {s}
        /\ loop' = <<"got", s>>
        /\ tally' = [tally EXCEPT ![s].due = FALSE]
    /\ UNCHANGED <<user_mask, blocked_mask>>

\* With lock_: the signal is kept, or its handler is called after the unlock.
loop_masked ==
    /\ loop[1] = "got" /\ loop[2] \in user_mask
    /\ blocked_mask' = blocked_mask \cup {loop[2]}
    /\ loop' = Idle
    /\ tally' = [tally EXCEPT ![loop[2]].due = TRUE]
    /\ UNCHANGED <<pending, user_mask>>

loop_handle ==
    /\ loop[1] = "got" /\ loop[2] \notin user_mask
    /\ loop' = <<"handler", loop[2]>>
    /\ tally' = [tally EXCEPT ![loop[2]].handled = tally[loop[2]].handled + 1]
    /\ UNCHANGED <<pending, user_mask, blocked_mask>>

handled ==
    /\ loop[1] = "handler"
    /\ loop' = Idle
    /\ UNCHANGED <<pending, user_mask, blocked_mask, tally>>

check_blocked_keep(mask) ==    \* mutant: the signal stays in blocked_mask_
    /\ pending' = pending \cup (blocked_mask \ mask)
    /\ blocked_mask' = blocked_mask

\* check_blocked: what was kept and is not masked any more is sent again.
check_blocked(mask) ==
    /\ pending' = pending \cup (blocked_mask \ mask)
    /\ blocked_mask' = blocked_mask \cap mask

block(m) ==
    /\ user_mask' = user_mask \cup m
    /\ UNCHANGED <<pending, blocked_mask, loop, tally>>

unblock(m) ==
    /\ user_mask' = user_mask \ m
    /\ check_blocked(user_mask')
    /\ UNCHANGED <<loop, tally>>

setmask(m) ==
    /\ user_mask' = m
    /\ check_blocked(m)
    /\ UNCHANGED <<loop, tally>>
-----------------------------------------------------------------------------
SignalThread == sigwait \/ loop_masked \/ loop_handle \/ handled

SignalNext ==
    \/ SignalThread
    \/ \E s \in Sigs : tally[s].sent < MaxSent /\ send(s) /\ UNCHANGED <<user_mask, blocked_mask, loop>>
    \/ \E m \in Masks : block(m) \/ unblock(m) \/ setmask(m)

SignalSpec == SignalInit /\ [][SignalNext]_signalVars
-----------------------------------------------------------------------------
(* Properties                                                              *)

\* A signal that is due is on its way to the signal thread: pending, or kept.  What is kept
\* is masked: nothing is left behind by an unmask.
SignalNotLost ==
    /\ \A s \in Sigs : tally[s].due => s \in pending \cup blocked_mask
    /\ blocked_mask \subseteq user_mask

\* A signal is not handled more often than it was sent: what is pending, kept and in the
\* hands of the signal thread are different instances of it.
SignalNotRepeated ==
    \A s \in Sigs :
        LET in(places) == IF s \in places THEN 1 ELSE 0
        IN  tally[s].handled + in(pending) + in(blocked_mask)
              + (IF loop = <<"got", s>> THEN 1 ELSE 0) <= tally[s].sent
-----------------------------------------------------------------------------
(* Child processes                                                         *)

CONSTANT Procs   \* the proc objects

ProcAssumption == SignalAssumption /\ "CHLD" \in Sigs

VARIABLES
    program,  \* what the program does, chosen once
    state,    \* state_ of each proc
    child,    \* its child process
    byte,     \* byte[p]: an error number is in the pipe of start
    pc,       \* pc[p]: where start, or manage, of proc p is
    cv,       \* cv[p]: who holds cv_ of proc p
    procs,    \* procs_
    todo,     \* the procs waitprocs has still to visit, the one at its iterator apart
    cur,      \* the set with the proc at the iterator of waitprocs, {} outside
    waiting,  \* the procs with a thread in wait()
    parked,   \* those of them that sleep
    iter,     \* the iterator of waitprocs was always "valid", was "lost", has "crashed" the program
    started,  \* history: the procs for which on_start was called
    finished, \* history: finished[p]: calls of on_finish
    stray     \* history: kill was sent to a pid that was not that of the child

procVars == <<state, child, byte, pc, cv, procs>>
scan     == <<todo, cur, iter>>
waits    == <<waiting, parked>>
hist     == <<started, finished, stray>>
vars     == <<program, signalVars, procVars, scan, waits, hist>>

\* A program gives some procs a running child (manage_external), the exec of some may fail, and
\* it may mask and unmask SIGCHLD.
Programs == [managed : SUBSET Procs, fail : SUBSET Procs, mask : BOOLEAN]
Managed  == program.managed
MayFail  == program.fail

States == {"IDLE", "FAILED", "RUNNING", "OVER"}    \* OVER: EXIT or KILLED
Places == {"idle", "read", "check", "lock", "insert", "start", "try", "done"}

TypeOK ==
    /\ SignalTypeOK
    /\ program \in Programs
    /\ state \in [Procs -> States]
    /\ child \in [Procs -> {"none", "forked", "running", "zombie", "reaped"}]
    /\ byte \in [Procs -> BOOLEAN]
    /\ pc \in [Procs -> Places]
    /\ cv \in [Procs -> {"free", "start"}]
    /\ procs \subseteq Procs /\ todo \subseteq Procs
    /\ cur \in {{}} \cup {{p} : p \in Procs}
    /\ parked \subseteq waiting /\ waiting \subseteq Procs
    /\ iter \in {"valid", "lost", "crashed"} /\ stray \in BOOLEAN
    /\ started \subseteq Procs
    /\ finished \in [Procs -> Nat]
    /\ \A p \in procs : state[p] = "RUNNING" /\ child[p] \in {"running", "zombie"}

ProcInit ==
    /\ program \in Programs
    /\ state = [p \in Procs |-> "IDLE"]
    /\ child = [p \in Procs |-> IF p \in Managed THEN "running" ELSE "none"]
    /\ byte = [p \in Procs |-> FALSE]
    /\ pc = [p \in Procs |-> "idle"]
    /\ cv = [p \in Procs |-> "free"]
    /\ procs = {} /\ todo = {} /\ cur = {} /\ iter = "valid"
    /\ waiting = {} /\ parked = {}
    /\ started = {} /\ finished = [p \in Procs |-> 0] /\ stray = FALSE

Init == SignalInit /\ ProcInit
-----------------------------------------------------------------------------
(* the children                                                            *)

child_execs(p) ==
    /\ child[p] = "forked"
    /\ child' = [child EXCEPT ![p] = "running"]
    /\ UNCHANGED <<signalVars, state, byte, pc, cv, procs, scan, waits, hist>>

\* preexec or execvp fails, and the child sends errno; or it is killed before.
child_fails(p) ==
    /\ p \in MayFail /\ child[p] = "forked"
    /\ child' = [child EXCEPT ![p] = "zombie"]
    /\ \E sent \in BOOLEAN : byte' = [byte EXCEPT ![p] = sent]
    /\ send("CHLD")
    /\ UNCHANGED <<user_mask, blocked_mask, loop, state, pc, cv, procs, scan, waits, hist>>

child_exits(p) ==
    /\ child[p] = "running"
    /\ child' = [child EXCEPT ![p] = "zombie"]
    /\ send("CHLD")
    /\ UNCHANGED <<user_mask, blocked_mask, loop, state, byte, pc, cv, procs, scan, waits, hist>>
-----------------------------------------------------------------------------
(* start and manage                                                        *)

Goto(p, place) == pc' = [pc EXCEPT ![p] = place]

fork(p) ==
    /\ p \notin Managed
    /\ pc[p] = "idle" /\ state[p] = "IDLE"
    /\ child' = [child EXCEPT ![p] = "forked"]
    /\ Goto(p, "read")
    /\ UNCHANGED <<signalVars, state, byte, cv, procs, scan, waits, hist>>

fork_failed(p) ==
    /\ p \in MayFail \ Managed
    /\ pc[p] = "idle" /\ state[p] = "IDLE"
    /\ state' = [state EXCEPT ![p] = "FAILED"]
    /\ Goto(p, "done")
    /\ UNCHANGED <<signalVars, child, byte, cv, procs, scan, waits, hist>>

Fails(p) ==
    /\ child' = [child EXCEPT ![p] = "reaped"]
    /\ state' = [state EXCEPT ![p] = "FAILED"]
    /\ Goto(p, "done")

\* read() of the pipe ends when the child has executed its program, or is dead.
read_pipe(p) ==
    /\ pc[p] = "read" /\ child[p] # "forked"
    /\ IF byte[p] THEN Fails(p) ELSE Goto(p, "check") /\ UNCHANGED <<child, state>>
    /\ UNCHANGED <<signalVars, byte, cv, procs, scan, waits, hist>>

check_exited(p) ==
    /\ pc[p] = "check"
    /\ IF child[p] = "zombie" THEN Fails(p) ELSE Goto(p, "lock") /\ UNCHANGED <<child, state>>
    /\ UNCHANGED <<signalVars, byte, cv, procs, scan, waits, hist>>

set_running_unlocked(p) == \* mutant: start does not lock the proc
    /\ IF p \in Managed THEN pc[p] = "idle" ELSE pc[p] = "lock"
    /\ state' = [state EXCEPT ![p] = "RUNNING"]
    /\ Goto(p, "insert")
    /\ UNCHANGED <<signalVars, child, byte, cv, procs, scan, waits, hist>>

set_running(p) ==
    /\ IF p \in Managed THEN pc[p] = "idle" ELSE pc[p] = "lock"
    /\ cv' = [cv EXCEPT ![p] = "start"]
    /\ state' = [state EXCEPT ![p] = "RUNNING"]
    /\ Goto(p, "insert")
    /\ UNCHANGED <<signalVars, child, byte, procs, scan, waits, hist>>

insert(p) ==
    /\ pc[p] = "insert"
    /\ loop[1] # "handler"                     \* procs_mutex_
    /\ procs' = procs \cup {p}
    /\ Goto(p, IF p \in Managed THEN "try" ELSE "start")
    /\ UNCHANGED <<signalVars, state, child, byte, cv, scan, waits, hist>>

call_on_start(p) ==
    /\ pc[p] = "start"
    /\ started' = started \cup {p}
    /\ Goto(p, "try")
    /\ UNCHANGED <<signalVars, state, child, byte, cv, procs, scan, waits, finished, stray>>

start_try_wait_never(p) == \* mutant: start does not look for a child that is dead already
    /\ pc[p] = "try"
    /\ cv' = [cv EXCEPT ![p] = "free"]
    /\ Goto(p, "done")
    /\ UNCHANGED <<signalVars, state, child, byte, procs, scan, waits, hist>>

\* try_wait_raw(false), which notifies nobody, and the unlock.
start_try_wait(p) ==
    /\ pc[p] = "try"
    /\ IF child[p] = "zombie"
       THEN /\ child' = [child EXCEPT ![p] = "reaped"]
            /\ state' = [state EXCEPT ![p] = "OVER"]
            /\ procs' = procs \ {p}
            /\ todo' = todo \ {p}
            /\ finished' = [finished EXCEPT ![p] = finished[p] + 1]
       ELSE UNCHANGED <<child, state, procs, todo, finished>>
    /\ cv' = [cv EXCEPT ![p] = "free"]
    /\ Goto(p, "done")
    /\ UNCHANGED <<signalVars, byte, cur, iter, waits, started, stray>>

Free(p) == cv[p] = "free"

\* kill: only while the lock is held and the child is not reaped.
kill_anyway(p) ==          \* mutant: the state is not looked at
    /\ Free(p)
    /\ pc[p] = "done" /\ state[p] # "FAILED"
    /\ stray' = (stray \/ child[p] = "reaped")
    /\ child' = IF child[p] = "running" THEN [child EXCEPT ![p] = "zombie"] ELSE child
    /\ IF child[p] = "running" THEN send("CHLD") ELSE UNCHANGED <<pending, tally>>
    /\ UNCHANGED <<user_mask, blocked_mask, loop, state, byte, pc, cv, procs, scan, waits, started, finished>>

kill(p) ==
    /\ Free(p)
    /\ pc[p] = "done" /\ state[p] \notin {"FAILED", "OVER"}
    /\ stray' = (stray \/ child[p] = "reaped")
    /\ child' = IF child[p] = "running" THEN [child EXCEPT ![p] = "zombie"] ELSE child
    /\ IF child[p] = "running" THEN send("CHLD") ELSE UNCHANGED <<pending, tally>>
    /\ UNCHANGED <<user_mask, blocked_mask, loop, state, byte, pc, cv, procs, scan, waits, started, finished>>
-----------------------------------------------------------------------------
(* wait                                                                    *)

wait_call(p) ==
    /\ p \notin waiting
    /\ waiting' = waiting \cup {p}
    /\ UNCHANGED <<signalVars, procVars, scan, parked, hist>>

wait(p) ==
    /\ p \in waiting \ parked /\ Free(p)
    /\ IF state[p] = "RUNNING"
       THEN parked' = parked \cup {p} /\ UNCHANGED waiting
       ELSE waiting' = waiting \ {p} /\ UNCHANGED parked
    /\ UNCHANGED <<signalVars, procVars, scan, hist>>
-----------------------------------------------------------------------------
(* waitprocs, in the signal thread                                         *)

\* To the first of what is to do, or to the end.
Step(rest) ==
    \/ \E p \in rest : cur' = {p} /\ todo' = rest \ {p} /\ UNCHANGED loop
    \/ rest = {} /\ cur' = {} /\ todo' = {} /\ loop' = Idle

waitprocs ==
    /\ loop[1] = "handler" /\ cur = {}
    /\ UNCHANGED <<pending, user_mask, blocked_mask, tally, iter, procVars, waits, hist>>
    /\ Step(procs)

\* The child is dead: the proc is over, and erased by waitprocs.
try_wait(p) ==
    /\ p \in procs /\ child[p] = "zombie"
    /\ child' = [child EXCEPT ![p] = "reaped"]
    /\ state' = [state EXCEPT ![p] = "OVER"]
    /\ procs' = procs \ {p}
    /\ finished' = [finished EXCEPT ![p] = finished[p] + 1]
    /\ parked' = parked \ {p}
    /\ UNCHANGED <<waiting, iter>>
    /\ Step(todo)

\* waitpid says no: on to the next, from an iterator that may not be valid any more.
try_wait_not(p) ==
    /\ p \in procs => child[p] # "zombie"
    /\ UNCHANGED <<child, state, procs, finished, waits>>
    /\ \/ p \in procs /\ UNCHANGED iter /\ Step(todo)
       \/ p \notin procs /\ iter' = "lost" /\ (Step(todo) \/ Step({}))
       \/ p \notin procs /\ iter' = "crashed" /\ UNCHANGED <<todo, cur, loop>>

visit(p) ==
    /\ loop[1] = "handler" /\ cur = {p}
    /\ Free(p)
    /\ try_wait(p) \/ try_wait_not(p)
    /\ UNCHANGED <<pending, user_mask, blocked_mask, tally, byte, pc, cv, started, stray>>
-----------------------------------------------------------------------------
Alive == iter # "crashed"

StartThread(p) ==
    \/ read_pipe(p) \/ check_exited(p) \/ (pc[p] = "lock" /\ set_running(p))
    \/ insert(p) \/ call_on_start(p) \/ start_try_wait(p)

Handler == waitprocs \/ \E p \in Procs : visit(p)
Loop    == (sigwait \/ loop_masked \/ loop_handle) /\ UNCHANGED <<procVars, scan, waits, hist>>

Next ==
    /\ Alive
    /\ \/ \E p \in Procs :
            \/ child_execs(p) \/ child_fails(p) \/ child_exits(p)
            \/ fork(p) \/ fork_failed(p) \/ (p \in Managed /\ set_running(p))
            \/ StartThread(p) \/ kill(p) \/ wait_call(p) \/ wait(p)
       \/ Handler \/ Loop
       \/ /\ program.mask /\ (block({"CHLD"}) \/ unblock({"CHLD"}))
          /\ UNCHANGED <<procVars, scan, waits, hist>>
    /\ UNCHANGED program

Spec == Init /\ [][Next]_vars
-----------------------------------------------------------------------------
(* Properties                                                              *)

\* on_finish is called once, after on_start, when the child was reaped: what the lock that
\* start takes before RUNNING is for (304-305).
FinishOnce ==
    \A p \in Procs :
        /\ finished[p] = (IF state[p] = "OVER" THEN 1 ELSE 0)
        /\ finished[p] > 0 => p \in started \cup Managed /\ child[p] = "reaped"

\* kill sends its signal to the child of the proc and never to a process that got its
\* number after it was reaped.
KillHitsOwnChild == ~stray

\* Who sleeps in wait() sleeps for a child that was not reaped, or whose end he is still
\* to be told of by the thread that reaped it.
WaitersAreWoken ==
    \A p \in parked : state[p] = "RUNNING"

\* However the end of a child, the start of its proc and the signal fall together, the
\* proc does not stay RUNNING (318-322), nor its waiters asleep.
ExitIsSeen ==
    \A p \in Procs :
        (child[p] = "zombie" /\ state[p] = "RUNNING") ~> (state[p] = "OVER" \/ iter # "valid")

WaitReturns ==
    \A p \in Procs : (p \in waiting /\ state[p] = "OVER") ~> (p \notin waiting \/ ~Alive)

\* Violated.  waitprocs goes on from a proc that is still in procs_ ("range-for DON'T work
\* well with erase", 160).
IteratorIsValid == iter = "valid"
=============================================================================
