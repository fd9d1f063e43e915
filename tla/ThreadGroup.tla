---------------------------- MODULE ThreadGroup ----------------------------
(***************************************************************************)
(* c7thread/thread.cpp: threads that are started, joined and reused by     *)
(* other threads of the program.  start and join hold the lock of cv_;     *)
(* exit_ is written and read without it.  cv_ is notified at each change   *)
(* of state_, so that a wait on it is a step that waits for its condition. *)
(*                                                                         *)
(* c7thread/group.cpp: threads that are added to a group start together    *)
(* and are waited for together.  monitor() hooks on_start and on_finish    *)
(* into the delegates of the thread and starts it, all under the lock of   *)
(* the group; the new thread waits in on_start for the flag.               *)
(***************************************************************************)
EXTENDS Integers, CondVar

CONSTANTS
    Ths,       \* the thread objects
    Callers,   \* the threads of the program that use them
    Hurried,   \* those who call join with a timeout
    MayFail,   \* the threads whose pthread_create may fail
    MayThrow,  \* the threads whose finalize or on_finish may throw
    MayReuse   \* reuse is called, once the thread was joined

ThreadAssumption ==
    /\ Ths \cap Callers = {}
    /\ Hurried \subseteq Callers
    /\ MayFail \subseteq Ths /\ MayThrow \subseteq Ths
    /\ MayReuse \in BOOLEAN

VARIABLES
    state,     \* state_
    exit,      \* exit_
    pc,        \* pc[t]: where the new thread is in thread()
    op,        \* op[c]: the call caller c is in, and with which thread
    finalized, \* history: calls of finalize_
    joined     \* history: the threads that a join returned true for

threadVars == <<state, exit, pc, finalized>>
callVars   == <<op, joined>>

States  == {"IDLE", "STARTING", "START_FAILED", "RUNNING", "FINISHED"}
Exits   == {"NA_IDLE", "NA_RUNNING", "EXIT", "ABORT", "CRASH"}
Places  == {"none", "entry", "begin", "on_start", "target", "finalize", "on_finish", "leave", "done"}
Idle    == <<"idle", "">>

ThreadTypeOK ==
    /\ state \in [Ths -> States]
    /\ exit \in [Ths -> Exits]
    /\ pc \in [Ths -> Places]
    /\ op \in [Callers -> {Idle} \cup ({"start", "join"} \X Ths)]
    /\ finalized \in [Ths -> Nat]
    /\ \A t \in Ths :
         /\ pc[t] = "none" <=> state[t] \in {"IDLE", "START_FAILED"}
         /\ pc[t] = "done" <=> state[t] = "FINISHED"
    /\ joined \subseteq Ths

ThreadInit ==
    /\ state = [t \in Ths |-> "IDLE"]
    /\ exit = [t \in Ths |-> "NA_IDLE"]
    /\ pc = [t \in Ths |-> "none"]
    /\ op = [c \in Callers |-> Idle]
    /\ finalized = [t \in Ths |-> 0]
    /\ joined = {}
-----------------------------------------------------------------------------
(* start and join                                                          *)

Enters(c, call, t) == op[c] = Idle /\ op' = [op EXCEPT ![c] = <<call, t>>]
Returns(c)         == op' = [op EXCEPT ![c] = Idle]

start_create(c, t) ==
    /\ state[t] = "IDLE"
    /\ state' = [state EXCEPT ![t] = "STARTING"]
    /\ pc' = [pc EXCEPT ![t] = "entry"]
    /\ Enters(c, "start", t)
    /\ UNCHANGED <<exit, finalized, joined>>

start_failed(c, t) ==         \* pthread_create fails
    /\ op[c] = Idle /\ t \in MayFail
    /\ state[t] = "IDLE"
    /\ state' = [state EXCEPT ![t] = "START_FAILED"]
    /\ finalized' = [finalized EXCEPT ![t] = finalized[t] + 1]
    /\ UNCHANGED <<exit, pc, callVars>>

start_return(c, t) ==
    /\ op[c] = <<"start", t>>
    /\ state[t] # "STARTING"
    /\ Returns(c)
    /\ UNCHANGED <<threadVars, joined>>

\* join of a thread that is IDLE returns false at once.
join(c, t) ==
    /\ state[t] # "IDLE"
    /\ Enters(c, "join", t)
    /\ UNCHANGED <<threadVars, joined>>

join_return_status(c, t) ==   \* mutant: join looks at exit_ instead of state_
    /\ op[c] = <<"join", t>>
    /\ exit[t] \notin {"NA_IDLE", "NA_RUNNING"}
    /\ Returns(c)
    /\ joined' = joined \cup {t}
    /\ UNCHANGED threadVars

join_return(c, t) ==
    /\ op[c] = <<"join", t>>
    /\ state[t] = "FINISHED"
    /\ Returns(c)
    /\ joined' = joined \cup {t}
    /\ UNCHANGED threadVars

join_timeout(c, t) ==
    /\ op[c] = <<"join", t>> /\ c \in Hurried
    /\ Returns(c)
    /\ UNCHANGED <<threadVars, joined>>

\* reuse looks at exit_ alone: NA_IDLE is left as it is, NA_RUNNING is refused by an
\* exception, and otherwise the object gets a new impl.  The callers reuse what was joined.
reuse(c, t) ==
    /\ op[c] = Idle
    /\ MayReuse /\ t \in joined /\ \A d \in Callers : op[d][2] # t
    /\ exit[t] \notin {"NA_IDLE", "NA_RUNNING"}
    /\ state' = [state EXCEPT ![t] = "IDLE"]
    /\ exit' = [exit EXCEPT ![t] = "NA_IDLE"]
    /\ pc' = [pc EXCEPT ![t] = "none"]
    /\ finalized' = [finalized EXCEPT ![t] = 0]
    /\ joined' = joined \ {t}
    /\ UNCHANGED op
-----------------------------------------------------------------------------
(* thread(), in the new thread                                             *)

At(t, place)       == pc[t] = place
Go(t, place)       == pc' = [pc EXCEPT ![t] = place]
Ends(t, e, place)  == exit' = [exit EXCEPT ![t] = e] /\ Go(t, place)

run(t) ==
    /\ At(t, "entry")
    /\ state[t] = "STARTING"
    /\ state' = [state EXCEPT ![t] = "RUNNING"]
    /\ Go(t, "begin")
    /\ UNCHANGED <<exit, finalized, callVars>>

begin(t) ==
    /\ At(t, "begin")
    /\ Ends(t, "NA_RUNNING", "on_start")
    /\ UNCHANGED <<state, finalized, callVars>>

\* The delegate on_start_ may exit or abort, as target_ may.
on_start(t) ==
    /\ At(t, "on_start")
    /\ \/ Go(t, "target") /\ UNCHANGED exit
       \/ \E e \in {"EXIT", "ABORT", "CRASH"} : Ends(t, e, "finalize")
    /\ UNCHANGED <<state, finalized, callVars>>

target(t) ==
    /\ At(t, "target")
    /\ \E e \in {"EXIT", "ABORT", "CRASH"} : Ends(t, e, "finalize")
    /\ UNCHANGED <<state, finalized, callVars>>

finalize(t) ==
    /\ At(t, "finalize")
    /\ finalized' = [finalized EXCEPT ![t] = finalized[t] + 1]
    /\ \/ Go(t, "on_finish") /\ UNCHANGED exit
       \/ t \in MayThrow /\ Ends(t, "CRASH", "leave")
    /\ UNCHANGED <<state, callVars>>

on_finish(t) ==
    /\ At(t, "on_finish")
    /\ \/ Go(t, "leave") /\ UNCHANGED exit
       \/ t \in MayThrow /\ Ends(t, "CRASH", "leave")
    /\ UNCHANGED <<state, finalized, callVars>>

finish(t) ==
    /\ At(t, "leave")
    /\ state' = [state EXCEPT ![t] = "FINISHED"]
    /\ Go(t, "done")
    /\ UNCHANGED <<exit, finalized, callVars>>
-----------------------------------------------------------------------------
thread(t) == run(t) \/ begin(t) \/ on_start(t) \/ target(t) \/ finalize(t) \/ on_finish(t) \/ finish(t)

InCall(c, t) == start_return(c, t) \/ join_return(c, t) \/ join_timeout(c, t)

Next ==
    \/ \E t \in Ths : thread(t)
    \/ \E c \in Callers, t \in Ths :
         start_create(c, t) \/ start_failed(c, t) \/ join(c, t) \/ reuse(c, t) \/ InCall(c, t)

vars == <<threadVars, callVars>>

Spec == ThreadInit /\ [][Next]_vars

\* Threads run, and the functions they are given return.
FairSpec ==
    /\ Spec
    /\ \A t \in Ths : WF_vars(thread(t))
    /\ \A c \in Callers, t \in Ths : WF_vars(InCall(c, t))
-----------------------------------------------------------------------------
(* Properties                                                              *)

\* A join that returned true means that all is over: target, finalize and on_finish have
\* been called, and the status is final.
JoinMeansOver ==
    \A t \in joined : pc[t] = "done" /\ finalized[t] = 1 /\ exit[t] \in {"EXIT", "ABORT", "CRASH"}

\* finalize is called exactly once, whether the thread ran or could not be started.
FinalizedOnce ==
    \A t \in Ths :
        /\ finalized[t] <= 1
        /\ state[t] \in {"FINISHED", "START_FAILED"} => finalized[t] = 1

\* start and join return, unless the thread could not be started: a join of a START_FAILED
\* thread waits for a state it never gets.
CallsReturn ==
    \A c \in Callers : []<>(op[c] = Idle \/ state[op[c][2]] = "START_FAILED")
-----------------------------------------------------------------------------
(* Groups                                                                  *)

CONSTANTS
    AnyThrows   \* the threads for which on_any_finish throws

ThreadGroupAssumption ==
    /\ Threads = Ths \cup Callers /\ Timed = {}
    /\ AnyThrows \subseteq Ths

VARIABLES
    flag,        \* flag_
    unfinished,  \* unfinished_
    adding,      \* the caller in monitor(), who holds the lock while the thread starts: a set
    members,     \* the threads hooked by monitor
    gop,         \* gop[c]: caller c is in wait()
    ran,         \* history: the threads whose target was run
    begun,       \* history: start() was called ("ok"), or a thread could not be added before ("broken")
    alls         \* history: calls of on_all_finish

groupVars == <<flag, unfinished, adding, members, gop, ran, begun, alls>>
gvars     == <<threadVars, callVars, cvVars, groupVars>>

GroupTypeOK ==
    /\ ThreadTypeOK
    /\ CondVarTypeOK
    /\ flag \in {"WAIT", "START", "ABORT"}
    /\ unfinished \in 0 .. Cardinality(Ths)
    /\ adding \subseteq Callers /\ Cardinality(adding) <= 1
    /\ members \subseteq Ths
    /\ gop \in [Callers -> {"idle", "wait"}]
    /\ ran \subseteq Ths
    /\ begun \in {"no", "ok", "broken"}
    /\ alls \in Nat

GroupInit ==
    /\ ThreadInit
    /\ CondVarInit
    /\ flag = "WAIT"
    /\ unfinished = 0
    /\ adding = {}
    /\ members = {}
    /\ gop = [c \in Callers |-> "idle"]
    /\ ran = {} /\ begun = "no" /\ alls = 0
-----------------------------------------------------------------------------
Unlocked == adding = {}
Breaks   == begun' = IF begun = "no" THEN "broken" ELSE begun
Free(c)  == op[c] = Idle /\ gop[c] = "idle"

add_failed_on(c, t) ==        \* mutant: the failure is returned, but the group goes on
    /\ Free(c) /\ Unlocked /\ t \notin members
    /\ flag # "ABORT"
    /\ start_failed(c, t)
    /\ members' = members \cup {t}
    /\ Breaks
    /\ UNCHANGED <<cvVars, flag, unfinished, adding, gop, ran, alls>>

\* monitor: up to the wait in th.start(), or to its return.  A thread is added once.
add_failed(c, t) ==
    /\ Free(c) /\ Unlocked /\ t \notin members
    /\ flag # "ABORT"
    /\ start_failed(c, t)
    /\ flag' = "ABORT"
    /\ notify_all
    /\ members' = members \cup {t}
    /\ Breaks
    /\ UNCHANGED <<unfinished, adding, gop, ran, alls>>

add_started(c, t) ==
    /\ Free(c) /\ Unlocked /\ t \notin members
    /\ flag # "ABORT"
    /\ start_create(c, t)
    /\ adding' = {c}
    /\ members' = members \cup {t}
    /\ UNCHANGED <<cvVars, flag, unfinished, gop, ran, begun, alls>>

add_return_uncounted(c, t) == \* mutant: the new thread is not counted
    /\ start_return(c, t)
    /\ adding' = {}
    /\ UNCHANGED <<cvVars, flag, unfinished, members, gop, ran, begun, alls>>

add_return(c, t) ==
    /\ start_return(c, t)
    /\ unfinished' = unfinished + 1
    /\ adding' = {}
    /\ UNCHANGED <<cvVars, flag, members, gop, ran, begun, alls>>

start ==
    /\ Unlocked
    /\ flag = "WAIT"
    /\ flag' = "START"
    /\ begun' = IF begun = "no" THEN "ok" ELSE begun
    /\ notify_all
    /\ UNCHANGED <<threadVars, callVars, unfinished, adding, members, gop, ran, alls>>

wait_group(c) ==
    /\ Free(c)
    /\ gop' = [gop EXCEPT ![c] = "wait"]
    /\ UNCHANGED <<threadVars, callVars, cvVars, flag, unfinished, adding, members, ran, begun, alls>>

wait_park(c) ==
    /\ gop[c] = "wait" /\ Awake(c) /\ Unlocked
    /\ unfinished # 0
    /\ wait(c)
    /\ UNCHANGED <<threadVars, callVars, groupVars>>

wait_return(c) ==
    /\ gop[c] = "wait" /\ Awake(c) /\ Unlocked
    /\ unfinished = 0
    /\ gop' = [gop EXCEPT ![c] = "idle"]
    /\ UNCHANGED <<threadVars, callVars, cvVars, flag, unfinished, adding, members, ran, begun, alls>>
-----------------------------------------------------------------------------
(* what the threads of the group do in their delegates                     *)

hook_wait(t) ==
    /\ At(t, "on_start") /\ Awake(t) /\ Unlocked
    /\ flag = "WAIT"
    /\ wait(t)
    /\ UNCHANGED <<threadVars, callVars, groupVars>>

hook_start(t) ==
    /\ At(t, "on_start") /\ Awake(t) /\ Unlocked
    /\ flag # "WAIT"
    /\ IF flag = "ABORT"
       THEN Ends(t, "ABORT", "finalize") /\ UNCHANGED ran
       ELSE Go(t, "target") /\ ran' = ran \cup {t} /\ UNCHANGED exit
    /\ UNCHANGED <<state, finalized, callVars, cvVars, flag, unfinished, adding, members, gop, begun, alls>>

hook_finish_start(t) ==       \* mutant: only a group that was started is told
    /\ At(t, "on_finish") /\ Unlocked
    /\ unfinished' = unfinished - 1
    /\ t \notin AnyThrows
    /\ Go(t, "leave") /\ UNCHANGED exit
    /\ alls' = IF unfinished' = 0 /\ flag = "START" THEN alls + 1 ELSE alls
    /\ IF unfinished' = 0 /\ flag = "START" THEN notify_all ELSE UNCHANGED cvVars
    /\ UNCHANGED <<state, finalized, callVars, flag, adding, members, gop, ran, begun>>

hook_finish_early(t) ==       \* mutant: on_all_finish as soon as a thread finishes
    /\ At(t, "on_finish") /\ Unlocked
    /\ unfinished' = unfinished - 1
    /\ Go(t, "leave") /\ UNCHANGED exit
    /\ alls' = IF flag = "START" THEN alls + 1 ELSE alls
    /\ IF unfinished' = 0 THEN notify_all ELSE UNCHANGED cvVars
    /\ UNCHANGED <<state, finalized, callVars, flag, adding, members, gop, ran, begun>>

\* on_any_finish may throw: then the rest of on_finish is skipped.
hook_finish(t) ==
    /\ At(t, "on_finish") /\ Unlocked
    /\ unfinished' = unfinished - 1
    /\ IF flag = "START" /\ t \in AnyThrows
       THEN Ends(t, "CRASH", "leave") /\ UNCHANGED <<alls, cvVars>>
       ELSE /\ Go(t, "leave") /\ UNCHANGED exit
            /\ alls' = IF unfinished' = 0 /\ flag = "START" THEN alls + 1 ELSE alls
            /\ IF unfinished' = 0 THEN notify_all ELSE UNCHANGED cvVars
    /\ UNCHANGED <<state, finalized, callVars, flag, adding, members, gop, ran, begun>>
-----------------------------------------------------------------------------
member(t) ==
    \/ (run(t) \/ begin(t) \/ target(t) \/ finalize(t) \/ finish(t)) /\ UNCHANGED <<cvVars, groupVars>>
    \/ hook_wait(t) \/ hook_start(t) \/ hook_finish(t)

GroupCall(c) == wait_park(c) \/ wait_return(c) \/ \E t \in Ths : add_return(c, t)

GroupNext ==
    \/ start
    \/ \E t \in Ths : member(t)
    \/ \E t \in Threads : WakeUp(t) /\ UNCHANGED <<threadVars, callVars, groupVars>>
    \/ \E c \in Callers : wait_group(c) \/ GroupCall(c) \/ \E t \in Ths : add_failed(c, t) \/ add_started(c, t)

GroupSpec == GroupInit /\ [][GroupNext]_gvars

-----------------------------------------------------------------------------
(* Properties                                                              *)

\* All or nothing: a group of which a thread could not be started before start() runs no
\* target at all, and in no group a target runs before start().
AllOrNothing == ran # {} => begun = "ok"

\* unfinished_ is the number of the threads of the group that are still on their way: wait
\* does not return before the last of them has called its on_finish.
UnfinishedCounts ==
    Unlocked => unfinished = Cardinality({t \in members : pc[t] \notin {"none", "leave", "done"}})

\* A wait for a group that was started or aborted returns: nobody is left on the condition
\* variable, neither a thread in on_start nor a caller.
GroupWaitReturns == \A c \in Callers : ~<>[](gop[c] = "wait" /\ flag # "WAIT")

\* Nobody sleeps in the group who could go on.
GroupNoLostWakeup ==
    /\ flag # "WAIT" => parked \cap Ths = {}
    /\ unfinished = 0 => parked \cap Callers = {}
=============================================================================
