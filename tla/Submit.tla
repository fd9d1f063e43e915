------------------------------- MODULE Submit -------------------------------
(***************************************************************************)
(* submit.cpp and submit() of monitor.cpp: the provider is made by the     *)
(* first thread that needs it, under the lock of the monitor and a mutex   *)
(* of make_and_manage, and found under its key by the others; a submitted  *)
(* function may submit another one.  A program may call submit() in some   *)
(* threads and make_and_manage in others; these take the two locks in      *)
(* opposite orders.                                                        *)
(***************************************************************************)
EXTENDS EventQueue

CONSTANTS
    Users     \* the threads that submit, beside Loop

Loop == -1
None == 0

VARIABLES
    direct,  \* by thread: it calls make_and_manage, and not submit() of the monitor
    key,     \* keyprvdic_[manage_key]: a provider was managed
    made,    \* the providers made
    once,    \* submit(): the static submitter is "no", being made by a thread, or "made"
    sp,      \* by thread its provider: its own when direct, or that of the static submitter
    holder,  \* of the monitor's lock_
    m,       \* of the mutex of make_and_manage
    pc,      \* of each thread
    ran      \* history: items in the order in which they ran

submitVars == <<queueVars, direct, key, made, once, sp, holder, m, pc, ran>>

SubmitAssumption == QueueAssumption /\ Users \subseteq Nat \ {0}

SubmitInit ==
    /\ QueueInit /\ direct \in [Users -> BOOLEAN]
    /\ key \in {None, 1} /\ made = key      \* or the program has made and managed one before
    /\ once = None /\ sp = [t \in Users |-> None]
    /\ holder = None /\ m = None /\ pc = [t \in Users |-> "idle"] /\ ran = <<>>

Goto(t, from, to) == pc[t] = from /\ pc' = [pc EXCEPT ![t] = to]
MayLock(t)        == holder \in {None, t}

\* The thread knows a provider, or the static submitter does.
Knows(t) == sp[t] # None

start(t) ==
    /\ ~Knows(t) /\ Goto(t, "idle", IF direct[t] THEN "make_and_manage" ELSE "submitter")
    /\ UNCHANGED <<queueVars, direct, key, made, once, sp, holder, m, ran>>

\* What t found or made is its own, or that of the submitter, which all have who call submit().
Gets(t, p) == sp' = [u \in Users |-> IF u = t \/ ~(direct[t] \/ direct[u]) THEN p ELSE sp[u]]

\* The constructor of the static submitter runs once, the other threads wait for its end.
submitter(t) ==
    /\ once = None /\ once' = t /\ holder = None /\ holder' = t
    /\ Goto(t, "submitter", "find")
    /\ UNCHANGED <<queueVars, direct, key, made, sp, m, ran>>

\* Mutant of find: the constructor of the submitter keeps the monitor's lock.
find_locked(t) ==
    /\ MayLock(t)
    /\ IF key # None
       THEN Gets(t, key) /\ UNCHANGED holder /\ Goto(t, "find", "idle")
       ELSE Goto(t, "find", "make_and_manage") /\ UNCHANGED <<sp, holder>>
    /\ UNCHANGED <<queueVars, direct, key, made, once, m, ran>>

find(t) ==
    /\ MayLock(t)
    /\ IF key # None
       THEN Gets(t, key) /\ holder' = None /\ Goto(t, "find", "idle")
       ELSE Goto(t, "find", "make_and_manage") /\ UNCHANGED <<sp, holder>>
    /\ UNCHANGED <<queueVars, direct, key, made, once, m, ran>>

make_and_manage(t) ==
    /\ m = None /\ m' = t /\ Goto(t, "make_and_manage", "find_again")
    /\ UNCHANGED <<queueVars, direct, key, made, once, sp, holder, ran>>

\* What make_and_manage returned is the thread's, or the submitter's, which gives the lock back.
Returned(t, p) ==
    /\ Gets(t, p) /\ holder' = (IF direct[t] THEN holder ELSE None) /\ m' = None

find_again(t) ==
    /\ MayLock(t)
    /\ IF key # None
       THEN Returned(t, key) /\ Goto(t, "find_again", "idle")
       ELSE Goto(t, "find_again", "manage") /\ UNCHANGED <<sp, holder, m>>
    /\ UNCHANGED <<queueVars, direct, key, made, once, ran>>

\* make, and manage with the key: EEXIST when a provider has it.
manage(t) ==
    /\ MayLock(t) /\ made' = made + 1
    /\ IF key = None
       THEN key' = made' /\ Returned(t, made') /\ Goto(t, "manage", "idle")
       ELSE Returned(t, None) /\ Goto(t, "manage", "refused") /\ UNCHANGED key
    /\ UNCHANGED <<queueVars, direct, once, ran>>

submit(t) ==
    /\ Knows(t) /\ pc[t] = "idle" /\ put(t, [by |-> t, again |-> t = 1])
    /\ UNCHANGED <<direct, key, made, once, sp, holder, m, pc, ran>>

waited(t) ==
    /\ Knows(t) /\ Goto(t, "submitter", "idle")
    /\ UNCHANGED <<queueVars, direct, key, made, once, sp, holder, m, ran>>

write_(t) == write(t) /\ UNCHANGED <<direct, key, made, once, sp, holder, m, pc, ran>>

\* The loop: on_event, and the function that was submitted.
on_event == Loop \notin putting /\ read /\ UNCHANGED <<direct, key, made, once, sp, holder, m, pc, ran>>
run ==
    /\ Loop \notin putting /\ take /\ ran' = Append(ran, Head(que))
    /\ UNCHANGED <<direct, key, made, once, sp, holder, m, pc>>
run_nothing == Loop \notin putting /\ take_nothing /\ UNCHANGED <<direct, key, made, once, sp, holder, m, pc, ran>>
run_submits ==
    /\ ran # <<>> /\ ran[Len(ran)].again /\ [by |-> Loop, again |-> FALSE] \notin {order[n] : n \in DOMAIN order}
    /\ put(Loop, [by |-> Loop, again |-> FALSE])
    /\ UNCHANGED <<direct, key, made, once, sp, holder, m, pc, ran>>

LoopSteps == write_(Loop) \/ on_event \/ run \/ run_nothing
UserSteps(t) == \/ start(t) \/ submitter(t) \/ find(t) \/ make_and_manage(t) \/ find_again(t)
                \/ manage(t) \/ waited(t) \/ write_(t)
SubmitNext == LoopSteps \/ run_submits \/ \E t \in Users : UserSteps(t) \/ submit(t)
SubmitFairness == WF_submitVars(LoopSteps) /\ \A t \in Users : WF_submitVars(UserSteps(t))

\* Each waits for the other's lock, for ever: t, which makes the static submitter, has lock_ and wants
\* the mutex of make_and_manage; u, which has called make_and_manage itself, has it and wants lock_.
Waits(t, u) == holder = t /\ pc[t] = "make_and_manage" /\ m = u /\ pc[u] \in {"find_again", "manage"}
Crossed == \E t, u \in Users : Waits(t, u)

\* One provider is made and everybody gets it, and what is submitted runs once, in the order of the
\* puts; none is missing when the eventfd says that there is one.  Two threads may stop each other
\* only when one calls submit() and the other make_and_manage, and while no provider is managed.
RunOnce ==
    /\ QueueCovers /\ made <= 1 /\ (\A t \in Users : sp[t] \in {None, 1} /\ pc[t] # "refused")
    /\ ran = SubSeq(order, 1, taken)
    /\ \A t, u \in Users : Waits(t, u) => key = None /\ ~direct[t] /\ direct[u]

\* Every submitted function runs, and nobody waits for the provider for ever, unless they are Crossed.
AllHaveRun == (\A t \in Users : pc[t] = "idle") /\ Len(ran) = Len(order)
AllRun == []<>(AllHaveRun \/ Crossed)
=============================================================================
