---------------------------- MODULE ThreadProofs ----------------------------
(* Theorems about Thread and ThreadGroup, for any number of threads and of callers,
   whichever of them fail to start, throw, or are joined with a timeout. *)
EXTENDS ThreadGroup, FiniteSetTheorems, TLAPS

Final == {"EXIT", "ABORT", "CRASH"}

\* finalize has been called at the places behind it, and where the thread could not be
\* started; the status is final from there on; what was joined is done.
Progress ==
    \A t \in Ths :
        /\ finalized[t] = IF pc[t] \in {"on_finish", "leave", "done"} \/ state[t] = "START_FAILED"
                          THEN 1 ELSE 0
        /\ pc[t] \in {"finalize", "on_finish", "leave", "done"} => exit[t] \in Final
        /\ t \in joined => pc[t] = "done"

ThreadInv == ThreadTypeOK /\ Progress
-----------------------------------------------------------------------------
LEMMA InitThreadInv == ThreadInit => ThreadInv
<1> SUFFICES ASSUME ThreadInit PROVE ThreadInv
  OBVIOUS
<1>1. ThreadTypeOK
  BY DEF ThreadInit, ThreadTypeOK, States, Exits, Places
<1>2. Progress
  BY DEF ThreadInit, Progress
<1> QED
  BY <1>1, <1>2 DEF ThreadInv

\* The calls that change nothing of the threads but what was joined.
LEMMA CallKeeps ==
    ASSUME ThreadInv, UNCHANGED threadVars, NEW c \in Callers, NEW t \in Ths,
           op' \in {[op EXCEPT ![c] = Idle], [op EXCEPT ![c] = <<"start", t>>], [op EXCEPT ![c] = <<"join", t>>]},
           joined' = joined \/ (joined' = joined \cup {t} /\ state[t] = "FINISHED")
    PROVE  ThreadInv'
<1>1. ThreadTypeOK'
  <2>1. op' \in [Callers -> {Idle} \cup ({"start", "join"} \X Ths)]
    BY DEF ThreadInv, ThreadTypeOK
  <2> QED
    BY <2>1 DEF ThreadInv, ThreadTypeOK, threadVars
<1>2. Progress'
  BY DEF ThreadInv, ThreadTypeOK, Progress, threadVars
<1> QED
  BY <1>1, <1>2 DEF ThreadInv

\* A step of a thread, or of a caller, keeps the invariant.
LEMMA StepThreadInv == ThreadInv /\ [Next]_vars => ThreadInv'
<1> SUFFICES ASSUME ThreadInv, [Next]_vars PROVE ThreadInv'
  OBVIOUS
<1>1. CASE UNCHANGED vars
  BY <1>1 DEF ThreadInv, ThreadTypeOK, Progress, vars, threadVars, callVars
<1>2. ASSUME NEW t \in Ths, thread(t) PROVE ThreadInv'
  <2> USE DEF ThreadInv, ThreadTypeOK, Progress, States, Exits, Places, Final, At, Go, Ends, callVars
  <2>1. CASE run(t)        BY <2>1 DEF run
  <2>2. CASE begin(t)      BY <2>2 DEF begin
  <2>3. CASE on_start(t)   BY <2>3 DEF on_start
  <2>4. CASE target(t)     BY <2>4 DEF target
  <2>5. CASE finalize(t)   BY <2>5 DEF finalize
  <2>6. CASE on_finish(t)  BY <2>6 DEF on_finish
  <2>7. CASE finish(t)     BY <2>7 DEF finish
  <2> QED  BY <1>2, <2>1, <2>2, <2>3, <2>4, <2>5, <2>6, <2>7 DEF thread
<1>3. ASSUME NEW c \in Callers, NEW t \in Ths,
             start_create(c, t) \/ start_failed(c, t) \/ join(c, t) \/ reuse(c, t) \/ InCall(c, t)
      PROVE  ThreadInv'
  <2>1. CASE start_create(c, t)
    BY <2>1 DEF start_create, Enters, Idle, ThreadInv, ThreadTypeOK, Progress, States, Places
  <2>2. CASE start_failed(c, t)
    BY <2>2 DEF start_failed, callVars, ThreadInv, ThreadTypeOK, Progress, States
  <2>3. CASE join(c, t)
    BY <2>3, CallKeeps DEF join, Enters
  <2>4. CASE reuse(c, t)
    BY <2>4 DEF reuse, ThreadInv, ThreadTypeOK, Progress, States, Exits, Places
  <2>5. CASE start_return(c, t)
    BY <2>5, CallKeeps DEF start_return, Returns
  <2>6. CASE join_return(c, t)
    BY <2>6, CallKeeps DEF join_return, Returns
  <2>7. CASE join_timeout(c, t)
    BY <2>7, CallKeeps DEF join_timeout, Returns
  <2> QED  BY <1>3, <2>1, <2>2, <2>3, <2>4, <2>5, <2>6, <2>7 DEF InCall
<1> QED  BY <1>1, <1>2, <1>3 DEF Next

LEMMA ThreadInvariant == Spec => []ThreadInv
  BY InitThreadInv, StepThreadInv, PTL DEF Spec

\* A join that returned true means that the thread is over: for any threads and callers,
\* with reuse, timeouts, and callbacks that throw.
THEOREM JoinIsTheEnd == Spec => []JoinMeansOver
<1>1. ThreadInv => JoinMeansOver
  BY DEF ThreadInv, ThreadTypeOK, Progress, JoinMeansOver, Final
<1> QED
  BY <1>1, ThreadInvariant, PTL

\* finalize is called once, also for a thread that could not be started.
THEOREM FinalizeOnce == Spec => []FinalizedOnce
<1>1. ThreadInv => FinalizedOnce
  BY DEF ThreadInv, ThreadTypeOK, Progress, FinalizedOnce
<1> QED
  BY <1>1, ThreadInvariant, PTL

-----------------------------------------------------------------------------
(* Threads of a group *)

\* The steps of a group are steps of its threads: the hooks are one way in which on_start
\* and on_finish may go.
LEMMA GroupStep ==
    ASSUME [GroupNext]_gvars
    PROVE  \/ [Next]_vars
           \/ \E t \in AnyThrows : t \in Ths /\ hook_finish(t)
<1>1. CASE UNCHANGED gvars
  BY <1>1 DEF gvars, vars
<1>2. CASE start
  BY <1>2 DEF start, vars
<1>3. ASSUME NEW t \in Ths, member(t)
      PROVE  [Next]_vars \/ (t \in AnyThrows /\ hook_finish(t))
  <2>1. CASE run(t) \/ begin(t) \/ target(t) \/ finalize(t) \/ finish(t)
    BY <1>3, <2>1 DEF Next, thread
  <2>2. CASE hook_wait(t)
    <3>1. UNCHANGED vars
      BY <2>2 DEF hook_wait, vars
    <3> QED
      BY <3>1
  <2>3. CASE hook_start(t)
    <3>1. on_start(t)
      BY <2>3 DEF hook_start, on_start, Ends
    <3> QED
      BY <1>3, <3>1 DEF Next, thread
  <2>4. CASE hook_finish(t) /\ t \notin AnyThrows
    <3>1. on_finish(t)
      BY <2>4 DEF hook_finish, on_finish
    <3> QED
      BY <1>3, <3>1 DEF Next, thread
  <2> QED
    BY <1>3, <2>1, <2>2, <2>3, <2>4 DEF member
<1>4. ASSUME NEW t \in Threads, WakeUp(t) /\ UNCHANGED <<threadVars, callVars, groupVars>>
      PROVE  [Next]_vars
  BY <1>4 DEF vars
<1>5. ASSUME NEW c \in Callers,
             wait_group(c) \/ GroupCall(c) \/ \E t \in Ths : add_failed(c, t) \/ add_started(c, t)
      PROVE  [Next]_vars
  <2>1. CASE wait_group(c) \/ wait_park(c) \/ wait_return(c)
    BY <2>1 DEF wait_group, wait_park, wait_return, vars
  <2>2. ASSUME NEW t \in Ths, add_return(c, t) PROVE [Next]_vars
    BY <2>2 DEF add_return, Next, InCall
  <2>3. ASSUME NEW t \in Ths, add_failed(c, t) PROVE [Next]_vars
    BY <2>3 DEF add_failed, Next
  <2>4. ASSUME NEW t \in Ths, add_started(c, t) PROVE [Next]_vars
    BY <2>4 DEF add_started, Next
  <2> QED
    BY <1>5, <2>1, <2>2, <2>3, <2>4 DEF GroupCall
<1> QED
  BY <1>1, <1>2, <1>3, <1>4, <1>5 DEF GroupNext

\* A group uses its threads as they may be used: whoever throws from on_any_finish throws
\* from the thread's on_finish.
THEOREM GroupImplementsThreads ==
    ASSUME AnyThrows \subseteq MayThrow
    PROVE  GroupSpec => Spec
<1>1. GroupInit => ThreadInit
  BY DEF GroupInit
<1>2. ASSUME NEW t \in Ths, t \in AnyThrows, hook_finish(t) PROVE Next
  <2>1. on_finish(t)
    BY <1>2 DEF hook_finish, on_finish
  <2> QED
    BY <1>2, <2>1 DEF Next, thread
<1>3. [GroupNext]_gvars => [Next]_vars
  BY <1>2, GroupStep
<1> QED
  BY <1>1, <1>3, PTL DEF GroupSpec, Spec

\* And so what holds of threads holds of those of a group.
THEOREM GroupJoinIsTheEnd ==
    ASSUME AnyThrows \subseteq MayThrow
    PROVE  GroupSpec => [](JoinMeansOver /\ FinalizedOnce)
  BY GroupImplementsThreads, JoinIsTheEnd, FinalizeOnce, PTL

LEMMA StepGroupThreadInv == ThreadInv /\ [GroupNext]_gvars => ThreadInv'
<1>1. ASSUME ThreadInv, NEW t \in Ths, hook_finish(t) PROVE ThreadInv'
  BY <1>1 DEF hook_finish, ThreadInv, ThreadTypeOK, Progress, States, Exits, Places, Final, At, Go, Ends, callVars
<1> QED
  BY <1>1, GroupStep, StepThreadInv
-----------------------------------------------------------------------------
\* flag_ says whether start() came first, or a thread that could not be started.
BegunInv ==
    /\ flag \in {"WAIT", "START", "ABORT"}
    /\ flag = "WAIT" => begun = "no"
    /\ flag = "START" => begun = "ok"
    /\ ran # {} => begun = "ok"

LEMMA StepBegunInv == BegunInv /\ [GroupNext]_gvars => BegunInv'
<1> SUFFICES ASSUME BegunInv, [GroupNext]_gvars PROVE BegunInv'
  OBVIOUS
<1> USE DEF BegunInv
<1>1. CASE UNCHANGED <<flag, begun, ran>>
  BY <1>1
<1>2. CASE start
  BY <1>2 DEF start
<1>3. ASSUME NEW t \in Ths, member(t) PROVE BegunInv'
  <2>1. CASE hook_start(t)
    BY <2>1 DEF hook_start
  <2> QED
    BY <1>1, <1>3, <2>1 DEF member, groupVars, hook_wait, hook_finish
<1>4. ASSUME NEW c \in Callers, NEW t \in Ths, add_failed(c, t) PROVE BegunInv'
  BY <1>4 DEF add_failed, Breaks
<1>5. ASSUME NEW c \in Callers, NEW t \in Ths, add_started(c, t) \/ add_return(c, t) PROVE BegunInv'
  BY <1>1, <1>5 DEF add_started, add_return
<1>6. ASSUME NEW c \in Callers, wait_group(c) \/ wait_park(c) \/ wait_return(c) PROVE BegunInv'
  BY <1>1, <1>6 DEF wait_group, wait_park, wait_return, groupVars
<1> QED
  BY <1>1, <1>2, <1>3, <1>4, <1>5, <1>6 DEF GroupNext, GroupCall, groupVars, gvars

\* All or nothing, for a group of any size to which any callers add: no target is run unless
\* start() was called, and every thread added before could be started.
THEOREM GroupStartsTogether == GroupSpec => []AllOrNothing
<1>1. GroupInit => BegunInv
  BY DEF GroupInit, BegunInv
<1>2. BegunInv => AllOrNothing
  BY DEF BegunInv, AllOrNothing
<1> QED
  BY <1>1, <1>2, StepBegunInv, PTL DEF GroupSpec
-----------------------------------------------------------------------------
\* The threads of the group that are on their way.
Active == {t \in members : pc[t] \notin {"none", "leave", "done"}}

\* The lock is held by the caller whose thread is being started, and that thread, which is
\* on its way, is not counted yet.
CountInv ==
    /\ members \subseteq Ths
    /\ \A t \in Ths : pc[t] # "none" => t \in members
    /\ adding = {} \/ \E c \in Callers : adding = {c}
    /\ \A c \in Callers : c \in adding <=> op[c] # Idle
    /\ unfinished \in Int
    /\ Cardinality(Active) = unfinished + (IF adding = {} THEN 0 ELSE 1)

LEMMA NotIdle == \A t : <<"start", t>> # Idle
<1> SUFFICES ASSUME NEW t PROVE <<"start", t>> # Idle
  OBVIOUS
<1>1. <<"start", t>>[1] # Idle[1]
  BY DEF Idle
<1> QED
  BY <1>1

LEMMA CountFrame ==
    ASSUME CountInv, UNCHANGED <<members, adding, op, unfinished>>, Active' = Active,
           \A t \in Ths : pc'[t] # "none" => pc[t] # "none"
    PROVE  CountInv'
  BY DEF CountInv

LEMMA StepCountInv ==
    ASSUME IsFiniteSet(Ths), MayThrow = {}, ThreadInv, CountInv, [GroupNext]_gvars
    PROVE  CountInv'
<1>0. /\ IsFiniteSet(Active) /\ Cardinality(Active) \in Nat
      /\ pc \in [Ths -> Places] /\ state \in [Ths -> States]
      /\ op \in [Callers -> {Idle} \cup ({"start", "join"} \X Ths)]
  <2>1. Active \subseteq Ths
    BY DEF Active, CountInv
  <2> QED
    BY <2>1, FS_Subset, FS_CardinalityType DEF ThreadInv, ThreadTypeOK
<1>1. CASE UNCHANGED <<pc, members, adding, op, unfinished>>
  BY <1>1, CountFrame DEF Active
<1>2. ASSUME NEW t \in Ths, member(t) PROVE CountInv'
  <2>1. CASE \/ run(t) /\ UNCHANGED groupVars
             \/ begin(t) /\ UNCHANGED groupVars
             \/ target(t) /\ UNCHANGED groupVars
             \/ finalize(t) /\ UNCHANGED groupVars
             \/ finish(t) /\ UNCHANGED groupVars
             \/ hook_start(t)
    <3>1. UNCHANGED <<members, adding, op, unfinished>>
      BY <2>1 DEF run, begin, target, finalize, finish, hook_start, groupVars, callVars
    <3>2. \E p \in Places : /\ pc' = [pc EXCEPT ![t] = p]
                            /\ p \in {"none", "leave", "done"} <=> pc[t] \in {"none", "leave", "done"}
                            /\ pc[t] # "none"
      BY <2>1 DEF run, begin, target, finalize, finish, hook_start, At, Go, Ends, Places
    <3>0. pc \in [Ths -> Places]
      BY <1>0
    <3>3. PICK p \in Places : /\ pc' = [pc EXCEPT ![t] = p]
                              /\ p \in {"none", "leave", "done"} <=> pc[t] \in {"none", "leave", "done"}
                              /\ pc[t] # "none"
      BY <3>2
    <3>4. \A u \in Ths : /\ pc'[u] \in {"none", "leave", "done"} <=> pc[u] \in {"none", "leave", "done"}
                         /\ pc'[u] # "none" => pc[u] # "none"
      <4> TAKE u \in Ths
      <4>1. CASE u = t
        BY <3>0, <3>3, <4>1
      <4>2. CASE u # t
        <5>1. pc'[u] = pc[u]
          BY <3>0, <3>3, <4>2
        <5> QED
          BY <5>1
      <4> QED
        BY <4>1, <4>2
    <3>5. Active' = Active
      BY <3>1, <3>4 DEF Active, CountInv
    <3> QED
      BY <3>1, <3>4, <3>5, CountFrame
  <2>2. CASE hook_wait(t)
    BY <1>1, <2>2 DEF hook_wait, groupVars, threadVars, callVars
  <2>3. CASE hook_finish(t)
    <3>1. /\ pc[t] = "on_finish" /\ pc' = [pc EXCEPT ![t] = "leave"]
          /\ unfinished' = unfinished - 1 /\ adding = {}
          /\ UNCHANGED <<members, adding, op>>
      BY <2>3 DEF hook_finish, At, Go, Ends, Unlocked, callVars
    <3>2. t \in Active /\ Active' = Active \ {t}
      BY <1>0, <3>1 DEF Active, CountInv
    <3>3. Cardinality(Active') = Cardinality(Active) - 1
      BY <1>0, <3>2, FS_RemoveElement
    <3> QED
      BY <1>0, <3>1, <3>3 DEF CountInv
  <2> QED
    BY <1>2, <2>1, <2>2, <2>3 DEF member
<1>3. ASSUME NEW c \in Callers, NEW t \in Ths, add_started(c, t) PROVE CountInv'
  <2>1. /\ adding = {} /\ adding' = {c} /\ op[c] = Idle /\ op' = [op EXCEPT ![c] = <<"start", t>>]
        /\ t \notin members /\ members' = members \cup {t}
        /\ pc' = [pc EXCEPT ![t] = "entry"] /\ UNCHANGED unfinished
    BY <1>3 DEF add_started, start_create, Free, Unlocked, Enters
  <2>2. t \notin Active /\ Active' = Active \cup {t}
    BY <1>0, <2>1 DEF Active, CountInv
  <2>3. Cardinality(Active') = Cardinality(Active) + 1
    BY <1>0, <2>2, FS_AddElement
  <2>4. <<"start", t>> # Idle
    BY NotIdle
  <2> QED
    BY <1>0, <2>1, <2>3, <2>4 DEF CountInv
<1>4. ASSUME NEW c \in Callers, NEW t \in Ths, add_failed(c, t) PROVE CountInv'
  <2>1. /\ t \notin members /\ members' = members \cup {t} /\ state[t] = "IDLE"
        /\ UNCHANGED <<pc, adding, op, unfinished>>
    BY <1>4 DEF add_failed, start_failed, callVars
  <2>2. pc[t] = "none"
    BY <2>1 DEF ThreadInv, ThreadTypeOK
  <2>3. Active' = Active
    BY <2>1, <2>2 DEF Active
  <2> QED
    BY <1>0, <2>1, <2>2, <2>3 DEF CountInv
<1>5. ASSUME NEW c \in Callers, NEW t \in Ths, add_return(c, t) PROVE CountInv'
  <2>1. /\ op[c] = <<"start", t>> /\ op' = [op EXCEPT ![c] = Idle]
        /\ adding' = {} /\ unfinished' = unfinished + 1 /\ UNCHANGED <<pc, members>>
    BY <1>5 DEF add_return, start_return, Returns, threadVars
  <2>2. op[c] # Idle
    BY <2>1, NotIdle
  <2>3. adding = {c}
    BY <2>1, <2>2 DEF CountInv
  <2>4. Active' = Active
    BY <2>1 DEF Active
  <2> QED
    BY <1>0, <2>1, <2>3, <2>4 DEF CountInv
<1>6. CASE start
  BY <1>1, <1>6 DEF start, threadVars, callVars
<1>7. ASSUME NEW c \in Callers, wait_group(c) \/ wait_park(c) \/ wait_return(c) PROVE CountInv'
  BY <1>1, <1>7 DEF wait_group, wait_park, wait_return, groupVars, threadVars, callVars
<1>8. CASE \E t \in Threads : WakeUp(t) /\ UNCHANGED <<threadVars, callVars, groupVars>>
  BY <1>1, <1>8 DEF groupVars, threadVars, callVars
<1>9. CASE UNCHANGED gvars
  BY <1>1, <1>9 DEF gvars, groupVars, threadVars, callVars
<1> QED
  BY <1>2, <1>3, <1>4, <1>5, <1>6, <1>7, <1>8, <1>9 DEF GroupNext, GroupCall

LEMMA CountInvariant ==
    ASSUME IsFiniteSet(Ths), MayThrow = {}
    PROVE  GroupSpec => [](ThreadInv /\ CountInv)
<1>1. GroupInit => ThreadInv
  BY InitThreadInv DEF GroupInit
<1>2. GroupInit => CountInv
  <2> SUFFICES ASSUME GroupInit PROVE CountInv
    OBVIOUS
  <2>1. Active = {}
    BY DEF GroupInit, Active
  <2> QED
    BY <2>1, FS_EmptySet DEF GroupInit, ThreadInit, CountInv
<1>3. ThreadInv /\ CountInv /\ [GroupNext]_gvars => ThreadInv' /\ CountInv'
  BY StepGroupThreadInv, StepCountInv
<1> QED
  BY <1>1, <1>2, <1>3, PTL DEF GroupSpec

\* unfinished_ is the number of the threads on their way, for any number of threads and callers,
\* where finalize does not throw: a finalize that throws keeps on_finish from being called.
THEOREM GroupCountsItsThreads ==
    ASSUME IsFiniteSet(Ths), MayThrow = {}
    PROVE  GroupSpec => []UnfinishedCounts
<1>1. CountInv => UnfinishedCounts
  BY DEF CountInv, UnfinishedCounts, Active, Unlocked
<1> QED
  BY <1>1, CountInvariant, PTL
-----------------------------------------------------------------------------
\* The thread that is being started has not passed on_start: it needs the lock for that.
StartInv ==
    \A c \in Callers, t \in Ths :
        op[c] = <<"start", t>> => t \in members /\ pc[t] \in {"entry", "begin", "on_start"}

LEMMA StepStartInv ==
    ASSUME ThreadInv, CountInv, StartInv, [GroupNext]_gvars
    PROVE  StartInv'
<1>0. pc \in [Ths -> Places] /\ op \in [Callers -> {Idle} \cup ({"start", "join"} \X Ths)]
  BY DEF ThreadInv, ThreadTypeOK
<1>1. CASE UNCHANGED <<pc, op, members>>
  BY <1>1 DEF StartInv
<1>2. ASSUME NEW u \in Ths, member(u) PROVE StartInv'
  <2>1. CASE (run(u) \/ begin(u)) /\ UNCHANGED groupVars
    BY <1>0, <2>1 DEF run, begin, At, Go, Ends, groupVars, callVars, StartInv
  <2>2. CASE (target(u) \/ finalize(u) \/ finish(u)) /\ UNCHANGED groupVars
    BY <1>0, <2>2 DEF target, finalize, finish, At, Go, Ends, groupVars, callVars, StartInv
  <2>3. CASE hook_start(u) \/ hook_finish(u)
    <3>1. adding = {} /\ UNCHANGED <<op, members>>
      BY <2>3 DEF hook_start, hook_finish, Unlocked, callVars
    <3>2. \A c \in Callers, t \in Ths : op[c] # <<"start", t>>
      BY <3>1, NotIdle DEF CountInv
    <3> QED
      BY <3>1, <3>2 DEF StartInv
  <2>4. CASE hook_wait(u)
    BY <1>1, <2>4 DEF hook_wait, groupVars, threadVars, callVars
  <2> QED
    BY <1>2, <2>1, <2>2, <2>3, <2>4 DEF member
<1>3. ASSUME NEW d \in Callers, NEW u \in Ths, add_started(d, u) PROVE StartInv'
  <2>1. /\ op' = [op EXCEPT ![d] = <<"start", u>>] /\ members' = members \cup {u}
        /\ pc' = [pc EXCEPT ![u] = "entry"]
    BY <1>3 DEF add_started, start_create, Enters
  <2> SUFFICES ASSUME NEW c \in Callers, NEW t \in Ths, op'[c] = <<"start", t>>
               PROVE  t \in members' /\ pc'[t] \in {"entry", "begin", "on_start"}
    BY DEF StartInv
  <2>2. CASE c = d
    BY <1>0, <2>1, <2>2
  <2>3. CASE c # d
    BY <1>0, <2>1, <2>3 DEF StartInv
  <2> QED
    BY <2>2, <2>3
<1>4. ASSUME NEW d \in Callers, NEW u \in Ths, add_return(d, u) PROVE StartInv'
  <2>1. op' = [op EXCEPT ![d] = Idle] /\ UNCHANGED <<pc, members>>
    BY <1>4 DEF add_return, start_return, Returns, threadVars
  <2> QED
    BY <1>0, <2>1, NotIdle DEF StartInv
<1>5. ASSUME NEW d \in Callers, NEW u \in Ths, add_failed(d, u) PROVE StartInv'
  BY <1>5 DEF add_failed, start_failed, callVars, StartInv
<1>6. CASE start
  BY <1>1, <1>6 DEF start, threadVars, callVars
<1>7. ASSUME NEW c \in Callers, wait_group(c) \/ wait_park(c) \/ wait_return(c) PROVE StartInv'
  BY <1>1, <1>7 DEF wait_group, wait_park, wait_return, groupVars, threadVars, callVars
<1>8. CASE \E t \in Threads : WakeUp(t) /\ UNCHANGED <<threadVars, callVars, groupVars>>
  BY <1>1, <1>8 DEF groupVars, threadVars, callVars
<1>9. CASE UNCHANGED gvars
  BY <1>1, <1>9 DEF gvars, groupVars, threadVars, callVars
<1> QED
  BY <1>2, <1>3, <1>4, <1>5, <1>6, <1>7, <1>8, <1>9 DEF GroupNext, GroupCall
-----------------------------------------------------------------------------
\* Who is parked waits for what has not come.
ParkInv == parked \subseteq Threads /\ GroupNoLostWakeup

LEMMA ParkFrame ==
    ASSUME ParkInv, UNCHANGED <<flag, unfinished>>, parked' \subseteq parked
    PROVE  ParkInv'
  BY DEF ParkInv, GroupNoLostWakeup

LEMMA AllNotified ==
    ASSUME notify_all PROVE ParkInv'
  BY DEF ParkInv, GroupNoLostWakeup, notify_all

LEMMA StepParkInv ==
    ASSUME ThreadAssumption, ThreadGroupAssumption, AnyThrows = {}, CountInv, StartInv, ParkInv,
           IsFiniteSet(Ths), [GroupNext]_gvars
    PROVE  ParkInv'
<1>1. CASE UNCHANGED <<flag, unfinished, cvVars>>
  BY <1>1, ParkFrame DEF cvVars
<1>2. CASE start
  BY <1>2, AllNotified DEF start
<1>3. ASSUME NEW t \in Ths, member(t) PROVE ParkInv'
  <2>1. CASE hook_wait(t)
    <3>1. flag = "WAIT" /\ parked' = parked \cup {t} /\ UNCHANGED <<flag, unfinished>>
      BY <2>1 DEF hook_wait, wait, groupVars
    <3>2. t \in Threads /\ t \notin Callers
      BY <1>3 DEF ThreadAssumption, ThreadGroupAssumption
    <3> QED
      BY <3>1, <3>2 DEF ParkInv, GroupNoLostWakeup
  <2>2. CASE hook_finish(t)
    <3>1. unfinished' = 0 => notify_all
      BY <2>2 DEF hook_finish
    <3>2. unfinished' # 0 => UNCHANGED <<flag, parked>>
      BY <2>2 DEF hook_finish, cvVars
    <3> QED
      BY <3>1, <3>2, AllNotified DEF ParkInv, GroupNoLostWakeup
  <2> QED
    BY <1>1, <1>3, <2>1, <2>2 DEF member, groupVars, hook_start
<1>4. ASSUME NEW c \in Callers, NEW t \in Ths, add_failed(c, t) PROVE ParkInv'
  BY <1>4, AllNotified DEF add_failed
<1>5. ASSUME NEW c \in Callers, NEW t \in Ths, add_started(c, t) PROVE ParkInv'
  BY <1>1, <1>5 DEF add_started
<1>6. ASSUME NEW c \in Callers, NEW t \in Ths, add_return(c, t) PROVE ParkInv'
  <2>1. unfinished' = unfinished + 1 /\ UNCHANGED <<flag, parked>>
    BY <1>6 DEF add_return, cvVars
  <2>2. adding = {c} /\ t \in Active
    <3>1. op[c] = <<"start", t>>
      BY <1>6 DEF add_return, start_return
    <3> QED
      BY <1>6, <3>1, NotIdle DEF CountInv, StartInv, Active
  <2>3. Cardinality(Active) \in Nat /\ Cardinality(Active) # 0
    <3>1. Active \subseteq Ths
      BY DEF Active, CountInv
    <3>2. IsFiniteSet(Active)
      BY <3>1, FS_Subset
    <3> QED
      BY <2>2, <3>2, FS_EmptySet, FS_CardinalityType
  <2>4. unfinished \in Nat
    BY <2>2, <2>3 DEF CountInv
  <2> QED
    BY <2>1, <2>4 DEF ParkInv, GroupNoLostWakeup
<1>7. ASSUME NEW c \in Callers, wait_park(c) PROVE ParkInv'
  <2>1. unfinished # 0 /\ parked' = parked \cup {c} /\ UNCHANGED <<flag, unfinished>>
    BY <1>7 DEF wait_park, wait, groupVars
  <2>2. c \in Threads /\ c \notin Ths
    BY <1>7 DEF ThreadAssumption, ThreadGroupAssumption
  <2> QED
    BY <2>1, <2>2 DEF ParkInv, GroupNoLostWakeup
<1>8. ASSUME NEW c \in Callers, wait_group(c) \/ wait_return(c) PROVE ParkInv'
  BY <1>1, <1>8 DEF wait_group, wait_return
<1>9. ASSUME NEW t \in Threads, WakeUp(t), UNCHANGED <<threadVars, callVars, groupVars>> PROVE ParkInv'
  BY <1>9, ParkFrame DEF WakeUp, groupVars
<1>10. CASE UNCHANGED gvars
  BY <1>1, <1>10 DEF gvars, groupVars
<1> QED
  BY <1>2, <1>3, <1>4, <1>5, <1>6, <1>7, <1>8, <1>9, <1>10 DEF GroupNext, GroupCall

\* Nobody is left on the condition variable of a group: neither a thread in on_start when
\* start() has been called, nor a caller of wait when the last thread has finished.
THEOREM GroupWakes ==
    ASSUME ThreadAssumption, ThreadGroupAssumption, IsFiniteSet(Ths), MayThrow = {}, AnyThrows = {}
    PROVE  GroupSpec => []GroupNoLostWakeup
<1>1. GroupInit => StartInv /\ ParkInv
  <2> SUFFICES ASSUME GroupInit PROVE StartInv /\ ParkInv
    OBVIOUS
  <2>1. \A c \in Callers : op[c] = Idle
    BY DEF GroupInit, ThreadInit
  <2>2. StartInv
    BY <2>1, NotIdle DEF StartInv
  <2> QED
    BY <2>2 DEF GroupInit, CondVarInit, ParkInv, GroupNoLostWakeup
<1>2. ThreadInv /\ CountInv /\ StartInv /\ ParkInv /\ [GroupNext]_gvars => StartInv' /\ ParkInv'
  BY StepStartInv, StepParkInv
<1>3. ParkInv => GroupNoLostWakeup
  BY DEF ParkInv
<1> QED
  BY <1>1, <1>2, <1>3, CountInvariant, PTL DEF GroupSpec
-----------------------------------------------------------------------------
(* What holds of a group where no finalize throws, and what holds beside   *)
(* where no on_any_finish throws, either.                                  *)

GroupInv == ThreadInv /\ BegunInv /\ CountInv /\ alls \in Nat
WaitInv  == GroupInv /\ StartInv /\ ParkInv

LEMMA InitWaitInv == GroupInit => WaitInv
<1> SUFFICES ASSUME GroupInit PROVE WaitInv
  OBVIOUS
<1>1. ThreadInv
  BY InitThreadInv DEF GroupInit
<1>2. BegunInv /\ alls \in Nat
  BY DEF GroupInit, BegunInv
<1>3. CountInv
  <2>1. Active = {}
    BY DEF GroupInit, Active
  <2> QED
    BY <2>1, FS_EmptySet DEF GroupInit, ThreadInit, CountInv
<1>4. StartInv
  BY NotIdle DEF GroupInit, ThreadInit, StartInv
<1>5. ParkInv
  BY DEF GroupInit, CondVarInit, ParkInv, GroupNoLostWakeup
<1> QED
  BY <1>1, <1>2, <1>3, <1>4, <1>5 DEF WaitInv, GroupInv

LEMMA StepGroupInv ==
    ASSUME IsFiniteSet(Ths), MayThrow = {}
    PROVE  GroupInv /\ [GroupNext]_gvars => GroupInv'
<1>1. ASSUME alls \in Nat, [GroupNext]_gvars PROVE alls' \in Nat
  BY <1>1
     DEF GroupNext, gvars, groupVars, GroupCall, member, start, wait_group, wait_park, wait_return, add_return,
         add_failed, add_started, hook_wait, hook_start, hook_finish
<1> QED
  BY <1>1, StepGroupThreadInv, StepBegunInv, StepCountInv DEF GroupInv

LEMMA StepWaitInv ==
    ASSUME ThreadAssumption, ThreadGroupAssumption, IsFiniteSet(Ths), MayThrow = {}, AnyThrows = {}
    PROVE  WaitInv /\ [GroupNext]_gvars => WaitInv'
  BY StepGroupInv, StepStartInv, StepParkInv DEF WaitInv, GroupInv

LEMMA ThreadInvMeans == ThreadInv => JoinMeansOver /\ FinalizedOnce
  BY DEF ThreadInv, ThreadTypeOK, Progress, JoinMeansOver, FinalizedOnce, Final

LEMMA GroupInvMeans == GroupInv => FinalizedOnce /\ AllOrNothing /\ UnfinishedCounts
  BY ThreadInvMeans DEF GroupInv, BegunInv, CountInv, AllOrNothing, UnfinishedCounts, Active, Unlocked

\* on_all_finish is called in the step in which the last thread on its way ends.
LEMMA LastFinish ==
    ASSUME IsFiniteSet(Ths), MayThrow = {}, GroupInv, [GroupNext]_gvars, alls' > alls
    PROVE  \A t \in members : pc'[t] \in {"none", "leave", "done"}
<1>1. GroupInv'
  BY StepGroupInv
<1>2. PICK u \in Ths : hook_finish(u)
  <2>1. alls' # alls
    BY DEF GroupInv
  <2> QED
    BY <2>1
       DEF GroupNext, gvars, groupVars, GroupCall, member, start, wait_group, wait_park, wait_return, add_return,
           add_failed, add_started, hook_wait, hook_start
<1>3. unfinished' = 0 /\ adding' = {} /\ members' = members
  BY <1>2 DEF hook_finish, Unlocked, GroupInv
<1>4. Cardinality(Active') = 0
  BY <1>1, <1>3 DEF GroupInv, CountInv
<1>5. Active' = {}
  <2>1. Active' \subseteq Ths
    BY <1>1 DEF GroupInv, CountInv, Active
  <2> QED
    BY <1>4, <2>1, FS_Subset, FS_EmptySet
<1> QED
  BY <1>3, <1>5 DEF Active

\* on_all_finish comes last: whatever threads a group has and whichever of them throw from
\* on_any_finish, none is on its way any more.
THEOREM GroupAllFinishIsLast ==
    ASSUME IsFiniteSet(Ths), MayThrow = {}
    PROVE  GroupSpec => [][alls' > alls => \A t \in members : pc'[t] \in {"none", "leave", "done"}]_gvars
<1>1. GroupInit => GroupInv
  BY InitWaitInv DEF WaitInv
<1>2. GroupInv /\ [GroupNext]_gvars
        => [alls' > alls => \A t \in members : pc'[t] \in {"none", "leave", "done"}]_gvars
  BY LastFinish
<1> QED
  BY <1>1, <1>2, StepGroupInv, PTL DEF GroupSpec
=============================================================================
