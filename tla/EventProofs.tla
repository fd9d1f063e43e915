---------------------------- MODULE EventProofs ----------------------------
(***************************************************************************)
(* Theorems about the work that is brought into the loop of a monitor and  *)
(* the way of a message: Submit, FlagSync, FsmDriver and ServiceCalls as   *)
(* MCEvents uses them, for any threads, flags, tables of states and        *)
(* combined events, services and priorities.                               *)
(*                                                                         *)
(* In a loop, the queue has what was put and not taken, and the eventfd,   *)
(* the rest of on_event and the threads about to write announce as much;   *)
(* what the loop did is what the items it took ask for, in their order.    *)
(***************************************************************************)
EXTENDS MCEvents, FiniteSetTheorems, WellFoundedInduction, TLAPS

\* A set of naturals has a smallest element.
LEMMA Smallest == ASSUME NEW S, S \subseteq Nat, S # {} PROVE \E x \in S : \A y \in S : x <= y
<1>1. \A x, y \in Nat : x < y => <<x, y>> \in OpToRel(<, Nat)
  BY DEF OpToRel
<1>2. PICK R : IsWellFoundedOn(R, Nat) /\ \A x, y \in Nat : x < y => <<x, y>> \in R
  BY <1>1, NatLessThanWellFounded, Zenon
<1>3. IsWellFoundedOn(R, Nat)
  BY <1>2
<1>4. PICK x \in S : \A y \in S : <<y, x>> \notin R
  BY <1>3, WFMin, Zenon
<1>5. \A y \in S : ~(y < x)
  BY <1>2, <1>4
<1>6. \A y \in S : x <= y
  BY <1>5
<1> QED
  BY <1>6
-----------------------------------------------------------------------------
(* Recursion                                                               *)

\* What is done n times after each other, from a on.
IsFold(g, n, S, a, h) == g \in [0 .. n -> S] /\ g[0] = a /\ \A k \in 1 .. n : g[k] = h[<<g[k - 1], k>>]

LEMMA FoldExists ==
    ASSUME NEW N \in Nat, NEW S, NEW a \in S, NEW h \in [S \X (1 .. N) -> S]
    PROVE  \E g : IsFold(g, N, S, a, h)
<1> DEFINE Bad == {n \in 0 .. N : ~ \E g : IsFold(g, n, S, a, h)}
<1>1. ASSUME Bad # {} PROVE FALSE
  <2>1. PICK n \in Bad : \A k \in Bad : n <= k
    <3>1. Bad \subseteq Nat
      OBVIOUS
    <3> HIDE DEF Bad
    <3> QED
      BY <1>1, <3>1, Smallest
  <2>2. CASE n = 0
    <3>1. IsFold([k \in 0 .. 0 |-> a], 0, S, a, h)
      BY DEF IsFold
    <3> QED
      BY <2>1, <2>2, <3>1
  <2>3. CASE n # 0
    <3>1. n - 1 \in 0 .. N /\ n - 1 \notin Bad
      BY <2>1, <2>3
    <3>2. PICK g : IsFold(g, n - 1, S, a, h)
      BY <3>1
    <3> DEFINE f == [k \in 0 .. n |-> IF k = n THEN h[<<g[n - 1], n>>] ELSE g[k]]
    <3>3. g \in [0 .. n - 1 -> S] /\ n \in 1 .. N
      BY <3>2, <2>3 DEF IsFold
    <3>4. <<g[n - 1], n>> \in S \X (1 .. N)
      BY <3>3
    <3>5. h[<<g[n - 1], n>>] \in S
      BY <3>4
    <3>6. f \in [0 .. n -> S]
      BY <3>3, <3>5
    <3>7. f[0] = a
      BY <3>2, <2>3 DEF IsFold
    <3>8. ASSUME NEW k \in 1 .. n PROVE f[k] = h[<<f[k - 1], k>>]
      <4>1. k - 1 \in 0 .. n /\ k - 1 # n /\ f[k - 1] = g[k - 1]
        OBVIOUS
      <4>2. CASE k = n
        BY <4>1, <4>2
      <4>3. CASE k # n
        <5>1. k \in 1 .. n - 1 /\ k \in 0 .. n /\ f[k] = g[k]
          BY <4>3, <3>3
        <5>2. g[k] = h[<<g[k - 1], k>>]
          BY <5>1, <3>2 DEF IsFold
        <5> QED
          BY <4>1, <5>1, <5>2
      <4> QED
        BY <4>2, <4>3
    <3>9. IsFold(f, n, S, a, h)
      BY <3>6, <3>7, <3>8 DEF IsFold
    <3> QED
      BY <2>1, <3>9
  <2> QED
    BY <2>2, <2>3
<1> QED
  BY <1>1
-----------------------------------------------------------------------------
(* Where events lead a state                                               *)

FollowOf(q, s) ==
    LET follow[n \in 0 .. Len(q)] == IF n = 0 THEN s ELSE Driver!Goes(follow[n - 1], q[n])
    IN follow[Len(q)]

Targets == {Table[k] : k \in DOMAIN Table}

\* What the events of q make of s, one after the other.
LEMMA FollowWalk ==
    ASSUME NEW E, NEW q \in Seq(E), NEW s
    PROVE  \E g : /\ FollowOf(q, s) = g[Len(q)] /\ g[0] = s
                  /\ \A n \in 1 .. Len(q) : g[n] = Driver!Goes(g[n - 1], q[n])
<1> DEFINE S == Targets \cup {s}
           N == Len(q)
           h == [x \in S \X (1 .. N) |-> Driver!Goes(x[1], q[x[2]])]
           follow == CHOOSE f : f = [n \in 0 .. N |-> IF n = 0 THEN s ELSE Driver!Goes(f[n - 1], q[n])]
<1>1. \A x \in S : \A ev : Driver!Goes(x, ev) \in S
  BY DEF Driver!Goes, Targets
<1>2. h \in [S \X (1 .. N) -> S] /\ N \in Nat /\ s \in S
  <2>1. \A x \in S \X (1 .. N) : x[1] \in S
    OBVIOUS
  <2>2. \A x \in S \X (1 .. N) : Driver!Goes(x[1], q[x[2]]) \in S
    BY <1>1, <2>1
  <2> HIDE DEF S
  <2>3. h \in [S \X (1 .. N) -> S]
    BY <2>2
  <2> QED
    BY <2>3 DEF S
<1>3. PICK g : IsFold(g, N, S, s, h)
  <2> HIDE DEF S, N, h
  <2> QED
    BY <1>2, FoldExists
<1>4. \A n \in 1 .. N : g[n] = Driver!Goes(g[n - 1], q[n])
  <2> TAKE n \in 1 .. N
  <2>1. g[n - 1] \in S /\ g[n] = h[<<g[n - 1], n>>]
    <3> HIDE DEF S, h
    <3>1. g \in [0 .. N -> S] /\ \A k \in 1 .. N : g[k] = h[<<g[k - 1], k>>]
      BY <1>3 DEF IsFold
    <3>2. n - 1 \in 0 .. N
      BY <1>2
    <3> QED
      BY <3>1, <3>2
  <2>2. <<g[n - 1], n>> \in S \X (1 .. N)
    BY <2>1
  <2>3. h[<<g[n - 1], n>>] = Driver!Goes(g[n - 1], q[n])
    BY <2>2
  <2> QED
    BY <2>1, <2>3
<1>5. g = [n \in 0 .. N |-> IF n = 0 THEN s ELSE Driver!Goes(g[n - 1], q[n])]
  <2> DEFINE e == [n \in 0 .. N |-> IF n = 0 THEN s ELSE Driver!Goes(g[n - 1], q[n])]
  <2> HIDE DEF S, h
  <2>1. g \in [0 .. N -> S] /\ g[0] = s
    BY <1>3 DEF IsFold
  <2>2. \A n \in 0 .. N : g[n] = e[n]
    BY <1>2, <1>4, <2>1
  <2>3. g = [n \in 0 .. N |-> g[n]] /\ e = [n \in 0 .. N |-> e[n]]
    BY <2>1
  <2> HIDE DEF e
  <2>4. g = e
    BY <2>2, <2>3
  <2> QED
    BY <2>4 DEF e
<1>6. follow = [n \in 0 .. N |-> IF n = 0 THEN s ELSE Driver!Goes(follow[n - 1], q[n])]
  BY <1>5
<1>7. FollowOf(q, s) = follow[N]
  BY DEF FollowOf
<1>8. follow[0] = s /\ \A n \in 1 .. N : follow[n] = Driver!Goes(follow[n - 1], q[n])
  <2> HIDE DEF follow, S, h
  <2> QED
    BY <1>2, <1>6
<1> HIDE DEF follow
<1> QED
  BY <1>7, <1>8

LEMMA FollowAppend ==
    ASSUME NEW E, NEW q \in Seq(E), NEW e \in E, NEW s
    PROVE  FollowOf(Append(q, e), s) = Driver!Goes(FollowOf(q, s), e)
<1> DEFINE p == Append(q, e)
           N == Len(q)
<1>1. p \in Seq(E) /\ Len(p) = N + 1 /\ p[N + 1] = e /\ N \in Nat /\ \A n \in 1 .. N : p[n] = q[n]
  OBVIOUS
<1>2. PICK g : /\ FollowOf(q, s) = g[N] /\ g[0] = s
               /\ \A n \in 1 .. N : g[n] = Driver!Goes(g[n - 1], q[n])
  BY FollowWalk
<1> HIDE DEF p
<1>3. PICK f : /\ FollowOf(p, s) = f[N + 1] /\ f[0] = s
               /\ \A n \in 1 .. N + 1 : f[n] = Driver!Goes(f[n - 1], p[n])
  BY <1>1, FollowWalk
<1> DEFINE Bad == {n \in 0 .. N : f[n] # g[n]}
<1>4. ASSUME Bad # {} PROVE FALSE
  <2>1. PICK n \in Bad : \A k \in Bad : n <= k
    <3>1. Bad \subseteq Nat
      BY <1>1
    <3> HIDE DEF Bad
    <3> QED
      BY <1>4, <3>1, Smallest
  <2>2. n # 0
    BY <2>1, <1>2, <1>3
  <2>3. n - 1 \in 0 .. N /\ n - 1 \notin Bad /\ n \in 1 .. N /\ n \in 1 .. N + 1
    BY <2>1, <2>2, <1>1
  <2>4. f[n - 1] = g[n - 1]
    BY <2>3
  <2>5. f[n] = Driver!Goes(f[n - 1], p[n]) /\ g[n] = Driver!Goes(g[n - 1], q[n]) /\ p[n] = q[n]
    BY <2>3, <1>1, <1>2, <1>3
  <2> QED
    BY <2>1, <2>4, <2>5
<1>5. f[N] = g[N]
  BY <1>1, <1>4
<1>6. f[N + 1] = Driver!Goes(f[N + 1 - 1], p[N + 1]) /\ N + 1 - 1 = N
  BY <1>1, <1>3
<1> QED
  BY <1>1, <1>2, <1>3, <1>5, <1>6 DEF p

LEMMA FollowNothing == ASSUME NEW s PROVE FollowOf(<<>>, s) = s
<1> DEFINE follow == CHOOSE f : f = [n \in 0 .. 0 |-> IF n = 0 THEN s ELSE Driver!Goes(f[n - 1], <<>>[n])]
<1>1. [n \in 0 .. 0 |-> s] = [n \in 0 .. 0 |-> IF n = 0 THEN s ELSE Driver!Goes([k \in 0 .. 0 |-> s][n - 1], <<>>[n])]
  OBVIOUS
<1>2. follow = [n \in 0 .. 0 |-> IF n = 0 THEN s ELSE Driver!Goes(follow[n - 1], <<>>[n])]
  BY <1>1
<1>3. FollowOf(<<>>, s) = follow[0]
  BY Len(<<>>) = 0 DEF FollowOf
<1> HIDE DEF follow
<1> QED
  BY <1>2, <1>3
-----------------------------------------------------------------------------
(* The queue into the loop                                                 *)

\* The queue has what was put and not taken, and the counters say how much that is.
QueueTypes(U) ==
    /\ order \in Seq(U) /\ que \in Seq(U) /\ taken \in Nat /\ missed \in BOOLEAN
    /\ counter \in Nat /\ rest \in Nat /\ IsFiniteSet(putting)
    /\ taken + Len(que) = Len(order)
    /\ \A n \in 1 .. Len(que) : que[n] = order[taken + n]

Covered == Len(que) = counter + rest + Cardinality(putting) /\ ~missed

\* What may be done with it.
Puts(t, x) ==
    /\ t \notin putting /\ putting' = putting \cup {t}
    /\ que' = Append(que, x) /\ order' = Append(order, x)
    /\ UNCHANGED <<counter, rest, taken, missed>>
Writes(t) ==
    /\ t \in putting /\ putting' = putting \ {t} /\ counter' = counter + 1
    /\ UNCHANGED <<que, rest, order, taken, missed>>
Reads ==
    /\ rest = 0 /\ rest' = counter /\ counter' = 0
    /\ UNCHANGED <<que, putting, order, taken, missed>>
Takes ==
    /\ rest > 0 /\ que # <<>> /\ que' = Tail(que) /\ rest' = rest - 1 /\ taken' = taken + 1
    /\ UNCHANGED <<counter, putting, order, missed>>
TakesNothing == rest > 0 /\ que = <<>>

\* machine::loop takes without the eventfd.
Pops ==
    /\ que # <<>> /\ que' = Tail(que) /\ taken' = taken + 1
    /\ UNCHANGED <<counter, rest, putting, order, missed>>

\* The queue has what was put and was not taken, whoever announces it.
LEMMA QueueTypesKept ==
    ASSUME NEW U, QueueTypes(U),
           \/ \E t, x : x \in U /\ Puts(t, x)
           \/ \E t : Writes(t)
           \/ Reads \/ Takes \/ Pops
           \/ UNCHANGED queueVars
    PROVE  QueueTypes(U)'
<1>2. ASSUME NEW t, NEW x \in U, Puts(t, x) PROVE QueueTypes(U)'
  <2>1. IsFiniteSet(putting')
    BY <1>2, FS_AddElement DEF QueueTypes, Puts
  <2>2. que' \in Seq(U) /\ order' \in Seq(U) /\ Len(que') = Len(que) + 1 /\ Len(order') = Len(order) + 1
    BY <1>2 DEF QueueTypes, Puts
  <2>3. ASSUME NEW n \in 1 .. Len(que') PROVE que'[n] = order'[taken + n]
    <3>1. CASE n \in 1 .. Len(que)
      <4>1. que'[n] = que[n] /\ taken + n \in 1 .. Len(order)
        BY <1>2, <3>1 DEF QueueTypes, Puts
      <4> QED
        BY <1>2, <3>1, <4>1 DEF QueueTypes, Puts
    <3>2. CASE n = Len(que) + 1
      <4>1. que'[n] = x /\ taken + n = Len(order) + 1
        BY <1>2, <3>2 DEF QueueTypes, Puts
      <4> QED
        BY <1>2, <4>1 DEF QueueTypes, Puts
    <3>3. Len(que) \in Nat
      BY DEF QueueTypes
    <3> QED
      BY <2>2, <3>1, <3>2, <3>3
  <2>4. taken' + Len(que') = Len(order')
    <3>1. taken' = taken /\ taken \in Nat /\ Len(que) \in Nat /\ taken + Len(que) = Len(order)
      BY <1>2 DEF QueueTypes, Puts
    <3> QED
      BY <2>2, <3>1
  <2>5. counter' \in Nat /\ rest' \in Nat /\ taken' \in Nat /\ missed' \in BOOLEAN /\ taken' = taken
    BY <1>2 DEF QueueTypes, Puts
  <2> QED
    BY <2>1, <2>2, <2>3, <2>4, <2>5 DEF QueueTypes
<1>3. ASSUME NEW t, Writes(t) PROVE QueueTypes(U)'
  <2>1. IsFiniteSet(putting')
    BY <1>3, FS_RemoveElement DEF QueueTypes, Writes
  <2> QED
    BY <1>3, <2>1 DEF QueueTypes, Writes
<1>4. CASE Reads
  BY <1>4 DEF QueueTypes, Reads
<1>5. CASE Takes \/ Pops
  <2>0. que # <<>> /\ que' = Tail(que) /\ taken' = taken + 1 /\ que \in Seq(U)
    BY <1>5 DEF QueueTypes, Takes, Pops
  <2>1. que' \in Seq(U) /\ Len(que') = Len(que) - 1 /\ \A n \in 1 .. Len(que') : que'[n] = que[n + 1]
    BY <2>0
  <2>2. ASSUME NEW n \in 1 .. Len(que') PROVE que'[n] = order'[taken' + n]
    <3>1. n + 1 \in 1 .. Len(que) /\ taken' + n = taken + (n + 1)
      BY <1>5, <2>1 DEF QueueTypes, Takes, Pops
    <3> QED
      BY <1>5, <2>1, <3>1 DEF QueueTypes, Takes, Pops
  <2> QED
    BY <1>5, <2>1, <2>2 DEF QueueTypes, Takes, Pops
<1>6. CASE UNCHANGED queueVars
  BY <1>6 DEF QueueTypes, queueVars
<1> QED
  BY <1>2, <1>3, <1>4, <1>5, <1>6

\* What is in the queue stays announced.
LEMMA QueueKeeps ==
    ASSUME NEW U, QueueTypes(U), Covered,
           \/ \E t, x : x \in U /\ Puts(t, x)
           \/ \E t : Writes(t)
           \/ Reads \/ Takes \/ TakesNothing
           \/ UNCHANGED queueVars
    PROVE  QueueTypes(U)' /\ Covered'
<1>1. Cardinality(putting) \in Nat
  BY FS_CardinalityType DEF QueueTypes
<1>2. ASSUME NEW t, NEW x \in U, Puts(t, x) PROVE Covered'
  <2>1. IsFiniteSet(putting') /\ Cardinality(putting') = Cardinality(putting) + 1
    BY <1>2, FS_AddElement DEF QueueTypes, Puts
  <2>2. Len(que') = Len(que) + 1
    BY <1>2 DEF QueueTypes, Puts
  <2>3. ~missed' /\ counter' = counter /\ rest' = rest
    BY <1>2 DEF Puts, Covered
  <2>4. counter \in Nat /\ rest \in Nat /\ Len(que) \in Nat
    BY DEF QueueTypes
  <2> QED
    BY <1>1, <2>1, <2>2, <2>3, <2>4 DEF Covered
<1>3. ASSUME NEW t, Writes(t) PROVE Covered'
  <2>1. IsFiniteSet(putting') /\ Cardinality(putting') = Cardinality(putting) - 1
    BY <1>3, FS_RemoveElement DEF QueueTypes, Writes
  <2> QED
    BY <1>1, <1>3, <2>1 DEF QueueTypes, Writes, Covered
<1>4. ASSUME Reads PROVE Covered'
  BY <1>1, <1>4 DEF QueueTypes, Reads, Covered
<1>5. ASSUME Takes PROVE Covered'
  <2>1. Len(que') = Len(que) - 1
    BY <1>5 DEF QueueTypes, Takes
  <2> QED
    BY <1>1, <1>5, <2>1 DEF QueueTypes, Takes, Covered
<1>6. ~TakesNothing
  BY <1>1 DEF QueueTypes, TakesNothing, Covered
<1>7. ASSUME UNCHANGED queueVars PROVE Covered'
  <2>1. missed' = missed /\ que' = que /\ counter' = counter /\ rest' = rest /\ putting' = putting
    BY <1>7 DEF queueVars
  <2>2. ~missed'
    BY <2>1 DEF Covered
  <2> QED
    BY <2>1, <2>2 DEF Covered
<1>8. QueueTypes(U)'
  BY <1>6, QueueTypesKept
<1> QED
  BY <1>2, <1>3, <1>4, <1>5, <1>6, <1>7, <1>8

LEMMA QueueBegins == ASSUME NEW U, Work!QueueInit PROVE QueueTypes(U) /\ Covered
<1>1. IsFiniteSet({}) /\ Cardinality({}) = 0
  BY FS_EmptySet
<1>2. <<>> \in Seq(U) /\ Len(<<>>) = 0
  OBVIOUS
<1>3. que = <<>> /\ order = <<>> /\ taken = 0 /\ counter = 0 /\ rest = 0 /\ putting = {} /\ missed = FALSE
  BY DEF Work!QueueInit
<1>4. ~missed /\ missed \in BOOLEAN
  BY <1>3
<1> QED
  BY <1>1, <1>2, <1>3, <1>4 DEF QueueTypes, Covered
-----------------------------------------------------------------------------
(* Submit                                                                  *)

Functions == [by : Submitters \cup {-1}, again : BOOLEAN]

WorkPlaces == {"idle", "submitter", "find", "make_and_manage", "find_again", "manage"}

\* One thread at a time is in make_and_manage, and makes a provider when none was managed.
WorkRest ==
    /\ key \in {0, 1} /\ made = key
    /\ spc \in [Submitters -> WorkPlaces] /\ sp \in [Submitters -> {0, 1}]
    /\ \A t \in Submitters : spc[t] \in {"find_again", "manage"} => smutex = t
    /\ \A t \in Submitters : spc[t] = "manage" => key = 0
    /\ \A t \in Submitters : sp[t] = 1 => key = 1

\* The thread that makes the static submitter goes with the lock of the monitor, and looks for the
\* provider under it; who calls make_and_manage directly does not keep that lock.
WorkLock ==
    /\ \A t \in Submitters : ~direct[t] /\ spc[t] \notin {"idle", "submitter"} => sholder = t
    /\ \A t \in Submitters : ~direct[t] /\ spc[t] = "make_and_manage" => key = 0
    /\ \A t \in Submitters : direct[t] => spc[t] \notin {"submitter", "find"} /\ sholder # t

WorkInv ==
    /\ QueueTypes(Functions) /\ Covered
    /\ WorkRest /\ WorkLock
    /\ Len(ran) = taken /\ ran \in Seq(Functions) /\ \A n \in 1 .. taken : ran[n] = order[n]

\* What a step does to the queue.
LEMMA WorkMoves ==
    ASSUME EventsAssumption, WorkInv, [Work!SubmitNext]_(<<queueVars, workVars>>)
    PROVE  QueueTypes(Functions)' /\ Covered'
<1>1. \/ \E t, x : x \in Functions /\ Puts(t, x)
      \/ \E t : Writes(t)
      \/ Reads \/ Takes \/ TakesNothing
      \/ UNCHANGED queueVars
  BY DEF WorkInv, Work!SubmitNext, Work!LoopSteps, Work!UserSteps, Work!start, Work!submitter, Work!find, Work!make_and_manage,
     Work!find_again, Work!manage, Work!submit, Work!waited, Work!write_, Work!on_event, Work!run, Work!run_nothing,
     Work!run_submits, Work!put, Work!write, Work!read, Work!take, Work!take_nothing, Functions, Puts, Writes, Reads, Takes,
     TakesNothing, queueVars, workVars, Work!queueVars, Work!Loop
<1> QED
  BY <1>1, QueueKeeps DEF WorkInv

LEMMA WorkRuns ==
    ASSUME EventsAssumption, WorkInv, [Work!SubmitNext]_(<<queueVars, workVars>>)
    PROVE  Len(ran)' = taken' /\ ran' \in Seq(Functions) /\ \A n \in 1 .. taken' : ran'[n] = order'[n]
<1>1. \/ UNCHANGED <<ran, order, taken>>
      \/ UNCHANGED <<ran, taken>> /\ \E x : order' = Append(order, x)
      \/ que # <<>> /\ ran' = Append(ran, Head(que)) /\ taken' = taken + 1 /\ order' = order
  BY DEF WorkInv, Work!SubmitNext, Work!LoopSteps, Work!UserSteps, Work!start, Work!submitter, Work!find, Work!make_and_manage,
     Work!find_again, Work!manage, Work!submit, Work!waited, Work!write_, Work!on_event, Work!run, Work!run_nothing,
     Work!run_submits, Work!put, Work!write, Work!read, Work!take, Work!take_nothing, queueVars, workVars, Work!queueVars
<1>2. CASE UNCHANGED <<ran, order, taken>>
  BY <1>2 DEF WorkInv
<1>3. CASE UNCHANGED <<ran, taken>> /\ \E x : order' = Append(order, x)
  <2>1. PICK x : order' = Append(order, x)
    BY <1>3
  <2>2. \A n \in 1 .. Len(order) : order'[n] = order[n]
    BY <2>1 DEF WorkInv, QueueTypes
  <2>3. \A n \in 1 .. taken : n \in 1 .. Len(order)
    BY DEF WorkInv, QueueTypes
  <2> QED
    BY <1>3, <2>2, <2>3 DEF WorkInv
<1>4. CASE que # <<>> /\ ran' = Append(ran, Head(que)) /\ taken' = taken + 1 /\ order' = order
  <2>1. Head(que) = order[taken + 1] /\ Head(que) \in Functions
    BY <1>4 DEF WorkInv, QueueTypes
  <2> QED
    BY <1>4, <2>1 DEF WorkInv, QueueTypes
<1> QED
  BY <1>1, <1>2, <1>3, <1>4

LEMMA WorkLocks ==
    ASSUME EventsAssumption, WorkRest, WorkLock, NEW t \in Submitters, Work!UserSteps(t)
    PROVE  WorkLock'
<1>1. Submitters \subseteq Nat \ {0}
  BY DEF EventsAssumption, Work!SubmitAssumption
<1>2. sholder \in {0, t} => \A u \in Submitters : ~direct[u] /\ spc[u] \notin {"idle", "submitter"} => u = t
  BY <1>1 DEF WorkLock
<1>3. CASE Work!start(t)
  BY <1>3 DEF WorkRest, WorkLock, Work!start, Work!Goto
<1>4. CASE Work!submitter(t)
  BY <1>1, <1>2, <1>4 DEF WorkRest, WorkLock, Work!submitter, Work!Goto, Work!None
<1>5. CASE Work!find(t)
  <2>1. sholder \in {0, t} /\ spc[t] = "find" /\ ~direct[t]
    BY <1>5 DEF WorkLock, Work!find, Work!MayLock, Work!Goto, Work!None
  <2> QED
    BY <1>1, <1>2, <1>5, <2>1 DEF WorkRest, WorkLock, Work!find, Work!Goto, Work!None
<1>6. CASE Work!make_and_manage(t)
  BY <1>6 DEF WorkRest, WorkLock, Work!make_and_manage, Work!Goto
<1>7. CASE Work!find_again(t)
  BY <1>1, <1>2, <1>7 DEF WorkRest, WorkLock, Work!find_again, Work!Returned, Work!MayLock, Work!Goto, Work!None
<1>8. CASE Work!manage(t)
  <2>1. key = 0 /\ sholder \in {0, t} /\ spc[t] = "manage"
    BY <1>8 DEF WorkRest, Work!manage, Work!MayLock, Work!Goto, Work!None
  <2>2. \A u \in Submitters \ {t} : spc[u] = "make_and_manage" => direct[u]
    BY <1>2, <2>1
  <2>3. /\ direct' = direct /\ spc' = [spc EXCEPT ![t] = "idle"]
        /\ sholder' = IF direct[t] THEN sholder ELSE 0
    BY <1>8, <2>1 DEF Work!manage, Work!Returned, Work!Goto, Work!None
  <2> QED
    BY <1>1, <1>2, <2>1, <2>2, <2>3 DEF WorkRest, WorkLock
<1>9. CASE Work!waited(t)
  BY <1>9 DEF WorkRest, WorkLock, Work!waited, Work!Goto
<1>10. CASE Work!write_(t)
  BY <1>10 DEF WorkLock, Work!write_
<1> QED
  BY <1>3, <1>4, <1>5, <1>6, <1>7, <1>8, <1>9, <1>10 DEF Work!UserSteps

LEMMA StepWorkInv == EventsAssumption /\ WorkInv /\ [Work!SubmitNext]_(<<queueVars, workVars>>) => WorkInv'
<1> SUFFICES ASSUME EventsAssumption, WorkInv, [Work!SubmitNext]_(<<queueVars, workVars>>) PROVE WorkInv'
  OBVIOUS
<1>1. WorkRest /\ WorkLock
  BY DEF WorkInv
<1>2. ASSUME NEW t \in Submitters, Work!UserSteps(t) PROVE WorkRest'
  <2>1. Submitters \subseteq Nat \ {0}
    BY DEF EventsAssumption, Work!SubmitAssumption
  <2>2. CASE Work!start(t)
    BY <1>1, <2>2 DEF WorkRest, Work!start, Work!Goto, WorkPlaces
  <2>3. CASE Work!submitter(t)
    BY <1>1, <2>3 DEF WorkRest, Work!submitter, Work!Goto, WorkPlaces
  <2>4. CASE Work!find(t)
    BY <1>1, <2>4 DEF WorkRest, Work!find, Work!Gets, Work!Goto, WorkPlaces, Work!None
  <2>5. CASE Work!make_and_manage(t)
    BY <1>1, <2>1, <2>5 DEF WorkRest, Work!make_and_manage, Work!Goto, WorkPlaces, Work!None
  <2>6. CASE Work!find_again(t)
    BY <1>1, <2>1, <2>6 DEF WorkRest, Work!find_again, Work!Returned, Work!Gets, Work!Goto, WorkPlaces, Work!None
  <2>7. CASE Work!manage(t)
    BY <1>1, <2>1, <2>7 DEF WorkRest, Work!manage, Work!Returned, Work!Gets, Work!Goto, WorkPlaces, Work!None
  <2>8. CASE Work!waited(t)
    BY <1>1, <2>8 DEF WorkRest, Work!waited, Work!Goto, WorkPlaces
  <2>9. CASE Work!write_(t)
    BY <1>1, <2>9 DEF WorkRest, Work!write_
  <2> QED
    BY <1>2, <2>2, <2>3, <2>4, <2>5, <2>6, <2>7, <2>8, <2>9 DEF Work!UserSteps
<1>3. ASSUME UNCHANGED <<direct, key, made, sholder, spc, sp, smutex>> PROVE WorkRest' /\ WorkLock'
  BY <1>1, <1>3 DEF WorkRest, WorkLock
<1>4. WorkRest' /\ WorkLock'
  <2> QED
    BY <1>1, <1>2, <1>3, WorkLocks DEF Work!SubmitNext, Work!LoopSteps, Work!submit, Work!write_, Work!on_event, Work!run, Work!run_nothing,
       Work!run_submits, queueVars, workVars
<1> QED
  BY <1>4, WorkMoves, WorkRuns DEF WorkInv

LEMMA InitWorkInv == Work!SubmitInit => WorkInv
<1> SUFFICES ASSUME Work!SubmitInit PROVE WorkInv
  OBVIOUS
<1>1. QueueTypes(Functions) /\ Covered
  BY QueueBegins DEF Work!SubmitInit
<1>2. taken = 0 /\ ran = <<>>
  BY DEF Work!SubmitInit, Work!QueueInit
<1>3. Submitters \subseteq Nat \ {0}
  BY EventsAssumption DEF EventsAssumption, Work!SubmitAssumption
<1> QED
  BY <1>1, <1>2, <1>3 DEF Work!SubmitInit, WorkInv, WorkRest, WorkLock, WorkPlaces, Work!None

LEMMA WorkInvSuffices == WorkInv => Work!RunOnce
<1> SUFFICES ASSUME WorkInv PROVE Work!RunOnce
  OBVIOUS
<1>1. ran = SubSeq(order, 1, taken)
  <2>1. SubSeq(order, 1, taken) \in Seq(Functions) /\ Len(SubSeq(order, 1, taken)) = taken
        /\ \A n \in 1 .. taken : SubSeq(order, 1, taken)[n] = order[n]
    BY DEF WorkInv, QueueTypes
  <2> QED
    BY <2>1 DEF WorkInv
<1>2. Work!QueueCovers
  BY DEF WorkInv, Covered, Work!QueueCovers, Work!Cardinality, Cardinality
<1>3. ASSUME NEW t \in Submitters, NEW u \in Submitters, Work!Waits(t, u) PROVE key = 0 /\ ~direct[t] /\ direct[u]
  <2>1. sholder = t /\ spc[t] = "make_and_manage" /\ spc[u] \in {"find_again", "manage"}
    BY <1>3 DEF Work!Waits
  <2>2. ~direct[t] /\ key = 0
    BY <2>1 DEF WorkInv, WorkLock
  <2> QED
    BY <2>1, <2>2 DEF WorkInv, WorkLock
<1> QED
  BY <1>1, <1>2, <1>3 DEF WorkInv, WorkRest, Work!RunOnce, WorkPlaces, Work!None

\* A set of naturals with a bound has a largest element.
LEMMA Largest == ASSUME NEW N \in Nat, NEW S, S \subseteq 0 .. N, S # {} PROVE \E x \in S : \A y \in S : y <= x
<1> DEFINE R == {n \in 0 .. N : N - n \in S}
<1>1. R \subseteq Nat
  OBVIOUS
<1>2. R # {}
  <2>1. PICK y \in S : TRUE
    OBVIOUS
  <2>2. y \in 0 .. N
    BY <2>1
  <2>3. N - y \in 0 .. N /\ N - (N - y) = y
    BY <2>2
  <2>4. N - y \in R
    BY <2>1, <2>3
  <2> QED
    BY <2>4
<1>3. PICK n \in R : \A k \in R : n <= k
  <2> HIDE DEF R
  <2> QED
    BY <1>1, <1>2, Smallest
<1>4. N - n \in S
  BY <1>3
<1>5. ASSUME NEW y \in S PROVE y <= N - n
  <2>1. y \in 0 .. N
    BY <1>5
  <2>2. N - y \in 0 .. N /\ N - (N - y) = y
    BY <2>1
  <2>3. n <= N - y
    BY <1>3, <1>5, <2>2
  <2>4. n \in 0 .. N
    BY <1>3
  <2> QED
    BY <2>1, <2>3, <2>4
<1> QED
  BY <1>4, <1>5
-----------------------------------------------------------------------------
(* The driver of events                                                    *)

\* What is taken, and what is applied of it
Committed == EvNames \cup {Trigger}
Applied == Committed \cup DOMAIN Combined
StatesOf == {Initials[i] : i \in DOMAIN Initials} \cup Targets

\* The combined events so far of which c was one, and where the events of the next one begin
Completions(c) == {ats[k] : k \in {j \in 1 .. Len(applied) : applied[j] = c /\ Driver!is_partial(taken_[ats[j]])}}
Begin(c) == Driver!Since(c, Len(applied) + 1)

DriverTypes ==
    /\ QueueTypes(EvNames) /\ (machine \/ Covered) /\ machine \in BOOLEAN
    /\ taken_ \in Seq(Committed) /\ applied \in Seq(Applied) /\ ats \in Seq(Nat)
    /\ Len(ats) = Len(applied) /\ \A n \in 1 .. Len(applied) : ats[n] \in 1 .. Len(taken_)
    /\ currents \in Seq(StatesOf) /\ Len(currents) = Len(Initials)
    /\ index \in Nat \ {0} /\ event \in Applied \cup {Driver!NoEvent}

\* What was heard of a combined event since its last use is remembered, and is not all of it.
Remembers ==
    \A c \in DOMAIN Combined :
      /\ Combined[c] \cap ena_partials = Combined[c] \cap Driver!Heard(Begin(c), Len(taken_))
      /\ ~ (Combined[c] \subseteq ena_partials)

\* The current states are where the applied events lead, but those the last one has yet to reach.
Arrives ==
    \A i \in 1 .. Len(Initials) :
      /\ event = Driver!NoEvent \/ i < index => currents[i] = FollowOf(applied, Initials[i])
      /\ event # Driver!NoEvent /\ i >= index => Driver!Goes(currents[i], event) = FollowOf(applied, Initials[i])

CombinesInTime ==
    \A n \in 1 .. Len(applied) : Driver!is_partial(taken_[ats[n]]) =>
      /\ Combined[applied[n]] \subseteq Driver!Heard(Driver!Since(applied[n], n), ats[n])
      /\ ~ (Combined[applied[n]] \subseteq Driver!Heard(Driver!Since(applied[n], n), ats[n] - 1))

AppliesAtOnce ==
    \A q \in 1 .. Len(taken_) : ~Driver!is_partial(taken_[q]) =>
      \E n \in 1 .. Len(applied) : ats[n] = q /\ applied[n] = taken_[q]

DriverInv ==
    /\ DriverTypes /\ Remembers /\ Arrives /\ CombinesInTime /\ AppliesAtOnce /\ Driver!EndsAtTerminals

\* What the program says of its events
LEMMA EventsTake ==
    ASSUME EventsAssumption
    PROVE  /\ \A c, d \in DOMAIN Combined : c # d => Combined[c] \cap Combined[d] = {}
           /\ \A c \in DOMAIN Combined : ~Driver!is_partial(c) /\ Combined[c] # {}
           /\ ~Driver!is_partial(Trigger) /\ Driver!NoEvent \notin Applied
           /\ Initials \in Seq(StatesOf) /\ Len(Initials) \in Nat
<1>1. Initials \in Seq({Initials[i] : i \in DOMAIN Initials})
  BY DEF EventsAssumption, Driver!FsmAssumption, Driver!Range
<1>2. Initials \in Seq(StatesOf)
  <2>1. \A S, T : S \subseteq T => \A q \in Seq(S) : q \in Seq(T)
    OBVIOUS
  <2> DEFINE S == {Initials[i] : i \in DOMAIN Initials}
  <2>2. S \subseteq StatesOf
    BY DEF StatesOf
  <2> HIDE DEF S
  <2> QED
    BY <1>1, <2>1, <2>2 DEF S
<1> QED
  BY <1>1, <1>2 DEF EventsAssumption, Driver!FsmAssumption, Driver!is_partial, Driver!Partials, Applied, Committed

\* Where the events of the next use begin
LEMMA BeginIs ==
    ASSUME DriverTypes, NEW c
    PROVE  /\ Begin(c) \in 0 .. Len(taken_) /\ Begin(c) \in {0} \cup Completions(c)
           /\ \A x \in Completions(c) : x <= Begin(c)
<1> DEFINE S == {0} \cup Completions(c)
           N == Len(taken_)
<1>1. N \in Nat /\ Len(applied) \in Nat
  BY DEF DriverTypes
<1>2. S \subseteq 0 .. N
  BY <1>1 DEF DriverTypes, Completions
<1>3. PICK x \in S : \A y \in S : y <= x
  <2>1. S # {}
    OBVIOUS
  <2> HIDE DEF S, N
  <2> QED
    BY <1>1, <1>2, <2>1, Largest
<1>4. Begin(c) = Driver!Max(S)
  <2>1. Len(applied) + 1 - 1 = Len(applied)
    BY <1>1
  <2> QED
    BY <2>1 DEF Begin, Driver!Since, Completions
<1>5. Driver!Max(S) = CHOOSE z \in S : \A y \in S : z >= y
  BY DEF Driver!Max
<1>6. x >= x /\ \A y \in S : x >= y
  BY <1>2, <1>3
<1>7. Begin(c) \in S /\ \A y \in S : Begin(c) >= y
  <2> HIDE DEF S
  <2> QED
    BY <1>3, <1>4, <1>5, <1>6
<1> QED
  BY <1>2, <1>7

LEMMA SinceIn ==
    ASSUME DriverTypes, NEW c
    PROVE  \A n \in 1 .. Len(applied) + 1 : Driver!Since(c, n) \in Nat
<1> TAKE n \in 1 .. Len(applied) + 1
<1> DEFINE S == {0} \cup {ats[k] : k \in {j \in 1 .. n - 1 : applied[j] = c /\ Driver!is_partial(taken_[ats[j]])}}
           N == Len(taken_)
<1>1. N \in Nat /\ Len(applied) \in Nat
  BY DEF DriverTypes
<1>2. S \subseteq 0 .. N
  <2>1. \A j \in 1 .. n - 1 : j \in 1 .. Len(applied)
    BY <1>1
  <2> QED
    BY <1>1, <2>1 DEF DriverTypes
<1>3. PICK x \in S : \A y \in S : y <= x
  <2>1. S # {}
    OBVIOUS
  <2> HIDE DEF S, N
  <2> QED
    BY <1>1, <1>2, <2>1, Largest
<1>4. Driver!Since(c, n) = CHOOSE z \in S : \A y \in S : z >= y
  BY DEF Driver!Max, Driver!Since
<1>5. x >= x /\ \A y \in S : x >= y
  BY <1>2, <1>3
<1>6. Driver!Since(c, n) \in S
  <2> HIDE DEF S
  <2> QED
    BY <1>3, <1>4, <1>5
<1> QED
  BY <1>2, <1>6

\* An event is taken
Took(ev) ==
    /\ taken_' = Append(taken_, ev) /\ index' = 1 /\ event = Driver!NoEvent
    /\ currents' = currents /\ machine' = machine /\ ended' = ended
Appends(x) == applied' = Append(applied, x) /\ ats' = Append(ats, Len(taken_) + 1) /\ event' = x
Single(ev)  == Took(ev) /\ ~Driver!is_partial(ev) /\ Appends(ev) /\ ena_partials' = ena_partials
Part(ev)    == /\ Took(ev) /\ Driver!is_partial(ev) /\ Driver!Completed(ev) = {}
               /\ event' = Driver!NoEvent /\ ena_partials' = ena_partials \cup {ev} /\ UNCHANGED <<applied, ats>>
Whole(ev, c) == /\ Took(ev) /\ Driver!is_partial(ev) /\ c \in Driver!Completed(ev) /\ Appends(c)
                /\ ena_partials' = (ena_partials \cup {ev}) \ Combined[c]

LEMMA TransitIs ==
    ASSUME EventsAssumption, DriverTypes, NEW ev \in Committed, Driver!transit(ev), event = Driver!NoEvent,
           currents' = currents, machine' = machine, ended' = ended
    PROVE  Single(ev) \/ Part(ev) \/ \E c \in DOMAIN Combined : Whole(ev, c)
<1>1. Took(ev) /\ Len(taken_') = Len(taken_) + 1
  BY DEF Driver!transit, Took, DriverTypes
<1>2. CASE ~Driver!is_partial(ev)
  <2>1. event' = ev /\ ena_partials' = ena_partials
    BY <1>2 DEF Driver!transit
  <2>2. event' # Driver!NoEvent
    BY <2>1, EventsTake DEF Applied
  <2>3. Appends(ev)
    BY <1>1, <2>1, <2>2 DEF Driver!transit, Appends
  <2> QED
    BY <1>1, <1>2, <2>1, <2>3 DEF Single
<1>3. CASE Driver!is_partial(ev) /\ Driver!Completed(ev) = {}
  <2>1. event' = Driver!NoEvent /\ ena_partials' = ena_partials \cup {ev}
    BY <1>3 DEF Driver!transit
  <2>2. UNCHANGED <<applied, ats>>
    BY <2>1 DEF Driver!transit
  <2> QED
    BY <1>1, <1>3, <2>1, <2>2 DEF Part
<1>4. CASE Driver!is_partial(ev) /\ Driver!Completed(ev) # {}
  <2>1. PICK c \in Driver!Completed(ev) : event' = c /\ ena_partials' = (ena_partials \cup {ev}) \ Combined[c]
    BY <1>4 DEF Driver!transit
  <2>2. c \in DOMAIN Combined /\ event' # Driver!NoEvent
    BY <2>1, EventsTake DEF Applied, Driver!Completed
  <2>3. Appends(c)
    BY <1>1, <2>1, <2>2 DEF Driver!transit, Appends
  <2> QED
    BY <1>1, <1>4, <2>1, <2>2, <2>3 DEF Whole
<1> QED
  BY <1>2, <1>3, <1>4

\* Histories only grow.
LEMMA Grown ==
    ASSUME DriverTypes, NEW ev \in Committed, Took(ev), NEW x \in Applied, Appends(x) \/ UNCHANGED <<applied, ats>>
    PROVE  /\ taken_' \in Seq(Committed) /\ Len(taken_') = Len(taken_) + 1 /\ taken_'[Len(taken_) + 1] = ev
           /\ \A q \in 1 .. Len(taken_) : taken_'[q] = taken_[q]
           /\ applied' \in Seq(Applied) /\ ats' \in Seq(Nat) /\ Len(ats') = Len(applied')
           /\ \A n \in 1 .. Len(applied) : applied'[n] = applied[n] /\ ats'[n] = ats[n]
           /\ \A n \in 1 .. Len(applied') : ats'[n] \in 1 .. Len(taken_')
           /\ Appends(x) => /\ Len(applied') = Len(applied) + 1
                            /\ applied'[Len(applied) + 1] = x /\ ats'[Len(applied) + 1] = Len(taken_) + 1
           /\ UNCHANGED <<applied, ats>> => Len(applied') = Len(applied)
<1>1. Len(taken_) \in Nat /\ Len(applied) \in Nat
  BY DEF DriverTypes
<1>2. /\ taken_' \in Seq(Committed) /\ Len(taken_') = Len(taken_) + 1 /\ taken_'[Len(taken_) + 1] = ev
      /\ \A q \in 1 .. Len(taken_) : taken_'[q] = taken_[q]
  BY DEF Took, DriverTypes
<1>3. CASE Appends(x)
  <2>1. /\ applied' \in Seq(Applied) /\ Len(applied') = Len(applied) + 1 /\ applied'[Len(applied) + 1] = x
        /\ \A n \in 1 .. Len(applied) : applied'[n] = applied[n]
    BY <1>3 DEF Appends, DriverTypes
  <2>2. /\ ats' \in Seq(Nat) /\ Len(ats') = Len(applied) + 1 /\ ats'[Len(applied) + 1] = Len(taken_) + 1
        /\ \A n \in 1 .. Len(applied) : ats'[n] = ats[n]
    BY <1>3, <1>1 DEF Appends, DriverTypes
  <2>3. \A n \in 1 .. Len(applied') : ats'[n] \in 1 .. Len(taken_')
    <3> TAKE n \in 1 .. Len(applied')
    <3>1. CASE n = Len(applied) + 1
      BY <3>1, <1>1, <1>2, <2>2
    <3>2. CASE n \in 1 .. Len(applied)
      <4>1. ats'[n] = ats[n]
        BY <3>2, <2>2
      <4>2. ats[n] \in 1 .. Len(taken_)
        BY <3>2 DEF DriverTypes
      <4> QED
        BY <4>1, <4>2, <1>1, <1>2
    <3> QED
      BY <1>1, <2>1, <3>1, <3>2
  <2> QED
    BY <1>2, <2>1, <2>2, <2>3
<1>4. CASE UNCHANGED <<applied, ats>>
  <2>1. ~Appends(x) \/ Appends(x)
    OBVIOUS
  <2>2. applied' = applied /\ ats' = ats
    BY <1>4
  <2>3. \A n \in 1 .. Len(applied') : ats'[n] \in 1 .. Len(taken_')
    BY <1>1, <1>2, <2>2 DEF DriverTypes
  <2>4. ~Appends(x)
    <3>1. ASSUME Appends(x) PROVE FALSE
      <4>1. Len(applied') = Len(applied) + 1
        BY <3>1 DEF Appends, DriverTypes
      <4> QED
        BY <4>1, <1>1, <2>2
    <3> QED
      BY <3>1
  <2> QED
    BY <1>2, <2>2, <2>3, <2>4 DEF DriverTypes
<1> QED
  BY <1>3, <1>4

\* What a combined event had begun with stays.
LEMMA SinceStays ==
    ASSUME DriverTypes, NEW ev \in Committed, Took(ev), NEW x \in Applied, Appends(x) \/ UNCHANGED <<applied, ats>>,
           NEW c, NEW n \in 1 .. Len(applied) + 1
    PROVE  Driver!Since(c, n)' = Driver!Since(c, n)
<1>1. Len(taken_) \in Nat /\ Len(applied) \in Nat
  BY DEF DriverTypes
<1>2. \A j \in 1 .. n - 1 : /\ j \in 1 .. Len(applied) /\ ats[j] \in 1 .. Len(taken_)
                            /\ applied'[j] = applied[j] /\ ats'[j] = ats[j] /\ taken_'[ats[j]] = taken_[ats[j]]
  <2> TAKE j \in 1 .. n - 1
  <2>1. j \in 1 .. Len(applied)
    BY <1>1
  <2>2. ats[j] \in 1 .. Len(taken_)
    BY <2>1 DEF DriverTypes
  <2> QED
    BY <2>1, <2>2, Grown
<1> DEFINE K  == {j \in 1 .. n - 1 : applied[j] = c /\ Driver!is_partial(taken_[ats[j]])}
           K_ == {j \in 1 .. n - 1 : applied'[j] = c /\ Driver!is_partial(taken_'[ats'[j]])}
<1>3. K = K_
  BY <1>2
<1>4. {ats[k] : k \in K} = {ats'[k] : k \in K_}
  BY <1>2, <1>3
<1> QED
  BY <1>4 DEF Driver!Since, Driver!is_partial, Driver!Partials

\* A use of a combined event is where the next one begins; nothing else is.
LEMMA BeginStays ==
    ASSUME DriverTypes, NEW ev \in Committed, Took(ev), NEW x \in Applied, Appends(x) \/ UNCHANGED <<applied, ats>>,
           NEW c, x = c => ~Appends(x) \/ ~Driver!is_partial(ev)
    PROVE  Begin(c)' = Begin(c)
<1>1. Len(taken_) \in Nat /\ Len(applied) \in Nat /\ Len(applied') \in Nat
  BY Grown DEF DriverTypes
<1>2. Begin(c)' = Driver!Max({0} \cup Completions(c)') /\ Begin(c) = Driver!Max({0} \cup Completions(c))
  <2>1. Len(applied') + 1 - 1 = Len(applied') /\ Len(applied) + 1 - 1 = Len(applied)
    BY <1>1
  <2> QED
    BY <2>1 DEF Begin, Driver!Since, Completions, Driver!is_partial, Driver!Partials
<1> DEFINE K  == {j \in 1 .. Len(applied) : applied[j] = c /\ Driver!is_partial(taken_[ats[j]])}
           K_ == {j \in 1 .. Len(applied') : applied'[j] = c /\ Driver!is_partial(taken_'[ats'[j]])}
<1>3. ASSUME NEW j \in 1 .. Len(applied)
      PROVE  /\ j \in 1 .. Len(applied') /\ applied'[j] = applied[j] /\ ats'[j] = ats[j]
             /\ taken_'[ats[j]] = taken_[ats[j]]
  <2>1. ats[j] \in 1 .. Len(taken_)
    BY DEF DriverTypes
  <2> QED
    BY <1>1, <2>1, Grown
<1>4. K_ \subseteq 1 .. Len(applied)
  <2> SUFFICES ASSUME NEW j \in K_ PROVE j \in 1 .. Len(applied)
    OBVIOUS
  <2>1. CASE UNCHANGED <<applied, ats>>
    BY <2>1, Grown
  <2>2. CASE Appends(x)
    <3>1. /\ Len(applied') = Len(applied) + 1 /\ applied'[Len(applied) + 1] = x
          /\ ats'[Len(applied) + 1] = Len(taken_) + 1 /\ taken_'[Len(taken_) + 1] = ev
      BY <2>2, Grown
    <3>2. j # Len(applied) + 1
      BY <2>2, <3>1
    <3> QED
      BY <1>1, <3>1, <3>2
  <2> QED
    BY <2>1, <2>2
<1>5. K = K_
  BY <1>3, <1>4
<1>6. Completions(c)' = Completions(c)
  <2>1. Completions(c)' = {ats'[k] : k \in K_}
    BY DEF Completions, Driver!is_partial, Driver!Partials
  <2>2. \A k \in K : ats'[k] = ats[k]
    BY <1>3
  <2> QED
    BY <1>5, <2>1, <2>2 DEF Completions
<1> QED
  BY <1>2, <1>6

LEMMA BeginMoves ==
    ASSUME DriverTypes, NEW ev \in Committed, NEW c \in Applied, Took(ev), Appends(c), Driver!is_partial(ev)
    PROVE  Begin(c)' = Len(taken_) + 1
<1>1. Len(taken_) \in Nat /\ Len(applied) \in Nat /\ Len(applied') = Len(applied) + 1
  BY Grown DEF DriverTypes
<1>2. Begin(c)' = Driver!Max({0} \cup Completions(c)')
  <2>1. Len(applied') + 1 - 1 = Len(applied')
    BY <1>1
  <2> QED
    BY <2>1 DEF Begin, Driver!Since, Completions, Driver!is_partial, Driver!Partials
<1> DEFINE S == {0} \cup Completions(c)'
           K == {j \in 1 .. Len(applied') : applied'[j] = c /\ Driver!is_partial(taken_'[ats'[j]])}
<1>3. Completions(c)' = {ats'[k] : k \in K}
  BY DEF Completions, Driver!is_partial, Driver!Partials
<1>4. Len(taken_) + 1 \in S
  <2>1. /\ applied'[Len(applied) + 1] = c
        /\ ats'[Len(applied) + 1] = Len(taken_) + 1 /\ taken_'[Len(taken_) + 1] = ev
    BY Grown
  <2>2. Len(applied) + 1 \in K
    BY <1>1, <2>1
  <2> QED
    BY <1>3, <2>1, <2>2
<1>5. \A y \in S : y \in 0 .. Len(taken_) + 1
  BY <1>1, <1>3, Grown
<1>6. Driver!Max(S) = CHOOSE z \in S : \A y \in S : z >= y
  BY DEF Driver!Max
<1> HIDE DEF S
<1>7. \A y \in S : Len(taken_) + 1 >= y
  BY <1>1, <1>5
<1>8. \A z \in S : (\A y \in S : z >= y) => z = Len(taken_) + 1
  BY <1>1, <1>4, <1>5
<1>9. Driver!Max(S) = Len(taken_) + 1
  BY <1>4, <1>6, <1>7, <1>8
<1> QED
  BY <1>2, <1>9 DEF S

\* What is heard with the next event
LEMMA HeardNext ==
    ASSUME DriverTypes, NEW ev \in Committed, Took(ev), NEW b \in 0 .. Len(taken_)
    PROVE  /\ Driver!Heard(b, Len(taken_))' = Driver!Heard(b, Len(taken_)) \cup {ev}
           /\ Len(taken_)' = Len(taken_) + 1
<1>1. /\ Len(taken_) \in Nat /\ Len(taken_') = Len(taken_) + 1 /\ taken_'[Len(taken_) + 1] = ev
      /\ \A q \in 1 .. Len(taken_) : taken_'[q] = taken_[q]
  BY DEF Took, DriverTypes
<1> DEFINE L == Len(taken_)
<1>2. \A q \in b + 1 .. L + 1 : q = L + 1 \/ (q \in b + 1 .. L /\ q \in 1 .. L)
  BY <1>1
<1>3. \A q \in b + 1 .. L : q \in b + 1 .. L + 1 /\ q \in 1 .. L
  BY <1>1
<1>4. L + 1 \in b + 1 .. L + 1
  BY <1>1
<1>5. Driver!Heard(b, Len(taken_))' = {taken_'[q] : q \in b + 1 .. L + 1}
  BY <1>1 DEF Driver!Heard
<1>6. {taken_'[q] : q \in b + 1 .. L + 1} = {taken_[q] : q \in b + 1 .. L} \cup {ev}
  <2> DEFINE A == {taken_'[q] : q \in b + 1 .. L + 1}
             B == {taken_[q] : q \in b + 1 .. L} \cup {ev}
  <2>1. ASSUME NEW y \in A PROVE y \in B
    <3>1. PICK q \in b + 1 .. L + 1 : y = taken_'[q]
      OBVIOUS
    <3> QED
      BY <1>1, <1>2, <3>1
  <2>2. ASSUME NEW y \in B PROVE y \in A
    <3>1. CASE y = ev
      BY <1>1, <1>4, <3>1
    <3>2. CASE y \in {taken_[q] : q \in b + 1 .. L}
      <4>1. PICK q \in b + 1 .. L : y = taken_[q]
        BY <3>2
      <4> QED
        BY <1>1, <1>3, <4>1
    <3> QED
      BY <3>1, <3>2
  <2> HIDE DEF A, B
  <2>3. A = B
    BY <2>1, <2>2
  <2> QED
    BY <2>3 DEF A, B
<1>7. Driver!Heard(b, Len(taken_)) = {taken_[q] : q \in b + 1 .. L}
  BY DEF Driver!Heard
<1> QED
  BY <1>1, <1>5, <1>6, <1>7

\* Each of the parts of the invariant, when an event is taken
LEMMA TakesTypes ==
    ASSUME EventsAssumption, DriverTypes, NEW ev \in Committed, Took(ev), NEW x \in Applied,
           Appends(x) \/ UNCHANGED <<applied, ats>>, event' \in {x, Driver!NoEvent},
           QueueTypes(EvNames)', machine \/ Covered'
    PROVE  DriverTypes'
  BY Grown DEF DriverTypes, Took

LEMMA TakesRemembers ==
    ASSUME EventsAssumption, DriverTypes, Remembers, NEW ev \in Committed,
           Single(ev) \/ Part(ev) \/ \E c \in DOMAIN Combined : Whole(ev, c)
    PROVE  Remembers'
<1> SUFFICES ASSUME NEW c \in DOMAIN Combined
             PROVE  /\ Combined[c] \cap ena_partials' = Combined[c] \cap Driver!Heard(Begin(c), Len(taken_))'
                    /\ ~ (Combined[c] \subseteq ena_partials')
  BY DEF Remembers
<1>1. /\ Combined[c] \cap ena_partials = Combined[c] \cap Driver!Heard(Begin(c), Len(taken_))
      /\ ~ (Combined[c] \subseteq ena_partials)
  BY DEF Remembers
<1>2. Combined[c] # {} /\ (\A y \in Combined[c] : Driver!is_partial(y))
  BY EventsTake DEF Driver!is_partial, Driver!Partials
<1>3. Begin(c) \in 0 .. Len(taken_)
  BY BeginIs
<1> DEFINE H == Driver!Heard(Begin(c), Len(taken_))
<1>4. ASSUME Took(ev), Begin(c)' = Begin(c) PROVE H' = H \cup {ev}
  <2> QED
    BY <1>3, <1>4, HeardNext
<1>5. CASE Single(ev)
  <2>1. Begin(c)' = Begin(c) /\ ev \notin Combined[c] /\ ena_partials' = ena_partials
    BY <1>2, <1>5, BeginStays DEF Single, Applied
  <2>2. H' = H \cup {ev}
    BY <1>4, <1>5, <2>1 DEF Single
  <2> HIDE DEF H
  <2>3. Combined[c] \cap H' = Combined[c] \cap H
    BY <2>1, <2>2
  <2> QED
    BY <1>1, <2>1, <2>3 DEF H
<1>6. CASE Part(ev)
  <2>1. Begin(c)' = Begin(c) /\ ena_partials' = ena_partials \cup {ev} /\ ~(Combined[c] \subseteq ena_partials \cup {ev})
    <3>1. Appends(Trigger) \/ UNCHANGED <<applied, ats>>
      BY <1>6 DEF Part
    <3>2. ~Appends(c)
      <4>1. ASSUME Appends(c) PROVE FALSE
        BY <1>6, <4>1, EventsTake DEF Appends, Part, Applied
      <4> QED
        BY <4>1
    <3>3. c \in Applied /\ (Appends(c) \/ UNCHANGED <<applied, ats>>)
      BY <1>6 DEF Part, Applied
    <3>4. Begin(c)' = Begin(c)
      BY <1>6, <3>2, <3>3, BeginStays DEF Part
    <3> QED
      BY <1>6, <3>4 DEF Part, Driver!Completed
  <2>2. H' = H \cup {ev}
    BY <1>4, <1>6, <2>1 DEF Part
  <2> HIDE DEF H
  <2>3. Combined[c] \cap H' = Combined[c] \cap (ena_partials \cup {ev})
    BY <1>1, <2>2 DEF H
  <2> QED
    BY <2>1, <2>3 DEF H
<1>7. ASSUME NEW d \in DOMAIN Combined, Whole(ev, d)
      PROVE  /\ Combined[c] \cap ena_partials' = Combined[c] \cap H'
             /\ ~ (Combined[c] \subseteq ena_partials')
  <2>1. CASE c = d
    <3>1. Begin(c)' = Len(taken_) + 1
      BY <1>7, <2>1, BeginMoves DEF Whole, Applied
    <3>2. Len(taken_)' = Len(taken_) + 1 /\ Len(taken_) \in Nat
      BY <1>7 DEF Whole, Took, DriverTypes
    <3>3. H' = {}
      BY <3>1, <3>2 DEF Driver!Heard
    <3>4. Combined[c] \cap ena_partials' = {}
      BY <1>7, <2>1 DEF Whole
    <3> HIDE DEF H
    <3> QED
      BY <1>2, <3>3, <3>4
  <2>2. CASE c # d
    <3>1. Begin(c)' = Begin(c)
      BY <1>7, <2>2, BeginStays DEF Whole, Applied
    <3>2. H' = H \cup {ev}
      BY <1>4, <1>7, <3>1 DEF Whole
    <3>3. Combined[c] \cap Combined[d] = {}
      BY <2>2, EventsTake
    <3>4. ev \in Combined[d] /\ ena_partials' = (ena_partials \cup {ev}) \ Combined[d]
      BY <1>7 DEF Whole, Driver!Completed, Remembers
    <3>5. ev \notin Combined[c]
      BY <3>3, <3>4
    <3> HIDE DEF H
    <3>6. Combined[c] \cap ena_partials' = Combined[c] \cap ena_partials
      BY <3>3, <3>4, <3>5
    <3>7. Combined[c] \cap H' = Combined[c] \cap ena_partials
      BY <1>1, <3>2, <3>5 DEF H
    <3> QED
      BY <1>1, <3>6, <3>7
  <2> QED
    BY <2>1, <2>2
<1> QED
  BY <1>5, <1>6, <1>7

LEMMA TakesCombines ==
    ASSUME EventsAssumption, DriverTypes, Remembers, CombinesInTime, NEW ev \in Committed,
           Single(ev) \/ Part(ev) \/ \E c \in DOMAIN Combined : Whole(ev, c)
    PROVE  CombinesInTime'
<1>1. Len(taken_) \in Nat /\ Len(applied) \in Nat /\ Took(ev)
  BY DEF DriverTypes, Single, Part, Whole
<1>2. PICK x \in Applied : /\ Appends(x) \/ UNCHANGED <<applied, ats>>
                           /\ Appends(x) => (x \in DOMAIN Combined /\ Whole(ev, x)) \/ ~Driver!is_partial(ev)
  <2>1. CASE Single(ev)
    BY <2>1 DEF Single, Applied
  <2>2. CASE Part(ev)
    <3>1. ~Appends(Trigger)
      BY <2>2, EventsTake DEF Part, Appends, Applied, Committed
    <3> QED
      BY <2>2, <3>1 DEF Part, Applied, Committed
  <2>3. CASE \E c \in DOMAIN Combined : Whole(ev, c)
    BY <2>3 DEF Whole, Applied
  <2> QED
    BY <2>1, <2>2, <2>3
<1> SUFFICES ASSUME NEW n \in 1 .. Len(applied'), Driver!is_partial(taken_'[ats'[n]])
             PROVE  /\ Combined[applied'[n]] \subseteq Driver!Heard(Driver!Since(applied[n], n), ats[n])'
                    /\ ~ (Combined[applied'[n]] \subseteq Driver!Heard(Driver!Since(applied[n], n), ats[n] - 1)')
  BY DEF CombinesInTime, Driver!is_partial, Driver!Partials
<1>3. ASSUME NEW a, a = applied'[n], NEW to, to = ats'[n], NEW b, b = Driver!Since(a, n)'
      PROVE  /\ Driver!Heard(Driver!Since(applied[n], n), ats[n])' = Driver!Heard(b, to)'
             /\ Driver!Heard(Driver!Since(applied[n], n), ats[n] - 1)' = Driver!Heard(b, to - 1)'
  <2>1. Driver!Since(applied[n], n)' = b
    BY <1>3 DEF Driver!Since
  <2> QED
    BY <1>3, <2>1 DEF Driver!Heard
<1>4. ASSUME NEW b \in Nat, NEW to \in 0 .. Len(taken_)
      PROVE  Driver!Heard(b, to)' = Driver!Heard(b, to)
  <2>1. \A q \in 1 .. Len(taken_) : taken_'[q] = taken_[q]
    BY <1>1, <1>2, Grown
  <2>2. \A q \in b + 1 .. to : q \in 1 .. Len(taken_)
    BY <1>1
  <2>3. \A q \in b + 1 .. to : taken_'[q] = taken_[q]
    BY <2>1, <2>2
  <2> QED
    BY <2>3 DEF Driver!Heard
<1>5. CASE n \in 1 .. Len(applied)
  <2>1. PICK a, to, b : a = applied[n] /\ to = ats[n] /\ b = Driver!Since(a, n)
    OBVIOUS
  <2>2. a = applied'[n] /\ to = ats'[n] /\ b = Driver!Since(a, n)' /\ to \in 1 .. Len(taken_) /\ taken_'[to] = taken_[to]
    <3>1. to \in 1 .. Len(taken_)
      BY <1>5, <2>1 DEF DriverTypes
    <3>2. n \in 1 .. Len(applied) + 1
      BY <1>1, <1>5
    <3>3. Driver!Since(a, n)' = Driver!Since(a, n)
      BY <1>1, <1>2, <3>2, SinceStays
    <3> QED
      BY <1>1, <1>2, <1>5, <2>1, <3>1, <3>3, Grown
  <2>3. Driver!is_partial(taken_[ats[n]])
    BY <2>1, <2>2 DEF Driver!is_partial, Driver!Partials
  <2>4. /\ Combined[a] \subseteq Driver!Heard(b, to)
        /\ ~ (Combined[a] \subseteq Driver!Heard(b, to - 1))
    BY <1>5, <2>1, <2>3 DEF CombinesInTime
  <2>5. b \in Nat /\ to \in 0 .. Len(taken_) /\ to - 1 \in 0 .. Len(taken_)
    <3>1. \A z \in 1 .. Len(applied) + 1 : Driver!Since(a, z) \in Nat
      BY SinceIn
    <3> QED
      BY <1>1, <1>5, <2>1, <2>2, <3>1
  <2>6. Driver!Heard(b, to)' = Driver!Heard(b, to) /\ Driver!Heard(b, to - 1)' = Driver!Heard(b, to - 1)
    BY <1>4, <2>5
  <2> QED
    BY <1>3, <2>2, <2>4, <2>6
<1>6. CASE n \notin 1 .. Len(applied)
  <2>1. n = Len(applied) + 1 /\ Appends(x)
    <3>1. Len(applied') = Len(applied) \/ (Len(applied') = Len(applied) + 1 /\ Appends(x))
      <4>1. CASE Appends(x)
        BY <1>1, <1>2, <4>1, Grown
      <4>2. CASE UNCHANGED <<applied, ats>>
        BY <1>1, <1>2, <4>2, Grown
      <4> QED
        BY <1>2, <4>1, <4>2
    <3> QED
      BY <1>1, <1>6, <3>1
  <2>2. applied'[n] = x /\ ats'[n] = Len(taken_) + 1 /\ taken_'[Len(taken_) + 1] = ev
    BY <1>1, <1>2, <2>1, Grown
  <2>3. x \in DOMAIN Combined /\ Whole(ev, x)
    BY <1>2, <2>1, <2>2 DEF Driver!is_partial, Driver!Partials
  <2>4. PICK b : b = Begin(x)
    OBVIOUS
  <2>5. b = Driver!Since(x, n)' /\ b \in 0 .. Len(taken_)
    <3>1. n \in 1 .. Len(applied) + 1
      BY <1>1, <2>1
    <3>2. Driver!Since(x, n)' = Driver!Since(x, n)
      BY <1>1, <1>2, <3>1, SinceStays
    <3>3. Driver!Since(x, n) = Begin(x)
      BY <2>1 DEF Begin
    <3> QED
      BY <2>4, <3>2, <3>3, BeginIs
  <2>6. PICK to : to = Len(taken_) + 1
    OBVIOUS
  <2>7. Driver!Heard(b, to)' = Driver!Heard(b, Len(taken_)) \cup {ev}
    <3>1. Driver!Heard(b, Len(taken_))' = Driver!Heard(b, Len(taken_)) \cup {ev} /\ Len(taken_)' = to
      BY <1>1, <2>5, <2>6, HeardNext
    <3> QED
      BY <3>1 DEF Driver!Heard
  <2>8. Driver!Heard(b, to - 1)' = Driver!Heard(b, Len(taken_))
    <3>1. to - 1 \in 0 .. Len(taken_) /\ to - 1 = Len(taken_) /\ b \in Nat
      BY <1>1, <2>5, <2>6
    <3>2. Driver!Heard(b, to - 1)' = Driver!Heard(b, to - 1)
      BY <1>4, <3>1
    <3> QED
      BY <3>1, <3>2
  <2>9. /\ Combined[x] \cap ena_partials = Combined[x] \cap Driver!Heard(b, Len(taken_))
        /\ ~ (Combined[x] \subseteq ena_partials) /\ Combined[x] \subseteq ena_partials \cup {ev}
    BY <2>3, <2>4 DEF Remembers, Whole, Driver!Completed
  <2>10. /\ Combined[x] \subseteq Driver!Heard(b, to)'
         /\ ~ (Combined[x] \subseteq Driver!Heard(b, to - 1)')
    BY <2>7, <2>8, <2>9
  <2> QED
    BY <1>3, <2>2, <2>5, <2>6, <2>10
<1> QED
  BY <1>5, <1>6

LEMMA TakesAtOnce ==
    ASSUME EventsAssumption, DriverTypes, AppliesAtOnce, NEW ev \in Committed,
           Single(ev) \/ Part(ev) \/ \E c \in DOMAIN Combined : Whole(ev, c)
    PROVE  AppliesAtOnce'
<1>1. Len(taken_) \in Nat /\ Len(applied) \in Nat /\ Took(ev)
  BY DEF DriverTypes, Single, Part, Whole
<1>2. PICK x \in Applied : /\ Appends(x) \/ UNCHANGED <<applied, ats>>
                           /\ ~Driver!is_partial(ev) => Appends(x) /\ x = ev
  BY DEF Single, Part, Whole, Applied
<1> SUFFICES ASSUME NEW q \in 1 .. Len(taken_'), ~Driver!is_partial(taken_'[q])
             PROVE  \E n \in 1 .. Len(applied') : ats'[n] = q /\ applied'[n] = taken_'[q]
  BY DEF AppliesAtOnce, Driver!is_partial, Driver!Partials
<1>3. Len(applied') \in {Len(applied), Len(applied) + 1} /\ Len(taken_') = Len(taken_) + 1
  BY <1>1, <1>2, Grown
<1>4. CASE q = Len(taken_) + 1
  <2>1. taken_'[q] = ev
    BY <1>1, <1>2, <1>4, Grown
  <2>2. Appends(x) /\ x = ev
    BY <1>2, <2>1
  <2>3. /\ Len(applied') = Len(applied) + 1 /\ applied'[Len(applied) + 1] = ev
        /\ ats'[Len(applied) + 1] = Len(taken_) + 1
    BY <1>1, <1>2, <2>2, Grown
  <2> QED
    BY <1>1, <1>4, <2>1, <2>3
<1>5. CASE q \in 1 .. Len(taken_)
  <2>1. taken_'[q] = taken_[q]
    BY <1>1, <1>2, <1>5, Grown
  <2>2. PICK n \in 1 .. Len(applied) : ats[n] = q /\ applied[n] = taken_[q]
    BY <1>5, <2>1 DEF AppliesAtOnce
  <2>3. ats'[n] = ats[n] /\ applied'[n] = applied[n] /\ n \in 1 .. Len(applied')
    BY <1>1, <1>2, <1>3, Grown
  <2> QED
    BY <2>1, <2>2, <2>3
<1> QED
  BY <1>1, <1>3, <1>4, <1>5

LEMMA TakesArrives ==
    ASSUME EventsAssumption, DriverTypes, Arrives, NEW ev \in Committed,
           Single(ev) \/ Part(ev) \/ \E c \in DOMAIN Combined : Whole(ev, c)
    PROVE  Arrives'
<1> SUFFICES ASSUME NEW i \in 1 .. Len(Initials)
             PROVE  /\ event' = Driver!NoEvent \/ i < index' => currents'[i] = FollowOf(applied', Initials[i])
                    /\ event' # Driver!NoEvent /\ i >= index' => Driver!Goes(currents'[i], event') = FollowOf(applied', Initials[i])
  BY DEF Arrives
<1>1. Took(ev) /\ currents' = currents /\ index' = 1 /\ currents[i] = FollowOf(applied, Initials[i]) /\ i \in Nat /\ i >= 1
  BY DEF Single, Part, Whole, Took, Arrives
<1>2. CASE Part(ev)
  BY <1>1, <1>2 DEF Part
<1>3. ASSUME NEW x \in Applied, Appends(x)
      PROVE  /\ event' = Driver!NoEvent \/ i < index' => currents'[i] = FollowOf(applied', Initials[i])
             /\ event' # Driver!NoEvent /\ i >= index' => Driver!Goes(currents'[i], event') = FollowOf(applied', Initials[i])
  <2>1. event' = x /\ x # Driver!NoEvent /\ applied' = Append(applied, x)
    BY <1>3, EventsTake DEF Appends
  <2>2. FollowOf(Append(applied, x), Initials[i]) = Driver!Goes(FollowOf(applied, Initials[i]), x)
    BY FollowAppend DEF DriverTypes
  <2> QED
    BY <1>1, <2>1, <2>2
<1> QED
  BY <1>2, <1>3 DEF Single, Whole, Applied

\* The steps of the driver
FsmStep == [Driver!FsmNext]_(<<queueVars, fsmVars>>)

LEMMA DriverMoves ==
    ASSUME EventsAssumption, DriverInv, FsmStep
    PROVE  /\ machine' = machine /\ QueueTypes(EvNames)'
           /\ machine' \/ Covered'
           /\ \/ \E ev \in Committed : /\ Single(ev) \/ Part(ev) \/ \E c \in DOMAIN Combined : Whole(ev, c)
                                       /\ machine => ~ended
              \/ Driver!step \/ Driver!stepped \/ UNCHANGED fsmVars
<1>1. DriverTypes
  BY DEF DriverInv
<1>2. ASSUME NEW ev, ev = Head(que), que # <<>>, Driver!transit(ev), event = Driver!NoEvent,
             currents' = currents, machine' = machine, ended' = ended
      PROVE  \E e \in Committed : Single(e) \/ Part(e) \/ \E c \in DOMAIN Combined : Whole(e, c)
  <2>1. ev \in EvNames
    BY <1>1, <1>2 DEF DriverTypes, QueueTypes
  <2>2. ev \in Committed
    BY <2>1 DEF Committed
  <2> QED
    BY <1>1, <1>2, <2>2, TransitIs
<1>3. CASE Driver!step \/ Driver!stepped
  <2>1. UNCHANGED queueVars /\ machine' = machine
    BY <1>3 DEF Driver!step, Driver!stepped, Driver!queueVars, queueVars
  <2>2. QueueTypes(EvNames)'
    BY <1>1, <2>1, QueueTypesKept DEF DriverTypes
  <2>3. machine' \/ Covered'
    BY <1>1, <2>1, QueueKeeps DEF DriverTypes
  <2> QED
    BY <1>3, <2>1, <2>2, <2>3
<1>4. CASE Driver!read_events
  <2>1. ~machine /\ machine' = machine /\ Reads /\ UNCHANGED fsmVars
    BY <1>4 DEF Driver!read_events, Driver!read, Driver!driverVars, Reads, fsmVars
  <2> QED
    BY <1>1, <2>1, QueueKeeps DEF DriverTypes
<1>5. CASE Driver!next_event
  <2>1. ~machine /\ machine' = machine /\ Takes
    BY <1>5 DEF Driver!next_event, Driver!take, Takes
  <2>2. \E e \in Committed : Single(e) \/ Part(e) \/ \E c \in DOMAIN Combined : Whole(e, c)
    BY <1>2, <1>5, <2>1 DEF Driver!next_event, Takes
  <2> QED
    BY <1>1, <2>1, <2>2, QueueKeeps DEF DriverTypes
<1>6. CASE Driver!loop
  <2>1. machine /\ machine' = machine /\ ~ended /\ Pops
    BY <1>6 DEF Driver!loop, Pops
  <2>2. \E e \in Committed : Single(e) \/ Part(e) \/ \E c \in DOMAIN Combined : Whole(e, c)
    BY <1>2, <1>6, <2>1 DEF Driver!loop, Pops
  <2>3. machine'
    BY <2>1
  <2> QED
    BY <1>1, <2>1, <2>2, <2>3, QueueTypesKept DEF DriverTypes
<1>7. CASE (\E t \in Committers : Driver!commit(t) \/ Driver!commit_write(t)) \/ UNCHANGED <<queueVars, fsmVars>>
  <2>1. UNCHANGED fsmVars /\ machine' = machine
    BY <1>7 DEF Driver!commit, Driver!commit_write, Driver!driverVars, fsmVars
  <2>2. \/ \E t, x : x \in EvNames /\ Puts(t, x)
        \/ \E t : Writes(t)
        \/ UNCHANGED queueVars
    BY <1>7 DEF Driver!commit, Driver!commit_write, Driver!put, Driver!write, Puts, Writes
  <2>3. QueueTypes(EvNames)'
    BY <1>1, <2>2, QueueTypesKept DEF DriverTypes
  <2>4. machine' \/ Covered'
    BY <1>1, <2>1, <2>2, QueueKeeps DEF DriverTypes
  <2> QED
    BY <2>1, <2>3, <2>4
<1> QED
  BY <1>3, <1>4, <1>5, <1>6, <1>7 DEF FsmStep, Driver!FsmNext, Driver!LoopSteps

LEMMA StepDriverInv == EventsAssumption /\ DriverInv /\ FsmStep => DriverInv'
<1> SUFFICES ASSUME EventsAssumption, DriverInv, FsmStep PROVE DriverInv'
  OBVIOUS
<1>1. DriverTypes /\ Remembers /\ Arrives /\ CombinesInTime /\ AppliesAtOnce /\ Driver!EndsAtTerminals
  BY DEF DriverInv
<1>2. machine' = machine /\ QueueTypes(EvNames)' /\ (machine' \/ Covered')
  BY DriverMoves
<1>3. ASSUME NEW ev \in Committed, Single(ev) \/ Part(ev) \/ \E c \in DOMAIN Combined : Whole(ev, c), machine => ~ended
      PROVE  DriverInv'
  <2>1. PICK x \in Applied : Appends(x) \/ (UNCHANGED <<applied, ats>> /\ event' = Driver!NoEvent)
    BY <1>3 DEF Single, Part, Whole, Applied
  <2>2. Took(ev)
    BY <1>3 DEF Single, Part, Whole
  <2>3. DriverTypes'
    <3>1. Appends(x) \/ UNCHANGED <<applied, ats>>
      BY <2>1
    <3>2. event' \in {x, Driver!NoEvent}
      BY <2>1 DEF Appends
    <3>3. machine \/ Covered'
      BY <1>2
    <3> QED
      BY <1>1, <1>2, <2>2, <3>1, <3>2, <3>3, TakesTypes
  <2>4. Driver!EndsAtTerminals'
    <3>1. event' # Driver!NoEvent \/ (event = Driver!NoEvent /\ currents' = currents /\ applied' = applied /\ ended' = ended)
      BY <2>1, <2>2, EventsTake DEF Appends, Took, Applied
    <3> QED
      BY <1>1, <1>2, <3>1 DEF Driver!EndsAtTerminals
  <2> QED
    BY <1>1, <1>3, <2>3, <2>4, TakesRemembers, TakesCombines, TakesAtOnce, TakesArrives DEF DriverInv
<1>4. ASSUME UNCHANGED <<taken_, applied, ats, ena_partials>>
      PROVE  Remembers' /\ CombinesInTime' /\ AppliesAtOnce'
  <2>1. taken_' = taken_ /\ applied' = applied /\ ats' = ats /\ ena_partials' = ena_partials
    BY <1>4
  <2>2. Remembers'
    <3> SUFFICES ASSUME NEW c \in DOMAIN Combined
                 PROVE  /\ Combined[c] \cap ena_partials' = Combined[c] \cap Driver!Heard(Begin(c), Len(taken_))'
                        /\ ~ (Combined[c] \subseteq ena_partials')
      BY DEF Remembers
    <3>1. Driver!Heard(Begin(c), Len(taken_))' = Driver!Heard(Begin(c), Len(taken_))
      BY ONLY <2>1 DEF Driver!Heard, Driver!Since, Begin, Driver!is_partial, Driver!Partials
    <3> QED
      BY <1>1, <2>1, <3>1 DEF Remembers
  <2>3. CombinesInTime'
    <3> SUFFICES ASSUME NEW n \in 1 .. Len(applied), Driver!is_partial(taken_[ats[n]])
                 PROVE  /\ Combined[applied[n]] \subseteq Driver!Heard(Driver!Since(applied[n], n), ats[n])'
                        /\ ~ (Combined[applied[n]] \subseteq Driver!Heard(Driver!Since(applied[n], n), ats[n] - 1)')
      BY <2>1 DEF CombinesInTime, Driver!is_partial, Driver!Partials
    <3>1. /\ Driver!Heard(Driver!Since(applied[n], n), ats[n])' = Driver!Heard(Driver!Since(applied[n], n), ats[n])
          /\ Driver!Heard(Driver!Since(applied[n], n), ats[n] - 1)' = Driver!Heard(Driver!Since(applied[n], n), ats[n] - 1)
      BY ONLY <2>1 DEF Driver!Heard, Driver!Since, Driver!is_partial, Driver!Partials
    <3> QED
      BY <1>1, <2>1, <3>1 DEF CombinesInTime
  <2>4. AppliesAtOnce'
    BY <1>1, <2>1 DEF AppliesAtOnce, Driver!is_partial, Driver!Partials
  <2> QED
    BY <2>2, <2>3, <2>4
<1>5. CASE Driver!step
  <2>1. /\ event # Driver!NoEvent /\ index <= Len(currents) /\ index' = index + 1
        /\ currents' = [currents EXCEPT ![index] = Driver!Goes(currents[index], event)]
        /\ event' = event /\ ended' = ended /\ UNCHANGED <<taken_, applied, ats, ena_partials>>
    <3>1. currents \in Seq(StatesOf)
      BY <1>1 DEF DriverTypes
    <3>2. currents = [currents EXCEPT ![index] = currents[index]]
      BY <3>1
    <3> QED
      BY <1>5, <3>2 DEF Driver!step, Driver!Goes
  <2>2. index \in 1 .. Len(currents)
    BY <1>1, <2>1 DEF DriverTypes
  <2>3. DriverTypes'
    <3>1. Driver!Goes(currents[index], event) \in StatesOf
      <4>1. currents[index] \in StatesOf
        BY <1>1, <2>2 DEF DriverTypes
      <4>2. \A k \in DOMAIN Table : Table[k] \in StatesOf
        BY DEF StatesOf, Targets
      <4> QED
        BY <4>1, <4>2 DEF Driver!Goes
    <3>2. currents' \in Seq(StatesOf) /\ Len(currents') = Len(currents)
      BY <1>1, <2>1, <2>2, <3>1 DEF DriverTypes
    <3>3. index' \in Nat \ {0}
      BY <1>1, <2>1 DEF DriverTypes
    <3> QED
      BY <1>1, <1>2, <2>1, <3>2, <3>3 DEF DriverTypes
  <2>4. Arrives'
    <3> SUFFICES ASSUME NEW i \in 1 .. Len(Initials)
                 PROVE  /\ i < index' => currents'[i] = FollowOf(applied', Initials[i])
                        /\ i >= index' => Driver!Goes(currents'[i], event') = FollowOf(applied', Initials[i])
      BY <2>1 DEF Arrives
    <3>0. i \in 1 .. Len(currents) /\ i \in Nat /\ index \in Nat /\ currents \in Seq(StatesOf)
      BY <1>1 DEF DriverTypes
    <3>1. CASE i = index
      <4>1. Driver!Goes(currents[i], event) = FollowOf(applied, Initials[i])
        BY <1>1, <2>1, <3>0, <3>1 DEF Arrives
      <4>2. currents'[i] = Driver!Goes(currents[i], event)
        BY <2>1, <3>0, <3>1
      <4> QED
        BY <2>1, <3>0, <3>1, <4>1, <4>2
    <3>2. CASE i # index
      <4>1. currents'[i] = currents[i]
        BY <2>1, <3>0, <3>2
      <4> QED
        BY <1>1, <2>1, <3>0, <3>2, <4>1 DEF Arrives
    <3> QED
      BY <3>1, <3>2
  <2>5. Driver!EndsAtTerminals'
    BY <2>1 DEF Driver!EndsAtTerminals
  <2> QED
    BY <1>4, <2>1, <2>3, <2>4, <2>5 DEF DriverInv
<1>6. CASE Driver!stepped
  <2>1. /\ index > Len(currents) /\ event' = Driver!NoEvent /\ ended' = (machine /\ currents = Terminals)
        /\ event # Driver!NoEvent /\ UNCHANGED <<taken_, applied, ats, ena_partials>>
        /\ currents' = currents /\ index' = index
    BY <1>6 DEF Driver!stepped
  <2>2. DriverTypes'
    BY <1>1, <1>2, <2>1 DEF DriverTypes
  <2>3. Arrives'
    <3>1. \A i \in 1 .. Len(Initials) : i < index
      BY <1>1, <2>1 DEF DriverTypes
    <3> QED
      BY <1>1, <2>1, <3>1 DEF Arrives
  <2>4. Driver!EndsAtTerminals'
    BY <1>2, <2>1 DEF Driver!EndsAtTerminals
  <2> QED
    BY <1>4, <2>1, <2>2, <2>3, <2>4 DEF DriverInv
<1>7. CASE UNCHANGED fsmVars
  <2>1. /\ UNCHANGED <<taken_, applied, ats, ena_partials>> /\ currents' = currents /\ index' = index
        /\ event' = event /\ ended' = ended
    BY <1>7 DEF fsmVars
  <2>2. DriverTypes'
    BY <1>1, <1>2, <2>1 DEF DriverTypes
  <2>3. Arrives' /\ Driver!EndsAtTerminals'
    BY <1>1, <1>2, <2>1 DEF Arrives, Driver!EndsAtTerminals
  <2> QED
    BY <1>4, <2>1, <2>2, <2>3 DEF DriverInv
<1>8. CASE \E ev \in Committed : /\ Single(ev) \/ Part(ev) \/ \E c \in DOMAIN Combined : Whole(ev, c)
                                 /\ machine => ~ended
  <2>1. PICK ev \in Committed : /\ Single(ev) \/ Part(ev) \/ \E c \in DOMAIN Combined : Whole(ev, c)
                                /\ machine => ~ended
    BY <1>8
  <2> QED
    BY <2>1, <1>3
<1> QED
  BY <1>5, <1>6, <1>7, <1>8, DriverMoves

LEMMA InitDriverInv == EventsAssumption /\ Driver!FsmInit => DriverInv
<1> SUFFICES ASSUME EventsAssumption, Driver!FsmInit PROVE DriverInv
  OBVIOUS
<1>1. QueueTypes(EvNames) /\ Covered
  <2>1. Work!QueueInit
    BY DEF Driver!FsmInit, Driver!QueueInit, Work!QueueInit
  <2> QED
    BY <2>1, QueueBegins
<1>2. /\ currents = Initials /\ ena_partials = {} /\ index = 1 /\ applied = taken_ /\ machine \in BOOLEAN
      /\ ats = [n \in DOMAIN applied |-> n] /\ ended = FALSE
  BY DEF Driver!FsmInit
<1>3. CASE machine
  <2>1. taken_ = <<Trigger>> /\ event = Trigger
    BY <1>3 DEF Driver!FsmInit
  <2>2. /\ Trigger # Driver!NoEvent /\ ~Driver!is_partial(Trigger) /\ Trigger \in Committed /\ Trigger \in Applied
    BY EventsTake DEF Committed, Applied
  <2>3. DriverTypes
    BY <1>1, <1>2, <2>1, <2>2, EventsTake DEF DriverTypes
  <2>4. Remembers
    <3> SUFFICES ASSUME NEW c \in DOMAIN Combined
                 PROVE  /\ Combined[c] \cap ena_partials = Combined[c] \cap Driver!Heard(Begin(c), Len(taken_))
                        /\ ~ (Combined[c] \subseteq ena_partials)
      BY DEF Remembers
    <3>1. Combined[c] # {} /\ Trigger \notin Combined[c]
      BY <2>2, EventsTake DEF Driver!is_partial, Driver!Partials
    <3>2. Begin(c) \in Nat
      BY <2>3, BeginIs
    <3>3. Driver!Heard(Begin(c), Len(taken_)) \subseteq {Trigger}
      BY <2>1, <3>2 DEF Driver!Heard
    <3> QED
      BY <1>2, <3>1, <3>3
  <2>5. Arrives
    <3> SUFFICES ASSUME NEW i \in 1 .. Len(Initials)
                 PROVE  /\ ~(i < index)
                        /\ Driver!Goes(currents[i], event) = FollowOf(applied, Initials[i])
      BY <2>1, <2>2 DEF Arrives
    <3>1. FollowOf(Append(<<>>, Trigger), Initials[i]) = Driver!Goes(FollowOf(<<>>, Initials[i]), Trigger)
      <4>1. <<>> \in Seq(Applied)
        OBVIOUS
      <4> QED
        BY <2>2, <4>1, FollowAppend
    <3>2. Append(<<>>, Trigger) = <<Trigger>>
      OBVIOUS
    <3> QED
      BY <1>2, <2>1, <3>1, <3>2, FollowNothing
  <2>6. CombinesInTime /\ AppliesAtOnce /\ Driver!EndsAtTerminals
    BY <1>2, <2>1, <2>2 DEF CombinesInTime, AppliesAtOnce, Driver!EndsAtTerminals
  <2> QED
    BY <2>3, <2>4, <2>5, <2>6 DEF DriverInv
<1>4. CASE ~machine
  <2>1. taken_ = <<>> /\ event = Driver!NoEvent
    BY <1>4 DEF Driver!FsmInit
  <2>2. <<>> \in Seq(Committed) /\ <<>> \in Seq(Applied) /\ <<>> \in Seq(Nat) /\ Len(<<>>) = 0 /\ ats = <<>>
    BY <1>2, <2>1
  <2>3. DriverTypes
    BY <1>1, <1>2, <2>1, <2>2, EventsTake DEF DriverTypes
  <2>4. Remembers
    <3> SUFFICES ASSUME NEW c \in DOMAIN Combined
                 PROVE  /\ Combined[c] \cap ena_partials = Combined[c] \cap Driver!Heard(Begin(c), Len(taken_))
                        /\ ~ (Combined[c] \subseteq ena_partials)
      BY DEF Remembers
    <3>1. Combined[c] # {}
      BY EventsTake
    <3>2. Begin(c) \in Nat
      BY <2>3, BeginIs
    <3>3. Driver!Heard(Begin(c), Len(taken_)) = {}
      BY <2>1, <2>2, <3>2 DEF Driver!Heard
    <3> QED
      BY <1>2, <3>1, <3>3
  <2>5. Arrives
    BY <1>2, <2>1, FollowNothing DEF Arrives
  <2>6. CombinesInTime /\ AppliesAtOnce /\ Driver!EndsAtTerminals
    BY <1>2, <1>4, <2>1, <2>2 DEF CombinesInTime, AppliesAtOnce, Driver!EndsAtTerminals
  <2> QED
    BY <2>3, <2>4, <2>5, <2>6 DEF DriverInv
<1> QED
  BY <1>3, <1>4

LEMMA DriverInvSuffices == EventsAssumption /\ DriverInv => Driver!EventsCombine /\ Driver!EndsAtTerminals
<1> SUFFICES ASSUME EventsAssumption, DriverInv PROVE Driver!EventsCombine
  BY DEF DriverInv
<1>1. DriverTypes /\ Remembers /\ Arrives /\ CombinesInTime /\ AppliesAtOnce
  BY DEF DriverInv
<1>2. DOMAIN applied = 1 .. Len(applied) /\ DOMAIN taken_ = 1 .. Len(taken_)
  BY <1>1 DEF DriverTypes
<1>3. \A n \in DOMAIN applied : Driver!is_partial(taken_[ats[n]]) =>
         LET c == applied[n]
         IN /\ Combined[c] \subseteq Driver!Heard(Driver!Since(c, n), ats[n])
            /\ ~ (Combined[c] \subseteq Driver!Heard(Driver!Since(c, n), ats[n] - 1))
  BY <1>1, <1>2 DEF CombinesInTime
<1>4. ASSUME NEW c \in DOMAIN Combined
      PROVE  ~ (Combined[c] \subseteq Driver!Heard(Driver!Since(c, Len(applied) + 1), Len(taken_)))
  BY <1>1 DEF Remembers, Begin
<1>5. \A q \in DOMAIN taken_ : ~Driver!is_partial(taken_[q]) =>
         \E n \in DOMAIN applied : ats[n] = q /\ applied[n] = taken_[q]
  BY <1>1, <1>2 DEF AppliesAtOnce
<1>6. ASSUME event = Driver!NoEvent, NEW i \in DOMAIN Initials PROVE currents[i] = Driver!Follow(Initials[i])
  <2>1. i \in 1 .. Len(Initials)
    BY EventsTake
  <2>2. currents[i] = FollowOf(applied, Initials[i])
    BY <1>1, <1>6, <2>1 DEF Arrives
  <2> QED
    BY <2>2 DEF FollowOf, Driver!Follow
<1>7. machine \/ Driver!QueueCovers
  BY <1>1 DEF DriverTypes, Covered, Driver!QueueCovers, Driver!Cardinality, Cardinality
<1> QED
  BY <1>3, <1>4, <1>5, <1>6, <1>7 DEF Driver!EventsCombine
-----------------------------------------------------------------------------
(* The numbers of a set, in their order                                    *)

IsOrder(f, S) ==
    /\ f \in [1 .. Cardinality(S) -> S]
    /\ \A a, b \in 1 .. Cardinality(S) : a < b => f[a] < f[b]
    /\ \A x \in S : \E a \in 1 .. Cardinality(S) : f[a] = x

LEMMA OrderExists == ASSUME NEW N \in Nat, NEW S, S \subseteq 0 .. N PROVE \E f : IsOrder(f, S)
<1> DEFINE Of(T, n) == T \subseteq 0 .. N /\ Cardinality(T) = n
           Bad == {n \in Nat : \E T : Of(T, n) /\ ~ \E f : IsOrder(f, T)}
<1>0. \A T : T \subseteq 0 .. N => IsFiniteSet(T) /\ Cardinality(T) \in Nat
  <2> TAKE T
  <2>1. IsFiniteSet(0 .. N)
    BY FS_Interval
  <2> QED
    BY <2>1, FS_Subset, FS_CardinalityType
<1>1. ASSUME Bad # {} PROVE FALSE
  <2>1. PICK n \in Bad : \A k \in Bad : n <= k
    <3>1. Bad \subseteq Nat
      OBVIOUS
    <3> HIDE DEF Bad
    <3> QED
      BY <1>1, <3>1, Smallest
  <2>2. PICK T : Of(T, n) /\ ~ \E f : IsOrder(f, T)
    BY <2>1
  <2>3. IsFiniteSet(T) /\ n \in Nat
    BY <1>0, <2>1, <2>2
  <2>4. CASE T = {}
    <3>1. n = 0
      BY <2>2, <2>4, FS_EmptySet
    <3>2. IsOrder(<<>>, T)
      BY <2>2, <2>4, <3>1 DEF IsOrder
    <3> QED
      BY <2>2, <3>2
  <2>5. CASE T # {}
    <3>1. PICK x \in T : \A y \in T : y <= x
      BY <2>2, <2>5, Largest
    <3>2. IsFiniteSet(T \ {x}) /\ Cardinality(T \ {x}) = n - 1
      BY <2>2, <2>3, <3>1, FS_RemoveElement
    <3>3. n # 0
      BY <2>2, <2>3, <2>5, FS_EmptySet
    <3>4. n - 1 \in Nat /\ n - 1 \notin Bad /\ Of(T \ {x}, n - 1)
      BY <2>1, <2>2, <2>3, <3>2, <3>3
    <3>5. PICK g : IsOrder(g, T \ {x})
      BY <3>4
    <3>6. /\ g \in [1 .. n - 1 -> T \ {x}] /\ \A a, b \in 1 .. n - 1 : a < b => g[a] < g[b]
          /\ \A y \in T \ {x} : \E a \in 1 .. n - 1 : g[a] = y
      BY <3>2, <3>5 DEF IsOrder
    <3> DEFINE f == [a \in 1 .. n |-> IF a = n THEN x ELSE g[a]]
    <3>7. f \in [1 .. n -> T] /\ f[n] = x /\ \A a \in 1 .. n - 1 : f[a] = g[a] /\ f[a] \in T \ {x} /\ a \in 1 .. n
      BY <2>3, <3>1, <3>3, <3>6
    <3>8. ASSUME NEW a \in 1 .. n, NEW b \in 1 .. n, a < b PROVE f[a] < f[b]
      <4> HIDE DEF f
      <4>1. a \in 1 .. n - 1
        BY <2>3, <3>8
      <4>2. CASE b = n
        <5>1. f[a] \in T /\ f[a] # x
          BY <3>7, <4>1
        <5>2. f[a] <= x /\ f[a] \in Int /\ x \in Int
          <6>1. \A y \in T : y \in Int
            BY <2>2
          <6> QED
            BY <3>1, <5>1, <6>1
        <5> QED
          BY <3>7, <4>2, <5>1, <5>2
      <4>3. CASE b # n
        <5>1. b \in 1 .. n - 1
          BY <2>3, <4>3
        <5> QED
          BY <3>6, <3>7, <3>8, <4>1, <5>1
      <4> QED
        BY <4>2, <4>3
    <3>9. ASSUME NEW y \in T PROVE \E a \in 1 .. n : f[a] = y
      <4> HIDE DEF f
      <4>1. n \in 1 .. n
        BY <2>3, <3>3
      <4>2. CASE y = x
        BY <3>7, <4>1, <4>2
      <4>3. CASE y # x
        BY <3>6, <3>7, <4>3
      <4> QED
        BY <4>2, <4>3
    <3>10. IsOrder(f, T)
      <4> HIDE DEF f
      <4> QED
        BY <2>2, <3>7, <3>8, <3>9 DEF IsOrder
    <3> QED
      BY <2>2, <3>10
  <2> QED
    BY <2>4, <2>5
<1>2. Of(S, Cardinality(S)) /\ Cardinality(S) \in Nat
  BY <1>0
<1> QED
  BY <1>1, <1>2

\* An enumeration in order is one of all.
LEMMA OrderIsWhole ==
    ASSUME NEW N \in Nat, NEW S, S \subseteq 0 .. N, NEW g \in [1 .. Cardinality(S) -> S],
           \A a, b \in 1 .. Cardinality(S) : a < b => g[a] < g[b]
    PROVE  IsOrder(g, S)
<1> DEFINE M == Cardinality(S)
<1>1. IsFiniteSet(S) /\ M \in Nat
  <2>1. IsFiniteSet(0 .. N)
    BY FS_Interval
  <2> QED
    BY <2>1, FS_Subset, FS_CardinalityType
<1>2. g \in Injection(1 .. M, S)
  <2>1. ASSUME NEW a \in 1 .. M, NEW b \in 1 .. M, g[a] = g[b] PROVE a = b
    <3>1. g[a] \in Int
      <4>1. \A y \in S : y \in Int
        OBVIOUS
      <4>2. g[a] \in S
        OBVIOUS
      <4> QED
        BY <4>1, <4>2
    <3>2. ~(a < b) /\ ~(b < a)
      BY <2>1, <3>1
    <3> QED
      BY <1>1, <3>2
  <2> QED
    BY <2>1 DEF Injection, IsInjective
<1>3. Cardinality(1 .. M) = M
  BY <1>1, FS_Interval
<1>4. g \in Surjection(1 .. M, S)
  BY <1>1, <1>2, <1>3, FS_Injection
<1> QED
  BY <1>4 DEF IsOrder, Surjection

LEMMA FlagOrder == ASSUME NEW N \in Nat, NEW S, S \subseteq 0 .. N PROVE IsOrder(Flag!InOrder(S), S)
<1>1. PICK f : IsOrder(f, S)
  BY OrderExists
<1> DEFINE g == Flag!InOrder(S)
           M == Cardinality(S)
<1>2. g \in [1 .. M -> S] /\ \A a, b \in DOMAIN g : a < b => g[a] < g[b]
  <2>1. g = CHOOSE h \in [1 .. M -> S] : \A a, b \in DOMAIN h : a < b => h[a] < h[b]
    BY DEF Flag!InOrder, Flag!Cardinality, Cardinality
  <2>2. f \in [1 .. M -> S] /\ \A a, b \in DOMAIN f : a < b => f[a] < f[b]
    BY <1>1 DEF IsOrder
  <2> HIDE DEF g
  <2> QED
    BY <2>1, <2>2
<1> HIDE DEF g
<1>3. \A a, b \in 1 .. M : a < b => g[a] < g[b]
  BY <1>2
<1> QED
  BY <1>2, <1>3, OrderIsWhole DEF g
-----------------------------------------------------------------------------
(* Flags                                                                   *)

Updates == [on : SUBSET Flags, off : SUBSET Flags]
CbsOf(n) == [req : SUBSET Flags, owner : Owners \cup {Flag!Nobody}, id : 1 .. n]

\* Of two callbacks with one number the later is left over, and has no owner.
OneOwner(cbs) == \A a, b \in 1 .. Len(cbs) : a < b /\ cbs[a].id = cbs[b].id => cbs[b].owner = Flag!Nobody
NoneOf(cbs, S) == \A n \in 1 .. Len(cbs) : cbs[n].id \in S => cbs[n].owner = Flag!Nobody

\* Each callback that has an owner was there before.
LeftOf(r, cbs) == \A n \in 1 .. Len(cbs) : r[n].owner = Flag!Nobody \/ \E k \in 1 .. Len(cbs) : r[n] = cbs[k]

\* What unassign leaves
LEMMA RemovedIs ==
    ASSUME NEW N \in Nat, NEW cbs \in Seq(CbsOf(N)), NEW id
    PROVE  /\ Flag!Removed(cbs, id) \in Seq(CbsOf(N)) /\ Len(Flag!Removed(cbs, id)) = Len(cbs)
           /\ LeftOf(Flag!Removed(cbs, id), cbs)
           /\ OneOwner(cbs) => OneOwner(Flag!Removed(cbs, id))
           /\ \A S : NoneOf(cbs, S) => NoneOf(Flag!Removed(cbs, id), S)
           /\ OneOwner(cbs) /\ (cbs # <<>> => cbs[Len(cbs)].id # id) => NoneOf(Flag!Removed(cbs, id), {id})
<1> DEFINE L == Len(cbs)
           K == {n \in 1 .. L : cbs[n].id # id}
           kept == Flag!InOrder(K)
           M == Cardinality(K)
           r == Flag!Removed(cbs, id)
<1>1. L \in Nat /\ DOMAIN cbs = 1 .. L /\ \A n \in 1 .. L : cbs[n] \in CbsOf(N)
  OBVIOUS
<1>2. IsOrder(kept, K) /\ M \in Nat /\ IsFiniteSet(K)
  <2>1. K \subseteq 0 .. L
    BY <1>1
  <2>2. IsFiniteSet(0 .. L)
    BY <1>1, FS_Interval
  <2> QED
    BY <1>1, <2>1, <2>2, FlagOrder, FS_Subset, FS_CardinalityType
<1>3. /\ kept \in [1 .. M -> K] /\ \A a, b \in 1 .. M : a < b => kept[a] < kept[b]
      /\ DOMAIN kept = 1 .. M
  BY <1>2 DEF IsOrder
<1>4. r = [n \in 1 .. L |-> IF n \in 1 .. M THEN cbs[kept[n]]
                             ELSE IF cbs[n].id = id THEN cbs[n]
                             ELSE [cbs[n] EXCEPT !.owner = Flag!Nobody]]
  <2>1. r = [n \in DOMAIN cbs |-> IF n \in DOMAIN kept THEN cbs[kept[n]]
                             ELSE IF cbs[n].id = id THEN cbs[n]
                             ELSE [cbs[n] EXCEPT !.owner = Flag!Nobody]]
    <3>1. K = {n \in DOMAIN cbs : cbs[n].id # id}
      BY <1>1
    <3> QED
      BY <3>1 DEF Flag!Removed
  <2> HIDE DEF kept, K, L, M, r
  <2> QED
    BY <1>1, <1>3, <2>1
<1>5. \A n \in 1 .. M : kept[n] \in 1 .. L /\ cbs[kept[n]].id # id
  BY <1>3
<1> HIDE DEF r, kept, M, K
<1>6. ASSUME NEW n \in 1 .. L
      PROVE  /\ n \in 1 .. M => r[n] = cbs[kept[n]]
             /\ n \notin 1 .. M => r[n] = (IF cbs[n].id = id THEN cbs[n] ELSE [cbs[n] EXCEPT !.owner = Flag!Nobody])
  BY <1>4
<1>7. ASSUME NEW n \in 1 .. L, n \notin 1 .. M, cbs[n].id # id
      PROVE  r[n].owner = Flag!Nobody /\ r[n].id = cbs[n].id /\ r[n] \in CbsOf(N)
  <2>1. cbs[n] \in CbsOf(N)
    BY <1>1, <1>7
  <2>2. r[n] = [cbs[n] EXCEPT !.owner = Flag!Nobody]
    BY <1>6, <1>7
  <2> QED
    BY <2>1, <2>2 DEF CbsOf
<1>8. \A n \in 1 .. L : r[n] \in CbsOf(N)
  <2> TAKE n \in 1 .. L
  <2>1. CASE n \in 1 .. M
    BY <1>1, <1>5, <1>6, <2>1
  <2>2. CASE n \notin 1 .. M /\ cbs[n].id = id
    BY <1>1, <1>6, <2>2
  <2>3. CASE n \notin 1 .. M /\ cbs[n].id # id
    BY <1>7, <2>3
  <2> QED
    BY <2>1, <2>2, <2>3
<1>9. r \in Seq(CbsOf(N)) /\ Len(r) = L
  <2>1. r \in [1 .. L -> CbsOf(N)]
    BY <1>4, <1>8
  <2> QED
    BY <1>1, <2>1
<1>10. ASSUME NEW n \in 1 .. L
       PROVE  r[n].owner = Flag!Nobody \/ \E k \in 1 .. L : r[n] = cbs[k]
  <2>1. CASE n \in 1 .. M
    BY <1>5, <1>6, <2>1
  <2>2. CASE n \notin 1 .. M /\ cbs[n].id = id
    BY <1>6, <2>2
  <2>3. CASE n \notin 1 .. M /\ cbs[n].id # id
    BY <1>7, <2>3
  <2> QED
    BY <2>1, <2>2, <2>3
<1>11. ASSUME OneOwner(cbs) PROVE OneOwner(r)
  <2> SUFFICES ASSUME NEW a \in 1 .. L, NEW b \in 1 .. L, a < b, r[a].id = r[b].id PROVE r[b].owner = Flag!Nobody
    BY <1>9 DEF OneOwner
  <2>1. CASE b \in 1 .. M
    <3>1. a \in 1 .. M
      BY <1>1, <1>2, <2>1
    <3> QED
      <4>1. kept[a] < kept[b] /\ kept[a] \in 1 .. L /\ kept[b] \in 1 .. L
        BY <1>3, <1>5, <2>1, <3>1
      <4>2. r[a] = cbs[kept[a]] /\ r[b] = cbs[kept[b]]
        BY <1>6, <2>1, <3>1
      <4> QED
        BY <1>11, <4>1, <4>2 DEF OneOwner
  <2>2. CASE b \notin 1 .. M /\ cbs[b].id # id
    BY <1>7, <2>2
  <2>3. CASE b \notin 1 .. M /\ cbs[b].id = id
    <3>1. r[b] = cbs[b]
      BY <1>6, <2>3
    <3>2. CASE a \in 1 .. M
      BY <1>5, <1>6, <2>3, <3>1, <3>2
    <3>3. CASE a \notin 1 .. M
      <4>1. r[a].id = cbs[a].id
        BY <1>6, <1>7, <3>3
      <4> QED
        BY <1>11, <2>3, <3>1, <4>1 DEF OneOwner
    <3> QED
      BY <3>2, <3>3
  <2> QED
    BY <2>1, <2>2, <2>3
<1>12. ASSUME NEW S, NoneOf(cbs, S) PROVE NoneOf(r, S)
  <2> SUFFICES ASSUME NEW n \in 1 .. L, r[n].id \in S PROVE r[n].owner = Flag!Nobody
    BY <1>9 DEF NoneOf
  <2> QED
    BY <1>10, <1>12 DEF NoneOf
<1>13. ASSUME OneOwner(cbs), cbs # <<>> => cbs[Len(cbs)].id # id PROVE NoneOf(r, {id})
  <2> SUFFICES ASSUME NEW n \in 1 .. L, r[n].id = id PROVE r[n].owner = Flag!Nobody
    BY <1>9 DEF NoneOf
  <2>1. n \notin 1 .. M
    BY <1>5, <1>6
  <2>2. CASE cbs[n].id # id
    BY <1>7, <2>1, <2>2
  <2>3. CASE cbs[n].id = id
    <3>1. cbs[L].id # id /\ L \in 1 .. L /\ n # L
      <4>1. cbs # <<>>
        BY <1>1
      <4>2. cbs[L].id # id
        BY <1>13, <4>1
      <4>3. L \in 1 .. L
        BY <1>1
      <4> QED
        BY <2>3, <4>2, <4>3
    <3>2. r[n] = cbs[n]
      BY <1>6, <2>1, <2>3
    <3>3. PICK a \in 1 .. L : a < n /\ cbs[a].id = id
      <4>1. ASSUME \A a \in 1 .. L : a < n => cbs[a].id # id PROVE FALSE
        <5> DEFINE J == (1 .. n - 1) \cup {L}
        <5>0. n \in Nat /\ n > 0 /\ n < L /\ n - 1 \in Nat /\ L \notin 1 .. n - 1
          <6>1. n \in 1 .. L /\ n # L /\ L \in Nat
            BY <1>1, <3>1
          <6> HIDE DEF L
          <6> QED
            BY ONLY <6>1
        <5>1. J \subseteq K
          <6>1. \A a \in 1 .. n - 1 : a \in 1 .. L /\ a < n
            BY <1>1, <5>0
          <6> QED
            BY <3>1, <4>1, <6>1 DEF K
        <5>2. IsFiniteSet(1 .. n - 1) /\ Cardinality(1 .. n - 1) = n - 1
          <6> DEFINE k == n - 1
          <6>0. k \in Int /\ 1 \in Int
            BY <5>0
          <6> HIDE DEF k
          <6>2. IsFiniteSet(1 .. k) /\ Cardinality(1 .. k) = IF 1 > k THEN 0 ELSE k - 1 + 1
            BY <6>0, FS_Interval
          <6>1. IsFiniteSet(1 .. n - 1) /\ Cardinality(1 .. n - 1) = IF 1 > n - 1 THEN 0 ELSE (n - 1) - 1 + 1
            BY <6>2 DEF k
          <6> QED
            BY <5>0, <6>1
        <5>3. Cardinality(J) = n
          <6>1. Cardinality(J) = Cardinality(1 .. n - 1) + 1
            BY <5>0, <5>2, FS_AddElement
          <6> QED
            BY <5>0, <5>2, <6>1
        <5>4. n <= M
          BY <1>2, <5>1, <5>3, FS_Subset DEF M
        <5> QED
          BY <1>1, <1>2, <2>1, <5>4
      <4> QED
        BY <4>1
    <3> QED
      BY <1>13, <2>3, <3>2, <3>3 DEF OneOwner
  <2> QED
    BY <2>2, <2>3
<1>14. LeftOf(r, cbs)
  BY <1>10 DEF LeftOf
<1> QED
  BY <1>9, <1>11, <1>12, <1>13, <1>14 DEF r

\* No callback was to be called that is not.
Served ==
    \A n \in 1 .. Len(callbacks) :
      callbacks[n].req \subseteq flags => callbacks[n].owner \notin alive \/ callbacks[n].id \in late

FlagInv ==
    /\ QueueTypes(Updates) /\ Covered
    /\ ids \in Nat /\ callbacks \in Seq(CbsOf(ids)) /\ alive \subseteq Owners /\ flags \subseteq Flags
    /\ unassigned \subseteq 1 .. ids /\ ~wrong
    /\ OneOwner(callbacks) /\ NoneOf(callbacks, unassigned)
    /\ now = "calling" => cb.owner \in alive
    /\ now = "next" => Served

\* What the loop and the owners erase
LEMMA ErasedIs ==
    ASSUME NEW T, NEW q \in Seq(T), NEW n \in 1 .. Len(q)
    PROVE  /\ Flag!Erased(q, n) \in Seq(T) /\ Len(Flag!Erased(q, n)) = Len(q) - 1
           /\ \A k \in 1 .. Len(q) - 1 : Flag!Erased(q, n)[k] = q[IF k < n THEN k ELSE k + 1]
<1>1. /\ SubSeq(q, 1, n - 1) \in Seq(T) /\ Len(SubSeq(q, 1, n - 1)) = n - 1
      /\ \A k \in 1 .. n - 1 : SubSeq(q, 1, n - 1)[k] = q[k]
  OBVIOUS
<1>2. /\ SubSeq(q, n + 1, Len(q)) \in Seq(T) /\ Len(SubSeq(q, n + 1, Len(q))) = Len(q) - n
      /\ \A k \in 1 .. Len(q) - n : SubSeq(q, n + 1, Len(q))[k] = q[n + k]
  OBVIOUS
<1> DEFINE a == SubSeq(q, 1, n - 1)
           b == SubSeq(q, n + 1, Len(q))
<1>3. Flag!Erased(q, n) = a \o b /\ Len(q) \in Nat
  BY DEF Flag!Erased
<1> HIDE DEF a, b
<1>4. /\ a \in Seq(T) /\ Len(a) = n - 1 /\ \A k \in 1 .. n - 1 : a[k] = q[k]
      /\ b \in Seq(T) /\ Len(b) = Len(q) - n /\ \A k \in 1 .. Len(q) - n : b[k] = q[n + k]
  BY <1>1, <1>2 DEF a, b
<1>5. a \o b \in Seq(T) /\ Len(a \o b) = Len(q) - 1
  BY <1>3, <1>4
<1>6. ASSUME NEW k \in 1 .. Len(q) - 1 PROVE (a \o b)[k] = q[IF k < n THEN k ELSE k + 1]
  <2>1. CASE k < n
    <3>1. k \in 1 .. Len(a) /\ (a \o b)[k] = a[k]
      BY <1>3, <1>4, <2>1
    <3> QED
      BY <1>4, <2>1, <3>1
  <2>2. CASE ~(k < n)
    <3>1. k - (n - 1) \in 1 .. Len(b) /\ k \in Len(a) + 1 .. Len(a) + Len(b)
      <4>1. n \in Int /\ k \in Int /\ Len(q) \in Int /\ n <= k /\ k <= Len(q) - 1 /\ 1 <= n
        BY <1>3, <2>2
      <4>2. Len(a) = n - 1 /\ Len(b) = Len(q) - n
        BY <1>4
      <4> QED
        BY ONLY <4>1, <4>2
    <3>2. (a \o b)[k] = b[k - (n - 1)]
      <4>1. a \in Seq(T) /\ b \in Seq(T) /\ k \in 1 .. Len(a) + Len(b) /\ ~(k <= Len(a))
        BY <1>3, <1>4, <2>2
      <4>2. (a \o b)[k] = b[k - Len(a)]
        BY ONLY <4>1
      <4> QED
        BY <1>4, <4>2
    <3>3. k - (n - 1) \in 1 .. Len(q) - n /\ n + (k - (n - 1)) = k + 1
      BY <1>3, <1>4, <3>1
    <3> QED
      BY <1>4, <2>2, <3>2, <3>3
  <2> QED
    BY <2>1, <2>2
<1> QED
  BY <1>3, <1>5, <1>6

FlagStep == [Flag!FlagNext]_(<<queueVars, flagVars>>)

LEMMA FlagMoves ==
    ASSUME EventsAssumption, FlagInv, FlagStep
    PROVE  QueueTypes(Updates)' /\ Covered'
<1>1. \/ \E t, x : x \in Updates /\ Puts(t, x)
      \/ \E t : Writes(t)
      \/ Reads \/ Takes \/ TakesNothing
      \/ UNCHANGED queueVars
  <2>1. ASSUME NEW t, NEW f \in Flags, Flag!update(t, {f}, {}) \/ Flag!update(t, {}, {f}) PROVE \E x : x \in Updates /\ Puts(t, x)
    <3>1. [on |-> {f}, off |-> {}] \in Updates /\ [on |-> {}, off |-> {f}] \in Updates
      BY DEF Updates
    <3> QED
      BY <2>1, <3>1 DEF Flag!update, Flag!put, Puts
  <2>2. ASSUME NEW t, Flag!update_write(t) PROVE Writes(t)
    BY <2>2 DEF Flag!update_write, Flag!write, Writes
  <2>3. Flag!on_event => Reads
    BY DEF Flag!on_event, Flag!read, Reads
  <2>4. Flag!change => Takes
    BY DEF Flag!change, Flag!take, Takes
  <2>5. Flag!change_nothing => TakesNothing
    BY DEF Flag!change_nothing, Flag!take_nothing, TakesNothing
  <2>6. (\E o, w : Flag!assign(o, w)) \/ (\E id : Flag!unassign(id)) \/ (\E o : Flag!die(o)) \/ Flag!scan \/ (\E new : Flag!call(new))
          => UNCHANGED queueVars
    BY DEF Flag!assign, Flag!unassign, Flag!die, Flag!scan, Flag!call, Flag!queueVars, queueVars
  <2>7. Flag!FlagNext \/ UNCHANGED queueVars
    BY DEF FlagStep
  <2> QED
    BY <2>1, <2>2, <2>3, <2>4, <2>5, <2>6, <2>7 DEF Flag!FlagNext, Flag!LoopSteps
<1> QED
  BY <1>1, QueueKeeps DEF FlagInv

FlagRest ==
    /\ ids \in Nat /\ callbacks \in Seq(CbsOf(ids)) /\ alive \subseteq Owners /\ flags \subseteq Flags
    /\ unassigned \subseteq 1 .. ids /\ ~wrong
    /\ OneOwner(callbacks) /\ NoneOf(callbacks, unassigned)
    /\ now = "calling" => cb.owner \in alive
    /\ now = "next" => Served

\* The callbacks as they are, and the rest of what the invariant says
CbsKept == UNCHANGED <<callbacks, alive, ids, unassigned, wrong>>

LEMMA StepFlagInv == EventsAssumption /\ FlagInv /\ FlagStep => FlagInv'
<1> SUFFICES ASSUME EventsAssumption, FlagInv, FlagStep PROVE FlagInv'
  OBVIOUS
<1>1. QueueTypes(Updates)' /\ Covered'
  BY FlagMoves
<1>2. FlagRest
  BY DEF FlagInv, FlagRest
<1>3. ASSUME CbsKept, flags' \subseteq Flags, now' = "calling" => cb'.owner \in alive, now' = "next" => Served'
      PROVE  FlagRest'
  <2>1. callbacks' = callbacks /\ alive' = alive /\ ids' = ids /\ unassigned' = unassigned /\ ~wrong'
    BY <1>2, <1>3 DEF CbsKept, FlagRest
  <2> QED
    BY <1>2, <1>3, <2>1 DEF FlagRest, OneOwner, NoneOf
<1>4. ASSUME UNCHANGED flagVars PROVE FlagRest'
  <2>1. CbsKept /\ flags' = flags /\ now' = now /\ cb' = cb /\ late' = late
    BY <1>4 DEF flagVars, CbsKept
  <2>2. callbacks' = callbacks /\ alive' = alive
    BY <2>1 DEF CbsKept
  <2> QED
    BY <1>2, <1>3, <2>1, <2>2 DEF FlagRest, Served
<1>5. CASE \E t \in Switchers : Flag!update_write(t) \/ \E f \in Flags : Flag!update(t, {f}, {}) \/ Flag!update(t, {}, {f})
  <2>1. UNCHANGED flagVars
    BY <1>5 DEF Flag!update_write, Flag!update, Flag!flagObj, flagVars
  <2> QED
    BY <1>1, <1>4, <2>1 DEF FlagInv, FlagRest
<1>6. CASE Flag!on_event \/ Flag!change_nothing
  <2>1. UNCHANGED flagVars
    BY <1>6 DEF Flag!on_event, Flag!change_nothing, Flag!flagObj, flagVars
  <2> QED
    BY <1>1, <1>4, <2>1 DEF FlagInv, FlagRest
<1>7. CASE Flag!change
  <2>1. Head(que) \in Updates
    BY <1>7 DEF FlagInv, QueueTypes, Flag!change, Flag!take
  <2>2. PICK new : /\ new = (flags \cup Head(que).on) \ Head(que).off /\ flags' = new
                   /\ now' = (IF new = flags THEN "next" ELSE "scan")
                   /\ late' = (IF new = flags THEN late ELSE {})
    BY <1>7 DEF Flag!change
  <2>3. flags' \subseteq Flags
    BY <1>2, <2>1, <2>2 DEF FlagRest, Updates
  <2>4. CbsKept /\ callbacks' = callbacks /\ alive' = alive /\ now = "next"
    BY <1>7 DEF Flag!change, CbsKept
  <2>5. now' = "next" => Served'
    BY <1>2, <2>2, <2>4 DEF FlagRest, Served
  <2> QED
    BY <1>1, <1>3, <2>2, <2>3, <2>4, <2>5 DEF FlagInv, FlagRest
<1>8. CASE Flag!scan
  <2>0. UNCHANGED <<alive, ids, unassigned>> /\ now = "scan"
    BY <1>8 DEF Flag!scan
  <2> DEFINE I == {i \in 1 .. Len(callbacks) : callbacks[i].req \subseteq flags}
             n == IF I = {} THEN 0 ELSE Flag!Min(I)
  <2>1. \/ n = 0 /\ now' = "next" /\ UNCHANGED <<flags, callbacks, cb, wrong>>
        \/ /\ n # 0 /\ callbacks' = Flag!Erased(callbacks, n)
           /\ UNCHANGED <<flags, now, cb, wrong>>
        \/ /\ n # 0 /\ callbacks[n].owner \in alive
           /\ now' = "calling" /\ cb' = callbacks[n] /\ flags' = flags \ callbacks[n].req
           /\ wrong' = (wrong \/ callbacks[n].id \in unassigned) /\ callbacks' = callbacks
    <3>1. I = {i \in DOMAIN callbacks : callbacks[i].req \subseteq flags}
      BY <1>2 DEF FlagRest
    <3> HIDE DEF I
    <3> QED
      BY <1>8, <3>1 DEF Flag!scan
  <2>2. (n = 0 => I = {}) /\ (n # 0 => n \in I)
    <3>1. I \subseteq Nat \ {0}
      OBVIOUS
    <3>2. CASE I # {}
      <4>1. PICK x \in I : \A y \in I : x <= y
        <5> HIDE DEF I, n
        <5> QED
          BY <3>1, <3>2, Smallest
      <4>2. Flag!Min(I) = CHOOSE z \in I : \A y \in I : z <= y
        BY DEF Flag!Min
      <4>3. Flag!Min(I) \in I
        <5> HIDE DEF I
        <5> QED
          BY <4>1, <4>2
      <4> QED
        BY <3>1, <3>2, <4>3
    <3> QED
      BY <3>2
  <2>3. CASE n = 0 /\ now' = "next" /\ UNCHANGED <<flags, callbacks, cb, wrong>>
    <3>1. CbsKept /\ flags' \subseteq Flags /\ now' # "calling"
      BY <1>2, <2>0, <2>3 DEF CbsKept, FlagRest
    <3>2. Served'
      BY <2>2, <2>3 DEF Served
    <3> QED
      BY <1>1, <1>3, <3>1, <3>2 DEF FlagInv, FlagRest
  <2>4. CASE n # 0 /\ callbacks' = Flag!Erased(callbacks, n) /\ UNCHANGED <<flags, now, cb, wrong>>
    <3>1. n \in 1 .. Len(callbacks) /\ callbacks \in Seq(CbsOf(ids)) /\ Len(callbacks) \in Nat
      BY <1>2, <2>2, <2>4 DEF FlagRest
    <3>2. /\ callbacks' \in Seq(CbsOf(ids)) /\ Len(callbacks') = Len(callbacks) - 1
          /\ \A k \in 1 .. Len(callbacks) - 1 : callbacks'[k] = callbacks[IF k < n THEN k ELSE k + 1]
      <4> HIDE DEF n
      <4> QED
        BY <2>4, <3>1, ErasedIs
    <3>3. OneOwner(callbacks')
      <4> SUFFICES ASSUME NEW a \in 1 .. Len(callbacks) - 1, NEW b \in 1 .. Len(callbacks) - 1,
                          a < b, callbacks'[a].id = callbacks'[b].id
                   PROVE  callbacks'[b].owner = Flag!Nobody
        BY <3>2 DEF OneOwner
      <4>1. PICK x, y \in 1 .. Len(callbacks) : x < y /\ callbacks'[a] = callbacks[x] /\ callbacks'[b] = callbacks[y]
        <5> DEFINE x == IF a < n THEN a ELSE a + 1
                   y == IF b < n THEN b ELSE b + 1
        <5>1. x \in 1 .. Len(callbacks) /\ y \in 1 .. Len(callbacks) /\ x < y
          <6> HIDE DEF n, I
          <6> QED
            BY <3>1
        <5>2. callbacks'[a] = callbacks[x] /\ callbacks'[b] = callbacks[y]
          BY <3>2
        <5> QED
          BY <5>1, <5>2
      <4> QED
        BY <1>2, <4>1 DEF FlagRest, OneOwner
    <3>4. NoneOf(callbacks', unassigned)
      <4> SUFFICES ASSUME NEW a \in 1 .. Len(callbacks) - 1, callbacks'[a].id \in unassigned
                   PROVE  callbacks'[a].owner = Flag!Nobody
        BY <3>2 DEF NoneOf
      <4>1. PICK x \in 1 .. Len(callbacks) : callbacks'[a] = callbacks[x]
        <5> DEFINE x == IF a < n THEN a ELSE a + 1
        <5>1. x \in 1 .. Len(callbacks)
          BY <3>1
        <5> QED
          BY <3>2, <5>1
      <4> QED
        BY <1>2, <4>1 DEF FlagRest, NoneOf
    <3>5. now' = "scan" /\ alive' = alive /\ ids' = ids /\ unassigned' = unassigned /\ ~wrong' /\ flags' = flags
      BY <1>2, <2>0, <2>4 DEF FlagRest
    <3> QED
      BY <1>1, <1>2, <3>2, <3>3, <3>4, <3>5 DEF FlagInv, FlagRest
  <2>5. CASE /\ n # 0 /\ callbacks[n].owner \in alive
             /\ now' = "calling" /\ cb' = callbacks[n] /\ flags' = flags \ callbacks[n].req
             /\ wrong' = (wrong \/ callbacks[n].id \in unassigned) /\ callbacks' = callbacks
    <3>1. n \in 1 .. Len(callbacks)
      BY <2>2, <2>5
    <3> HIDE DEF n, I
    <3>2. Flag!Nobody \notin Owners
      BY DEF EventsAssumption, Flag!FlagAssumption, Flag!Nobody
    <3>3. callbacks[n].owner # Flag!Nobody
      BY <1>2, <2>5, <3>2 DEF FlagRest
    <3>4. callbacks[n].id \notin unassigned
      BY <1>2, <3>1, <3>3 DEF FlagRest, NoneOf
    <3>5. ~wrong' /\ ~wrong
      BY <1>2, <2>5, <3>4 DEF FlagRest
    <3>6. callbacks' = callbacks /\ alive' = alive /\ ids' = ids /\ unassigned' = unassigned /\ flags' \subseteq Flags
          /\ now' = "calling" /\ cb'.owner \in alive
      BY <1>2, <2>0, <2>5 DEF FlagRest
    <3> QED
      BY <1>1, <1>2, <3>5, <3>6 DEF FlagInv, FlagRest
  <2> HIDE DEF n, I
  <2> QED
    BY <2>1, <2>3, <2>4, <2>5
<1>9. ASSUME NEW new \in SUBSET Flags, Flag!call(new) PROVE FlagInv'
  <2>1. ~wrong'
    <3>1. ~wrong /\ cb.owner \in alive
      BY <1>2, <1>9 DEF FlagRest, Flag!call
    <3>2. wrong' = (wrong \/ cb.owner \notin alive)
      BY <1>9 DEF Flag!call
    <3> QED
      BY <3>1, <3>2
  <2>2. callbacks' = callbacks /\ alive' = alive /\ ids' = ids /\ unassigned' = unassigned /\ flags' \subseteq Flags /\ now' = "scan"
    BY <1>9 DEF Flag!call
  <2> QED
    BY <1>1, <1>2, <2>1, <2>2 DEF FlagInv, FlagRest
<1>10. ASSUME NEW o \in Owners, NEW w \in Wants, Flag!assign(o, w) PROVE FlagInv'
  <2> DEFINE c == [req |-> w, owner |-> o, id |-> ids + 1]
  <2>1. /\ ids' = ids + 1 /\ callbacks' = Append(callbacks, c) /\ late' = late \cup {ids + 1} /\ o \in alive
        /\ alive' = alive /\ unassigned' = unassigned /\ flags' = flags /\ now' = now /\ cb' = cb /\ wrong' = wrong
    BY <1>10 DEF Flag!assign
  <2>2. ids \in Nat /\ callbacks \in Seq(CbsOf(ids)) /\ Len(callbacks) \in Nat
        /\ \A n \in 1 .. Len(callbacks) : callbacks[n] \in CbsOf(ids)
    BY <1>2 DEF FlagRest
  <2>3. c \in CbsOf(ids + 1) /\ CbsOf(ids) \subseteq CbsOf(ids + 1)
    <3>1. w \in SUBSET Flags
      BY DEF EventsAssumption, Flag!FlagAssumption
    <3>2. 1 .. ids \subseteq 1 .. ids + 1 /\ ids + 1 \in 1 .. ids + 1
      BY <2>2
    <3> QED
      BY <3>1, <3>2 DEF CbsOf
  <2>4. /\ callbacks' \in Seq(CbsOf(ids + 1)) /\ Len(callbacks') = Len(callbacks) + 1
        /\ callbacks'[Len(callbacks) + 1] = c /\ \A n \in 1 .. Len(callbacks) : callbacks'[n] = callbacks[n]
    <3>1. callbacks \in Seq(CbsOf(ids + 1))
      <4>1. \A S, T : S \subseteq T => \A q \in Seq(S) : q \in Seq(T)
        OBVIOUS
      <4> QED
        BY <2>2, <2>3, <4>1
    <3> HIDE DEF c
    <3> QED
      BY <2>1, <2>3, <3>1
  <2>5. \A n \in 1 .. Len(callbacks) : callbacks[n].id \in 1 .. ids /\ callbacks[n].id # ids + 1
    BY <2>2 DEF CbsOf
  <2>6. OneOwner(callbacks')
    <3> SUFFICES ASSUME NEW a \in 1 .. Len(callbacks) + 1, NEW b \in 1 .. Len(callbacks) + 1,
                        a < b, callbacks'[a].id = callbacks'[b].id
                 PROVE  callbacks'[b].owner = Flag!Nobody
      BY <2>4 DEF OneOwner
    <3>1. a \in 1 .. Len(callbacks)
      BY <2>2
    <3>2. b # Len(callbacks) + 1
      BY <2>4, <2>5, <3>1
    <3>3. b \in 1 .. Len(callbacks)
      BY <2>2, <3>2
    <3> QED
      BY <1>2, <2>4, <3>1, <3>3 DEF FlagRest, OneOwner
  <2>7. NoneOf(callbacks', unassigned)
    <3> SUFFICES ASSUME NEW b \in 1 .. Len(callbacks) + 1, callbacks'[b].id \in unassigned
                 PROVE  callbacks'[b].owner = Flag!Nobody
      BY <2>4 DEF NoneOf
    <3>1. ids + 1 \notin unassigned
      BY <1>2, <2>2 DEF FlagRest
    <3>2. b # Len(callbacks) + 1
      BY <2>4, <3>1
    <3>3. b \in 1 .. Len(callbacks)
      BY <2>2, <3>2
    <3> QED
      BY <1>2, <2>4, <3>3 DEF FlagRest, NoneOf
  <2>8. now = "next" => Served'
    <3> SUFFICES ASSUME now = "next", NEW n \in 1 .. Len(callbacks) + 1, callbacks'[n].req \subseteq flags
                 PROVE  callbacks'[n].owner \notin alive \/ callbacks'[n].id \in late'
      BY <2>1, <2>4 DEF Served
    <3>1. CASE n = Len(callbacks) + 1
      BY <2>1, <2>4, <3>1
    <3>2. CASE n \in 1 .. Len(callbacks)
      BY <1>2, <2>1, <2>4, <3>2 DEF FlagRest, Served
    <3> QED
      BY <2>2, <3>1, <3>2
  <2>9. ~wrong'
    BY <1>2, <2>1 DEF FlagRest
  <2>10. unassigned \subseteq 1 .. ids + 1 /\ ids + 1 \in Nat
    BY <1>2, <2>2 DEF FlagRest
  <2> QED
    BY <1>1, <1>2, <2>1, <2>4, <2>6, <2>7, <2>8, <2>9, <2>10 DEF FlagInv, FlagRest
<1>11. ASSUME NEW id \in 1 .. ids, Flag!unassign(id) PROVE FlagInv'
  <2>1. /\ callbacks' = Flag!Removed(callbacks, id)
        /\ unassigned' = (IF callbacks # <<>> /\ callbacks[Len(callbacks)].id # id THEN unassigned \cup {id} ELSE unassigned)
        /\ ids' = ids /\ alive' = alive /\ flags' = flags /\ now' = now /\ cb' = cb /\ wrong' = wrong /\ late' = late
    BY <1>11 DEF Flag!unassign
  <2>2. ids \in Nat /\ callbacks \in Seq(CbsOf(ids)) /\ OneOwner(callbacks) /\ NoneOf(callbacks, unassigned)
    BY <1>2 DEF FlagRest
  <2>3. /\ callbacks' \in Seq(CbsOf(ids)) /\ Len(callbacks') = Len(callbacks)
        /\ \A n \in 1 .. Len(callbacks) : \/ callbacks'[n].owner = Flag!Nobody
                                          \/ \E k \in 1 .. Len(callbacks) : callbacks'[n] = callbacks[k]
        /\ OneOwner(callbacks') /\ NoneOf(callbacks', unassigned)
        /\ callbacks # <<>> /\ callbacks[Len(callbacks)].id # id => NoneOf(callbacks', {id})
    <3> DEFINE r == Flag!Removed(callbacks, id)
    <3>1. /\ r \in Seq(CbsOf(ids)) /\ Len(r) = Len(callbacks)
          /\ \A n \in 1 .. Len(callbacks) : r[n].owner = Flag!Nobody \/ \E k \in 1 .. Len(callbacks) : r[n] = callbacks[k]
          /\ OneOwner(callbacks) => OneOwner(r)
      <4>1. r \in Seq(CbsOf(ids)) /\ Len(r) = Len(callbacks)
        BY <2>2, RemovedIs
      <4>2. LeftOf(r, callbacks)
        BY <2>2, RemovedIs
      <4>3. OneOwner(callbacks) => OneOwner(r)
        BY <2>2, RemovedIs
      <4> QED
        BY <4>1, <4>2, <4>3 DEF LeftOf
    <3>2. NoneOf(callbacks, unassigned) => NoneOf(r, unassigned)
      <4>1. \A S : NoneOf(callbacks, S) => NoneOf(r, S)
        BY <2>2, RemovedIs, Zenon
      <4> QED
        BY <4>1
    <3>3. OneOwner(callbacks) /\ (callbacks # <<>> => callbacks[Len(callbacks)].id # id) => NoneOf(r, {id})
      BY <2>2, RemovedIs, Zenon
    <3> HIDE DEF r
    <3>4. callbacks' = r
      BY <2>1 DEF r
    <3> QED
      BY <2>2, <3>1, <3>2, <3>3, <3>4
  <2>4. NoneOf(callbacks', unassigned')
    BY <2>1, <2>3 DEF NoneOf
  <2>5. Flag!Nobody \notin alive
    BY <1>2 DEF FlagRest, EventsAssumption, Flag!FlagAssumption, Flag!Nobody
  <2>6. now = "next" => Served'
    BY <1>2, <2>1, <2>3, <2>5 DEF FlagRest, Served
  <2>7. ~wrong' /\ unassigned' \subseteq 1 .. ids
    BY <1>2, <2>1 DEF FlagRest
  <2> QED
    BY <1>1, <1>2, <2>1, <2>3, <2>4, <2>6, <2>7 DEF FlagInv, FlagRest
<1>12. ASSUME NEW o \in Owners, Flag!die(o) PROVE FlagInv'
  <2>1. /\ alive' = alive \ {o} /\ cb.owner # o
        /\ callbacks' = callbacks /\ ids' = ids /\ flags' = flags /\ now' = now /\ cb' = cb /\ wrong' = wrong
        /\ late' = late /\ unassigned' = unassigned
    BY <1>12 DEF Flag!die
  <2>2. ~wrong'
    BY <1>2, <2>1 DEF FlagRest
  <2>3. now = "next" => Served'
    BY <1>2, <2>1 DEF FlagRest, Served
  <2> QED
    BY <1>1, <1>2, <2>1, <2>2, <2>3 DEF FlagInv, FlagRest, OneOwner, NoneOf
<1>13. CASE UNCHANGED flagVars
  BY <1>1, <1>4, <1>13 DEF FlagInv, FlagRest
<1> QED
  BY <1>5, <1>6, <1>7, <1>8, <1>9, <1>10, <1>11, <1>12, <1>13 DEF FlagStep, Flag!FlagNext, Flag!LoopSteps

LEMMA InitFlagInv == EventsAssumption /\ Flag!FlagInit => FlagInv
<1> SUFFICES ASSUME Flag!FlagInit PROVE FlagInv
  OBVIOUS
<1>1. QueueTypes(Updates) /\ Covered
  <2>1. Work!QueueInit
    BY DEF Flag!FlagInit, Flag!QueueInit, Work!QueueInit
  <2> QED
    BY <2>1, QueueBegins
<1>2. callbacks = <<>> /\ Len(<<>>) = 0 /\ <<>> \in Seq(CbsOf(0)) /\ ids = 0 /\ wrong = FALSE /\ now = "next"
  BY DEF Flag!FlagInit
<1>3. ~wrong
  BY <1>2
<1> QED
  BY <1>1, <1>2, <1>3 DEF Flag!FlagInit, FlagInv, OneOwner, NoneOf, Served

LEMMA FlagInvSuffices == FlagInv => Flag!FlagsAreServed
<1> SUFFICES ASSUME FlagInv PROVE Flag!FlagsAreServed
  OBVIOUS
<1>1. Flag!QueueCovers
  BY DEF FlagInv, Covered, Flag!QueueCovers, Flag!Cardinality, Cardinality
<1>2. DOMAIN callbacks = 1 .. Len(callbacks)
  BY DEF FlagInv
<1>3. ~wrong
  BY DEF FlagInv
<1>4. now = "next" => \A n \in DOMAIN callbacks :
         callbacks[n].req \subseteq flags => callbacks[n].owner \notin alive \/ callbacks[n].id \in late
  BY <1>2 DEF FlagInv, Served
<1> QED
  BY <1>1, <1>3, <1>4 DEF Flag!FlagsAreServed
-----------------------------------------------------------------------------
(* The way of a message through a service                                  *)

\* What dispatcher_setup makes of its calls, one after the other
HandlersOf == [EvNumbers -> [prio : Int, cb : Handlers \cup {Calls!Default}]]
SetRec == [from : EvNumbers, to : EvNumbers, prio : {0, 1}, cb : Handlers]

LEMMA SetupWalk ==
    ASSUME NEW q \in Seq(SetRec)
    PROVE  \E g : /\ Calls!dispatcher_setup(q) = g[Len(q)] /\ g[0] = [ev \in EvNumbers |-> Calls!NoHandler]
                  /\ \A n \in 1 .. Len(q) : g[n - 1] \in HandlersOf /\ g[n] = Calls!set_callback(g[n - 1], q[n])
                  /\ \A n \in 0 .. Len(q) : g[n] \in HandlersOf
<1> DEFINE S == HandlersOf
           N == Len(q)
           s == [ev \in EvNumbers |-> Calls!NoHandler]
           h == [x \in S \X (1 .. N) |-> Calls!set_callback(x[1], q[x[2]])]
           map == CHOOSE f : f = [n \in 0 .. N |-> IF n = 0 THEN s ELSE Calls!set_callback(f[n - 1], q[n])]
<1>1. \A x \in S, c \in SetRec : Calls!set_callback(x, c) \in S
  <2> TAKE x \in S, c \in SetRec
  <2>1. \A ev \in EvNumbers : [prio |-> c.prio, cb |-> c.cb] \in [prio : Int, cb : Handlers \cup {Calls!Default}]
    BY DEF SetRec
  <2>2. DOMAIN x = EvNumbers /\ \A ev \in EvNumbers : x[ev] \in [prio : Int, cb : Handlers \cup {Calls!Default}]
    BY DEF HandlersOf
  <2>3. Calls!set_callback(x, c) = [ev \in EvNumbers |-> IF ev \in c.from .. c.to /\ x[ev].prio < c.prio
                                                         THEN [prio |-> c.prio, cb |-> c.cb] ELSE x[ev]]
    BY <2>2 DEF Calls!set_callback
  <2> QED
    BY <2>1, <2>2, <2>3 DEF HandlersOf
<1>2. N \in Nat /\ s \in S
  BY DEF HandlersOf, Calls!NoHandler
<1>3. h \in [S \X (1 .. N) -> S]
  <2>1. \A x \in S \X (1 .. N) : x[1] \in S /\ q[x[2]] \in SetRec
    BY <1>2
  <2>2. \A x \in S \X (1 .. N) : Calls!set_callback(x[1], q[x[2]]) \in S
    BY <1>1, <2>1
  <2> HIDE DEF S
  <2> QED
    BY <2>2
<1>4. PICK g : IsFold(g, N, S, s, h)
  <2> HIDE DEF S, N, h, s
  <2> QED
    BY <1>2, <1>3, FoldExists
<1>5. g \in [0 .. N -> S] /\ g[0] = s /\ \A k \in 1 .. N : g[k] = h[<<g[k - 1], k>>]
  BY <1>4 DEF IsFold
<1>6. \A n \in 1 .. N : g[n - 1] \in S /\ g[n] = Calls!set_callback(g[n - 1], q[n])
  <2> TAKE n \in 1 .. N
  <2>1. g[n - 1] \in S /\ g[n] = h[<<g[n - 1], n>>]
    <3> HIDE DEF S, h, s
    <3>1. n - 1 \in 0 .. N
      BY <1>2
    <3> QED
      BY <1>5, <3>1
  <2>2. <<g[n - 1], n>> \in S \X (1 .. N)
    BY <2>1
  <2>3. h[<<g[n - 1], n>>] = Calls!set_callback(g[n - 1], q[n])
    BY <2>2
  <2> QED
    BY <2>1, <2>3
<1>7. g = [n \in 0 .. N |-> IF n = 0 THEN s ELSE Calls!set_callback(g[n - 1], q[n])]
  <2> DEFINE e == [n \in 0 .. N |-> IF n = 0 THEN s ELSE Calls!set_callback(g[n - 1], q[n])]
  <2> HIDE DEF S, h, s
  <2>1. \A n \in 0 .. N : g[n] = e[n]
    BY <1>2, <1>5, <1>6
  <2>2. g = [n \in 0 .. N |-> g[n]] /\ e = [n \in 0 .. N |-> e[n]]
    BY <1>5
  <2> HIDE DEF e
  <2>3. g = e
    BY <2>1, <2>2
  <2> QED
    BY <2>3 DEF e
<1>8. map = [n \in 0 .. N |-> IF n = 0 THEN s ELSE Calls!set_callback(map[n - 1], q[n])]
  BY <1>7
<1>9. Calls!dispatcher_setup(q) = map[N]
  BY DEF Calls!dispatcher_setup
<1>10. map[0] = s /\ \A n \in 1 .. N : map[n] = Calls!set_callback(map[n - 1], q[n])
  <2> HIDE DEF map, S, h, s
  <2> QED
    BY <1>2, <1>8
<1>11. \A n \in 0 .. N : map[n] = g[n]
  <2> DEFINE Bad == {n \in 0 .. N : map[n] # g[n]}
  <2>1. ASSUME Bad # {} PROVE FALSE
    <3>1. PICK n \in Bad : \A k \in Bad : n <= k
      <4>1. Bad \subseteq Nat
        OBVIOUS
      <4> HIDE DEF Bad
      <4> QED
        BY <2>1, <4>1, Smallest
    <3> HIDE DEF map, S, h, s
    <3>2. n # 0
      BY <3>1, <1>5, <1>10
    <3>3. n - 1 \in 0 .. N /\ n - 1 \notin Bad /\ n \in 1 .. N
      BY <3>1, <3>2, <1>2
    <3> QED
      BY <1>6, <1>10, <3>1, <3>3
  <2> QED
    BY <2>1
<1>12. map[N] = g[N] /\ N \in 0 .. N
  BY <1>2, <1>11
<1> HIDE DEF map, h
<1> QED
  BY <1>5, <1>6, <1>9, <1>12

\* Which of the first n calls has an event: the first of the highest priority.
For(q, n, ev) == {k \in 1 .. n : ev \in q[k].from .. q[k].to}
IsHis(q, n, ev, x) ==
    \/ For(q, n, ev) = {} /\ x = Calls!NoHandler
    \/ \E k \in For(q, n, ev) :
         /\ x.prio = q[k].prio /\ x.cb = q[k].cb
         /\ \A j \in For(q, n, ev) : q[j].prio <= q[k].prio /\ (q[j].prio = q[k].prio => k <= j)

LEMMA SetupGoesOn ==
    ASSUME NEW q \in Seq(SetRec), NEW n \in 1 .. Len(q), NEW ev \in EvNumbers, NEW map \in HandlersOf,
           IsHis(q, n - 1, ev, map[ev])
    PROVE  IsHis(q, n, ev, Calls!set_callback(map, q[n])[ev])
<1> DEFINE x == map[ev]
           y == Calls!set_callback(map, q[n])[ev]
           c == q[n]
<1>1. c \in SetRec /\ n \in Nat /\ n - 1 \in Nat /\ \A k \in 1 .. n : q[k] \in SetRec
  OBVIOUS
<1>2. y = IF ev \in c.from .. c.to /\ x.prio < c.prio THEN [prio |-> c.prio, cb |-> c.cb] ELSE x
  <2>1. DOMAIN map = EvNumbers
    BY DEF HandlersOf
  <2> QED
    BY <2>1 DEF Calls!set_callback
<1>3. For(q, n, ev) = For(q, n - 1, ev) \cup (IF ev \in c.from .. c.to THEN {n} ELSE {})
  <2>1. \A k : k \in 1 .. n <=> k \in 1 .. n - 1 \/ k = n
    BY <1>1
  <2> QED
    BY <2>1 DEF For
<1>4. \A k \in For(q, n - 1, ev) : k \in 1 .. n - 1 /\ k < n /\ q[k].prio \in {0, 1}
  <2> TAKE k \in For(q, n - 1, ev)
  <2>1. k \in 1 .. n - 1
    BY DEF For
  <2>2. k < n /\ k \in 1 .. n
    BY <1>1, <2>1
  <2>3. q[k] \in SetRec
    BY <1>1, <2>2
  <2> QED
    BY <2>1, <2>2, <2>3 DEF SetRec
<1>5. c.prio \in {0, 1}
  BY <1>1 DEF SetRec
<1> HIDE DEF c, x, y
<1>6. CASE ev \notin c.from .. c.to
  <2>1. For(q, n, ev) = For(q, n - 1, ev) /\ y = x
    BY <1>2, <1>3, <1>6
  <2> QED
    BY <2>1 DEF IsHis, x, y
<1>7. CASE ev \in c.from .. c.to
  <2>1. For(q, n, ev) = For(q, n - 1, ev) \cup {n}
    BY <1>3, <1>7
  <2>2. CASE For(q, n - 1, ev) = {} /\ x = Calls!NoHandler
    <3>1. y.prio = c.prio /\ y.cb = c.cb
      BY <1>2, <1>5, <1>7, <2>2 DEF Calls!NoHandler
    <3>2. For(q, n, ev) = {n}
      BY <2>1, <2>2
    <3> QED
      BY <1>1, <1>5, <3>1, <3>2 DEF IsHis, y, c
  <2>3. ASSUME NEW k \in For(q, n - 1, ev), x.prio = q[k].prio, x.cb = q[k].cb,
               \A j \in For(q, n - 1, ev) : q[j].prio <= q[k].prio /\ (q[j].prio = q[k].prio => k <= j)
        PROVE  IsHis(q, n, ev, y)
    <3>1. CASE x.prio < c.prio
      <4>1. y.prio = c.prio /\ y.cb = c.cb
        BY <1>2, <1>7, <3>1
      <4>2. \A j \in For(q, n, ev) : q[j].prio <= q[n].prio /\ (q[j].prio = q[n].prio => n <= j)
        BY <1>1, <1>4, <1>5, <2>1, <2>3, <3>1 DEF c
      <4> QED
        BY <2>1, <4>1, <4>2 DEF IsHis, c
    <3>2. CASE ~(x.prio < c.prio)
      <4>1. y = x
        BY <1>2, <3>2
      <4>2. \A j \in For(q, n, ev) : q[j].prio <= q[k].prio /\ (q[j].prio = q[k].prio => k <= j)
        BY <1>1, <1>4, <1>5, <2>1, <2>3, <3>2 DEF c
      <4> QED
        BY <2>1, <2>3, <4>1, <4>2 DEF IsHis
    <3> QED
      BY <3>1, <3>2
  <2> QED
    BY <2>2, <2>3 DEF IsHis, x, y
<1> QED
  BY <1>6, <1>7

LEMMA SetupIsRight ==
    ASSUME NEW q \in Seq(SetRec), NEW ev \in EvNumbers
    PROVE  IsHis(q, Len(q), ev, Calls!dispatcher_setup(q)[ev])
<1> DEFINE N == Len(q)
<1>0. N \in Nat
  OBVIOUS
<1>1. PICK g : /\ Calls!dispatcher_setup(q) = g[N] /\ g[0] = [e \in EvNumbers |-> Calls!NoHandler]
               /\ \A n \in 1 .. N : g[n - 1] \in HandlersOf /\ g[n] = Calls!set_callback(g[n - 1], q[n])
  BY SetupWalk
<1> DEFINE Bad == {n \in 0 .. N : ~IsHis(q, n, ev, g[n][ev])}
<1>2. ASSUME Bad # {} PROVE FALSE
  <2>1. PICK n \in Bad : \A k \in Bad : n <= k
    <3>1. Bad \subseteq Nat
      OBVIOUS
    <3> HIDE DEF Bad
    <3> QED
      BY <1>2, <3>1, Smallest
  <2>2. n # 0
    <3>1. For(q, 0, ev) = {} /\ g[0][ev] = Calls!NoHandler
      BY <1>1 DEF For
    <3> QED
      BY <2>1, <3>1 DEF IsHis
  <2>3. n - 1 \in 0 .. N /\ n - 1 \notin Bad /\ n \in 1 .. N
    BY <1>0, <2>1, <2>2
  <2>4. IsHis(q, n - 1, ev, g[n - 1][ev])
    BY <2>3
  <2>5. IsHis(q, n, ev, g[n][ev])
    <3>1. g[n - 1] \in HandlersOf /\ g[n] = Calls!set_callback(g[n - 1], q[n])
      BY <1>1, <2>3
    <3> QED
      BY <2>3, <2>4, <3>1, SetupGoesOn
  <2> QED
    BY <2>1, <2>5
<1>3. IsHis(q, N, ev, g[N][ev])
  BY <1>0, <1>2
<1> QED
  BY <1>1, <1>3

LEMMA HandlerIsChosen ==
    ASSUME NEW ev \in EvNumbers, sets \in Seq(SetRec)
    PROVE  Calls!dispatcher_setup(sets)[ev].cb = Calls!Chosen(ev)
<1> DEFINE x == Calls!dispatcher_setup(sets)[ev]
           F == For(sets, Len(sets), ev)
           best == {n \in F : \A k \in F : sets[k].prio <= sets[n].prio}
<1>1. IsHis(sets, Len(sets), ev, x)
  BY SetupIsRight
<1>2. F = {n \in DOMAIN sets : ev \in sets[n].from .. sets[n].to}
  BY DEF For
<1>3. Calls!Chosen(ev) = IF F = {} THEN Calls!Default ELSE sets[Calls!Min(best)].cb
  BY <1>2 DEF Calls!Chosen
<1>4. CASE F = {} /\ x = Calls!NoHandler
  BY <1>3, <1>4 DEF Calls!NoHandler
<1>5. ASSUME NEW k \in F, x.prio = sets[k].prio, x.cb = sets[k].cb,
             \A j \in F : sets[j].prio <= sets[k].prio /\ (sets[j].prio = sets[k].prio => k <= j)
      PROVE  x.cb = Calls!Chosen(ev)
  <2>1. \A j \in F : j \in Nat /\ sets[j].prio \in {0, 1}
    <3> TAKE j \in F
    <3>1. j \in 1 .. Len(sets)
      BY DEF For
    <3>2. sets[j] \in SetRec /\ j \in Nat
      BY <3>1
    <3> QED
      BY <3>2 DEF SetRec
  <2>2. k \in best
    BY <1>5
  <2>3. \A j \in best : k <= j
    BY <1>5, <2>1
  <2>4. \A j \in best : (\A i \in best : j <= i) => j = k
    BY <2>1, <2>2, <2>3
  <2>5. Calls!Min(best) = CHOOSE z \in best : \A y \in best : z <= y
    BY DEF Calls!Min
  <2>6. Calls!Min(best) = k
    <3> HIDE DEF best
    <3> QED
      BY <2>2, <2>3, <2>4, <2>5
  <2> QED
    BY <1>3, <1>5, <2>6
<1> QED
  BY <1>1, <1>4, <1>5 DEF IsHis

\* The part of a list that is left, in the same order
PartOf(part_, list) ==
    /\ \A a \in 1 .. Len(part_) : \E x \in 1 .. Len(list) : part_[a] = list[x]
    /\ \A a, b \in 1 .. Len(part_) : a < b => \E x, y \in 1 .. Len(list) : x < y /\ part_[a] = list[x] /\ part_[b] = list[y]
HasLiving(part_, list) ==
    \A x \in 1 .. Len(list) : list[x].svc \in living => \E a \in 1 .. Len(part_) : part_[a] = list[x]

LEMMA LivingIs ==
    ASSUME NEW T, NEW list \in Seq(T)
    PROVE  /\ Calls!Living(list) \in Seq(T)
           /\ PartOf(Calls!Living(list), list) /\ HasLiving(Calls!Living(list), list)
           /\ \A n \in 1 .. Len(Calls!Living(list)) : Calls!Living(list)[n].svc \in living
<1> DEFINE L == Len(list)
           K == {n \in 1 .. L : list[n].svc \in living}
           kept == Calls!InOrder(K)
           M == Cardinality(K)
           r == Calls!Living(list)
<1>1. L \in Nat /\ DOMAIN list = 1 .. L /\ (\A n \in 1 .. L : list[n] \in T) /\ K \subseteq 0 .. L
  OBVIOUS
<1>2. M \in Nat
  <2>1. IsFiniteSet(0 .. L)
    BY <1>1, FS_Interval
  <2> QED
    BY <1>1, <2>1, FS_Subset, FS_CardinalityType
<1>3. IsOrder(kept, K)
  <2>1. kept = Flag!InOrder(K)
    BY DEF Calls!InOrder, Flag!InOrder, Calls!Cardinality, Flag!Cardinality
  <2> HIDE DEF kept, K
  <2> QED
    BY <1>1, <2>1, FlagOrder
<1>4. /\ kept \in [1 .. M -> K] /\ \A a, b \in 1 .. M : a < b => kept[a] < kept[b]
      /\ DOMAIN kept = 1 .. M /\ \A x \in K : \E a \in 1 .. M : kept[a] = x
  BY <1>3 DEF IsOrder
<1>5. r = [n \in 1 .. M |-> list[kept[n]]]
  <2>1. K = {n \in DOMAIN list : list[n].svc \in living}
    BY <1>1
  <2>2. r = [n \in DOMAIN kept |-> list[kept[n]]]
    BY <2>1 DEF Calls!Living
  <2> HIDE DEF r, kept, K, M
  <2> QED
    BY <1>4, <2>2
<1>6. \A n \in 1 .. M : kept[n] \in 1 .. L
  BY <1>4
<1> HIDE DEF r, kept, M
<1>7. r \in Seq(T) /\ Len(r) = M /\ \A n \in 1 .. M : r[n] = list[kept[n]]
  <2>1. r \in [1 .. M -> T]
    BY <1>1, <1>5, <1>6
  <2> QED
    BY <1>2, <1>5, <2>1
<1>8. PartOf(r, list)
  BY <1>4, <1>6, <1>7 DEF PartOf
<1>9. HasLiving(r, list)
  <2> SUFFICES ASSUME NEW x \in 1 .. L, list[x].svc \in living PROVE \E a \in 1 .. M : r[a] = list[x]
    BY <1>7 DEF HasLiving
  <2>1. x \in K
    OBVIOUS
  <2> QED
    BY <1>4, <1>7, <2>1
<1>10. \A n \in 1 .. Len(r) : r[n].svc \in living
  <2> TAKE n \in 1 .. Len(r)
  <2>1. kept[n] \in K /\ r[n] = list[kept[n]]
    BY <1>4, <1>7
  <2> QED
    BY <2>1
<1> QED
  BY <1>7, <1>8, <1>9, <1>10 DEF r

LEMMA InsertedIs ==
    ASSUME NEW T, NEW q \in Seq(T), NEW n \in 1 .. Len(q), NEW e \in T
    PROVE  /\ Calls!Inserted(q, n, e) \in Seq(T) /\ Len(Calls!Inserted(q, n, e)) = Len(q) + 1
           /\ \A k \in 1 .. Len(q) + 1 :
                Calls!Inserted(q, n, e)[k] = IF k < n THEN q[k] ELSE IF k = n THEN e ELSE q[k - 1]
<1> DEFINE a == SubSeq(q, 1, n - 1)
           b == SubSeq(q, n, Len(q))
           ae == a \o <<e>>
<1>1. a \in Seq(T) /\ Len(a) = n - 1 /\ \A k \in 1 .. n - 1 : a[k] = q[k]
  OBVIOUS
<1>2. b \in Seq(T) /\ Len(b) = Len(q) - n + 1 /\ \A k \in 1 .. Len(q) - n + 1 : b[k] = q[n + k - 1]
  OBVIOUS
<1>3. Calls!Inserted(q, n, e) = ae \o b /\ Len(q) \in Nat
  BY DEF Calls!Inserted
<1> HIDE DEF a, b
<1>4. ae \in Seq(T) /\ Len(ae) = n /\ \A k \in 1 .. n : ae[k] = IF k < n THEN q[k] ELSE e
  <2>1. <<e>> \in Seq(T) /\ Len(<<e>>) = 1
    OBVIOUS
  <2>2. ae \in Seq(T) /\ Len(ae) = n
    BY <1>1, <2>1
  <2>3. ASSUME NEW k \in 1 .. n PROVE ae[k] = IF k < n THEN q[k] ELSE e
    BY <1>1, <1>3, <2>1
  <2> QED
    BY <2>2, <2>3
<1> HIDE DEF ae
<1>5. ae \o b \in Seq(T) /\ Len(ae \o b) = Len(q) + 1
  <2>1. ae \in Seq(T) /\ b \in Seq(T)
    BY <1>2, <1>4
  <2>2. ae \o b \in Seq(T) /\ Len(ae \o b) = Len(ae) + Len(b)
    BY ONLY <2>1
  <2> QED
    BY <1>2, <1>3, <1>4, <2>2
<1>6. ASSUME NEW k \in 1 .. Len(q) + 1 PROVE (ae \o b)[k] = IF k < n THEN q[k] ELSE IF k = n THEN e ELSE q[k - 1]
  <2>1. CASE k <= n
    <3>1. k \in 1 .. n /\ (ae \o b)[k] = ae[k]
      BY <1>2, <1>3, <1>4, <2>1
    <3> QED
      BY <1>4, <2>1, <3>1
  <2>2. CASE ~(k <= n)
    <3>1. ae \in Seq(T) /\ b \in Seq(T) /\ k \in 1 .. Len(ae) + Len(b) /\ ~(k <= Len(ae))
      BY <1>2, <1>3, <1>4, <2>2
    <3>2. (ae \o b)[k] = b[k - Len(ae)]
      BY ONLY <3>1
    <3>3. k - n \in 1 .. Len(q) - n + 1 /\ n + (k - n) - 1 = k - 1
      BY <1>3, <2>2
    <3> QED
      BY <1>2, <1>4, <2>2, <3>2, <3>3
  <2> QED
    BY <1>3, <2>1, <2>2
<1> QED
  BY <1>3, <1>5, <1>6

Listed == [prio : Prios, svc : Services]

\* The order of the services: by priority, and first come first
InstalledBefore(x, y) == \E a, b \in 1 .. Len(installed) : a < b /\ installed[a] = x /\ installed[b] = y
Precedes(x, y) == x.prio > y.prio \/ (x.prio = y.prio /\ InstalledBefore(x, y))
IsInstalled(x) == \E a \in 1 .. Len(installed) : installed[a] = x
Subscribers == [svc : Proxies]

ListsInv ==
    /\ installed \in Seq(Listed)
    /\ \A a, b \in 1 .. Len(installed) : installed[a].svc = installed[b].svc => a = b
    /\ services \in Seq(Listed) /\ \A a \in 1 .. Len(services) : IsInstalled(services[a])
    /\ \A a, b \in 1 .. Len(services) : a < b => Precedes(services[a], services[b])
    /\ \A a \in 1 .. Len(installed) : installed[a].svc \in living =>
         \E b \in 1 .. Len(services) : services[b] = installed[a]
    /\ proxies \in Seq(Subscribers)
    /\ \A a, b \in 1 .. Len(proxies) : proxies[a].svc = proxies[b].svc => a = b

DueInv ==
    /\ due \in Seq(Services)
    /\ \A a, b \in 1 .. Len(due) : a < b =>
         \E x, y \in Listed : /\ IsInstalled(x) /\ IsInstalled(y) /\ x.svc = due[a] /\ y.svc = due[b]
                              /\ Precedes(x, y)

\* Behind the way w the message has been at proxies, each once, and not at those it still goes to.
Forwarded(w, r, d) ==
    \E tail \in Seq(Proxies) :
      /\ d = w \o tail
      /\ \A a, b \in 1 .. Len(tail) : tail[a] = tail[b] => a = b
      /\ \A a, b \in 1 .. Len(r) : r[a] = r[b] => a = b
      /\ \A a \in 1 .. Len(tail), b \in 1 .. Len(r) : tail[a] # r[b]

\* Where the message has been, and where it still goes
WayInv ==
    /\ message \in EvNumbers \/ where = "nobody"
    /\ \/ /\ where = "nobody" /\ due = <<>> /\ done = <<>>
       \/ /\ where = "delegate" /\ rests \in Seq(Services) /\ done \in Seq(Services) /\ due = done \o rests
       \/ /\ where = "dispatcher" /\ done = Append(due, Calls!Chosen(message))
       \/ /\ where = "forwarder" /\ rests \in Seq(Proxies)
          /\ Forwarded(Append(due, Calls!Chosen(message)), rests, done)

CallsInv ==
    /\ sets \in Seq(SetRec) /\ event_map = Calls!dispatcher_setup(sets)
    /\ ListsInv /\ DueInv /\ WayInv

CallsStep == [Calls!ServiceCallsNext]_callVars

\* Behind the services d and the handler
Heard(d, e) == {e[n] : n \in Len(d) + 1 + 1 .. Len(e)}

\* Who is held and has subscribed is in the list of the forwarder; who is subscribed to the message
\* and in the vector of the forwarder, may hear it; and who must, has heard it or is in that vector.
HeardInv ==
    /\ interests \in [Proxies -> SUBSET EvNumbers] /\ subscribed = interests
    /\ \A p \in Proxies \cap living : subscribed[p] # {} => \E n \in 1 .. Len(proxies) : proxies[n].svc = p
    /\ where # "forwarder" => must = {} /\ may = {}
    /\ where = "forwarder" =>
         /\ must \subseteq Proxies /\ \A p \in must : message \in subscribed[p]
         /\ \A n \in 1 .. Len(rests) : message \in subscribed[rests[n]] => rests[n] \in may
         /\ Heard(due, done) \subseteq may
         /\ must \subseteq Heard(due, done) \cup {rests[n] : n \in 1 .. Len(rests)}

\* The lists, when the living change or a service is installed or a proxy subscribes
LEMMA InstallKeeps ==
    ASSUME EventsAssumption, ListsInv, NEW s \in Services, NEW p \in Prios, Calls!install(s, p)
    PROVE  ListsInv' /\ \A x, y : (IsInstalled(x) => IsInstalled(x)') /\ (Precedes(x, y) => Precedes(x, y)')
<1> DEFINE e == [prio |-> p, svc |-> s]
           I == {i \in 1 .. Len(services) : services[i].prio < p}
           n == IF I = {} THEN 0 ELSE Calls!Min(I)
<1>1. /\ s \in living /\ living' = living /\ proxies' = proxies
      /\ \A k \in DOMAIN installed : installed[k].svc # s
      /\ services' = (IF I = {} THEN Append(services, e) ELSE Calls!Inserted(services, n, e))
      /\ installed' = Append(installed, e)
  <2>1. I = {i \in DOMAIN services : services[i].prio < p}
    BY DEF ListsInv
  <2> HIDE DEF I
  <2> QED
    BY <2>1 DEF Calls!install
<1>2. /\ installed \in Seq(Listed) /\ services \in Seq(Listed) /\ Len(installed) \in Nat /\ Len(services) \in Nat
      /\ e \in Listed /\ p \in Int /\ (\A a \in 1 .. Len(services) : services[a] \in Listed /\ services[a].prio \in Int)
  <2>1. Prios \subseteq Int
    BY DEF EventsAssumption, Calls!ServiceCallsAssumption
  <2>2. installed \in Seq(Listed) /\ services \in Seq(Listed)
    BY DEF ListsInv
  <2>3. \A a \in 1 .. Len(services) : services[a] \in Listed
    BY <2>2
  <2> QED
    BY <2>1, <2>2, <2>3 DEF Listed
<1>3. (n = 0 => I = {}) /\ (n # 0 => n \in I /\ \A i \in I : n <= i)
  <2>1. I \subseteq Nat \ {0}
    OBVIOUS
  <2>2. CASE I # {}
    <3>1. PICK x \in I : \A y \in I : x <= y
      <4> HIDE DEF I, n
      <4> QED
        BY <2>1, <2>2, Smallest
    <3>2. Calls!Min(I) = CHOOSE z \in I : \A y \in I : z <= y
      BY DEF Calls!Min
    <3>3. Calls!Min(I) \in I /\ \A y \in I : Calls!Min(I) <= y
      <4> HIDE DEF I
      <4> QED
        BY <3>1, <3>2
    <3> QED
      BY <2>1, <2>2, <3>3
  <2> QED
    BY <2>2
<1> DEFINE at == IF n = 0 THEN Len(services) + 1 ELSE n
<1>4. /\ at \in 1 .. Len(services) + 1 /\ services' \in Seq(Listed) /\ Len(services') = Len(services) + 1
      /\ \A k \in 1 .. Len(services) + 1 : services'[k] = IF k < at THEN services[k] ELSE IF k = at THEN e ELSE services[k - 1]
  <2>1. CASE n = 0
    <3>1. I = {}
      BY <1>3, <2>1
    <3> HIDE DEF I
    <3> QED
      BY <1>1, <1>2, <2>1, <3>1
  <2>2. CASE n # 0
    <3>1. n \in 1 .. Len(services) /\ at = n
      BY <1>3, <2>2
    <3>2. services' = Calls!Inserted(services, at, e)
      <4>1. I # {}
        BY <1>3, <2>2
      <4> HIDE DEF I
      <4> QED
        BY <1>1, <2>2, <4>1
    <3>3. at \in 1 .. Len(services) /\ services \in Seq(Listed) /\ e \in Listed /\ Len(services) \in Nat
      BY <1>2, <3>1
    <3> HIDE DEF n, e, at
    <3>4. at \in 1 .. Len(services) + 1
      BY <3>3
    <3> QED
      BY <3>2, <3>3, <3>4, InsertedIs
  <2> QED
    BY <2>1, <2>2
<1>5. /\ \A k \in 1 .. Len(services) : k < at => services[k].prio >= p
      /\ \A k \in 1 .. Len(services) : k >= at => services[k].prio < p
  <2>1. ASSUME NEW k \in 1 .. Len(services), k < at PROVE services[k].prio >= p
    <3>1. k \notin I
      <4>1. CASE n = 0
        BY <1>3, <4>1
      <4>2. CASE n # 0
        <5>1. k < n /\ n \in Nat /\ k \in Nat /\ \A i \in I : n <= i
          <6>1. I \subseteq Nat
            OBVIOUS
          <6> QED
            BY <1>3, <2>1, <4>2, <6>1
        <5> HIDE DEF I, n, at
        <5> QED
          BY <5>1
      <4> QED
        BY <4>1, <4>2
    <3> QED
      BY <1>2, <3>1
  <2>2. ASSUME NEW k \in 1 .. Len(services), k >= at PROVE services[k].prio < p
    <3>1. n # 0 /\ at = n /\ n \in I
      BY <1>2, <1>3, <2>2
    <3>2. services[n].prio < p /\ n \in 1 .. Len(services)
      BY <3>1
    <3>3. k = n \/ Precedes(services[n], services[k])
      BY <2>2, <3>1, <3>2 DEF ListsInv
    <3>4. services[k].prio = services[n].prio \/ services[n].prio > services[k].prio
      BY <3>3 DEF Precedes
    <3>5. services[k].prio \in Int /\ services[n].prio \in Int
      BY <1>2, <3>2
    <3> QED
      <4> HIDE DEF n, I, at
      <4> QED
        BY <1>2, <3>2, <3>4, <3>5
  <2> QED
    BY <2>1, <2>2
<1> HIDE DEF n, I, at
<1>6. /\ installed' \in Seq(Listed) /\ Len(installed') = Len(installed) + 1 /\ installed'[Len(installed) + 1] = e
      /\ \A a \in 1 .. Len(installed) : installed'[a] = installed[a] /\ installed[a].svc # s
  BY <1>1, <1>2
<1> HIDE DEF e
<1>7. ASSUME NEW x, NEW y PROVE (IsInstalled(x) => IsInstalled(x)') /\ (Precedes(x, y) => Precedes(x, y)')
  <2>1. \A a \in 1 .. Len(installed) : a \in 1 .. Len(installed')
    BY <1>2, <1>6
  <2>2. IsInstalled(x) => IsInstalled(x)'
    BY <1>6, <2>1 DEF IsInstalled
  <2>3. InstalledBefore(x, y) => InstalledBefore(x, y)'
    BY <1>6, <2>1 DEF InstalledBefore
  <2> QED
    BY <2>2, <2>3 DEF Precedes
<1>8. ASSUME NEW x, IsInstalled(x) PROVE InstalledBefore(x, e)'
  <2>1. PICK a \in 1 .. Len(installed) : installed[a] = x
    BY <1>8 DEF IsInstalled
  <2>2. a < Len(installed) + 1 /\ a \in 1 .. Len(installed') /\ Len(installed) + 1 \in 1 .. Len(installed')
    BY <1>2, <1>6
  <2> QED
    BY <1>6, <2>1, <2>2 DEF InstalledBefore
<1>9. IsInstalled(e)'
  <2>1. Len(installed) + 1 \in 1 .. Len(installed')
    BY <1>2, <1>6
  <2> QED
    BY <1>6, <2>1 DEF IsInstalled
<1>10. \A k \in 1 .. Len(services) + 1 :
          \/ k = at /\ services'[k] = e
          \/ k < at /\ k \in 1 .. Len(services) /\ services'[k] = services[k]
          \/ k > at /\ k - 1 >= at /\ k - 1 \in 1 .. Len(services) /\ services'[k] = services[k - 1]
  <2> TAKE k \in 1 .. Len(services) + 1
  <2>1. at \in 1 .. Len(services) + 1 /\ Len(services) \in Nat
    BY <1>2, <1>4
  <2>2. services'[k] = IF k < at THEN services[k] ELSE IF k = at THEN e ELSE services[k - 1]
    BY <1>4
  <2>3. k < at \/ k = at \/ k > at
    BY <2>1
  <2>4. (k < at => k \in 1 .. Len(services)) /\ (k = at => ~(k < at))
    BY <2>1
  <2>5. k > at => k - 1 >= at /\ k - 1 \in 1 .. Len(services) /\ ~(k < at) /\ k # at
    BY <2>1
  <2>6. CASE k < at
    BY <2>2, <2>4, <2>6
  <2>7. CASE k = at
    BY <2>2, <2>4, <2>7
  <2>8. CASE k > at
    BY <2>2, <2>5, <2>8
  <2> QED
    BY <2>3, <2>6, <2>7, <2>8
<1>11. ASSUME NEW a \in 1 .. Len(services) + 1, NEW x, x = services'[a] PROVE IsInstalled(x)'
  <2>1. CASE x = e
    BY <1>9, <2>1
  <2>2. CASE \E k \in 1 .. Len(services) : x = services[k]
    <3>1. IsInstalled(x)
      BY <2>2 DEF ListsInv
    <3> QED
      BY <1>7, <3>1
  <2> QED
    BY <1>10, <1>11, <2>1, <2>2
<1>12. ASSUME NEW a \in 1 .. Len(services) + 1, NEW b \in 1 .. Len(services) + 1, a < b,
              NEW x, NEW y, x = services'[a], y = services'[b]
       PROVE  Precedes(x, y)'
  <2>1. CASE a = at
    <3>1. b - 1 \in 1 .. Len(services) /\ b - 1 >= at /\ y = services[b - 1] /\ x = e
      BY <1>2, <1>4, <1>10, <1>12, <2>1
    <3>2. y.prio < p /\ x.prio = p
      BY <1>5, <3>1 DEF e
    <3>3. x.prio > y.prio
      BY <1>2, <3>1, <3>2
    <3> QED
      BY <3>3 DEF Precedes
  <2>2. CASE b = at
    <3>1. a \in 1 .. Len(services) /\ a < at /\ x = services[a] /\ y = e
      BY <1>2, <1>4, <1>10, <1>12, <2>2
    <3>2. x.prio >= p /\ y.prio = p /\ IsInstalled(x)
      BY <1>5, <3>1 DEF e, ListsInv
    <3>3. x.prio > y.prio \/ x.prio = y.prio
      BY <1>2, <3>1, <3>2
    <3>4. InstalledBefore(x, y)'
      BY <1>8, <3>1, <3>2
    <3> QED
      BY <3>3, <3>4 DEF Precedes
  <2>3. CASE a # at /\ b # at
    <3>1. PICK i, j \in 1 .. Len(services) : i < j /\ x = services[i] /\ y = services[j]
      <4> DEFINE i == IF a < at THEN a ELSE a - 1
                 j == IF b < at THEN b ELSE b - 1
      <4>1. i \in 1 .. Len(services) /\ j \in 1 .. Len(services) /\ i < j
        BY <1>2, <1>4, <1>12, <2>3
      <4>2. \A k \in 1 .. Len(services) + 1 : k # at => services'[k] = services[IF k < at THEN k ELSE k - 1]
        <5> TAKE k \in 1 .. Len(services) + 1
        <5>1. k > at => ~(k < at)
          BY <1>4
        <5> QED
          BY <1>10, <5>1
      <4>3. x = services[i] /\ y = services[j]
        BY <1>12, <2>3, <4>2
      <4> QED
        BY <4>1, <4>3
    <3>2. Precedes(x, y)
      BY <3>1 DEF ListsInv
    <3> QED
      BY <1>7, <3>2
  <2> QED
    BY <2>1, <2>2, <2>3
<1>13. \A a \in 1 .. Len(services') : IsInstalled(services[a])'
  BY <1>4, <1>11 DEF IsInstalled
<1>14. \A a, b \in 1 .. Len(services') : a < b => Precedes(services[a], services[b])'
  BY <1>4, <1>12 DEF Precedes, InstalledBefore
<1>15. \A a, b \in 1 .. Len(installed') : installed'[a].svc = installed'[b].svc => a = b
  <2> SUFFICES ASSUME NEW a \in 1 .. Len(installed) + 1, NEW b \in 1 .. Len(installed) + 1, installed'[a].svc = installed'[b].svc
               PROVE  a = b
    BY <1>6
  <2>1. e.svc = s
    BY DEF e
  <2>2. \A k \in 1 .. Len(installed) + 1 : k = Len(installed) + 1 \/ k \in 1 .. Len(installed)
    BY <1>2
  <2>3. CASE a \in 1 .. Len(installed) /\ b \in 1 .. Len(installed)
    BY <1>6, <2>3 DEF ListsInv
  <2> QED
    BY <1>6, <2>1, <2>2, <2>3
<1>16. ASSUME NEW a \in 1 .. Len(installed'), installed'[a].svc \in living
       PROVE  \E b \in 1 .. Len(services') : services'[b] = installed'[a]
  <2>1. CASE a = Len(installed) + 1
    BY <1>2, <1>4, <1>6, <2>1
  <2>2. CASE a \in 1 .. Len(installed)
    <3>1. PICK b \in 1 .. Len(services) : services[b] = installed[a]
      BY <1>6, <1>16, <2>2 DEF ListsInv
    <3>2. PICK c \in 1 .. Len(services) + 1 : services'[c] = services[b]
      <4> DEFINE c == IF b < at THEN b ELSE b + 1
      <4>1. c \in 1 .. Len(services) + 1 /\ (b < at => c < at /\ c = b) /\ (~(b < at) => ~(c < at) /\ c # at /\ c - 1 = b)
        BY <1>2, <1>4
      <4> HIDE DEF c
      <4>2. services'[c] = services[b]
        BY <1>4, <4>1
      <4> QED
        BY <4>1, <4>2
    <3> QED
      BY <1>4, <1>6, <2>2, <3>1, <3>2
  <2> QED
    BY <1>2, <1>6, <2>1, <2>2
<1>17. proxies' \in Seq(Subscribers) /\ \A a, b \in 1 .. Len(proxies') : proxies'[a].svc = proxies'[b].svc => a = b
  BY <1>1 DEF ListsInv
<1>18. ListsInv'
  BY <1>1, <1>4, <1>6, <1>13, <1>14, <1>15, <1>16, <1>17 DEF ListsInv
<1> QED
  BY <1>7, <1>18

\* The services go on to live or not, and no more of them than before; a vector is taken of those.
LEMMA LivesLess ==
    ASSUME ListsInv, living' \subseteq living, installed' = installed, services' = services, proxies' = proxies
    PROVE  ListsInv'
<1>1. /\ installed' \in Seq(Listed) /\ services' \in Seq(Listed) /\ proxies' \in Seq(Subscribers)
      /\ \A a, b \in 1 .. Len(installed') : installed'[a].svc = installed'[b].svc => a = b
      /\ \A a, b \in 1 .. Len(proxies') : proxies'[a].svc = proxies'[b].svc => a = b
  BY DEF ListsInv
<1>2. \A a \in 1 .. Len(services') : \E k \in 1 .. Len(installed') : installed'[k] = services'[a]
  BY DEF ListsInv, IsInstalled
<1>3. \A a, b \in 1 .. Len(services') : a < b => 
         \/ services'[a].prio > services'[b].prio
         \/ /\ services'[a].prio = services'[b].prio
            /\ \E i, j \in 1 .. Len(installed') : i < j /\ installed'[i] = services'[a] /\ installed'[j] = services'[b]
  BY DEF ListsInv, Precedes, InstalledBefore
<1>4. \A a \in 1 .. Len(installed') : installed'[a].svc \in living' =>
         \E b \in 1 .. Len(services') : services'[b] = installed'[a]
  BY DEF ListsInv
<1> QED
  BY <1>1, <1>2, <1>3, <1>4 DEF ListsInv, IsInstalled, Precedes, InstalledBefore

LEMMA ServicesTaken ==
    ASSUME ListsInv, services' = Calls!Living(services), installed' = installed, living' = living, proxies' = proxies
    PROVE  ListsInv'
<1>1. /\ services' \in Seq(Listed) /\ PartOf(services', services) /\ HasLiving(services', services)
  BY LivingIs DEF ListsInv
<1>2. ASSUME NEW a \in 1 .. Len(services') PROVE \E x : x = services'[a] /\ IsInstalled(x)
  <2>1. PICK k \in 1 .. Len(services) : services'[a] = services[k]
    BY <1>1 DEF PartOf
  <2> QED
    BY <2>1 DEF ListsInv
<1>3. ASSUME NEW a \in 1 .. Len(services'), NEW b \in 1 .. Len(services'), a < b
      PROVE  \E x, y : x = services'[a] /\ y = services'[b] /\ Precedes(x, y)
  <2>1. PICK i, j \in 1 .. Len(services) : i < j /\ services'[a] = services[i] /\ services'[b] = services[j]
    BY <1>1, <1>3 DEF PartOf
  <2> QED
    BY <2>1 DEF ListsInv
<1>4. \A x : IsInstalled(x)' <=> IsInstalled(x)
  BY DEF IsInstalled
<1>5. \A x, y : Precedes(x, y)' <=> Precedes(x, y)
  BY DEF Precedes, InstalledBefore
<1>6. \A a \in 1 .. Len(services') : IsInstalled(services[a])'
  BY <1>2, <1>4 DEF IsInstalled
<1>7. \A a, b \in 1 .. Len(services') : a < b => Precedes(services[a], services[b])'
  BY <1>3, <1>5 DEF Precedes, InstalledBefore
<1>8. ASSUME NEW a \in 1 .. Len(installed'), installed'[a].svc \in living'
      PROVE  \E b \in 1 .. Len(services') : services'[b] = installed'[a]
  <2>1. PICK b \in 1 .. Len(services) : services[b] = installed[a]
    BY <1>8 DEF ListsInv
  <2>2. services[b].svc \in living
    BY <1>8, <2>1
  <2>3. PICK c \in 1 .. Len(services') : services'[c] = services[b]
    BY <1>1, <2>2 DEF HasLiving
  <2> QED
    BY <2>1, <2>3
<1> QED
  BY <1>1, <1>6, <1>7, <1>8 DEF ListsInv

LEMMA ProxiesTaken ==
    ASSUME ListsInv, proxies' = Calls!Living(proxies), installed' = installed, living' = living, services' = services
    PROVE  ListsInv'
<1>1. /\ proxies' \in Seq(Subscribers) /\ PartOf(proxies', proxies)
  BY LivingIs DEF ListsInv
<1>2. ASSUME NEW a \in 1 .. Len(proxies'), NEW b \in 1 .. Len(proxies'), proxies'[a].svc = proxies'[b].svc PROVE a = b
  <2>1. ASSUME NEW c \in 1 .. Len(proxies'), NEW d \in 1 .. Len(proxies'), c < d PROVE proxies'[c].svc # proxies'[d].svc
    <3>1. PICK i, j \in 1 .. Len(proxies) : i < j /\ proxies'[c] = proxies[i] /\ proxies'[d] = proxies[j]
      BY <1>1, <2>1 DEF PartOf
    <3> QED
      BY <3>1 DEF ListsInv
  <2>2. ~(a < b) /\ ~(b < a)
    BY <1>2, <2>1
  <2>3. a \in Int /\ b \in Int
    OBVIOUS
  <2> QED
    BY <2>2, <2>3
<1> QED
  BY <1>1, <1>2 DEF ListsInv, IsInstalled, Precedes, InstalledBefore

LEMMA SubscribeKeeps ==
    ASSUME ListsInv, NEW p \in Proxies, NEW ev, Calls!subscribe(p, ev) PROVE ListsInv'
<1>1. /\ installed' = installed /\ living' = living /\ services' = services
      /\ proxies' = IF p \in {proxies[n].svc : n \in DOMAIN proxies} THEN proxies ELSE Append(proxies, [svc |-> p])
  BY DEF Calls!subscribe
<1>2. proxies \in Seq(Subscribers) /\ DOMAIN proxies = 1 .. Len(proxies) /\ Len(proxies) \in Nat
  BY DEF ListsInv
<1>3. CASE p \in {proxies[n].svc : n \in DOMAIN proxies}
  BY <1>1, <1>3, LivesLess
<1>4. CASE p \notin {proxies[n].svc : n \in DOMAIN proxies}
  <2>1. /\ proxies' \in Seq(Subscribers) /\ Len(proxies') = Len(proxies) + 1
        /\ proxies'[Len(proxies) + 1].svc = p
        /\ \A n \in 1 .. Len(proxies) : proxies'[n] = proxies[n] /\ proxies[n].svc # p
    <3>1. [svc |-> p] \in Subscribers
      BY DEF Subscribers
    <3> QED
      BY <1>1, <1>2, <1>4, <3>1
  <2>2. ASSUME NEW a \in 1 .. Len(proxies'), NEW b \in 1 .. Len(proxies'), proxies'[a].svc = proxies'[b].svc PROVE a = b
    <3>1. \A k \in 1 .. Len(proxies') : k = Len(proxies) + 1 \/ k \in 1 .. Len(proxies)
      BY <1>2, <2>1
    <3>2. CASE a \in 1 .. Len(proxies) /\ b \in 1 .. Len(proxies)
      BY <2>1, <2>2, <3>2 DEF ListsInv
    <3> QED
      BY <2>1, <2>2, <3>1, <3>2
  <2> QED
    BY <1>1, <2>1, <2>2 DEF ListsInv, IsInstalled, Precedes, InstalledBefore
<1> QED
  BY <1>3, <1>4

\* What is due was found in the order of the services.
LEMMA DueStays ==
    ASSUME DueInv, due' = due, \A x, y : (IsInstalled(x) => IsInstalled(x)') /\ (Precedes(x, y) => Precedes(x, y)')
    PROVE  DueInv'
<1> SUFFICES ASSUME NEW a \in 1 .. Len(due), NEW b \in 1 .. Len(due), a < b
             PROVE  \E x, y \in Listed : /\ IsInstalled(x)' /\ IsInstalled(y)' /\ x.svc = due[a] /\ y.svc = due[b]
                                         /\ Precedes(x, y)'
  BY DEF DueInv
<1> QED
  BY DEF DueInv

LEMMA DueBegins ==
    ASSUME ListsInv, DueInv, services' = Calls!Living(services), installed' = installed, due' = Calls!Names(services)'
    PROVE  DueInv' /\ due' \in Seq(Services)
<1>1. /\ services' \in Seq(Listed) /\ PartOf(services', services)
  BY LivingIs DEF ListsInv
<1>2. due' \in Seq(Services) /\ Len(due') = Len(services') /\ \A n \in 1 .. Len(services') : due'[n] = services'[n].svc
  <2>1. due' = [n \in 1 .. Len(services') |-> services'[n].svc]
    <3>1. DOMAIN services' = 1 .. Len(services')
      BY <1>1
    <3> QED
      BY <3>1 DEF Calls!Names
  <2>2. \A n \in 1 .. Len(services') : services'[n].svc \in Services
    <3> TAKE n \in 1 .. Len(services')
    <3>1. services'[n] \in Listed
      BY <1>1
    <3> QED
      BY <3>1 DEF Listed
  <2>3. Len(services') \in Nat
    BY <1>1
  <2>4. due' \in [1 .. Len(services') -> Services]
    BY <2>1, <2>2
  <2> QED
    BY <2>1, <2>3, <2>4
<1>3. (\A x : IsInstalled(x) => IsInstalled(x)') /\ (\A x, y : Precedes(x, y) => Precedes(x, y)')
  BY DEF IsInstalled, Precedes, InstalledBefore
<1>4. ASSUME NEW a \in 1 .. Len(due'), NEW b \in 1 .. Len(due'), a < b
      PROVE  \E x, y \in Listed : /\ IsInstalled(x)' /\ IsInstalled(y)' /\ x.svc = due'[a] /\ y.svc = due'[b]
                                  /\ Precedes(x, y)'
  <2>0. a \in 1 .. Len(services') /\ b \in 1 .. Len(services')
    BY <1>2, <1>4
  <2>1. PICK i, j \in 1 .. Len(services) : i < j /\ services'[a] = services[i] /\ services'[b] = services[j]
    BY <1>1, <1>4, <2>0 DEF PartOf
  <2>2. PICK x, y \in Listed : x = services[i] /\ y = services[j]
    BY <2>1 DEF ListsInv
  <2>3. IsInstalled(x) /\ IsInstalled(y) /\ Precedes(x, y)
    BY <2>1, <2>2 DEF ListsInv
  <2>4. x.svc = due'[a] /\ y.svc = due'[b]
    BY <1>2, <1>4, <2>1, <2>2
  <2> QED
    BY <1>3, <2>3, <2>4
<1>5. DueInv'
  BY <1>2, <1>4 DEF DueInv
<1> QED
  BY <1>2, <1>5

\* One goes from what is to come to what is done.
LEMMA Passes ==
    ASSUME NEW T, NEW a \in Seq(T), NEW b \in Seq(T), b # <<>>
    PROVE  /\ Append(a, Head(b)) \in Seq(T) /\ Tail(b) \in Seq(T) /\ Append(a, Head(b)) \o Tail(b) = a \o b
<1> DEFINE c == Append(a, Head(b))
           d == Tail(b)
<1>1. /\ c \in Seq(T) /\ Len(c) = Len(a) + 1 /\ Len(a) \in Nat /\ Len(b) \in Nat \ {0} /\ c[Len(a) + 1] = b[1]
      /\ \A n \in 1 .. Len(a) : c[n] = a[n]
  OBVIOUS
<1>2. d \in Seq(T) /\ Len(d) = Len(b) - 1 /\ \A n \in 1 .. Len(b) - 1 : d[n] = b[n + 1]
  OBVIOUS
<1> HIDE DEF c, d
<1>3. c \o d \in Seq(T) /\ Len(c \o d) = Len(a) + Len(b)
  <2>0. c \in Seq(T) /\ d \in Seq(T)
    BY <1>1, <1>2
  <2>1. Len(c \o d) = Len(c) + Len(d) /\ c \o d \in Seq(T)
    BY ONLY <2>0
  <2> QED
    BY <1>1, <1>2, <2>1
<1>4. a \o b \in Seq(T) /\ Len(a \o b) = Len(a) + Len(b)
  OBVIOUS
<1>5. ASSUME NEW n \in 1 .. Len(a) + Len(b) PROVE (c \o d)[n] = (a \o b)[n]
  <2>1. CASE n <= Len(a)
    <3>0. c \in Seq(T) /\ d \in Seq(T) /\ n \in 1 .. Len(c)
      BY <1>1, <1>2, <2>1
    <3>1. (c \o d)[n] = c[n]
      BY ONLY <3>0
    <3>2. (a \o b)[n] = a[n] /\ n \in 1 .. Len(a)
      BY <1>1, <2>1
    <3> QED
      BY <1>1, <3>1, <3>2
  <2>2. CASE n = Len(a) + 1
    <3>0. c \in Seq(T) /\ d \in Seq(T) /\ n \in 1 .. Len(c)
      BY <1>1, <1>2, <2>2
    <3>1. (c \o d)[n] = c[n]
      BY ONLY <3>0
    <3>2. (a \o b)[n] = b[1]
      BY <1>1, <2>2
    <3> QED
      BY <1>1, <2>2, <3>1, <3>2
  <2>3. CASE n > Len(a) + 1
    <3>1. c \in Seq(T) /\ d \in Seq(T) /\ n \in 1 .. Len(c) + Len(d) /\ ~(n <= Len(c))
      BY <1>1, <1>2, <2>3
    <3>2. (c \o d)[n] = d[n - Len(c)]
      BY ONLY <3>1
    <3>3. n - Len(c) \in 1 .. Len(b) - 1 /\ n - Len(c) + 1 = n - Len(a)
      BY <1>1, <1>2, <2>3
    <3>4. (a \o b)[n] = b[n - Len(a)]
      BY <1>1, <2>3
    <3> QED
      BY <1>2, <3>2, <3>3, <3>4
  <2>4. n <= Len(a) \/ n = Len(a) + 1 \/ n > Len(a) + 1
    BY <1>1
  <2> QED
    BY <2>1, <2>2, <2>3, <2>4
<1> QED
  BY <1>1, <1>2, <1>3, <1>4, <1>5 DEF c, d

WayKept == UNCHANGED <<message, where, rests, sets, due, done>>

LEMMA WayStays == ASSUME WayInv, WayKept PROVE WayInv'
<1>1. message' = message /\ where' = where /\ rests' = rests /\ sets' = sets /\ due' = due /\ done' = done
  BY DEF WayKept
<1>2. Calls!Chosen(message)' = Calls!Chosen(message)
  BY <1>1 DEF Calls!Chosen
<1> QED
  BY <1>1, <1>2 DEF WayInv

\* What a step of another thread keeps of the invariant
LEMMA OthersKeep ==
    ASSUME CallsInv, WayKept, event_map' = event_map, ListsInv',
           \A x, y : (IsInstalled(x) => IsInstalled(x)') /\ (Precedes(x, y) => Precedes(x, y)')
    PROVE  CallsInv'
<1>1. due' = due /\ sets' = sets
  BY DEF WayKept
<1> QED
  BY <1>1, WayStays, DueStays DEF CallsInv

LEMMA SameOrder ==
    ASSUME installed' = installed
    PROVE  \A x, y : (IsInstalled(x) => IsInstalled(x)') /\ (Precedes(x, y) => Precedes(x, y)')
  BY DEF IsInstalled, Precedes, InstalledBefore

LEMMA StepCallsInv == EventsAssumption /\ CallsInv /\ CallsStep => CallsInv'
<1> SUFFICES ASSUME EventsAssumption, CallsInv, CallsStep PROVE CallsInv'
  OBVIOUS
<1>1. ListsInv /\ DueInv /\ WayInv /\ sets \in Seq(SetRec) /\ event_map = Calls!dispatcher_setup(sets)
  BY DEF CallsInv
<1>2. ASSUME NEW s \in Services, NEW p \in Prios, Calls!install(s, p) PROVE CallsInv'
  <2>1. ListsInv' /\ \A x, y : (IsInstalled(x) => IsInstalled(x)') /\ (Precedes(x, y) => Precedes(x, y)')
    BY <1>1, <1>2, InstallKeeps
  <2>2. WayKept /\ event_map' = event_map
    BY <1>2 DEF Calls!install, WayKept, Calls!messageVars
  <2> QED
    BY <2>1, <2>2, OthersKeep
<1>3. ASSUME NEW p \in Proxies, Calls!unsubscribe(p) \/ \E ev \in EvNumbers : Calls!subscribe(p, ev) PROVE CallsInv'
  <2>1. WayKept /\ event_map' = event_map /\ installed' = installed
    BY <1>3 DEF Calls!unsubscribe, Calls!subscribe, WayKept, Calls!messageVars
  <2>2. ListsInv'
    <3>1. CASE Calls!unsubscribe(p)
      BY <1>1, <3>1, LivesLess DEF Calls!unsubscribe
    <3>2. CASE \E ev \in EvNumbers : Calls!subscribe(p, ev)
      BY <1>1, <3>2, SubscribeKeeps
    <3> QED
      BY <1>3, <3>1, <3>2
  <2> QED
    BY <2>1, <2>2, OthersKeep, SameOrder
<1>4. ASSUME NEW x, Calls!go(x) PROVE CallsInv'
  <2>1. WayKept /\ event_map' = event_map /\ installed' = installed
    BY <1>4 DEF Calls!go, WayKept, Calls!messageVars
  <2>2. ListsInv'
    BY <1>1, <1>4, LivesLess DEF Calls!go
  <2> QED
    BY <2>1, <2>2, OthersKeep, SameOrder
<1>5. CASE UNCHANGED callVars
  <2>1. /\ WayKept /\ event_map' = event_map /\ installed' = installed /\ living' = living
        /\ services' = services /\ proxies' = proxies
    BY <1>5 DEF callVars, WayKept
  <2>2. ListsInv'
    BY <1>1, <2>1, LivesLess
  <2> QED
    BY <2>1, <2>2, OthersKeep, SameOrder
<1>6. ASSUME NEW ev \in EvNumbers, Calls!on_message(ev) PROVE CallsInv'
  <2>1. /\ message' = ev /\ services' = Calls!Living(services) /\ rests' = Calls!Names(services)' /\ where' = "delegate"
        /\ due' = rests' /\ done' = <<>> /\ living' = living /\ event_map' = event_map /\ proxies' = proxies
        /\ sets' = sets /\ installed' = installed
    BY <1>6 DEF Calls!on_message, Calls!Names
  <2>2. ListsInv'
    BY <1>1, <2>1, ServicesTaken
  <2>3. DueInv' /\ due' \in Seq(Services)
    BY <1>1, <2>1, DueBegins
  <2>4. WayInv'
    <3>1. <<>> \in Seq(Services) /\ due' = <<>> \o rests'
      BY <2>1, <2>3
    <3> QED
      BY <2>1, <2>3, <3>1 DEF WayInv
  <2> QED
    BY <1>1, <2>1, <2>2, <2>3, <2>4 DEF CallsInv
<1>7. ASSUME UNCHANGED <<living, event_map, sets, installed, due>>, ListsInv', WayInv' PROVE CallsInv'
  <2>1. event_map' = event_map /\ sets' = sets /\ installed' = installed /\ due' = due
    BY <1>7
  <2>2. DueInv'
    BY <1>1, <2>1, SameOrder, DueStays
  <2> QED
    BY <1>1, <1>7, <2>1, <2>2 DEF CallsInv
<1>8. ASSUME UNCHANGED <<living, installed, services, proxies>> PROVE ListsInv'
  BY <1>1, <1>8, LivesLess
<1>9. CASE Calls!call_service
  <2>1. /\ where = "delegate" /\ rests # <<>> /\ done' = Append(done, Head(rests)) /\ rests' = Tail(rests)
        /\ where' = where /\ due' = due /\ message' = message
        /\ UNCHANGED <<living, installed, services, proxies>> /\ UNCHANGED <<living, event_map, sets, installed, due>>
    BY <1>9 DEF Calls!call_service
  <2>2. rests \in Seq(Services) /\ done \in Seq(Services) /\ due = done \o rests /\ message \in EvNumbers
    BY <1>1, <2>1 DEF WayInv
  <2>3. rests' \in Seq(Services) /\ done' \in Seq(Services) /\ due' = done' \o rests'
    BY <2>1, <2>2, Passes
  <2>4. WayInv'
    BY <2>1, <2>2, <2>3 DEF WayInv
  <2> QED
    BY <1>7, <1>8, <2>1, <2>4
<1>10. CASE Calls!dispatch
  <2>1. /\ where = "delegate" /\ rests = <<>> /\ done' = Append(done, event_map[message].cb) /\ where' = "dispatcher"
        /\ due' = due /\ message' = message /\ sets' = sets
        /\ UNCHANGED <<living, installed, services, proxies>> /\ UNCHANGED <<living, event_map, sets, installed, due>>
    BY <1>10 DEF Calls!dispatch
  <2>2. done \in Seq(Services) /\ due = done \o rests /\ message \in EvNumbers
    BY <1>1, <2>1 DEF WayInv
  <2>3. due = done
    BY <2>1, <2>2
  <2>4. event_map[message].cb = Calls!Chosen(message) /\ Calls!Chosen(message)' = Calls!Chosen(message)
    <3>1. event_map[message].cb = Calls!Chosen(message)
      BY <1>1, <2>2, HandlerIsChosen
    <3>2. Calls!Chosen(message)' = Calls!Chosen(message)
      BY <2>1 DEF Calls!Chosen
    <3> QED
      BY <3>1, <3>2
  <2>5. WayInv'
    BY <2>1, <2>2, <2>3, <2>4 DEF WayInv
  <2> QED
    BY <1>7, <1>8, <2>1, <2>5
<1>11. CASE Calls!forward
  <2>1. /\ where = "dispatcher" /\ where' = "forwarder" /\ proxies' = Calls!Living(proxies) /\ rests' = Calls!Names(proxies)'
        /\ due' = due /\ message' = message /\ sets' = sets /\ done' = done /\ services' = services
        /\ living' = living /\ installed' = installed /\ UNCHANGED <<living, event_map, sets, installed, due>>
    BY <1>11 DEF Calls!forward, Calls!Names
  <2>2. ListsInv'
    BY <1>1, <2>1, ProxiesTaken
  <2>3. done = Append(due, Calls!Chosen(message)) /\ message \in EvNumbers /\ Calls!Chosen(message)' = Calls!Chosen(message)
    <3>1. done = Append(due, Calls!Chosen(message)) /\ message \in EvNumbers
      BY <1>1, <2>1 DEF WayInv
    <3>2. Calls!Chosen(message)' = Calls!Chosen(message)
      BY <2>1 DEF Calls!Chosen
    <3> QED
      BY <3>1, <3>2
  <2>4. /\ rests' \in Seq(Proxies) /\ \A a, b \in 1 .. Len(rests') : rests'[a] = rests'[b] => a = b
    <3>1. proxies' \in Seq(Subscribers) /\ Len(proxies') \in Nat /\ DOMAIN proxies' = 1 .. Len(proxies')
          /\ \A a, b \in 1 .. Len(proxies') : proxies'[a].svc = proxies'[b].svc => a = b
      BY <2>2 DEF ListsInv
    <3>2. rests' = [n \in 1 .. Len(proxies') |-> proxies'[n].svc]
      BY <2>1, <3>1 DEF Calls!Names
    <3>3. \A n \in 1 .. Len(proxies') : proxies'[n].svc \in Proxies
      <4> TAKE n \in 1 .. Len(proxies')
      <4>1. proxies'[n] \in Subscribers
        BY <3>1
      <4> QED
        BY <4>1 DEF Subscribers
    <3>4. rests' \in [1 .. Len(proxies') -> Proxies]
      BY <3>2, <3>3
    <3>5. rests' \in Seq(Proxies) /\ Len(rests') = Len(proxies')
      BY <3>1, <3>2, <3>4
    <3> QED
      BY <3>1, <3>2, <3>5
  <2>5. Append(due, Calls!Chosen(message)) = Append(due, Calls!Chosen(message)) \o <<>> /\ <<>> \in Seq(Proxies)
        /\ Len(<<>>) = 0
    <3>1. Append(due, Calls!Chosen(message)) \in Seq(Services \cup {Calls!Chosen(message)})
      <4>1. \A S, T : S \subseteq T => \A q \in Seq(S) : q \in Seq(T)
        OBVIOUS
      <4>2. due \in Seq(Services \cup {Calls!Chosen(message)})
        BY <1>1, <4>1 DEF DueInv
      <4> QED
        BY <4>2
    <3> QED
      BY <3>1
  <2>6. WayInv'
    <3>1. done' = Append(due', Calls!Chosen(message)') \o <<>>
      BY <2>1, <2>3, <2>5
    <3>2. Forwarded(Append(due', Calls!Chosen(message)'), rests', done')
      <4>1. \A w, q, d : (d = w \o <<>> /\ \A a, b \in 1 .. Len(q) : q[a] = q[b] => a = b) => Forwarded(w, q, d)
        <5>1. <<>> \in Seq(Proxies) /\ ~(\E a \in 1 .. Len(<<>>) : TRUE)
          OBVIOUS
        <5> QED
          BY <5>1 DEF Forwarded
      <4> QED
        BY <2>4, <3>1, <4>1
    <3> QED
      BY <2>1, <2>3, <2>4, <3>2 DEF WayInv
  <2> QED
    BY <1>7, <2>1, <2>2, <2>6
<1>12. CASE Calls!call_proxy
  <2>1. /\ where = "forwarder" /\ rests # <<>> /\ rests' = Tail(rests) /\ where' = where
        /\ due' = due /\ message' = message /\ sets' = sets
        /\ done' = (IF message \in interests[Head(rests)] THEN Append(done, Head(rests)) ELSE done)
        /\ UNCHANGED <<living, installed, services, proxies>> /\ UNCHANGED <<living, event_map, sets, installed, due>>
    BY <1>12 DEF Calls!call_proxy
  <2>2. rests \in Seq(Proxies) /\ message \in EvNumbers /\ Calls!Chosen(message)' = Calls!Chosen(message)
    <3>1. Calls!Chosen(message)' = Calls!Chosen(message)
      BY <2>1 DEF Calls!Chosen
    <3> QED
      BY <1>1, <2>1, <3>1 DEF WayInv
  <2>3. PICK tail \in Seq(Proxies) :
               /\ done = Append(due, Calls!Chosen(message)) \o tail
               /\ \A a, b \in 1 .. Len(tail) : tail[a] = tail[b] => a = b
               /\ \A a, b \in 1 .. Len(rests) : rests[a] = rests[b] => a = b
               /\ \A a \in 1 .. Len(tail), b \in 1 .. Len(rests) : tail[a] # rests[b]
    BY <1>1, <2>1 DEF WayInv, Forwarded
  <2>4. /\ rests' \in Seq(Proxies) /\ Len(rests') = Len(rests) - 1 /\ Head(rests) = rests[1] /\ Head(rests) \in Proxies
        /\ Len(rests) \in Nat \ {0} /\ \A n \in 1 .. Len(rests) - 1 : rests'[n] = rests[n + 1]
    BY <2>1, <2>2
  <2>5. \A a, b \in 1 .. Len(rests') : rests'[a] = rests'[b] => a = b
    <3> TAKE a, b \in 1 .. Len(rests')
    <3>1. a + 1 \in 1 .. Len(rests) /\ b + 1 \in 1 .. Len(rests) /\ rests'[a] = rests[a + 1] /\ rests'[b] = rests[b + 1]
      BY <2>4
    <3>2. rests[a + 1] = rests[b + 1] => a + 1 = b + 1
      BY <2>3, <3>1
    <3> QED
      BY <2>4, <3>1, <3>2
  <2>6. \A b \in 1 .. Len(rests') : rests'[b] # Head(rests) /\ \E c \in 1 .. Len(rests) : rests'[b] = rests[c]
    <3> TAKE b \in 1 .. Len(rests')
    <3>1. b + 1 \in 1 .. Len(rests) /\ 1 \in 1 .. Len(rests) /\ b + 1 # 1 /\ rests'[b] = rests[b + 1]
      BY <2>4
    <3> QED
      BY <2>3, <2>4, <3>1
  <2>7. \A a \in 1 .. Len(tail), b \in 1 .. Len(rests') : tail[a] # rests'[b]
    BY <2>3, <2>6
  <2>8. CASE message \notin interests[Head(rests)]
    <3>0. Forwarded(Append(due', Calls!Chosen(message)'), rests', done')
      BY <2>1, <2>2, <2>3, <2>5, <2>7, <2>8 DEF Forwarded
    <3>1. WayInv'
      BY <2>1, <2>2, <2>4, <3>0 DEF WayInv
    <3> QED
      BY <1>7, <1>8, <2>1, <3>1
  <2>9. CASE message \in interests[Head(rests)]
    <3> DEFINE new == Append(tail, Head(rests))
    <3>1. /\ new \in Seq(Proxies) /\ Len(new) = Len(tail) + 1 /\ new[Len(tail) + 1] = Head(rests) /\ Len(tail) \in Nat
          /\ \A n \in 1 .. Len(tail) : new[n] = tail[n]
      BY <2>4
    <3>2. \A n \in 1 .. Len(new) : n = Len(tail) + 1 \/ n \in 1 .. Len(tail)
      BY <3>1
    <3>3. \A n \in 1 .. Len(tail) : tail[n] # Head(rests)
      <4>1. 1 \in 1 .. Len(rests)
        BY <2>4
      <4> QED
        BY <2>3, <2>4, <4>1
    <3>4. done' = Append(due, Calls!Chosen(message)) \o new
      <4> DEFINE d == Append(due, Calls!Chosen(message))
                 h == Head(rests)
                 T == Services \cup {Calls!Chosen(message)} \cup Proxies
      <4>1. d \in Seq(T) /\ tail \in Seq(T) /\ h \in T
        <5>1. \A S, Z : S \subseteq Z => \A q \in Seq(S) : q \in Seq(Z)
          OBVIOUS
        <5>2. due \in Seq(T) /\ tail \in Seq(T) /\ Calls!Chosen(message) \in T
          BY <1>1, <5>1 DEF DueInv
        <5> QED
          BY <2>4, <5>2
      <4>2. done' = Append(d \o tail, h)
        BY <2>1, <2>3, <2>9
      <4> HIDE DEF d, h, T
      <4>3. Append(d \o tail, h) = d \o Append(tail, h)
        BY ONLY <4>1
      <4> QED
        BY <4>2, <4>3 DEF d, h
    <3> HIDE DEF new
    <3>5. \A a, b \in 1 .. Len(new) : new[a] = new[b] => a = b
      BY <2>3, <3>1, <3>2, <3>3
    <3>6. \A a \in 1 .. Len(new), b \in 1 .. Len(rests') : new[a] # rests'[b]
      BY <2>6, <2>7, <3>1, <3>2
    <3>61. Forwarded(Append(due', Calls!Chosen(message)'), rests', done')
      <4>1. done' = Append(due', Calls!Chosen(message)') \o new
        BY <2>1, <2>2, <3>4
      <4> QED
        BY <2>5, <3>1, <3>5, <3>6, <4>1 DEF Forwarded
    <3>7. WayInv'
      BY <2>1, <2>2, <2>4, <3>61 DEF WayInv
    <3> QED
      BY <1>7, <1>8, <2>1, <3>7
  <2> QED
    BY <2>8, <2>9
<1>13. CASE Calls!returned
  <2>1. /\ where' = "nobody" /\ due' = <<>> /\ done' = <<>> /\ event_map' = event_map /\ sets' = sets
        /\ UNCHANGED <<living, installed, services, proxies>>
    BY <1>13 DEF Calls!returned
  <2>2. WayInv'
    BY <2>1 DEF WayInv
  <2>3. DueInv'
    BY <2>1 DEF DueInv
  <2> QED
    BY <1>1, <1>8, <2>1, <2>2, <2>3 DEF CallsInv
<1> QED
  BY <1>2, <1>3, <1>4, <1>5, <1>6, <1>9, <1>10, <1>11, <1>12, <1>13
     DEF CallsStep, Calls!ServiceCallsNext, Calls!LoopSteps

LEMMA InitCallsInv == EventsAssumption /\ Calls!ServiceCallsInit => CallsInv
<1> SUFFICES ASSUME EventsAssumption, Calls!ServiceCallsInit PROVE CallsInv
  OBVIOUS
<1>1. /\ services = <<>> /\ proxies = <<>> /\ installed = <<>> /\ due = <<>> /\ done = <<>> /\ where = "nobody"
      /\ (\E m \in 0 .. MaxSets : sets \in [1 .. m -> Calls!SetCalls]) /\ event_map = Calls!dispatcher_setup(sets)
      /\ MaxSets \in Nat
  BY DEF Calls!ServiceCallsInit, EventsAssumption, Calls!ServiceCallsAssumption
<1>2. sets \in Seq(SetRec)
  <2>1. PICK m \in 0 .. MaxSets : sets \in [1 .. m -> Calls!SetCalls]
    BY <1>1
  <2>2. Calls!SetCalls \subseteq SetRec
    BY DEF Calls!SetCalls, SetRec
  <2>3. sets \in [1 .. m -> SetRec] /\ m \in Nat
    BY <1>1, <2>1, <2>2
  <2> QED
    BY <2>3
<1>3. /\ Len(<<>>) = 0 /\ \A S : <<>> \in Seq(S)
  OBVIOUS
<1>4. ListsInv
  BY <1>1, <1>3 DEF ListsInv
<1>5. DueInv
  BY <1>1, <1>3 DEF DueInv
<1>6. WayInv
  BY <1>1 DEF WayInv
<1> QED
  BY <1>1, <1>2, <1>4, <1>5, <1>6 DEF CallsInv

\* The history of who may and must hear, step by step
LEMMA HeardGrows ==
    ASSUME NEW T, NEW e \in Seq(T), NEW x \in T, NEW d, Len(d) \in Nat, Len(e) >= Len(d) + 1
    PROVE  Heard(d, Append(e, x)) = Heard(d, e) \cup {x}
<1>1. /\ Len(Append(e, x)) = Len(e) + 1 /\ Len(e) \in Nat /\ Append(e, x)[Len(e) + 1] = x
      /\ \A n \in 1 .. Len(e) : Append(e, x)[n] = e[n]
  OBVIOUS
<1>2. \A n \in Len(d) + 1 + 1 .. Len(e) + 1 : n = Len(e) + 1 \/ n \in Len(d) + 1 + 1 .. Len(e)
  BY <1>1
<1>3. \A n \in Len(d) + 1 + 1 .. Len(e) : n \in 1 .. Len(e) /\ n \in Len(d) + 1 + 1 .. Len(e) + 1
  BY <1>1
<1>4. Len(e) + 1 \in Len(d) + 1 + 1 .. Len(e) + 1
  BY <1>1
<1> DEFINE f == Append(e, x)
<1>5. Len(f) = Len(e) + 1 /\ f[Len(e) + 1] = x /\ \A n \in Len(d) + 1 + 1 .. Len(e) : f[n] = e[n]
  BY <1>1, <1>3
<1> HIDE DEF f
<1>6. Heard(d, f) = Heard(d, e) \cup {x}
  BY <1>2, <1>3, <1>4, <1>5 DEF Heard
<1> QED
  BY <1>6 DEF f

\* Behind the handler done is a sequence with at least the services and it.
LEMMA DoneIs ==
    ASSUME CallsInv, where = "forwarder"
    PROVE  /\ rests \in Seq(Proxies) /\ Len(due) \in Nat /\ Len(done) >= Len(due) + 1
           /\ \E T : Proxies \subseteq T /\ done \in Seq(T)
<1> DEFINE h == Calls!Chosen(message)
           T == Services \cup {h} \cup Proxies
<1>1. rests \in Seq(Proxies) /\ due \in Seq(Services) /\ \E tail \in Seq(Proxies) : done = Append(due, h) \o tail
  BY DEF CallsInv, WayInv, DueInv, Forwarded
<1>2. PICK tail \in Seq(Proxies) : done = Append(due, h) \o tail
  BY <1>1
<1> HIDE DEF h
<1>3. due \in Seq(T) /\ tail \in Seq(T) /\ h \in T
  <2>1. \A S, Z : S \subseteq Z => \A q \in Seq(S) : q \in Seq(Z)
    OBVIOUS
  <2> QED
    BY <1>1, <2>1
<1> DEFINE w == Append(due, h)
<1>4. w \in Seq(T) /\ Len(w) = Len(due) + 1 /\ Len(due) \in Nat
  BY <1>3
<1> HIDE DEF w, T
<1>5. w \o tail \in Seq(T) /\ Len(w \o tail) = Len(w) + Len(tail) /\ Len(tail) \in Nat
  BY <1>3, <1>4
<1>6. done \in Seq(T) /\ Len(done) >= Len(due) + 1
  BY <1>2, <1>4, <1>5 DEF w
<1>7. Proxies \subseteq T
  BY DEF T
<1> QED
  BY <1>1, <1>4, <1>6, <1>7

\* The forwarder takes the proxies that are held, with all that have subscribed.
LEMMA ForwardHears ==
    ASSUME CallsInv, HeardInv, Calls!forward
    PROVE  HeardInv'
<1>1. /\ where = "dispatcher" /\ where' = "forwarder" /\ proxies' = Calls!Living(proxies) /\ rests' = Calls!Names(proxies)'
      /\ must' = {p \in Proxies \cap living : message \in subscribed[p]} /\ may' = must'
      /\ UNCHANGED <<living, interests, message, due, done, subscribed>>
  BY DEF Calls!forward, Calls!Names
<1>2. /\ proxies \in Seq(Subscribers) /\ proxies' \in Seq(Subscribers) /\ HasLiving(proxies', proxies)
      /\ \A n \in 1 .. Len(proxies') : proxies'[n].svc \in living
  BY <1>1, LivingIs DEF CallsInv, ListsInv
<1>3. Len(rests') = Len(proxies') /\ \A n \in 1 .. Len(proxies') : rests'[n] = proxies'[n].svc /\ proxies'[n].svc \in Proxies
  <2>1. DOMAIN proxies' = 1 .. Len(proxies') /\ Len(proxies') \in Nat /\ \A n \in 1 .. Len(proxies') : proxies'[n] \in Subscribers
    BY <1>2
  <2>2. rests' = [n \in 1 .. Len(proxies') |-> proxies'[n].svc]
    BY <1>1, <2>1 DEF Calls!Names
  <2>3. \A n \in 1 .. Len(proxies') : proxies'[n].svc \in Proxies
    BY <2>1 DEF Subscribers
  <2>4. rests' \in Seq(Proxies) /\ Len(rests') = Len(proxies')
    <3>1. rests' \in [1 .. Len(proxies') -> Proxies]
      BY <2>2, <2>3
    <3> QED
      BY <2>1, <2>2, <3>1
  <2> QED
    BY <2>2, <2>3, <2>4
<1>4. Heard(due, done) = {}
  <2>1. due \in Seq(Services) /\ done = Append(due, Calls!Chosen(message))
    BY <1>1 DEF CallsInv, DueInv, WayInv
  <2>2. due \in Seq(Services \cup {Calls!Chosen(message)})
    <3>1. \A S, Z : S \subseteq Z => \A q \in Seq(S) : q \in Seq(Z)
      OBVIOUS
    <3> QED
      BY <2>1, <3>1
  <2>3. Len(done) = Len(due) + 1 /\ Len(due) \in Nat
    BY <2>1, <2>2
  <2> QED
    BY <2>3 DEF Heard
<1>5. ASSUME NEW p \in Proxies \cap living, subscribed[p] # {} PROVE \E n \in 1 .. Len(proxies') : proxies'[n].svc = p
  <2>1. PICK n \in 1 .. Len(proxies) : proxies[n].svc = p
    BY <1>5 DEF HeardInv
  <2>2. PICK a \in 1 .. Len(proxies') : proxies'[a] = proxies[n]
    BY <1>2, <1>5, <2>1 DEF HasLiving
  <2> QED
    BY <2>1, <2>2
<1>6. ASSUME NEW n \in 1 .. Len(rests'), message \in subscribed[rests'[n]] PROVE rests'[n] \in may'
  BY <1>1, <1>2, <1>3, <1>6
<1>7. ASSUME NEW p \in must' PROVE \E n \in 1 .. Len(rests') : rests'[n] = p
  <2>1. p \in Proxies \cap living /\ subscribed[p] # {}
    BY <1>1, <1>7
  <2> QED
    BY <1>3, <1>5, <2>1
<1>8. Heard(due, done)' = {}
  BY <1>1, <1>4 DEF Heard
<1>9. /\ interests' \in [Proxies -> SUBSET EvNumbers] /\ subscribed' = interests'
      /\ must' \subseteq Proxies /\ \A p \in must' : message' \in subscribed'[p]
  BY <1>1 DEF HeardInv
<1>10. \A p \in Proxies \cap living' : subscribed'[p] # {} => \E n \in 1 .. Len(proxies') : proxies'[n].svc = p
  BY <1>1, <1>5
<1>11. \A n \in 1 .. Len(rests') : message' \in subscribed'[rests'[n]] => rests'[n] \in may'
  BY <1>1, <1>6
<1> QED
  BY <1>1, <1>7, <1>8, <1>9, <1>10, <1>11 DEF HeardInv

LEMMA ProxyHears ==
    ASSUME CallsInv, HeardInv, Calls!call_proxy
    PROVE  HeardInv'
<1>1. /\ where = "forwarder" /\ rests # <<>> /\ rests' = Tail(rests) /\ where' = where
      /\ done' = (IF message \in interests[Head(rests)] THEN Append(done, Head(rests)) ELSE done)
      /\ UNCHANGED <<living, proxies, interests, message, due, subscribed, must, may>>
  BY DEF Calls!call_proxy, Calls!subscriberVars
<1>2. rests \in Seq(Proxies) /\ Len(due) \in Nat /\ Len(done) >= Len(due) + 1
  BY <1>1, DoneIs
<1>3. PICK T : Proxies \subseteq T /\ done \in Seq(T)
  BY <1>1, DoneIs
<1>4. /\ Head(rests) = rests[1] /\ Head(rests) \in Proxies /\ 1 \in 1 .. Len(rests) /\ Len(rests') = Len(rests) - 1
      /\ Len(rests) \in Nat /\ \A n \in 1 .. Len(rests) - 1 : rests'[n] = rests[n + 1]
  BY <1>1, <1>2
<1>5. \A n \in 1 .. Len(rests') : n + 1 \in 1 .. Len(rests) /\ rests'[n] = rests[n + 1]
  BY <1>4
<1>6. \A n \in 1 .. Len(rests) : rests[n] = Head(rests) \/ \E k \in 1 .. Len(rests') : rests'[k] = rests[n]
  <2> TAKE n \in 1 .. Len(rests)
  <2>1. CASE n = 1
    BY <1>4, <2>1
  <2>2. CASE n # 1
    <3>1. n - 1 \in 1 .. Len(rests') /\ rests'[n - 1] = rests[n]
      BY <1>4, <2>2
    <3> QED
      BY <3>1
  <2> QED
    BY <2>1, <2>2
<1>7. \A n \in 1 .. Len(rests') : message \in subscribed[rests'[n]] => rests'[n] \in may
  BY <1>1, <1>5 DEF HeardInv
<1>8. CASE message \in interests[Head(rests)]
  <2>1. Heard(due, done') = Heard(due, done) \cup {Head(rests)}
    BY <1>1, <1>2, <1>3, <1>4, <1>8, HeardGrows
  <2>2. Head(rests) \in may
    BY <1>1, <1>4, <1>8 DEF HeardInv
  <2>3. must \subseteq Heard(due, done') \cup {rests'[n] : n \in 1 .. Len(rests')}
    BY <1>1, <1>6, <2>1 DEF HeardInv
  <2>4. Heard(due, done)' = Heard(due, done')
    BY <1>1 DEF Heard
  <2> QED
    BY <1>1, <1>7, <2>1, <2>2, <2>3, <2>4 DEF HeardInv
<1>9. CASE message \notin interests[Head(rests)]
  <2>1. Heard(due, done)' = Heard(due, done)
    BY <1>1, <1>9 DEF Heard
  <2>2. Head(rests) \notin must
    BY <1>1, <1>9 DEF HeardInv
  <2>3. must \subseteq Heard(due, done) \cup {rests'[n] : n \in 1 .. Len(rests')}
    BY <1>1, <1>6, <2>2 DEF HeardInv
  <2> QED
    BY <1>1, <1>7, <2>1, <2>3 DEF HeardInv
<1> QED
  BY <1>8, <1>9

LEMMA StepHeardInv == EventsAssumption /\ CallsInv /\ HeardInv /\ CallsStep => HeardInv'
<1> SUFFICES ASSUME EventsAssumption, CallsInv, HeardInv, CallsStep PROVE HeardInv'
  OBVIOUS
<1>1. proxies \in Seq(Subscribers) /\ Len(proxies) \in Nat /\ DOMAIN proxies = 1 .. Len(proxies)
  BY DEF CallsInv, ListsInv
<1>2. ASSUME UNCHANGED <<proxies, interests, message, where, rests, due, done, subscribed, must, may>>, living' \subseteq living
      PROVE  HeardInv'
  BY <1>2 DEF HeardInv, Heard
<1>3. ASSUME UNCHANGED <<living, proxies, interests, subscribed, must, may>>, where # "forwarder", where' # "forwarder"
      PROVE  HeardInv'
  BY <1>3 DEF HeardInv
<1>4. ASSUME NEW s \in Services, NEW prio \in Prios, Calls!install(s, prio) PROVE HeardInv'
  BY <1>2, <1>4 DEF Calls!install, Calls!messageVars, Calls!subscriberVars
<1>5. ASSUME NEW p \in Proxies, NEW ev \in EvNumbers, Calls!subscribe(p, ev) PROVE HeardInv'
  <2>1. /\ proxies' = IF p \in {proxies[n].svc : n \in DOMAIN proxies} THEN proxies ELSE Append(proxies, [svc |-> p])
        /\ interests' = [interests EXCEPT ![p] = @ \cup {ev}]
        /\ subscribed' = [subscribed EXCEPT ![p] = @ \cup {ev}]
        /\ may' = (IF where = "forwarder" /\ ev = message THEN may \cup {p} ELSE may)
        /\ UNCHANGED <<living, message, where, rests, due, done, must>>
    BY <1>5 DEF Calls!subscribe, Calls!messageVars
  <2>2. /\ \A n \in 1 .. Len(proxies) : n \in 1 .. Len(proxies') /\ proxies'[n] = proxies[n]
        /\ \E n \in 1 .. Len(proxies') : proxies'[n].svc = p
    <3>1. CASE p \in {proxies[n].svc : n \in DOMAIN proxies}
      BY <1>1, <2>1, <3>1
    <3>2. CASE p \notin {proxies[n].svc : n \in DOMAIN proxies}
      <4>1. [svc |-> p] \in Subscribers /\ proxies' = Append(proxies, [svc |-> p])
        BY <2>1, <3>2 DEF Subscribers
      <4>2. Len(proxies') = Len(proxies) + 1 /\ proxies'[Len(proxies) + 1] = [svc |-> p]
            /\ \A n \in 1 .. Len(proxies) : proxies'[n] = proxies[n]
        BY <1>1, <4>1
      <4>3. Len(proxies) + 1 \in 1 .. Len(proxies')
        BY <1>1, <4>2
      <4> QED
        BY <1>1, <4>2, <4>3
    <3> QED
      BY <3>1, <3>2
  <2>3. interests' \in [Proxies -> SUBSET EvNumbers] /\ subscribed' = interests'
    BY <2>1 DEF HeardInv
  <2>4. \A q \in Proxies : subscribed'[q] = IF q = p THEN subscribed[p] \cup {ev} ELSE subscribed[q]
    BY <2>1 DEF HeardInv
  <2>5. ASSUME NEW q \in Proxies \cap living, subscribed'[q] # {} PROVE \E n \in 1 .. Len(proxies') : proxies'[n].svc = q
    <3>1. CASE q = p
      BY <2>2, <3>1
    <3>2. CASE q # p
      <4>1. PICK n \in 1 .. Len(proxies) : proxies[n].svc = q
        BY <2>4, <2>5, <3>2 DEF HeardInv
      <4> QED
        BY <2>2, <4>1
    <3> QED
      BY <3>1, <3>2
  <2>6. CASE where = "forwarder"
    <3>1. rests \in Seq(Proxies)
      BY <2>6 DEF CallsInv, WayInv
    <3>2. \A n \in 1 .. Len(rests) : message \in subscribed'[rests[n]] => rests[n] \in may'
      <4> TAKE n \in 1 .. Len(rests)
      <4>1. rests[n] \in Proxies
        BY <3>1
      <4> QED
        BY <2>1, <2>4, <2>6, <4>1 DEF HeardInv
    <3>3. \A q \in must : message \in subscribed'[q]
      BY <2>4, <2>6 DEF HeardInv
    <3>4. Heard(due, done)' = Heard(due, done)
      BY <2>1 DEF Heard
    <3> QED
      BY <2>1, <2>3, <2>5, <2>6, <3>2, <3>3, <3>4 DEF HeardInv
  <2>7. CASE where # "forwarder"
    BY <2>1, <2>3, <2>5, <2>7 DEF HeardInv
  <2> QED
    BY <2>6, <2>7
<1>6. ASSUME NEW p \in Proxies, Calls!unsubscribe(p) PROVE HeardInv'
  <2>1. /\ interests' = [interests EXCEPT ![p] = {}] /\ subscribed' = [subscribed EXCEPT ![p] = {}] /\ must' = must \ {p}
        /\ UNCHANGED <<living, proxies, message, where, rests, due, done, may>>
    BY <1>6 DEF Calls!unsubscribe, Calls!messageVars
  <2>2. interests' \in [Proxies -> SUBSET EvNumbers] /\ subscribed' = interests'
    BY <2>1 DEF HeardInv
  <2>3. \A q \in Proxies : subscribed'[q] = IF q = p THEN {} ELSE subscribed[q]
    BY <2>1 DEF HeardInv
  <2>4. \A q \in Proxies \cap living : subscribed'[q] # {} => \E n \in 1 .. Len(proxies) : proxies[n].svc = q
    BY <2>3 DEF HeardInv
  <2>5. CASE where = "forwarder"
    <3>1. rests \in Seq(Proxies)
      BY <2>5 DEF CallsInv, WayInv
    <3>2. \A n \in 1 .. Len(rests) : message \in subscribed'[rests[n]] => rests[n] \in may
      <4> TAKE n \in 1 .. Len(rests)
      <4>1. rests[n] \in Proxies
        BY <3>1
      <4> QED
        BY <2>3, <2>5, <4>1 DEF HeardInv
    <3>3. \A q \in must' : q \in Proxies /\ message \in subscribed'[q]
      BY <2>1, <2>3, <2>5 DEF HeardInv
    <3>4. Heard(due, done)' = Heard(due, done) /\ must' \subseteq must
      BY <2>1 DEF Heard
    <3> QED
      BY <2>1, <2>2, <2>4, <2>5, <3>2, <3>3, <3>4 DEF HeardInv
  <2>6. CASE where # "forwarder"
    BY <2>1, <2>2, <2>4, <2>6 DEF HeardInv
  <2> QED
    BY <2>5, <2>6
<1>7. ASSUME NEW x, Calls!go(x) PROVE HeardInv'
  BY <1>2, <1>7 DEF Calls!go, Calls!messageVars, Calls!subscriberVars
<1>8. ASSUME NEW ev \in EvNumbers, Calls!on_message(ev) PROVE HeardInv'
  BY <1>3, <1>8 DEF Calls!on_message, Calls!subscriberVars
<1>9. CASE Calls!call_service \/ Calls!dispatch
  BY <1>3, <1>9 DEF Calls!call_service, Calls!dispatch, Calls!subscriberVars
<1>10. CASE Calls!returned
  BY <1>10 DEF Calls!returned, HeardInv
<1>11. CASE UNCHANGED callVars
  BY <1>2, <1>11 DEF callVars
<1> QED
  BY <1>4, <1>5, <1>6, <1>7, <1>8, <1>9, <1>10, <1>11, ForwardHears, ProxyHears
     DEF CallsStep, Calls!ServiceCallsNext, Calls!LoopSteps

LEMMA InitHeardInv == Calls!ServiceCallsInit => HeardInv
<1> SUFFICES ASSUME Calls!ServiceCallsInit PROVE HeardInv
  OBVIOUS
<1>1. interests = [p \in Proxies |-> {}] /\ subscribed = interests /\ where = "nobody" /\ must = {} /\ may = {}
  BY DEF Calls!ServiceCallsInit
<1> QED
  BY <1>1 DEF HeardInv

\* A sequence begins with each of the parts it is joined from.
LEMMA JoinBegins ==
    ASSUME NEW T, NEW a \in Seq(T), NEW b \in Seq(T)
    PROVE  /\ Calls!Begins(a, a \o b) /\ Len(a \o b) = Len(a) + Len(b) /\ Len(a) \in Nat /\ Len(b) \in Nat
           /\ \A n \in Len(a) + 1 .. Len(a) + Len(b) : (a \o b)[n] = b[n - Len(a)]
<1>1. /\ a \o b \in Seq(T) /\ Len(a \o b) = Len(a) + Len(b) /\ Len(a) \in Nat /\ Len(b) \in Nat
      /\ \A n \in Len(a) + 1 .. Len(a) + Len(b) : (a \o b)[n] = b[n - Len(a)]
      /\ \A n \in 1 .. Len(a) : (a \o b)[n] = a[n]
  OBVIOUS
<1> DEFINE c == a \o b
<1> HIDE DEF c
<1>2. SubSeq(a, 1, Len(a)) = a
  OBVIOUS
<1>3. c \in Seq(T) /\ Len(c) = Len(a) + Len(b) /\ \A n \in 1 .. Len(a) : c[n] = a[n]
  BY <1>1 DEF c
<1>4. SubSeq(c, 1, Len(a)) = a
  <2>1. SubSeq(c, 1, Len(a)) = [n \in 1 .. Len(a) |-> c[n]]
    BY <1>1, <1>3
  <2>2. a = [n \in 1 .. Len(a) |-> a[n]]
    OBVIOUS
  <2> QED
    BY <1>3, <2>1, <2>2
<1>5. Calls!Begins(a, c)
  BY <1>1, <1>2, <1>3, <1>4 DEF Calls!Begins
<1> QED
  BY <1>1, <1>5 DEF c

LEMMA CallsInvSuffices == CallsInv /\ HeardInv => Calls!MessageTakesItsWay
<1> SUFFICES ASSUME CallsInv, HeardInv PROVE Calls!MessageTakesItsWay
  OBVIOUS
<1>1. ListsInv /\ DueInv /\ WayInv
  BY DEF CallsInv
<1> DEFINE place(s) == CHOOSE n \in DOMAIN installed : installed[n].svc = s
           before(a, b) == \/ installed[place(a)].prio > installed[place(b)].prio
                           \/ installed[place(a)].prio = installed[place(b)].prio /\ place(a) < place(b)
           h == Calls!Chosen(message)
           way == Append(due, h)
<1>2. ASSUME NEW i \in 1 .. Len(installed) PROVE place(installed[i].svc) = i
  <2>1. DOMAIN installed = 1 .. Len(installed)
    BY <1>1 DEF ListsInv
  <2>2. \A k \in 1 .. Len(installed) : installed[k].svc = installed[i].svc => k = i
    BY <1>1 DEF ListsInv
  <2> QED
    BY <2>1, <2>2
<1>3. ASSUME NEW a \in 1 .. Len(due), NEW b \in 1 .. Len(due), a < b PROVE before(due[a], due[b])
  <2>1. PICK x, y \in Listed : IsInstalled(x) /\ IsInstalled(y) /\ x.svc = due[a] /\ y.svc = due[b] /\ Precedes(x, y)
    BY <1>1, <1>3 DEF DueInv
  <2>2. PICK i, j \in 1 .. Len(installed) : /\ installed[i] = x /\ installed[j] = y
                                            /\ (x.prio > y.prio \/ (x.prio = y.prio /\ i < j))
    BY <2>1 DEF IsInstalled, Precedes, InstalledBefore
  <2>3. place(due[a]) = i /\ place(due[b]) = j
    BY <1>2, <2>1, <2>2
  <2> HIDE DEF place
  <2> QED
    BY <2>2, <2>3
<1>4. ASSUME NEW n \in 1 .. Len(installed), installed[n].svc \in living
      PROVE  \E k \in DOMAIN services : services[k].svc = installed[n].svc
  <2>1. PICK b \in 1 .. Len(services) : services[b] = installed[n]
    BY <1>1, <1>4 DEF ListsInv
  <2>2. DOMAIN services = 1 .. Len(services)
    BY <1>1 DEF ListsInv
  <2> QED
    BY <2>1, <2>2
<1>5. DOMAIN installed = 1 .. Len(installed) /\ DOMAIN due = 1 .. Len(due) /\ Len(due) \in Nat
  BY <1>1 DEF ListsInv, DueInv
<1> DEFINE T == Services \cup {h} \cup Proxies
<1>6. due \in Seq(T) /\ way \in Seq(T) /\ Len(way) = Len(due) + 1 /\ way = due \o <<h>> /\ \A q \in Seq(Proxies) : q \in Seq(T)
  <2>1. \A S, Z : S \subseteq Z => \A q \in Seq(S) : q \in Seq(Z)
    OBVIOUS
  <2>2. due \in Seq(T) /\ h \in T /\ \A q \in Seq(Proxies) : q \in Seq(T)
    BY <1>1, <2>1 DEF DueInv
  <2> HIDE DEF T, h
  <2> QED
    BY <2>2
<1> HIDE DEF T, way, place
<1> DEFINE Goal == /\ Calls!Begins(done, due) \/ Calls!Begins(way, done)
                   /\ where \in {"dispatcher", "forwarder"} => Len(done) >= Len(due) + 1
                   /\ \A a, b \in Len(due) + 1 + 1 .. Len(done) : done[a] = done[b] => a = b
<1>7. ASSUME where = "nobody" /\ due = <<>> /\ done = <<>> PROVE Goal
  <2>1. Calls!Begins(done, due) /\ Len(done) = 0 /\ Len(due) = 0
    BY <1>7 DEF Calls!Begins
  <2> QED
    BY <1>7, <2>1
<1>8. ASSUME where = "delegate" /\ rests \in Seq(Services) /\ done \in Seq(Services) /\ due = done \o rests PROVE Goal
  <2>1. Calls!Begins(done, due) /\ Len(due) = Len(done) + Len(rests) /\ Len(done) \in Nat /\ Len(rests) \in Nat
    BY <1>8, JoinBegins
  <2> QED
    BY <1>8, <2>1
<1>9. ASSUME NEW tail \in Seq(Proxies), done = way \o tail, \A a, b \in 1 .. Len(tail) : tail[a] = tail[b] => a = b
      PROVE  Goal
  <2>1. /\ Calls!Begins(way, done) /\ Len(done) = Len(way) + Len(tail) /\ Len(tail) \in Nat
        /\ \A n \in Len(way) + 1 .. Len(way) + Len(tail) : done[n] = tail[n - Len(way)]
    <3>1. way \in Seq(T) /\ tail \in Seq(T)
      BY <1>6
    <3>2. Calls!Begins(way, way \o tail) /\ Len(way \o tail) = Len(way) + Len(tail) /\ Len(tail) \in Nat
          /\ \A n \in Len(way) + 1 .. Len(way) + Len(tail) : (way \o tail)[n] = tail[n - Len(way)]
      BY <3>1, JoinBegins
    <3> QED
      BY <1>9, <3>2
  <2>2. \A n \in Len(due) + 1 + 1 .. Len(done) : n - Len(way) \in 1 .. Len(tail) /\ done[n] = tail[n - Len(way)]
    BY <1>5, <1>6, <2>1
  <2>3. ASSUME NEW a \in Len(due) + 1 + 1 .. Len(done), NEW b \in Len(due) + 1 + 1 .. Len(done), done[a] = done[b]
        PROVE  a = b
    <3>1. a - Len(way) = b - Len(way)
      BY <1>9, <2>2, <2>3
    <3> QED
      BY <1>5, <1>6, <3>1
  <2>4. Len(done) >= Len(due) + 1
    BY <1>5, <1>6, <2>1
  <2> QED
    BY <2>1, <2>3, <2>4
<1>10. ASSUME where = "dispatcher" /\ done = way PROVE Goal
  <2>1. done = way \o <<>> /\ <<>> \in Seq(Proxies) /\ Len(<<>>) = 0
    BY <1>6, <1>10
  <2>2. \A a, b \in 1 .. Len(<<>>) : <<>>[a] = <<>>[b] => a = b
    BY <2>1
  <2> QED
    BY <1>9, <2>1, <2>2
<1>11. ASSUME where = "forwarder" /\ Forwarded(way, rests, done) PROVE Goal
  <2>1. PICK tail \in Seq(Proxies) : done = way \o tail /\ \A a, b \in 1 .. Len(tail) : tail[a] = tail[b] => a = b
    BY <1>11 DEF Forwarded
  <2> QED
    BY <1>9, <2>1
<1>12. Goal
  <2>1. \/ where = "nobody" /\ due = <<>> /\ done = <<>>
        \/ where = "delegate" /\ rests \in Seq(Services) /\ done \in Seq(Services) /\ due = done \o rests
        \/ where = "dispatcher" /\ done = way
        \/ where = "forwarder" /\ Forwarded(way, rests, done)
    BY <1>1 DEF WayInv, way
  <2> HIDE DEF Goal
  <2> QED
    BY <1>7, <1>8, <1>10, <1>11, <2>1
<1>13. /\ \A a, b \in DOMAIN due : a < b => before(due[a], due[b])
       /\ \A n \in DOMAIN installed : installed[n].svc \in living => \E k \in DOMAIN services : services[k].svc = installed[n].svc
  BY <1>3, <1>4, <1>5
<1>14. Heard(due, done) \subseteq may /\ must \subseteq Heard(due, done) \cup {rests[n] : n \in DOMAIN rests}
  <2>1. CASE where = "forwarder"
    <3>1. rests \in Seq(Proxies)
      BY <1>1, <2>1 DEF WayInv
    <3>2. DOMAIN rests = 1 .. Len(rests)
      BY <3>1
    <3> QED
      BY <2>1, <3>2 DEF HeardInv
  <2>2. CASE where # "forwarder"
    <3>1. Len(done) \in Nat /\ Len(done) <= Len(due) + 1
      <4>1. CASE where = "nobody"
        BY <1>1, <1>5, <4>1 DEF WayInv
      <4>2. CASE where = "delegate"
        <5>1. rests \in Seq(Services) /\ done \in Seq(Services) /\ due = done \o rests
          BY <1>1, <4>2 DEF WayInv
        <5> QED
          BY <5>1, JoinBegins
      <4>3. CASE where = "dispatcher"
        BY <1>1, <1>5, <1>6, <4>3 DEF WayInv, way
      <4> QED
        BY <1>1, <2>2, <4>1, <4>2, <4>3 DEF WayInv
    <3>2. Heard(due, done) = {}
      BY <1>5, <3>1 DEF Heard
    <3> QED
      BY <2>2, <3>2 DEF HeardInv
  <2> QED
    BY <2>1, <2>2
<1> QED
  BY <1>6, <1>12, <1>13, <1>14 DEF Calls!MessageTakesItsWay, place, Heard
-----------------------------------------------------------------------------
(* The work that is brought into the loop                                  *)

EventsInv ==
    /\ part = "submit" => WorkInv
    /\ part = "flag"   => FlagInv
    /\ part = "fsm"    => DriverInv
    /\ CallsInv /\ HeardInv

LEMMA InitEventsInv == EventsInit => EventsInv
  BY EventsAssumption, InitWorkInv, InitFlagInv, InitDriverInv, InitCallsInv, InitHeardInv DEF EventsInit, EventsInv

LEMMA StepEventsInv == EventsInv /\ [EventsNext]_eventsVars => EventsInv'
<1> SUFFICES ASSUME EventsInv, [EventsNext]_eventsVars PROVE EventsInv'
  OBVIOUS
<1>1. ASSUME part' = part, UNCHANGED callVars,
             part = "submit" => [Work!SubmitNext]_(<<queueVars, workVars>>),
             part = "flag"   => FlagStep,
             part = "fsm"    => FsmStep
      PROVE  EventsInv'
  <2>1. CallsInv' /\ HeardInv'
    BY <1>1, EventsAssumption, StepCallsInv, StepHeardInv DEF CallsStep, EventsInv
  <2>2. (part = "submit")' => WorkInv'
    BY <1>1, EventsAssumption, StepWorkInv DEF EventsInv
  <2>3. (part = "flag")' => FlagInv'
    BY <1>1, EventsAssumption, StepFlagInv DEF EventsInv
  <2>4. (part = "fsm")' => DriverInv'
    BY <1>1, EventsAssumption, StepDriverInv DEF EventsInv
  <2> QED
    BY <2>1, <2>2, <2>3, <2>4 DEF EventsInv
<1>2. CASE InMonitor(Monitor!EventNext)
  BY <1>1, <1>2 DEF InMonitor, Setups
<1>3. CASE InSubmit(Work!SubmitNext)
  BY <1>1, <1>3 DEF InSubmit
<1>4. CASE InFlag(Flag!FlagNext)
  BY <1>1, <1>4 DEF InFlag, FlagStep
<1>5. CASE InFsm(Driver!FsmNext)
  BY <1>1, <1>5 DEF InFsm, FsmStep
<1>6. CASE InCalls(Calls!ServiceCallsNext)
  <2>1. part' = part /\ part \in {"calls", "handlers"} /\ CallsStep
    BY <1>6 DEF InCalls, CallsStep
  <2>2. CallsInv' /\ HeardInv'
    BY <2>1, EventsAssumption, StepCallsInv, StepHeardInv DEF EventsInv
  <2> QED
    BY <2>1, <2>2 DEF EventsInv
<1>7. CASE UNCHANGED eventsVars
  BY <1>1, <1>7 DEF eventsVars, FlagStep, FsmStep
<1> QED
  BY <1>2, <1>3, <1>4, <1>5, <1>6, <1>7 DEF EventsNext

\* What other threads bring into the loop is there when the loop looks for it, is done once and in
\* order, and does what it is for (submit.cpp, flagsync.cpp, fsm.hpp); and a message takes its way
\* through the services by priority, the handler of its event and the proxies (delegate.hpp,
\* dispatcher.hpp, forwarder.hpp).
THEOREM WorkIsDoneAlways == EventsSpec => []WorkIsDone
<1>1. EventsInit => EventsInv
  BY InitEventsInv
<1>2. EventsInv /\ [EventsNext]_eventsVars => EventsInv'
  BY StepEventsInv
<1>3. EventsInv => WorkIsDone
  BY EventsAssumption, WorkInvSuffices, FlagInvSuffices, DriverInvSuffices, CallsInvSuffices DEF EventsInv, WorkIsDone
<1> QED
  BY <1>1, <1>2, <1>3, PTL DEF EventsSpec
=============================================================================
