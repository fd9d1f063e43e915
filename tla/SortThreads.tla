---------------------------- MODULE SortThreads ----------------------------
(***************************************************************************)
(* The sorts of c7sort.hpp.  First those that one thread runs, as          *)
(* operators: insertion, heap, merge, quick and radix sort.  An array is a *)
(* function of its indices; a range is given by its first and its last     *)
(* index, as in the code.  The explicit stacks of the code are recursion   *)
(* here.  A scan may look at the whole array, as the pointers of the code  *)
(* may: that it stays in its range is part of what is to be shown.  An     *)
(* item that was moved away leaves Moved.                                  *)
(*                                                                         *)
(* Then those of several threads: msort_mt, which also merges with two     *)
(* threads, msort_mt_mv, qsort_mt, qsort_mt_mv and rsort_mt.  A task is a  *)
(* call of ..._mt_main; it starts a thread for one part, sorts the other   *)
(* part itself and joins.  The threads have no lock: what one of them does *)
(* alone is one step, and the two merging threads go item by item.         *)
(***************************************************************************)
EXTENDS Integers, Sequences, SequencesExt, FiniteSetsExt, FiniteSets

CONSTANTS
    KeyMask,     \* keymask of the radix sort: a set of bits; all of them for the other sorts
    Threshold,   \* C7_MSORT_THRESHOLD, C7_QSORT_THRESHOLD, C7_RSORT_THRESHOLD
    MaxDepth,    \* C7_QSORT_MAX_DEPTH
    Sorts,       \* of "msort", "msort_mv", "qsort", "qsort_mv", "rsort"
    Sizes,       \* numbers of items
    Keys,        \* of the items
    Named,       \* the sorts that are given items with names, equal keys or not
    MaxLevel,    \* thread_depth
    MtThreshold  \* C7_MSORT_MT_THRESHOLD, C7_QSORT_MT_THRESHOLD, C7_RSORT_MT_THRESHOLD

SortThreadsAssumption ==
    /\ KeyMask \subseteq Nat /\ KeyMask # {}
    /\ Threshold \in Nat \ {0, 1} /\ MaxDepth \in Nat \ {0}
    /\ Sizes \subseteq Nat /\ Keys \subseteq Nat
    /\ Named \subseteq Sorts /\ MaxLevel \in Nat /\ MtThreshold \in Nat \ {0}

VARIABLES
    sort,   \* which one
    given,  \* history: the items before
    mem,    \* the array and the work area
    tasks   \* by the way to it from the first: the range of the task, its level, where it is

sortVars == <<sort, given, mem, tasks>>

Moved == [key |-> -1, id |-> 0]

\* getkey(item) & bit, and getkey(item) & keymask
HasBit(x, b) == (x.key \div 2^b) % 2 = 1
Masked(x)    == FoldSet(LAMBDA b, sum : sum + IF HasBit(x, b) THEN 2^b ELSE 0, 0, KeyMask)
lessthan(x, y) == Masked(x) < Masked(y)

swap(a, j, k) == [a EXCEPT ![j] = a[k], ![k] = a[j]]
UpTo(n) == [k \in 1 .. Max({0, n}) |-> k]
-----------------------------------------------------------------------------
(* Insertion sort: item p goes down to its place in left .. p - 1, which   *)
(* is sorted.                                                              *)

insert(a, left, p) ==
    LET q == Min({k \in left .. p : \A j \in k .. p - 1 : lessthan(a[p], a[j])})
    IN [k \in DOMAIN a |-> IF k = q THEN a[p] ELSE IF k \in q + 1 .. p THEN a[k - 1] ELSE a[k]]

dsort(a, left, right) == FoldLeft(LAMBDA b, k : insert(b, left, left + k), a, UpTo(right - left))
-----------------------------------------------------------------------------
(* Heap sort of the n items from left on                                   *)

heap_left_child_next(i) == 2 * i + 2
heap_left_child(i) == 2 * i + 1
heap_parent(i)     == (i - 1) \div 2

RECURSIVE heap_up(_, _, _, _)
heap_up(a, left, c, target) ==
    IF c > 0 /\ lessthan(a[left + heap_parent(c)], target)
    THEN heap_up([a EXCEPT ![left + c] = a[left + heap_parent(c)]], left, heap_parent(c), target)
    ELSE [a EXCEPT ![left + c] = target]

RECURSIVE heap_down(_, _, _, _, _)
heap_down(a, left, n, p, target) ==
    LET l == heap_left_child(p)
        c == IF l + 1 < n /\ lessthan(a[left + l], a[left + l + 1]) THEN l + 1 ELSE l
    IN IF l >= n \/ lessthan(a[left + c], target)
       THEN [a EXCEPT ![left + p] = target]
       ELSE heap_down([a EXCEPT ![left + p] = a[left + c]], left, n, c, target)

hsort_st(a, left, n) ==
    LET heap == FoldLeft(LAMBDA b, i : heap_up(b, left, i, b[left + i]), a, UpTo(n - 1))
    IN FoldLeft(LAMBDA b, i : LET s == swap(b, left, left + i) IN heap_down(s, left, i, 0, s[left]),
                heap, Reverse(UpTo(n - 1)))
-----------------------------------------------------------------------------
(* Merge sort.  both has the array "a" and the work area "w"; parity is 0  *)
(* where out is "a".                                                       *)

Other(out) == IF out = "a" THEN "w" ELSE "a"
Move(both, out, o, p) == [both EXCEPT ![out][o] = both[Other(out)][p], ![Other(out)][p] = Moved]

RECURSIVE MoveAll(_, _, _, _, _)
MoveAll(both, out, o, p, ep) == IF p >= ep THEN both ELSE MoveAll(Move(both, out, o, p), out, o + 1, p + 1, ep)

RECURSIVE msort_merge(_, _, _, _, _, _, _)
msort_merge(both, out, o, p, ep, q, eq) ==
    LET in == both[Other(out)]
    IN IF lessthan(in[p], in[q])
       THEN LET m == Move(both, out, o, p)
            IN IF p + 1 = ep THEN MoveAll(m, out, o + 1, q, eq)
                             ELSE msort_merge(m, out, o + 1, p + 1, ep, q, eq)
       ELSE LET m == Move(both, out, o, q)
            IN IF q + 1 = eq THEN MoveAll(m, out, o + 1, p, ep)
                             ELSE msort_merge(m, out, o + 1, p, ep, q + 1, eq)

RECURSIVE msort_st_main(_, _, _, _)
msort_st_main(both, out, lo, n) ==
    LET h  == n \div 2
        m1 == msort_st_main(both, Other(out), lo, h)
        m2 == msort_st_main(m1, Other(out), lo + h, n - h)
    IN IF n < Threshold /\ out = "a"
       THEN [both EXCEPT !["a"] = dsort(@, lo, lo + n - 1)]
       ELSE msort_merge(m2, out, lo, lo, lo + h, lo + h, lo + n)
-----------------------------------------------------------------------------
(* Quick sort.  The pivot is the median of three items inside the range.   *)

MedianOf(a, v0, v1, v2) ==
    IF lessthan(a[v0], a[v1])
    THEN IF lessthan(a[v1], a[v2]) THEN v1 ELSE IF lessthan(a[v0], a[v2]) THEN v2 ELSE v0
    ELSE IF lessthan(a[v0], a[v2]) THEN v0 ELSE IF lessthan(a[v1], a[v2]) THEN v2 ELSE v1

Pivot(a, left, right) == MedianOf(a, left + 1, left + (right - left) \div 2, right - 1)

Up(a, p, s)   == Min({k \in DOMAIN a : k >= p /\ ~lessthan(a[k], s)})
Down(a, q, s) == Max({k \in DOMAIN a : k <= q /\ ~lessthan(s, a[k])})

\* Exchanges from both ends until they meet: the array and where the right part begins.  The pivot
\* is the value s, or the item that is now at sp.
RECURSIVE Exchange(_, _, _, _, _)
Exchange(a, p, q, s, sp) ==
    IF p > q THEN [a |-> a, p |-> p]
    ELSE LET pivot == IF sp = {} THEN s ELSE a[Min(sp)]
             p1 == Up(a, p, pivot)
             q1 == Down(a, q, pivot)
         IN IF p1 <= q1 THEN Exchange(swap(a, p1, q1), p1 + 1, q1 - 1, s, sp) ELSE [a |-> a, p |-> p1]

qsort_partition_copy(a, left, right) == Exchange(a, left, right, a[Pivot(a, left, right)], {})

\* The pivot goes to the middle, and from there to where the first exchange takes it.
FromMiddle(a, left, mid, right) ==
    LET p == Up(a, left, a[mid])
        q == Down(a, right, a[mid])
        c == IF mid \in {p, q} THEN a ELSE swap(a, p, mid)
    IN Exchange(swap(c, p, q), p + 1, q - 1, a[mid], {IF mid = q THEN p ELSE q})

qsort_partition_move(a, left, right) ==
    LET mid == left + (right - left) \div 2
    IN FromMiddle(swap(a, Pivot(a, left, right), mid), left, mid, right)

Partition(std, a, left, right) ==
    IF std THEN qsort_partition_copy(a, left, right) ELSE qsort_partition_move(a, left, right)

\* depth: how much of the stack is used.  When it is full both parts are heap sorted.
RECURSIVE qsort_st_main(_, _, _, _, _), qsort_parts(_, _, _, _, _)
qsort_st_main(std, a, left, right, depth) ==
    IF right - left < Threshold THEN dsort(a, left, right)
    ELSE qsort_parts(std, Partition(std, a, left, right), left, right, depth)

qsort_parts(std, part, left, right, depth) ==
    IF depth = MaxDepth
    THEN hsort_st(hsort_st(part.a, left, part.p - left), part.p, right + 1 - part.p)
    ELSE qsort_st_main(std, qsort_st_main(std, part.a, left, part.p - 1, depth + 1), part.p, right, depth)
-----------------------------------------------------------------------------
(* Radix sort                                                              *)

\* The next bit of keymask from b downwards, or none (-1).
NextBit(b) == Max({-1} \cup {k \in KeyMask : k <= b})

\* The items without the bit go to the front: the array and where the items with the bit begin.
RECURSIVE Sift(_, _, _, _)
Sift(a, p, q, b) ==
    IF p >= q THEN [a |-> a, p |-> p, q |-> q]
    ELSE LET s == swap(a, p, q)
         IN Sift(s, Min({k \in DOMAIN a : k > p /\ HasBit(s[k], b)}),
                    Max({k \in DOMAIN a : k < q /\ ~HasBit(s[k], b)}), b)

Split(a, left, right, b) ==
    LET p == Min({right + 1} \cup {k \in left .. right : HasBit(a[k], b)})
        q == Max({p - 1} \cup {k \in p .. right : ~HasBit(a[k], b)})
    IN Sift(a, p, q, b)

RECURSIVE rsort_st_main(_, _, _, _)
rsort_st_main(a, left, right, bit) ==
    LET b == NextBit(bit)
    IN IF b = -1 THEN a
       ELSE IF right - left < Threshold THEN dsort(a, left, right)
       ELSE LET s == Split(a, left, right, b)
            IN rsort_st_main(rsort_st_main(s.a, left, s.q, b - 1), s.p, right, b - 1)
-----------------------------------------------------------------------------
(* Sorts by several threads                                                *)

Merges == {"msort", "msort_mv"}

\* out is of the merge sorts, bit of the radix sort, asc and dsc of the merging threads.
Task(left, right, level, out, bit) ==
    [pc |-> "begin", left |-> left, right |-> right, level |-> level, out |-> out, bit |-> bit,
     asc |-> {}, dsc |-> {}]

Half(t)  == (t.right - t.left + 1) \div 2
TopBit   == Max(KeyMask \cup {0}) + 1

SortInit ==
    /\ sort \in Sorts
    /\ \E n \in Sizes, keys \in [1 .. Max(Sizes) -> Keys] :
         /\ \A k \in n + 1 .. Max(Sizes) : keys[k] = Min(Keys)
         /\ given = [k \in 0 .. n - 1 |-> [key |-> keys[k + 1], id |-> IF sort \in Named THEN k ELSE 0]]
    /\ mem = [a |-> given, w |-> [k \in DOMAIN given |-> Moved]]
    /\ \E level \in 0 .. MaxLevel :
         tasks = <<>> :> Task(0, Cardinality(DOMAIN given) - 1, level, "a", NextBit(TopBit))

Set(t, task) == tasks' = [tasks EXCEPT ![t] = task]

\* The task ends, or becomes one of two: with the range on the left for the new thread.
Fork(t, pc, parts) ==
    tasks' = [u \in DOMAIN tasks \cup {Append(t, k) : k \in DOMAIN parts} |->
                IF u = t THEN [tasks[t] EXCEPT !.pc = pc]
                ELSE IF u \in DOMAIN tasks THEN tasks[u] ELSE parts[Last(u)]]

\* Without threads
sort_st(t) ==
    LET task == tasks[t]
        l == task.left
        r == task.right
        Array(a) == [mem EXCEPT !["a"] = a]
    IN /\ task.pc = "begin"
       /\ task.level = 0 \/ (IF sort \in Merges THEN r - l + 1 ELSE r - l) < MtThreshold
       /\ mem' = CASE sort \in Merges -> msort_st_main(mem, task.out, l, r - l + 1)
                   [] sort = "qsort"    -> Array(qsort_st_main(TRUE, mem["a"], l, r, 0))
                   [] sort = "qsort_mv" -> Array(qsort_st_main(FALSE, mem["a"], l, r, 0))
                   [] sort = "rsort"    -> Array(rsort_st_main(mem["a"], l, r, task.bit))
       /\ Set(t, [task EXCEPT !.pc = "done"])
       /\ UNCHANGED <<sort, given>>

\* The children of a task by place: <<>> where there is nothing to do
Part(k, yes, task) == IF yes THEN k :> task ELSE <<>>

msort_fork(t) ==
    LET task == tasks[t]
        mid == task.left + Half(task)
        sub(l, r) == Task(l, r, task.level - 1, Other(task.out), -1)
    IN /\ sort \in Merges /\ task.pc = "begin"
       /\ task.level > 0 /\ task.right - task.left + 1 >= MtThreshold
       /\ Fork(t, "join", <<sub(task.left, mid - 1), sub(mid, task.right)>>)
       /\ UNCHANGED <<sort, given, mem>>

qsort_fork(t) ==
    LET task == tasks[t]
        sub(l, r) == Task(l, r, task.level - 1, "a", -1)
    IN /\ sort \in {"qsort", "qsort_mv"} /\ task.pc = "begin"
       /\ task.level > 0 /\ task.right - task.left >= MtThreshold
       /\ \E part \in {Partition(sort = "qsort", mem["a"], task.left, task.right)} :
            /\ mem' = [mem EXCEPT !["a"] = part.a]
            /\ Fork(t, "join", Part(1, task.left < part.p - 1, sub(task.left, part.p - 1))
                               @@ Part(2, part.p < task.right, sub(part.p, task.right)))
       /\ UNCHANGED <<sort, given>>

rsort_fork(t) ==
    LET task == tasks[t]
        s == Split(mem["a"], task.left, task.right, task.bit)
        next == NextBit(task.bit - 1)
        sub(l, r) == Task(l, r, task.level - 1, "a", next)
    IN /\ sort = "rsort" /\ task.pc = "begin"
       /\ task.level > 0 /\ task.right - task.left >= MtThreshold
       /\ mem' = [mem EXCEPT !["a"] = s.a]
       /\ Fork(t, "join", Part(1, next # -1 /\ task.left < s.q, sub(task.left, s.q))
                          @@ Part(2, next # -1 /\ s.p < task.right, sub(s.p, task.right)))
       /\ UNCHANGED <<sort, given>>

Joined(t) == \A k \in 1 .. 2 : Append(t, k) \in DOMAIN tasks => tasks[Append(t, k)].pc = "done"

\* th.join(), and what the task does with the sorted halves.
join(t) ==
    LET task == tasks[t]
        l == task.left
        h == Half(task)
    IN /\ task.pc = "join" /\ Joined(t)
       /\ \/ /\ sort = "msort"
             /\ Set(t, [task EXCEPT !.pc = "merge",
                                    !.asc = [o |-> l, p |-> l, q |-> l + h],
                                    !.dsc = [o |-> task.right, p |-> l + h - 1, q |-> task.right]])
             /\ UNCHANGED mem
          \/ /\ sort = "msort_mv"
             /\ mem' = msort_merge(mem, task.out, l, l, l + h, l + h, task.right + 1)
             /\ Set(t, [task EXCEPT !.pc = "done"])
          \/ sort \notin Merges /\ Set(t, [task EXCEPT !.pc = "done"]) /\ UNCHANGED mem
       /\ UNCHANGED <<sort, given>>

\* msort_merge_asc writes the first h items of out, msort_merge_dsc the others; both only copy.
msort_merge_asc(t) ==
    LET task == tasks[t]
        in == mem[Other(task.out)]
        m  == task.asc
        first == ~lessthan(in[m.q], in[m.p])
    IN /\ task.pc = "merge" /\ m.o < task.left + Half(task)
       /\ mem' = [mem EXCEPT ![task.out][m.o] = IF first THEN in[m.p] ELSE in[m.q]]
       /\ Set(t, [task EXCEPT !.asc = [o |-> m.o + 1, p |-> IF first THEN m.p + 1 ELSE m.p,
                                                      q |-> IF first THEN m.q ELSE m.q + 1]])
       /\ UNCHANGED <<sort, given>>

msort_merge_dsc(t) ==
    LET task == tasks[t]
        in == mem[Other(task.out)]
        m  == task.dsc
        last == IF m.o > task.left + Half(task)
                THEN ~lessthan(in[m.q], in[m.p])
                ELSE m.p = task.left - 1 \/ lessthan(in[m.p], in[m.q])
    IN /\ task.pc = "merge" /\ m.o >= task.left + Half(task)
       /\ mem' = [mem EXCEPT ![task.out][m.o] = IF last THEN in[m.q] ELSE in[m.p]]
       /\ Set(t, [task EXCEPT !.dsc = [o |-> m.o - 1, p |-> IF last THEN m.p ELSE m.p - 1,
                                                      q |-> IF last THEN m.q - 1 ELSE m.q]])
       /\ UNCHANGED <<sort, given>>

Merged(t) == tasks[t].asc.o = tasks[t].left + Half(tasks[t]) /\ tasks[t].dsc.o = tasks[t].asc.o - 1

\* th2.join()
merged(t) ==
    /\ tasks[t].pc = "merge" /\ Merged(t)
    /\ Set(t, [tasks[t] EXCEPT !.pc = "done"])
    /\ UNCHANGED <<sort, given, mem>>

TaskRuns(t) ==
    \/ sort_st(t) \/ msort_fork(t) \/ qsort_fork(t) \/ rsort_fork(t) \/ join(t)
    \/ msort_merge_asc(t) \/ msort_merge_dsc(t) \/ merged(t)

SortNext == \E t \in DOMAIN tasks : TaskRuns(t)
SortSpec == SortInit /\ [][SortNext]_sortVars
-----------------------------------------------------------------------------
Over == tasks[<<>>].pc = "done"
Times(a, x) == Cardinality({k \in DOMAIN a : a[k] = x})

\* No item is lost or doubled: what is sorted is a permutation of what was given.
NothingLost == Over => \A k \in DOMAIN given : Times(mem["a"], given[k]) = Times(given, given[k])

\* When the sort returns the array is in order, and has the items that it had: with any pivots and
\* equal keys, with a stack that is full, with parts that are empty, and whoever was faster.
SortedAndWhole ==
    /\ NothingLost
    /\ Over => \A k \in 1 .. Cardinality(DOMAIN given) - 1 : ~lessthan(mem["a"][k], mem["a"][k - 1])

\* Threads that run at the same time have ranges of their own, inside that of the task that started
\* them, in both arrays; and the two merging threads read inside it and never write the same item.
Active(t)  == tasks[t].pc \in {"begin", "merge"}
Range_(t)  == tasks[t].left .. tasks[t].right
RangesApart ==
    /\ \A t, u \in DOMAIN tasks : t # u /\ Active(t) /\ Active(u) => Range_(t) \cap Range_(u) = {}
    /\ \A t \in DOMAIN tasks \ {<<>>} : Range_(t) \subseteq Range_(Front(t))
    /\ \A t \in DOMAIN tasks : tasks[t].pc = "merge" =>
         LET m == tasks[t].asc
             n == tasks[t].dsc
         IN /\ m.o <= tasks[t].left + Half(tasks[t]) /\ m.o <= n.o + 1
            /\ m.o < tasks[t].left + Half(tasks[t]) => {m.p, m.q} \subseteq Range_(t)
            /\ n.o >= tasks[t].left + Half(tasks[t]) => n.q \in Range_(t) /\ n.p + 1 \in Range_(t)
=============================================================================
