-------------------------------- MODULE MPool --------------------------------
(***************************************************************************)
(* One pool of c7mpool.hpp: a strategy object that lends items, the mpool  *)
(* that owns it until it is destroyed, and the pointers that threads have  *)
(* to the items lent.  The strategy deletes itself when it is detached     *)
(* from the mpool and nothing is lent.  The first word of an item is the   *)
(* next free item while it is free, and the pool while it is lent.         *)
(***************************************************************************)
EXTENDS CondVar

CONSTANTS
    ChunkSize,   \* chunk_size_
    ChunkLimit,  \* chunk_limit_; a bound of the pool that does not wait
    Waitable,    \* waitable_strategy, or chunk_strategy
    MayMove,     \* pointers are moved between threads
    MaxHeld,     \* bound: pointers a thread has when it calls get
    MaxGets      \* bound: calls of get

MPoolAssumption ==
    /\ ChunkSize \in Nat \ {0} /\ ChunkLimit \in Nat
    /\ Waitable \in BOOLEAN /\ MayMove \in BOOLEAN
    /\ MaxHeld \in Nat \ {0} /\ MaxGets \in Nat
    /\ Timed = {}

Items   == 1 .. ChunkSize * ChunkLimit
nullptr == 0
pool    == -1

VARIABLES
    chunks,    \* chunks_.size()
    word,      \* word[i]: the union of next and pool of item i
    free,      \* free_
    lending,   \* lending_
    attached,  \* mpool_attached_
    deleted,   \* how many times the strategy was deleted
    held,      \* held[t]: the items thread t has pointers to
    waits,     \* waits[t]: thread t is in the loop of get
    gets       \* history: calls of get

poolVars == <<chunks, word, free, lending>>
life     == <<attached, deleted>>
vars     == <<cvVars, poolVars, life, held, waits, gets>>

TypeOK ==
    /\ CondVarTypeOK
    /\ chunks \in 0 .. ChunkLimit
    /\ word \in [Items -> Items \cup {nullptr, pool}]
    /\ free \in Items \cup {nullptr}
    /\ lending \in Nat
    /\ attached \in BOOLEAN /\ deleted \in Nat
    /\ held \in [Threads -> SUBSET Items]
    /\ waits \in [Threads -> BOOLEAN]
    /\ gets \in 0 .. MaxGets

\* The pool as its maker and attached() leave it.
Init ==
    /\ CondVarInit
    /\ chunks = 0
    /\ word = [i \in Items |-> nullptr]
    /\ free = nullptr
    /\ lending = 0
    /\ attached = TRUE /\ deleted = 0
    /\ held = [t \in Threads |-> {}]
    /\ waits = [t \in Threads |-> FALSE]
    /\ gets = 0
-----------------------------------------------------------------------------
Lives == deleted = 0

Chunk(n) == n * ChunkSize + 1 .. (n + 1) * ChunkSize

\* The words when alloc has linked a new chunk: each item to the next, the last to nothing.
alloc ==
    [i \in Items |-> IF i \in Chunk(chunks)
                     THEN IF i < (chunks + 1) * ChunkSize THEN i + 1 ELSE nullptr
                     ELSE word[i]]

\* The end of get: item s leaves the free list.
Lend(t, s, words) ==
    /\ free' = words[s]
    /\ word' = [words EXCEPT ![s] = pool]
    /\ held' = [held EXCEPT ![t] = held[t] \cup {s}]

\* get is called by way of the mpool, or of a pointer (dup).
Calls(t) ==
    /\ Lives
    /\ ~waits[t] /\ Cardinality(held[t]) < MaxHeld
    /\ attached \/ held[t] # {}
    /\ gets < MaxGets
    /\ gets' = gets + 1
    /\ lending' = lending + 1

get_free(t) ==
    /\ Calls(t)
    /\ free # nullptr
    /\ Lend(t, free, word)
    /\ UNCHANGED <<cvVars, chunks, life, waits>>

get_alloc(t) ==
    /\ Calls(t)
    /\ free = nullptr
    /\ chunks < ChunkLimit
    /\ chunks' = chunks + 1
    /\ Lend(t, chunks * ChunkSize + 1, alloc)
    /\ UNCHANGED <<cvVars, life, waits>>

get_wait(t) ==
    /\ Waitable
    /\ Calls(t)
    /\ free = nullptr
    /\ chunks = ChunkLimit
    /\ waits' = [waits EXCEPT ![t] = TRUE]
    /\ wait(t)
    /\ UNCHANGED <<chunks, word, free, life, held>>

get_again(t) ==
    /\ waits[t] /\ Awake(t)
    /\ free = nullptr
    /\ wait(t)
    /\ UNCHANGED <<poolVars, life, held, waits, gets>>

get_return(t) ==
    /\ waits[t] /\ Awake(t)
    /\ free # nullptr
    /\ Lend(t, free, word)
    /\ waits' = [waits EXCEPT ![t] = FALSE]
    /\ UNCHANGED <<cvVars, chunks, lending, life, gets>>

DeletedIf(unused) == deleted' = IF unused THEN deleted + 1 ELSE deleted

back_silent(t, s) ==       \* mutant: no notify
    /\ s \in held[t] /\ ~waits[t]
    /\ held' = [held EXCEPT ![t] = held[t] \ {s}]
    /\ word' = [word EXCEPT ![s] = free]
    /\ free' = s
    /\ lending' = lending - 1
    /\ DeletedIf(lending' = 0 /\ ~attached)
    /\ UNCHANGED <<cvVars, chunks, attached, waits, gets>>

\* A pointer is destroyed, or assigned to.
back(t, s) ==
    /\ s \in held[t] /\ ~waits[t]
    /\ held' = [held EXCEPT ![t] = held[t] \ {s}]
    /\ word' = [word EXCEPT ![s] = free]
    /\ free' = s
    /\ lending' = lending - 1
    /\ IF Waitable THEN notify_all ELSE UNCHANGED cvVars
    /\ DeletedIf(lending' = 0 /\ ~attached)
    /\ UNCHANGED <<chunks, attached, waits, gets>>

\* A pointer is moved to another thread.
move(t, u, s) ==
    /\ MayMove
    /\ s \in held[t] /\ ~waits[t]
    /\ held' = [held EXCEPT ![t] = held[t] \ {s}, ![u] = held[u] \cup {s}]
    /\ UNCHANGED <<cvVars, poolVars, life, waits, gets>>

\* The mpool is destroyed, or given another strategy.
detached ==
    /\ attached
    /\ attached' = FALSE
    /\ DeletedIf(lending = 0)
    /\ UNCHANGED <<cvVars, poolVars, held, waits, gets>>
-----------------------------------------------------------------------------
Runs(t) == get_again(t) \/ get_return(t)

Back(t) == \E s \in held[t] : back(t, s)

Next ==
    \/ detached
    \/ \E t \in Threads :
         \/ get_free(t) \/ get_alloc(t) \/ get_wait(t) \/ Runs(t) \/ Back(t)
         \/ \E u \in Threads \ {t}, s \in Items : move(t, u, s)
         \/ WakeUp(t) /\ UNCHANGED <<poolVars, life, held, waits, gets>>

Spec == Init /\ [][Next]_vars

\* Threads run, and give back what they have.
FairSpec == Spec /\ \A t \in Threads : WF_vars(Runs(t)) /\ WF_vars(Back(t))
-----------------------------------------------------------------------------
(* Properties                                                              *)

\* The free list: free_ and what follows in it, the least set with each item and its next.
FreeList ==
    {i \in Items : \A S \in SUBSET Items :
        (free \in Items => free \in S) /\ (\A j \in S : word[j] \in Items => word[j] \in S) => i \in S}

\* Every item of a chunk is in the free list or lent to one thread, and none is both: the
\* word that next and pool share never breaks the list.
ItemIsInOnePlace ==
    LET list == FreeList
    IN /\ \A i \in Items : i <= chunks * ChunkSize =>
            Cardinality({t \in Threads : i \in held[t]}) = (IF i \in list THEN 0 ELSE 1)
       /\ \A t \in Threads : \A i \in held[t] : word[i] = pool

\* The strategy lives as long as the mpool, a pointer to one of its items, or a thread that
\* waits for one; and no longer.
PoolOutlivesItsItems ==
    deleted = IF attached \/ \E t \in Threads : waits[t] \/ held[t] # {} THEN 0 ELSE 1

\* Nobody sleeps while an item is free.
NoLostWakeup == free # nullptr => parked = {}

\* A thread that waits for an item gets one when the others, who do not wait while they have
\* one, give theirs back.
GetReturns == \A t \in Threads : waits[t] ~> ~waits[t]
=============================================================================
