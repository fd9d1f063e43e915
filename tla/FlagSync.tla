------------------------------ MODULE FlagSync ------------------------------
(***************************************************************************)
(* ext/flagsync: threads switch flags on and off through an event queue,   *)
(* and the loop calls back who waits for a set of flags, once for each     *)
(* time the set is complete, taking the flags off.  Callbacks are assigned *)
(* and unassigned by any thread, and their owners go at any time.          *)
(***************************************************************************)
EXTENDS EventQueue, FiniteSetsExt

CONSTANTS
    Users,   \* threads
    Flags,   \* bits
    Wants,   \* the sets of flags that are asked for
    Owners,  \* services
    MaxCbs   \* bound: callbacks assigned

Nobody == 0

VARIABLES
    flags,      \* flags_
    callbacks,  \* callbacks_: req_flags, owner_wp, id
    alive,      \* owners that somebody holds
    now,        \* on_event is at the next item, "scan"s callbacks_ or is "calling" one
    cur,        \* the callback being called
    ids,        \* id_counter_
    unassigned, \* history: ids that were unassigned while they were not the last callback
    late,       \* history: ids assigned after the last change of the flags
    called,     \* history: calls, up to the bound
    wrong       \* history: a callback was called that must not be

flagVars == <<queueVars, flags, callbacks, alive, now, cur, ids, unassigned, late, called, wrong>>
flagObj  == <<flags, callbacks, alive, now, cur, ids, unassigned, late, called, wrong>>

FlagAssumption == QueueAssumption /\ Users \subseteq Nat \ {0} /\ Owners \subseteq Nat \ {0}
                  /\ Wants \subseteq (SUBSET Flags) \ {{}}

NoCallback == [req |-> {}, owner |-> Nobody, id |-> 0]

\* flags_ is not initialised.
FlagInit ==
    /\ QueueInit /\ flags \in SUBSET Flags /\ callbacks = <<>> /\ alive = Owners
    /\ now = "next" /\ cur = NoCallback /\ ids = 0
    /\ unassigned = {} /\ late = {} /\ called = 0 /\ wrong = FALSE

update(t, on, off) == put(t, [on |-> on, off |-> off]) /\ UNCHANGED flagObj
update_write(t)    == write(t) /\ UNCHANGED flagObj

assign(o, req) ==
    /\ ids < MaxCbs /\ ids' = ids + 1 /\ o \in alive
    /\ callbacks' = Append(callbacks, [req |-> req, owner |-> o, id |-> ids'])
    /\ late' = late \cup {ids'}
    /\ UNCHANGED <<queueVars, flags, alive, now, cur, unassigned, called, wrong>>

\* The positions of S, in their order
InOrder(S) == CHOOSE f \in [1 .. Cardinality(S) -> S] : \A a, b \in DOMAIN f : a < b => f[a] < f[b]

\* unassign: std::remove_if without erase.  What is kept moves to the front; of what is behind it
\* the kept ones are moved from, so that they have no owner, and the removed one is as it was.
Removed(cbs, id) ==
    LET kept == InOrder({n \in DOMAIN cbs : cbs[n].id # id})
    IN [n \in DOMAIN cbs |-> IF n \in DOMAIN kept THEN cbs[kept[n]]
                             ELSE IF cbs[n].id = id THEN cbs[n]
                             ELSE [cbs[n] EXCEPT !.owner = Nobody]]

unassign(id) ==
    /\ callbacks' = Removed(callbacks, id)
    /\ unassigned' = IF callbacks # <<>> /\ callbacks[Len(callbacks)].id # id THEN unassigned \cup {id} ELSE unassigned
    /\ UNCHANGED <<queueVars, flags, alive, now, cur, ids, late, called, wrong>>

\* The last shared_ptr to a service goes; the one that on_event has keeps it for the call.
die(o) ==
    /\ o \in alive /\ cur.owner # o /\ alive' = alive \ {o}
    /\ UNCHANGED <<queueVars, flags, callbacks, now, cur, ids, unassigned, late, called, wrong>>

on_event ==
    /\ now = "next" /\ read /\ UNCHANGED flagObj

change ==
    /\ now = "next" /\ take
    /\ LET new == (flags \cup Head(que).on) \ Head(que).off
       IN /\ flags' = new
          /\ now' = IF new = flags THEN "next" ELSE "scan"
          /\ late' = IF new = flags THEN late ELSE {}
    /\ UNCHANGED <<callbacks, alive, cur, ids, unassigned, called, wrong>>

change_nothing == now = "next" /\ take_nothing /\ UNCHANGED flagObj

Erased(cbs, n) == SubSeq(cbs, 1, n - 1) \o SubSeq(cbs, n + 1, Len(cbs))

\* The first callback whose flags are all on: it is erased when its owner is gone.
scan ==
    /\ now = "scan"
    /\ LET served == {k \in DOMAIN callbacks : callbacks[k].req \subseteq flags}
           n == IF served = {} THEN 0 ELSE Min(served)
       IN \/ n = 0 /\ now' = "next" /\ UNCHANGED <<flags, callbacks, cur, called, wrong>>
          \/ /\ n # 0 /\ callbacks[n].owner \notin alive
             /\ callbacks' = Erased(callbacks, n)
             /\ UNCHANGED <<flags, now, cur, called, wrong>>
          \/ /\ n # 0 /\ callbacks[n].owner \in alive
             /\ now' = "calling" /\ cur' = callbacks[n]
             /\ flags' = flags \ callbacks[n].req
             /\ called' = (IF called < MaxCbs THEN called + 1 ELSE called)
             /\ wrong' = (wrong \/ callbacks[n].id \in unassigned)
             /\ UNCHANGED callbacks
    /\ UNCHANGED <<queueVars, alive, ids, unassigned, late>>

\* The callback may take flags off and on; that it returns ends the call.
call(new) ==
    /\ now = "calling" /\ now' = "scan" /\ cur' = NoCallback /\ flags' = new
    /\ wrong' = (wrong \/ cur.owner \notin alive)
    /\ UNCHANGED <<queueVars, callbacks, alive, ids, unassigned, late, called>>
-----------------------------------------------------------------------------
LoopSteps ==
    \/ on_event \/ change \/ change_nothing \/ scan
    \/ \E new \in SUBSET Flags : (new \subseteq flags \/ called < MaxCbs) /\ call(new)

FlagNext ==
    \/ LoopSteps
    \/ \E t \in Users : update_write(t) \/ \E f \in Flags : update(t, {f}, {}) \/ update(t, {}, {f})
    \/ \E o \in Owners, w \in Wants : assign(o, w)
    \/ \E id \in 1 .. ids : unassign(id)
    \/ \E o \in Owners : die(o)

FlagFairness == WF_flagVars(LoopSteps) /\ \A t \in Users : WF_flagVars(update_write(t))

\* No callback is left whose flags are all on and whose owner lives, when the loop goes to the next
\* item, but those that were assigned after the last change; a callback runs while its owner is
\* held, and not after it was unassigned, unless it was the last one then (on_event, unassign).
FlagsAreServed ==
    /\ QueueCovers /\ ~wrong
    /\ now = "next" => \A n \in DOMAIN callbacks :
         LET c == callbacks[n]
         IN c.req \subseteq flags => c.owner \notin alive \/ c.id \in late

\* Every update is taken, and no callback keeps the loop for ever.
AllTaken == que = <<>> /\ now = "next"
UpdatesAreTaken == []<>AllTaken
=============================================================================
