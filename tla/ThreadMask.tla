----------------------------- MODULE ThreadMask -----------------------------
(***************************************************************************)
(* c7thread/mask.cpp and mask.hpp: a word of bits, changed under a         *)
(* condvar, on which threads wait.  A wait is given as a request: the bits *)
(* that must be on, all or any of them, or off, the bits whose being on    *)
(* ends it too, and the bits it clears when it returns.                    *)
(***************************************************************************)
EXTENDS CondVar

CONSTANTS
    Bits,      \* the bits of the word
    Requests,  \* the waits: records [kind, expect, any, clear]
    Changes,   \* the arguments <<on_mask, off_mask>> of change
    MaxSets    \* bound: calls of on

Kinds == {"all", "alloff", "all_or", "alloff_or", "any", "anyoff", "anyoff_or"}

ThreadMaskAssumption ==
    /\ Requests \subseteq [kind : Kinds, expect : SUBSET Bits, any : SUBSET Bits, clear : SUBSET Bits]
    /\ Changes \subseteq (SUBSET Bits) \X (SUBSET Bits)
    /\ MaxSets \in Nat

VARIABLES
    mask,   \* mask_: the bits that are on
    req,    \* req[t]: the set with the request thread t waits with, {} between calls
    sets,   \* history: calls of on
    turned, \* history: turned[b] is how many times bit b was turned on
    taken   \* history: taken[b] is how many times a wait found bit b on and cleared it

vars == <<cvVars, mask, req, sets, turned, taken>>

TypeOK ==
    /\ CondVarTypeOK
    /\ mask \subseteq Bits
    /\ req \in [Threads -> {{}} \cup {{r} : r \in Requests}]
    /\ sets \in 0 .. MaxSets
    /\ turned \in [Bits -> Nat] /\ taken \in [Bits -> Nat]

Init ==
    /\ CondVarInit
    /\ mask = {}
    /\ req = [t \in Threads |-> {}]
    /\ sets = 0
    /\ turned = [b \in Bits |-> 0]
    /\ taken = [b \in Bits |-> 0]
-----------------------------------------------------------------------------
Count(counts, bits) == [b \in Bits |-> counts[b] + (IF b \in bits THEN 1 ELSE 0)]

on_silent(m) ==            \* mutant: no notify_all
    /\ sets < MaxSets
    /\ sets' = sets + 1
    /\ mask' = mask \cup m
    /\ turned' = Count(turned, m \ mask)
    /\ UNCHANGED <<cvVars, req, taken>>

on(m) ==
    /\ sets < MaxSets
    /\ sets' = sets + 1
    /\ mask' = mask \cup m
    /\ turned' = Count(turned, m \ mask)
    /\ notify_all
    /\ UNCHANGED <<req, taken>>

off(m) ==
    /\ mask' = mask \ m
    /\ notify_all
    /\ UNCHANGED <<req, sets, turned, taken>>

clear == off(Bits)

\* change(on_mask, off_mask): whoever waits is told only if a bit has changed.
change(on_mask, off_mask) ==
    /\ sets < MaxSets
    /\ sets' = sets + 1
    /\ mask' = (mask \cup on_mask) \ off_mask
    /\ turned' = Count(turned, mask' \ mask)
    /\ IF mask' # mask THEN notify_all ELSE UNCHANGED cvVars
    /\ UNCHANGED <<req, taken>>

\* What the function given to wait returns for the word m: {} is "not yet".
func(r, m) ==
    CASE r.kind = "all"       -> IF r.expect \subseteq m THEN r.expect ELSE {}
      [] r.kind = "alloff"    -> IF r.expect \cap m = {} THEN r.expect ELSE {}
      [] r.kind = "all_or"    -> IF r.expect \subseteq m \/ r.any \cap m # {}
                                 THEN m \cap (r.expect \cup r.any) ELSE {}
      [] r.kind = "alloff_or" -> IF r.expect \cap m = {} \/ r.any \cap m # {}
                                 THEN (r.expect \ m) \cup (r.any \cap m) ELSE {}
      [] r.kind = "any"       -> r.expect \cap m
      [] r.kind = "anyoff"    -> r.expect \ m
      [] r.kind = "anyoff_or" -> (r.expect \ m) \cup (r.any \cap m)

wait_call(t, r) ==
    /\ req[t] = {}
    /\ req' = [req EXCEPT ![t] = {r}]
    /\ UNCHANGED <<cvVars, mask, sets, turned, taken>>

wait_return_keep(t) ==     \* mutant: the bits to clear are left on
    /\ Awake(t)
    /\ \E r \in req[t] :
        /\ func(r, mask) # {}
        /\ taken' = Count(taken, mask \cap r.clear)
    /\ req' = [req EXCEPT ![t] = {}]
    /\ UNCHANGED <<cvVars, mask, sets, turned>>

\* The wait returns func(r, mask), of the word as it was before the clearing.
wait_return(t) ==
    /\ Awake(t)
    /\ \E r \in req[t] :
        /\ func(r, mask) # {}
        /\ mask' = mask \ r.clear
        /\ taken' = Count(taken, mask \cap r.clear)
    /\ IF mask' # mask THEN notify_all ELSE UNCHANGED cvVars
    /\ req' = [req EXCEPT ![t] = {}]
    /\ UNCHANGED <<sets, turned>>

wait_park(t) ==
    /\ Awake(t)
    /\ \E r \in req[t] : func(r, mask) = {}
    /\ wait(t)
    /\ UNCHANGED <<mask, req, sets, turned, taken>>

wait_timeout(t) ==
    /\ TimedOut(t)
    /\ req' = [req EXCEPT ![t] = {}]
    /\ UNCHANGED <<mask, sets, turned, taken>>
-----------------------------------------------------------------------------
Runs(t) == wait_return(t) \/ wait_park(t) \/ wait_timeout(t)

Wakes(t) == (WakeUp(t) \/ Expire(t)) /\ UNCHANGED <<mask, req, sets, turned, taken>>

Next ==
    \/ \E m \in SUBSET Bits : on(m) \/ off(m)
    \/ clear
    \/ \E c \in Changes : change(c[1], c[2])
    \/ \E t \in Threads : Runs(t) \/ Wakes(t) \/ \E r \in Requests : wait_call(t, r)

Spec == Init /\ [][Next]_vars

FairSpec == Spec /\ \A t \in Threads : WF_vars(Runs(t))
-----------------------------------------------------------------------------
(* Properties                                                              *)

\* No thread sleeps on bits that would let it go: whatever changes the word tells those
\* who wait, the waits that clear bits included.
NoLostWakeup == \A t \in parked : \A r \in req[t] : func(r, mask) = {}

\* A bit that every wait for it clears is an exclusive signal: each time it is turned on at
\* most one wait takes it.
TakenOnce == \A b \in Bits : taken[b] <= turned[b]

\* Thread t waits for bits that are there.
KeptWaiting(t) == \E r \in Requests : req[t] = {r} /\ func(r, mask) # {}
=============================================================================
