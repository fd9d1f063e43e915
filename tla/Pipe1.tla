------------------------------- MODULE Pipe1 -------------------------------
(***************************************************************************)
(* pipe1 of c7threadcom.hpp: a pipe that holds one element, for threads    *)
(* that put and threads that get.  The operators take the pipe as their    *)
(* argument because fpipe (FPipe) is made of two of them; each pipe has    *)
(* its own condition variable, and every method holds its lock throughout. *)
(***************************************************************************)
EXTENDS Integers, Sequences, FiniteSets

CONSTANTS
    Pipes,    \* the pipes
    Threads,  \* the threads that use them
    Timed     \* those whose calls pass a timeout

Pipe1Assumption == Timed \subseteq Threads

VARIABLES
    state,    \* state_ of each pipe
    data,     \* data_ of each pipe: 0 is T(), an element that was moved away
    at,       \* at[t]: the set with the pipe on whose condition variable t is parked
    expired   \* the threads whose wait timed out, until they have the lock

pipeVars == <<state, data, at, expired>>

States == {"EMPTY", "EXIST", "CLOSING", "CLOSED", "ABORTED"}

PipeTypeOK(Elem) ==
    /\ state \in [Pipes -> States]
    /\ data \in [Pipes -> Elem \cup {0}]
    /\ at \in [Threads -> {{}} \cup {{p} : p \in Pipes}]
    /\ expired \subseteq Timed
    /\ \A t \in expired : at[t] = {}

PipeInit ==
    /\ state = [p \in Pipes |-> "EMPTY"]
    /\ data = [p \in Pipes |-> 0]
    /\ at = [t \in Threads |-> {}]
    /\ expired = {}
-----------------------------------------------------------------------------
Awake(t) == at[t] = {} /\ t \notin expired

notify_all(p) == at' = [t \in Threads |-> at[t] \ {p}] /\ UNCHANGED expired

Becomes(p, s) == state' = [state EXCEPT ![p] = s]

wait(t, p) ==
    /\ at' = [at EXCEPT ![t] = {p}]
    /\ UNCHANGED <<state, data, expired>>

\* A wake-up without a notify, and a timeout.
WakeUp(t) ==
    /\ at[t] # {}
    /\ at' = [at EXCEPT ![t] = {}]
    /\ UNCHANGED <<state, data, expired>>

Expire(t) ==
    /\ t \in Timed /\ at[t] # {}
    /\ at' = [at EXCEPT ![t] = {}]
    /\ expired' = expired \cup {t}
    /\ UNCHANGED <<state, data>>

TimedOut(t) ==           \* com_status::TIMEOUT
    /\ t \in expired
    /\ expired' = expired \ {t}
    /\ UNCHANGED <<state, data, at>>
-----------------------------------------------------------------------------
(* put: one step per way through put_framework                             *)

put_wait(t, p) == state[p] = "EXIST" /\ wait(t, p)

put_ok(p, e) ==
    /\ state[p] = "EMPTY"
    /\ Becomes(p, "EXIST")
    /\ data' = [data EXCEPT ![p] = e]
    /\ notify_all(p)

put_refused(p) == state[p] \in {"CLOSING", "CLOSED", "ABORTED"} /\ UNCHANGED pipeVars

(* get                                                                     *)

get_wait(t, p) == state[p] = "EMPTY" /\ wait(t, p)

get_ok(p) ==
    /\ state[p] \in {"EXIST", "CLOSING"}
    /\ Becomes(p, IF state[p] = "EXIST" THEN "EMPTY" ELSE "CLOSED")
    /\ data' = [data EXCEPT ![p] = 0]
    /\ notify_all(p)

get_refused(p) == state[p] \in {"CLOSED", "ABORTED"} /\ UNCHANGED pipeVars

(* control                                                                 *)

close(p) ==
    /\ Becomes(p, CASE state[p] = "EMPTY" -> "CLOSED"
                    [] state[p] = "EXIST" -> "CLOSING"
                    [] OTHER              -> state[p])
    /\ notify_all(p)
    /\ UNCHANGED data

abort(p) ==
    /\ Becomes(p, "ABORTED")
    /\ IF state[p] = "ABORTED" THEN UNCHANGED <<at, expired>> ELSE notify_all(p)
    /\ UNCHANGED data

\* Nobody is notified of a reset.
reset(p) ==
    /\ Becomes(p, "EMPTY")
    /\ data' = IF state[p] \in {"EXIST", "CLOSING"} THEN [data EXCEPT ![p] = 0] ELSE data
    /\ UNCHANGED <<at, expired>>
=============================================================================
