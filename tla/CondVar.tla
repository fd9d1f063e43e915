------------------------------ MODULE CondVar ------------------------------
(***************************************************************************)
(* The monitor c7thread/condvar.cpp: a mutex and a condition variable.     *)
(* The classes that hold one lock it from the first line of a method to    *)
(* its return, and only wait() gives the mutex away: what happens between  *)
(* two waits is one step of the modules that extend this one.              *)
(***************************************************************************)
EXTENDS Integers, FiniteSets

CONSTANTS
    Threads,  \* the threads that use the object
    Timed     \* those whose calls pass a finite timeout

CondVarAssumption == Timed \subseteq Threads

VARIABLES
    parked,   \* the threads in pthread_cond_wait
    expired   \* the threads whose timed wait ended with ETIMEDOUT, until they have the mutex

cvVars == <<parked, expired>>

CondVarInit == parked = {} /\ expired = {}

CondVarTypeOK == parked \subseteq Threads /\ expired \subseteq Timed /\ parked \cap expired = {}

\* Thread t is neither parked nor on its way out of an expired wait.
Awake(t) == t \notin parked \cup expired

wait(t)    == parked' = parked \cup {t} /\ UNCHANGED expired
notify_all == parked' = {} /\ UNCHANGED expired

\* pthread_cond_wait may return without a notify.
WakeUp(t) ==
    /\ t \in parked
    /\ parked' = parked \ {t}
    /\ UNCHANGED expired

\* ETIMEDOUT: wait() will return false, whatever has happened until t has the mutex.
Expire(t) ==
    /\ t \in parked \cap Timed
    /\ parked' = parked \ {t}
    /\ expired' = expired \cup {t}

\* The return false of a wait that expired.
TimedOut(t) ==
    /\ t \in expired
    /\ expired' = expired \ {t}
    /\ UNCHANGED parked
=============================================================================
