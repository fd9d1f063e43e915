------------------------------ MODULE FsmDriver ------------------------------
(***************************************************************************)
(* c7fsm.cpp: a driver with several current states, events that are        *)
(* combined of partial ones, run by the fsm_provider of an event loop or   *)
(* by machine::loop, to which any thread commits events.  A callback that  *)
(* commits is one of these threads.                                        *)
(***************************************************************************)
EXTENDS EventQueue, FiniteSetsExt

CONSTANTS
    Users,      \* threads that commit
    Events,     \* what they commit
    Table,      \* table_: function of <<state, event>> to the next state
    Combined,   \* combined_: function of an event to the set of its partial events
    Initials,   \* initial_state: a sequence
    Terminals,  \* of machine::loop
    Trigger     \* the first event of machine::loop

VARIABLES
    machine,  \* machine::loop, or fsm_provider
    currents, ena_partials,
    event,    \* being applied to the current states, or none
    index,    \* the next of them
    ended,    \* machine::loop has returned
    taken_,   \* history: the events taken, Trigger first
    applied,  \* history: the events applied to the states
    at        \* history: by applied event, how many had been taken

driverVars == <<machine, currents, ena_partials, event, index, ended, taken_, applied, at>>
fsmVars == <<queueVars, driverVars>>

NoEvent == "none"
Partials == UNION {Combined[c] : c \in DOMAIN Combined}
is_partial(ev) == ev \in Partials

\* define_combined takes a partial event once, and start() refuses combined events and events of
\* the table that are partial.  A combined event of none would be applied for any partial event.
FsmAssumption ==
    /\ QueueAssumption
    /\ \A c, d \in DOMAIN Combined : c # d => Combined[c] \cap Combined[d] = {}
    /\ \A c \in DOMAIN Combined : ~is_partial(c) /\ Combined[c] # {}
    /\ \A k \in DOMAIN Table : ~is_partial(k[2])
    /\ ~is_partial(Trigger)
    /\ NoEvent \notin Events \cup {Trigger} \cup DOMAIN Combined
    /\ Initials \in Seq(Range(Initials))

\* start() or reset(); machine::loop begins with its trigger.
FsmInit ==
    /\ QueueInit /\ machine \in BOOLEAN
    /\ currents = Initials /\ ena_partials = {} /\ index = 1 /\ ended = FALSE
    /\ event = (IF machine THEN Trigger ELSE NoEvent)
    /\ taken_ = (IF machine THEN <<Trigger>> ELSE <<>>)
    /\ applied = taken_ /\ at = [n \in DOMAIN applied |-> n]

commit(t) == \E ev \in Events : put(t, ev) /\ UNCHANGED driverVars

\* lock_notify is one step, and needs no counter.
commit_write(t) == write(t) /\ UNCHANGED driverVars

\* try_get_combined: the partial event is remembered, and all of a set make one event.
Completed(ev) == {c \in DOMAIN Combined : Combined[c] \subseteq ena_partials \cup {ev}}

transit(ev) ==
    /\ taken_' = Append(taken_, ev) /\ index' = 1
    /\ IF ~is_partial(ev)
       THEN event' = ev /\ UNCHANGED ena_partials
       ELSE \/ /\ Completed(ev) = {} /\ event' = NoEvent
               /\ ena_partials' = ena_partials \cup {ev}
            \/ \E c \in Completed(ev) :
                 event' = c /\ ena_partials' = (ena_partials \cup {ev}) \ Combined[c]
    /\ IF event' = NoEvent THEN UNCHANGED <<applied, at>>
                           ELSE applied' = Append(applied, event') /\ at' = Append(at, Len(taken_'))

\* The event goes to one current state after the other, whatever it did to those before.
step ==
    /\ event # NoEvent /\ index <= Len(currents)
    /\ LET key == <<currents[index], event>>
       IN IF key \notin DOMAIN Table
          THEN UNCHANGED currents
          ELSE currents' = [currents EXCEPT ![index] = Table[key]]
    /\ index' = index + 1
    /\ UNCHANGED <<queueVars, machine, ena_partials, event, ended, taken_, applied, at>>

stepped ==
    /\ event # NoEvent /\ index > Len(currents)
    /\ event' = NoEvent /\ ended' = (machine /\ currents = Terminals)
    /\ UNCHANGED <<queueVars, machine, currents, ena_partials, index, taken_, applied, at>>

\* fsm_provider::on_event
read_events == ~machine /\ event = NoEvent /\ read /\ UNCHANGED driverVars
next_event  == ~machine /\ event = NoEvent /\ take /\ transit(Head(que))
               /\ UNCHANGED <<machine, currents, ended>>

\* machine::loop: wait_while with the queue.  An event that has no transition is ignored.
loop ==
    /\ machine /\ event = NoEvent /\ ~ended /\ que # <<>>
    /\ que' = Tail(que) /\ taken' = taken + 1 /\ transit(Head(que))
    /\ UNCHANGED <<counter, rest, putting, order, missed, machine, currents, ended>>

LoopSteps == step \/ stepped \/ read_events \/ next_event \/ loop
FsmNext == LoopSteps \/ \E t \in Users : commit(t) \/ commit_write(t)
FsmFairness == WF_fsmVars(LoopSteps) /\ \A t \in Users : WF_fsmVars(commit_write(t))
-----------------------------------------------------------------------------
\* A combined event is applied with the partial event that completes it, once for each time its
\* partial events are complete, in whatever order they come and however often, and whether somebody
\* commits the combined event itself; every other event is applied when it is taken; and each of the
\* current states is where the applied events lead from its initial state, beside the others
\* (transit, try_get_combined).
Since(c, n) == Max({0} \cup {at[k] : k \in {j \in 1 .. n - 1 : applied[j] = c /\ is_partial(taken_[at[j]])}})
Heard(from, to) == {taken_[q] : q \in from + 1 .. to}
Goes(s, ev) == IF <<s, ev>> \in DOMAIN Table THEN Table[<<s, ev>>] ELSE s
Follow(s) ==
    LET follow[n \in 0 .. Len(applied)] == IF n = 0 THEN s ELSE Goes(follow[n - 1], applied[n])
    IN follow[Len(applied)]

EventsCombine ==
    /\ \A n \in DOMAIN applied : is_partial(taken_[at[n]]) =>
         LET c == applied[n]
         IN /\ Combined[c] \subseteq Heard(Since(c, n), at[n])
            /\ ~ (Combined[c] \subseteq Heard(Since(c, n), at[n] - 1))
    /\ \A c \in DOMAIN Combined : ~ (Combined[c] \subseteq Heard(Since(c, Len(applied) + 1), Len(taken_)))
    /\ \A q \in DOMAIN taken_ : ~is_partial(taken_[q]) =>
         \E n \in DOMAIN applied : at[n] = q /\ applied[n] = taken_[q]
    /\ event = NoEvent => \A i \in DOMAIN Initials : currents[i] = Follow(Initials[i])
    /\ machine \/ QueueCovers

\* What is committed is taken, unless machine::loop has reached its terminal states; there it ends.
AllTaken == que = <<>> \/ ended
CommittedIsTaken == []<>AllTaken
EndsAtTerminals  == machine /\ event = NoEvent /\ currents = Terminals /\ applied # <<>> => ended
=============================================================================
