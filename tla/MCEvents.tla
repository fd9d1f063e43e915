------------------------------ MODULE MCEvents ------------------------------
(***************************************************************************)
(* The event monitor and what it serves, for TLC: an acceptor and its      *)
(* receivers, a connector that tries again, a timer, other threads that    *)
(* take part, the ways to bring work into the loop, and the way of a       *)
(* message through the extensions of a service.  The initial state picks   *)
(* one of them; the others stay as they are.                               *)
(***************************************************************************)
EXTENDS Integers, Sequences, FiniteSets

CONSTANTS
    Callers,     \* threads that use the monitor, beside the one in its loop
    EvFds, EvIds, Batch,   \* descriptors, objects, and how many events epoll_wait returns
    MaxConns,    \* bound: connections to the acceptor
    MaxRefused,  \* bound: connects that fail
    MaxMsgs,     \* bound: messages to the receivers, or to a service
    MaxTicks,    \* bound: expirations of a timer
    MaxCalls,    \* bound: calls of other threads
    MaxWork,     \* bound: functions submitted, events committed
    MaxFlags,    \* bound: changes of the flags
    Submitters,
    Switchers, Flags, Wants, Owners, MaxCbs,    \* of FlagSync
    Committers, EvNames, Table, Combined, Initials, Terminals, Trigger,  \* of FsmDriver
    Services, Prios, EvNumbers, Handlers, MaxSets, Proxies, MaxInstalls  \* of ServiceCalls

VARIABLES
    part,  \* chosen once
    plan, prvdic, epoll, file, obj, ready, duties, evts, group, holder, calls,
    conns, refused, msgs, ticks, asked,
    que, counter, rest, putting, order, taken, missed,
    direct, key, made, once, sp, sholder, smutex, spc, ran,
    flags, callbacks, alive, now, cb, ids, unassigned, late, called, wrong,
    machine, currents, ena_partials, event, index, ended, taken_, applied, ats,
    services, living, event_map, proxies, interests, message, where, rests, sets, installed,
    heard, changes, due, done, subscribed, must, may

\* A driver of two states, for the constants of FsmDriver
TwoStates == [k \in {<<"s0", "go">>, <<"s1", "both">>, <<"s2", "back">>, <<"t0", "both">>} |->
                CASE k[1] = "s0" -> "s1" [] k[1] = "s1" -> "s2" [] k[1] = "s2" -> "s0" [] OTHER -> "t1"]
BothEvents   == [c \in {"both"} |-> {"a", "b"}]
TwoInitials  == <<"s0", "t0">>
TwoTerminals == <<"s2", "t1">>

\* What the programs around a monitor do
Program(role) == [role |-> role, conns |-> 0, refused |-> 0, msgs |-> 1, ticks |-> 0, calls |-> 0]
Setups ==
    [server  |-> [Program("acceptor") EXCEPT !.conns = MaxConns, !.msgs = MaxMsgs],
     client  |-> [Program("connector") EXCEPT !.refused = MaxRefused, !.calls = 1],
     ticking |-> [Program("acceptor") EXCEPT !.conns = 1, !.ticks = MaxTicks],
     shared  |-> [Program("acceptor") EXCEPT !.conns = 1, !.calls = MaxCalls]]

Monitor == INSTANCE EventServices
             WITH Users <- Callers, Fds <- EvFds, Ids <- EvIds, todo <- duties,
                  Plans <- {Setups[p] : p \in DOMAIN Setups}
Work    == INSTANCE Submit
             WITH Users <- Submitters, MaxItems <- MaxWork, holder <- sholder, m <- smutex, pc <- spc
Flag    == INSTANCE FlagSync
             WITH Users <- Switchers, MaxItems <- MaxFlags, cur <- cb
Driver  == INSTANCE FsmDriver
             WITH Users <- Committers, Events <- EvNames, MaxItems <- MaxWork, at <- ats
Calls   == INSTANCE ServiceCalls
             WITH Events <- EvNumbers, MaxMsg <- MaxMsgs, MaxCalls <- MaxInstalls,
                  alive <- living, todo <- rests, msgs <- heard, calls <- changes

ASSUME EventsAssumption ==
    /\ Monitor!EventAssumption /\ Work!SubmitAssumption /\ Flag!FlagAssumption
    /\ Driver!FsmAssumption /\ Calls!ServiceCallsAssumption

loopVars  == <<plan, prvdic, epoll, file, obj, ready, duties, evts, group, holder, calls,
               conns, refused, msgs, ticks, asked>>
queueVars == <<que, counter, rest, putting, order, taken, missed>>
workVars  == <<direct, key, made, once, sp, sholder, smutex, spc, ran>>
flagVars  == <<flags, callbacks, alive, now, cb, ids, unassigned, late, called, wrong>>
fsmVars   == <<machine, currents, ena_partials, event, index, ended, taken_, applied, ats>>
callVars  == <<services, living, event_map, proxies, interests, message, where, rests, sets,
               installed, heard, changes, due, done, subscribed, must, may>>
eventsVars == <<part, loopVars, queueVars, workVars, flagVars, fsmVars, callVars>>

Parts == DOMAIN Setups \cup {"submit", "flag", "fsm", "calls", "handlers"}

EventsInit ==
    /\ part \in Parts
    /\ Monitor!EventInit /\ plan = Setups[IF part \in DOMAIN Setups THEN part ELSE "server"]
    /\ Work!SubmitInit /\ (part # "submit" => key = 0 /\ direct = [t \in Submitters |-> FALSE])
    /\ Flag!FlagInit   /\ (part # "flag" => flags = {})
    /\ Driver!FsmInit  /\ (part # "fsm" => ~machine)
    /\ Calls!ServiceCallsInit /\ (part # "handlers" => sets = <<>>)
    /\ living = IF part = "calls" THEN Services \cup Proxies ELSE {}

InMonitor(step) == part \in DOMAIN Setups /\ step
                   /\ UNCHANGED <<part, queueVars, workVars, flagVars, fsmVars, callVars>>
InSubmit(step)  == part = "submit" /\ step /\ UNCHANGED <<part, loopVars, flagVars, fsmVars, callVars>>
InFlag(step)    == part = "flag" /\ step /\ UNCHANGED <<part, loopVars, workVars, fsmVars, callVars>>
InFsm(step)     == part = "fsm" /\ step /\ UNCHANGED <<part, loopVars, workVars, flagVars, callVars>>
InCalls(step)   == part \in {"calls", "handlers"} /\ step
                   /\ UNCHANGED <<part, loopVars, queueVars, workVars, flagVars, fsmVars>>

EventsNext ==
    \/ InMonitor(Monitor!EventNext)
    \/ InSubmit(Work!SubmitNext)
    \/ InFlag(Flag!FlagNext)
    \/ InFsm(Driver!FsmNext)
    \/ InCalls(Calls!ServiceCallsNext)

EventsSpec == EventsInit /\ [][EventsNext]_eventsVars

LoopRuns ==
    \/ InMonitor(Monitor!ThreadSteps(Monitor!Loop))
    \/ InSubmit(Work!LoopSteps)
    \/ InFlag(Flag!LoopSteps)
    \/ InFsm(Driver!LoopSteps)
    \/ InCalls(Calls!LoopSteps)

\* Another thread ends the call it has begun.
UserRuns(t) ==
    \/ t \in Callers    /\ InMonitor(Monitor!ThreadSteps(t))
    \/ t \in Submitters /\ InSubmit(Work!UserSteps(t))
    \/ t \in Switchers  /\ InFlag(Flag!update_write(t))
    \/ t \in Committers /\ InFsm(Driver!commit_write(t))

\* A connect gets its answer, and a timer expires.
Answers == InMonitor(Monitor!answer_)
Expires == InMonitor(Monitor!expire_)

EventsFairSpec ==
    /\ EventsSpec
    /\ WF_eventsVars(LoopRuns)
    /\ \A t \in Callers \cup Submitters \cup Switchers \cup Committers : WF_eventsVars(UserRuns(t))
    /\ WF_eventsVars(Answers) /\ WF_eventsVars(Expires)
-----------------------------------------------------------------------------
(* The properties of the parts, where they are used                        *)

\* The table of the monitor, the epoll set, the open descriptors and the group of attached ports
\* agree, whatever callbacks, retries and other threads did.
TableFollows == Monitor!TableFollows

\* A service is attached before and detached after all it hears, and is called for its own events.
ServicesHear == Monitor!Lifecycle /\ Monitor!OwnEvents

\* What other threads bring into the loop is there when the loop looks for it, is done once and in
\* order, and does what it is for: functions run, callbacks get their flags, events combine, and a
\* message takes its way through the services, the handler and the proxies.
WorkIsDone ==
    /\ part = "submit" => Work!RunOnce
    /\ part = "flag"   => Flag!FlagsAreServed
    /\ part = "fsm"    => Driver!EventsCombine /\ Driver!EndsAtTerminals
    /\ Calls!MessageTakesItsWay

\* In the end: what came for a receiver is taken, the connector is connected, what was submitted,
\* switched or committed is done, a message gets through, and no call waits for ever, but those of
\* submit() and make_and_manage that stop each other (Crossed), and what would come after them.
DoneInTheEnd ==
    []<>( /\ part \in DOMAIN Setups => Monitor!AllServed
          /\ part = "submit" => Work!AllHaveRun \/ Work!Crossed
          /\ part = "flag"   => Flag!AllTaken
          /\ part = "fsm"    => Driver!AllTaken
          /\ part \in {"calls", "handlers"} => Calls!AllDone )
=============================================================================
