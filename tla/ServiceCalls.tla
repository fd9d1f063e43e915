---------------------------- MODULE ServiceCalls ----------------------------
(***************************************************************************)
(* How a message gets through the extensions of a service: delegate calls  *)
(* the services that were installed, by priority, dispatcher the callback  *)
(* of the event, forwarder the proxies that subscribed to it.  Services    *)
(* and proxies are held weakly and may go, be installed or change their    *)
(* interests in other threads while a message is on its way.               *)
(***************************************************************************)
EXTENDS Integers, Sequences, FiniteSets, FiniteSetsExt

CONSTANTS
    Services,  \* that may be installed
    Prios,     \* priorities of install
    Events,    \* numbers of events
    Handlers,  \* callbacks of the dispatcher
    MaxSets,   \* bound: calls of dispatcher_set
    Proxies,   \* of the forwarder
    MaxMsg,    \* bound: messages
    MaxCalls   \* bound: calls of other threads

Default == "callback_default"

VARIABLES
    services,   \* services_ of the delegate
    alive,      \* services and proxies that somebody holds
    event_map,  \* by event the priority and callback of the dispatcher
    proxies,    \* proxies_ of the forwarder
    interests,  \* by proxy, interests_
    message,    \* the event of the message on its way, or None
    where,      \* who has it: nobody, delegate, dispatcher or forwarder
    todo,       \* the services or proxies it still goes to, which are held
    sets,       \* history: calls of dispatcher_set
    installed,  \* history: the services in the order of their install
    msgs, calls,   \* history, for the bounds
    due,        \* history: the services and proxies that had to get the message
    done,       \* history: where the message was, in order
    subscribed, \* history: by proxy the events that its user has subscribed to, and not unsubscribed
    must,       \* history: proxies that were subscribed to the message from forward on
    may         \* history: proxies that were subscribed to it at any time since then

messageVars == <<message, where, todo, msgs, due, done>>
subscriberVars == <<subscribed, must, may>>
serviceCallVars == <<services, alive, event_map, proxies, interests, messageVars, sets, installed, calls, subscriberVars>>

None == 0

ServiceCallsAssumption ==
    /\ Events \subseteq Nat \ {0} /\ Prios \subseteq Int /\ {MaxSets, MaxMsg, MaxCalls} \subseteq Nat
    /\ Services \cap Proxies = {}
-----------------------------------------------------------------------------
(* dispatcher                                                              *)

NoHandler == [prio |-> -1, cb |-> Default]

\* set_callback for a range of events: it replaces what has a lower priority.
set_callback(map, s) ==
    [ev \in DOMAIN map |-> IF ev \in s.from .. s.to /\ map[ev].prio < s.prio
                           THEN [prio |-> s.prio, cb |-> s.cb] ELSE map[ev]]

dispatcher_setup(ss) ==
    LET map[n \in 0 .. Len(ss)] == IF n = 0 THEN [ev \in Events |-> NoHandler] ELSE set_callback(map[n - 1], ss[n])
    IN map[Len(ss)]

SetCalls == [from : Events, to : Events, prio : {0}, cb : Handlers]
            \cup {[from |-> ev, to |-> ev, prio |-> 1, cb |-> h] : ev \in Events, h \in Handlers}
-----------------------------------------------------------------------------
(* delegate                                                                *)

Inserted(list, n, x) == SubSeq(list, 1, n - 1) \o <<x>> \o SubSeq(list, n, Len(list))

install(s, prio) ==
    /\ calls < MaxCalls /\ calls' = calls + 1 /\ s \in alive
    /\ \A n \in DOMAIN installed : installed[n].svc # s
    /\ LET lower == {n \in DOMAIN services : services[n].prio < prio}
       IN services' = IF lower = {} THEN Append(services, [prio |-> prio, svc |-> s])
                      ELSE Inserted(services, Min(lower), [prio |-> prio, svc |-> s])
    /\ installed' = Append(installed, [prio |-> prio, svc |-> s])
    /\ UNCHANGED <<alive, event_map, proxies, interests, messageVars, sets, subscriberVars>>

\* services(), forward(): a vector of what is alive; the rest is erased.
InOrder(S)   == CHOOSE f \in [1 .. Cardinality(S) -> S] : \A a, b \in DOMAIN f : a < b => f[a] < f[b]
Living(list) == LET kept == InOrder({n \in DOMAIN list : list[n].svc \in alive})
                IN [n \in DOMAIN kept |-> list[kept[n]]]
-----------------------------------------------------------------------------
(* forwarder                                                               *)

subscribe(p, ev) ==
    /\ calls < MaxCalls /\ calls' = calls + 1 /\ p \in alive
    /\ proxies' = IF p \in {proxies[n].svc : n \in DOMAIN proxies} THEN proxies ELSE Append(proxies, [svc |-> p])
    /\ interests' = [interests EXCEPT ![p] = @ \cup {ev}]
    /\ subscribed' = [subscribed EXCEPT ![p] = @ \cup {ev}]
    /\ may' = (IF where = "forwarder" /\ ev = message THEN may \cup {p} ELSE may)
    /\ UNCHANGED <<services, alive, event_map, messageVars, sets, installed, must>>

unsubscribe(p) ==
    /\ calls < MaxCalls /\ calls' = calls + 1 /\ p \in alive /\ interests[p] # {}
    /\ interests' = [interests EXCEPT ![p] = {}]
    /\ subscribed' = [subscribed EXCEPT ![p] = {}] /\ must' = must \ {p}
    /\ UNCHANGED <<services, alive, event_map, proxies, messageVars, sets, installed, may>>
-----------------------------------------------------------------------------
(* The message                                                             *)

ServiceCallsInit ==
    /\ services = <<>> /\ alive \in SUBSET (Services \cup Proxies)
    /\ (\E n \in 0 .. MaxSets : sets \in [1 .. n -> SetCalls]) /\ event_map = dispatcher_setup(sets)
    /\ proxies = <<>> /\ interests = [p \in Proxies |-> {}]
    /\ message = None /\ where = "nobody" /\ todo = <<>> /\ installed = <<>>
    /\ msgs = 0 /\ calls = 0 /\ due = <<>> /\ done = <<>>
    /\ subscribed = interests /\ must = {} /\ may = {}

Names(list) == [n \in DOMAIN list |-> list[n].svc]

\* delegate::on_message takes a vector of the services, ...
on_message(ev) ==
    /\ where = "nobody" /\ msgs < MaxMsg /\ msgs' = msgs + 1 /\ message' = ev
    /\ services' = Living(services) /\ todo' = Names(services') /\ where' = "delegate"
    /\ due' = todo' /\ done' = <<>>
    /\ UNCHANGED <<alive, event_map, proxies, interests, sets, installed, calls, subscriberVars>>

call_service ==
    /\ where = "delegate" /\ todo # <<>>
    /\ done' = Append(done, Head(todo)) /\ todo' = Tail(todo)
    /\ UNCHANGED <<services, alive, event_map, proxies, interests, message, where, sets, installed, msgs, calls, due, subscriberVars>>

\* ... dispatcher::on_message looks the event up, ...
dispatch ==
    /\ where = "delegate" /\ todo = <<>> /\ where' = "dispatcher"
    /\ done' = Append(done, event_map[message].cb)
    /\ UNCHANGED <<services, alive, event_map, proxies, interests, message, todo, sets, installed, msgs, calls, due, subscriberVars>>

\* ... and forwarder::on_message takes a vector of the proxies, each of which looks at its interests.
forward ==
    /\ where = "dispatcher" /\ where' = "forwarder"
    /\ proxies' = Living(proxies) /\ todo' = Names(proxies')
    /\ must' = {p \in Proxies \cap alive : message \in subscribed[p]} /\ may' = must'
    /\ UNCHANGED <<services, alive, event_map, interests, message, sets, installed, msgs, calls, due, done, subscribed>>

\* Mutant of call_proxy: the interests are not looked at.
call_proxy_always ==
    /\ where = "forwarder" /\ todo # <<>> /\ todo' = Tail(todo) /\ done' = Append(done, Head(todo))
    /\ UNCHANGED <<services, alive, event_map, proxies, interests, message, where, sets, installed, msgs, calls, due, subscriberVars>>

call_proxy ==
    /\ where = "forwarder" /\ todo # <<>> /\ todo' = Tail(todo)
    /\ done' = (IF message \in interests[Head(todo)] THEN Append(done, Head(todo)) ELSE done)
    /\ UNCHANGED <<services, alive, event_map, proxies, interests, message, where, sets, installed, msgs, calls, due, subscriberVars>>

returned ==
    /\ where = "forwarder" /\ todo = <<>> /\ where' = "nobody" /\ message' = None
    /\ due' = <<>> /\ done' = <<>> /\ must' = {} /\ may' = {}
    /\ UNCHANGED <<services, alive, event_map, proxies, interests, todo, sets, installed, msgs, calls, subscribed>>

\* The last shared_ptr of the user goes; a vector on its way keeps what it has.
go(x) ==
    /\ x \in alive /\ alive' = alive \ {x}
    /\ UNCHANGED <<services, event_map, proxies, interests, messageVars, sets, installed, calls, subscriberVars>>

LoopSteps == call_service \/ dispatch \/ forward \/ call_proxy \/ returned

ServiceCallsNext ==
    \/ LoopSteps \/ (\E ev \in Events : on_message(ev)) \/ \E x \in Services \cup Proxies : go(x)
    \/ \E s \in Services, prio \in Prios : install(s, prio)
    \/ \E p \in Proxies : unsubscribe(p) \/ \E ev \in Events : subscribe(p, ev)

ServiceCallsFairness == WF_serviceCallVars(LoopSteps)

\* The handler that a call of dispatcher_set has to give: the first of the highest priority.
Chosen(ev) ==
    LET for == {n \in DOMAIN sets : ev \in sets[n].from .. sets[n].to}
        best == {n \in for : \A k \in for : sets[k].prio <= sets[n].prio}
    IN IF for = {} THEN Default ELSE sets[Min(best)].cb

Begins(s, t) == Len(s) <= Len(t) /\ s = SubSeq(t, 1, Len(s))

\* Whoever was installed and lived when the message came hears of it, by priority, and first come
\* first served among equals (delegate); then the one handler that was set for the event (dispatcher);
\* then, once each, the proxies that are held and subscribed to it (forwarder): all that were when
\* the forwarder took them and have stayed so, and none that was not at any time since then.
MessageTakesItsWay ==
    LET place(s) == CHOOSE n \in DOMAIN installed : installed[n].svc = s
        before(a, b) == \/ installed[place(a)].prio > installed[place(b)].prio
                        \/ installed[place(a)].prio = installed[place(b)].prio /\ place(a) < place(b)
        handler == Len(due) + 1
        heard == {done[n] : n \in handler + 1 .. Len(done)}
    IN /\ \A a, b \in DOMAIN due : a < b => before(due[a], due[b])
       /\ \A n \in DOMAIN installed : installed[n].svc \in alive =>
            \E k \in DOMAIN services : services[k].svc = installed[n].svc
       /\ Begins(done, due) \/ Begins(due \o <<Chosen(message)>>, done)
       /\ where \in {"dispatcher", "forwarder"} => Len(done) >= handler
       /\ \A a, b \in handler + 1 .. Len(done) : done[a] = done[b] => a = b
       /\ heard \subseteq may /\ must \subseteq heard \cup {todo[n] : n \in DOMAIN todo}

AllDone == where = "nobody"
MessageIsDone == []<>AllDone
=============================================================================
