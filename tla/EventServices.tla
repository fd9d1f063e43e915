--------------------------- MODULE EventServices ---------------------------
(***************************************************************************)
(* The providers of c7event around a socket or a timer, on top of the      *)
(* monitor: the acceptor makes a receiver of each connection, the          *)
(* connector tries until it is connected and gives its socket and its      *)
(* place in the monitor to a receiver, a timer calls back, once or again   *)
(* and again, and the receiver calls its service.  That service may, in    *)
(* on_message, close its port or that of another receiver; other threads   *)
(* manage, suspend, resume and unmanage receivers, always between lock()   *)
(* and its end.                                                            *)
(***************************************************************************)
EXTENDS EventMonitor

CONSTANT Plans  \* what a program may do: its role, which is what the thread of the loop manages first,
                \* "acceptor" or "connector", and bounds: connections that come, connects that fail,
                \* messages sent, expirations of a timer that starts again, calls of the other threads

VARIABLES
    plan,                               \* one of Plans
    conns, refused, msgs, ticks, asked  \* history, for the bounds

serviceVars == <<plan, conns, refused, msgs, ticks, asked>>
eventVars   == <<monitorVars, serviceVars>>

EventAssumption ==
    /\ MonitorAssumption
    /\ Plans \subseteq [role : {"acceptor", "connector"}, conns : Nat, refused : Nat, msgs : Nat,
                       ticks : Nat, calls : Nat]
    \* With two receivers beside it, a stale event could reach a connector that waits for its timer: of
    \* a descriptor that one of them has closed for the other and retry_connect was given since.
    /\ \A p \in Plans : p.role = "connector" => p.calls <= 1

Kind(i)     == obj[i].kind
Says(i, c)  == c \in Range(calls[i])
Attached(i) == Kind(i) = "receiver" /\ Says(i, "attached") /\ ~Says(i, "detached")

\* Calls of the providers, as they stand in a list of EventMonitor.
connect_(i, ops)  == [op |-> "connect", id |-> i, ops |-> ops]
timer_start_(c)   == [op |-> "timer_start", id |-> c]
retry_connect_(c) == [op |-> "retry_connect", id |-> c]
assign_(c, new)   == [op |-> "assign", id |-> c, new |-> new]

\* The first provider is made, and managed when the loop has not begun.
EventInit ==
    /\ MonitorInit /\ plan \in Plans
    /\ LET i == Min(Ids)
           fd == Min(Fds)
       IN /\ obj = [j \in Ids |-> IF j = i THEN [Unborn EXCEPT !.kind = plan.role, !.fd = fd] ELSE Unborn]
          /\ file = [f \in Fds |-> IF f = fd THEN i ELSE None]
          /\ ready = [j \in Ids |-> IF j = i /\ plan.role = "connector" THEN "idle" ELSE "no"]
          /\ todo = [t \in Threads |->
               IF t # Loop THEN <<>>
               ELSE <<manage_(i)>> \o IF plan.ticks > 0 THEN <<timer_start_(None)>> ELSE <<>>]
    /\ conns = 0 /\ refused = 0 /\ msgs = 0 /\ ticks = 0 /\ asked = 0
-----------------------------------------------------------------------------
(* Being managed, and not any more                                         *)

on_manage(t) ==
    /\ At(t, "on_manage")
    /\ LET i == Call(t).id
       IN \/ /\ Kind(i) \in {"receiver", "acceptor"}
             /\ obj' = [obj EXCEPT ![i].hook = obj[i].fd]
             /\ IF Kind(i) = "receiver" THEN Called(i, "attached") /\ group' = group \cup {i}
                                        ELSE UNCHANGED <<calls, group>>
             /\ Then(t, <<>>)
          \/ Kind(i) = "connector" /\ Then(t, <<connect_(i, <<>>)>>) /\ UNCHANGED <<obj, calls, group>>
          \/ Kind(i) = "timer" /\ Then(t, <<>>) /\ UNCHANGED <<obj, calls, group>>
    /\ UNCHANGED <<prvdic, epoll, file, ready, evts, holder, serviceVars>>

on_unmanage(t) ==
    /\ At(t, "on_unmanage")
    /\ LET i == Call(t).id
       IN /\ IF Kind(i) = "timer" THEN CloseFile(i) ELSE UNCHANGED <<file, epoll, obj>>
          /\ IF Kind(i) = "receiver" THEN Called(i, "detached") /\ group' = Removed(obj[i].fd)
                                     ELSE UNCHANGED <<calls, group>>
    /\ Then(t, <<>>)
    /\ UNCHANGED <<prvdic, ready, evts, holder, serviceVars>>
-----------------------------------------------------------------------------
(* The receiver                                                            *)

\* recv blocks until something comes.  The service closes what is attached between lock() and its end.
receive(t) ==
    /\ At(t, "on_event")
    /\ LET i == Call(t).id
       IN /\ Kind(i) = "receiver"
          /\ \/ /\ obj[i].fd = None /\ Called(i, "error") /\ Then(t, <<>>)
                /\ UNCHANGED <<ready, holder>>
             \/ /\ obj[i].fd # None /\ ready[i] = "eof" /\ Called(i, "disconnected")
                /\ Then(t, <<close_(i)>>) /\ ready' = [ready EXCEPT ![i] = "no"] /\ UNCHANGED holder
             \/ /\ obj[i].fd # None /\ ready[i] = "msg" /\ Called(i, "message")
                /\ ready' = [ready EXCEPT ![i] = "no"]
                /\ \/ Then(t, <<>>) /\ UNCHANGED holder
                   \/ Then(t, <<close_(i)>>) /\ UNCHANGED holder
                   \/ \E j \in Ids \ {i} : /\ Attached(j) /\ obj[j].fd # None /\ holder = None
                                           /\ holder' = t /\ Then(t, <<close_(j), unlock_>>)
    /\ UNCHANGED <<prvdic, epoll, file, obj, evts, group, serviceVars>>
-----------------------------------------------------------------------------
(* The acceptor                                                            *)

accept(t) ==
    /\ At(t, "on_event")
    /\ LET a == Call(t).id
       IN /\ Kind(a) = "acceptor" /\ ready[a] = "conn" /\ Room
          /\ obj' = [obj EXCEPT ![NewId] = New("receiver")]
          /\ file' = [file EXCEPT ![NewFd] = NewId]
          /\ ready' = [ready EXCEPT ![a] = "no"]
          /\ Then(t, <<manage_(NewId)>>)
    /\ UNCHANGED <<prvdic, epoll, evts, group, holder, calls, serviceVars>>
-----------------------------------------------------------------------------
(* The timer                                                               *)

timer_start(t) ==
    /\ At(t, "timer_start") /\ Room
    /\ LET c == Call(t).id
       IN obj' = [obj EXCEPT ![NewId] = [New("timer") EXCEPT !.arg = c, !.count = IF c = None THEN -1 ELSE 1]]
    /\ file' = [file EXCEPT ![NewFd] = NewId]
    /\ ready' = [ready EXCEPT ![NewId] = "armed"]
    /\ Then(t, <<manage_(NewId)>>)
    /\ UNCHANGED <<prvdic, epoll, evts, group, holder, calls, serviceVars>>

\* on_event: the callback, which is retry_connect or one that may stop the timer, and unmanage
\* after the only time.
timeout(t) ==
    /\ At(t, "on_event")
    /\ LET i == Call(t).id
           last == IF obj[i].count = 1 THEN <<unmanage_(obj[i].fd)>> ELSE <<>>
       IN /\ Kind(i) = "timer" /\ ready[i] = "expired"
          /\ ready' = [ready EXCEPT ![i] = IF obj[i].count = 1 THEN "no" ELSE "armed"]
          /\ \/ obj[i].arg # None /\ Then(t, <<retry_connect_(obj[i].arg)>> \o last)
             \/ obj[i].arg = None /\ Then(t, last)
             \/ obj[i].arg = None /\ Then(t, <<unmanage_(obj[i].fd)>> \o last)
          /\ obj' = [obj EXCEPT ![i].count = IF @ = 1 THEN 0 ELSE @]
    /\ UNCHANGED <<prvdic, epoll, file, evts, group, holder, calls, serviceVars>>
-----------------------------------------------------------------------------
(* The connector                                                           *)

start_timer(c, fd) == <<suspend_(fd), timer_start_(c)>>

\* do_connect: it fails at once, or goes on.
connect(t) ==
    /\ At(t, "connect")
    /\ LET c == Call(t).id
       IN \/ /\ refused < plan.refused /\ refused' = refused + 1
             /\ Then(t, start_timer(c, obj[c].fd)) /\ UNCHANGED ready
          \/ /\ ready' = [ready EXCEPT ![c] = "connecting"]
             /\ Then(t, Call(t).ops) /\ UNCHANGED refused
    /\ UNCHANGED <<prvdic, epoll, file, obj, evts, group, holder, calls, plan, conns, msgs, ticks, asked>>

\* on_event.  Without an error of the socket a receiver takes the socket, whatever the event was.
connected(t) ==
    /\ At(t, "on_event")
    /\ LET c == Call(t).id
           fd == obj[c].fd
       IN /\ Kind(c) = "connector"
          /\ IF ready[c] = "refused"
             THEN /\ Then(t, start_timer(c, fd)) /\ ready' = [ready EXCEPT ![c] = "no"]
                  /\ UNCHANGED <<obj, file>>
             ELSE /\ Room
                  /\ obj' = [obj EXCEPT ![NewId] = [Unborn EXCEPT !.kind = "receiver", !.fd = fd],
                                        ![c].fd = None]
                  /\ file' = [file EXCEPT ![fd] = NewId]
                  /\ ready' = [ready EXCEPT ![NewId] = IF ready[c] = "ok" THEN "no" ELSE "unconnected",
                                            ![c] = "no"]
                  /\ Then(t, <<change_provider_(fd, NewId), change_event_(fd, "in")>>)
    /\ UNCHANGED <<prvdic, epoll, evts, group, holder, calls, serviceVars>>

\* Mutant of retry_connect: the order the comment at connector_impl.hpp:119 warns of.
retry_connect_closes(t) ==
    /\ At(t, "retry_connect") /\ Room
    /\ LET c == Call(t).id
       IN /\ file' = [file EXCEPT ![NewFd] = c]
          /\ Then(t, <<assign_(c, NewFd), change_fd_(obj[c].fd, NewFd), connect_(c, <<resume_(NewFd)>>)>>)
    /\ UNCHANGED <<prvdic, epoll, obj, ready, evts, group, holder, calls, serviceVars>>

\* retry_connect: the descriptor of the new port replaces the old one in the monitor before that is closed.
retry_connect(t) ==
    /\ At(t, "retry_connect") /\ Room
    /\ LET c == Call(t).id
       IN /\ file' = [file EXCEPT ![NewFd] = c]
          /\ Then(t, <<change_fd_(obj[c].fd, NewFd), assign_(c, NewFd), connect_(c, <<resume_(NewFd)>>)>>)
    /\ UNCHANGED <<prvdic, epoll, obj, ready, evts, group, holder, calls, serviceVars>>

assign(t) ==
    /\ At(t, "assign")
    /\ LET c == Call(t).id
       IN /\ file' = [file EXCEPT ![obj[c].fd] = None]
          /\ epoll' = [epoll EXCEPT ![obj[c].fd] = "no"]
          /\ obj' = [obj EXCEPT ![c].fd = Call(t).new]
          /\ ready' = [ready EXCEPT ![c] = "idle"]
    /\ Then(t, <<>>)
    /\ UNCHANGED <<prvdic, evts, group, holder, calls, serviceVars>>
-----------------------------------------------------------------------------
(* The other threads                                                       *)

open(t) ==
    /\ asked < plan.calls /\ asked' = asked + 1 /\ todo[t] = <<>> /\ Room
    /\ obj' = [obj EXCEPT ![NewId] = New("receiver")]
    /\ file' = [file EXCEPT ![NewFd] = NewId]
    /\ todo' = [todo EXCEPT ![t] = <<lock_, manage_(NewId), unlock_>>]
    /\ UNCHANGED <<prvdic, epoll, ready, evts, group, holder, calls, plan, conns, refused, msgs, ticks>>

ask(t) ==
    /\ asked < plan.calls /\ asked' = asked + 1 /\ todo[t] = <<>> /\ holder = None
    /\ \E j \in Ids :
         /\ Attached(j) /\ obj[j].fd # None
         /\ \E c \in {suspend_(obj[j].fd), resume_(obj[j].fd), unmanage_(obj[j].fd)} :
              todo' = [todo EXCEPT ![t] = <<c, unlock_>>]
    /\ holder' = t
    /\ UNCHANGED <<prvdic, epoll, file, obj, ready, evts, group, calls, plan, conns, refused, msgs, ticks>>
-----------------------------------------------------------------------------
(* What comes from outside                                                 *)

Open(i) == obj[i].fd # None /\ file[obj[i].fd] = i

arrive == \E a \in Ids :
    /\ Kind(a) = "acceptor" /\ Open(a) /\ ready[a] = "no" /\ conns < plan.conns
    /\ ready' = [ready EXCEPT ![a] = "conn"] /\ conns' = conns + 1
    /\ UNCHANGED <<refused, msgs, ticks>>

come == \E r \in Ids :
    /\ Kind(r) = "receiver" /\ Open(r) /\ ready[r] = "no" /\ ~Says(r, "disconnected")
    /\ \/ ready' = [ready EXCEPT ![r] = "msg"] /\ msgs < plan.msgs /\ msgs' = msgs + 1
       \/ ready' = [ready EXCEPT ![r] = "eof"] /\ UNCHANGED msgs
    /\ UNCHANGED <<conns, refused, ticks>>

answer == \E c \in Ids :
    /\ Kind(c) = "connector" /\ ready[c] = "connecting"
    /\ \/ ready' = [ready EXCEPT ![c] = "ok"] /\ UNCHANGED refused
       \/ ready' = [ready EXCEPT ![c] = "refused"] /\ refused < plan.refused /\ refused' = refused + 1
    /\ UNCHANGED <<conns, msgs, ticks>>

expire == \E i \in Ids :
    /\ Kind(i) = "timer" /\ Open(i) /\ ready[i] = "armed"
    /\ \/ obj[i].arg # None /\ UNCHANGED ticks
       \/ obj[i].arg = None /\ ticks < plan.ticks /\ ticks' = ticks + 1
    /\ ready' = [ready EXCEPT ![i] = "expired"]
    /\ UNCHANGED <<conns, refused, msgs>>

Outside(event) == event /\ UNCHANGED <<prvdic, epoll, file, obj, todo, evts, group, holder, calls, plan, asked>>

answer_ == Outside(answer)
expire_ == Outside(expire)
-----------------------------------------------------------------------------
ProviderCalls(t) ==
    \/ on_manage(t) \/ on_unmanage(t) \/ receive(t) \/ accept(t) \/ timer_start(t) \/ timeout(t)
    \/ connect(t) \/ connected(t) \/ retry_connect(t) \/ assign(t)

MonitorSteps(t) ==
    /\ \/ MonitorCalls(t)
       \/ t = Loop /\ (epoll_wait \/ dispatch)
    /\ UNCHANGED serviceVars

ThreadSteps(t) == MonitorSteps(t) \/ ProviderCalls(t)

EventNext ==
    \/ \E t \in Threads : ThreadSteps(t)
    \/ \E t \in Users : open(t) \/ ask(t)
    \/ Outside(arrive) \/ Outside(come) \/ answer_ \/ expire_

EventFairness ==
    /\ \A t \in Threads : WF_eventVars(ThreadSteps(t))
    /\ WF_eventVars(answer_) /\ WF_eventVars(expire_)
-----------------------------------------------------------------------------
AllIdle == \A t \in Threads : todo[t] = <<>>

\* The table, the epoll set and the descriptors agree: what the table has is watched unless it is
\* suspended, its descriptor is open, and so are the ports of the group.  When no thread is in a call
\* each open descriptor is that of the provider the table has for it, so that none is left behind,
\* and the group has the receivers of the table (monitor.cpp, the order of retry_connect, and the
\* on_close of portgroup and receiver).
TableFollows ==
    /\ \A fd \in Fds : epoll[fd] = IF Managed(fd) /\ ~prvdic[fd].susp THEN prvdic[fd].events ELSE "no"
    /\ \A fd \in Fds : Managed(fd) => file[fd] # None
    /\ \A i \in group : obj[i].fd # None
    /\ AllIdle => /\ \A fd \in Fds : /\ file[fd] = prvdic[fd].prv
                                     /\ Managed(fd) => obj[file[fd]].fd = fd
                  /\ group = {i \in Ids : Kind(i) = "receiver" /\ \E fd \in Fds : prvdic[fd].prv = i}

\* The service of a receiver is attached before anything else, and detached once, before the
\* receiver goes, unless it was dropped while it was suspended.  After that it hears at most of the
\* one event that the loop had in its hands, if another thread took it out, and never of a port
\* that is closed.
Lifecycle == \A i \in Ids : Kind(i) = "receiver" =>
    LET s == calls[i]
        gone == {n \in DOMAIN s : s[n] \in {"detached", "dropped"}}
    IN /\ \A n \in DOMAIN s : (s[n] = "attached") <=> n = 1
       /\ Cardinality(gone) <= 1 /\ ~Says(i, "error")
       /\ obj[i].dead /\ s # <<>> => gone # {}
       /\ Says(i, "dropped") => plan.calls > 0
       /\ \A n \in gone : Len(s) - n <= IF plan.calls = 0 THEN 0 ELSE 1

\* What is called for an event that it does not have waits for the next one, and the loop with it.
Nothing(i) == CASE Kind(i) = "receiver" -> obj[i].fd # None /\ ready[i] \notin {"msg", "eof"}
                [] Kind(i) = "acceptor" -> ready[i] # "conn"
                [] Kind(i) = "timer"    -> ready[i] # "expired"
                [] OTHER -> FALSE
Blocked == At(Loop, "on_event") /\ Nothing(Call(Loop).id)

\* The loop waits nowhere but in epoll_wait, unless a descriptor was closed and given away again
\* after epoll_wait had returned it; and a receiver never takes a socket that is not connected.
OwnEvents ==
    /\ Blocked => Call(Loop).of # Call(Loop).id
    /\ \A i \in Ids : ready[i] # "unconnected"

\* What has come for a receiver that is watched is taken, and the connector gets its connection,
\* unless the loop is blocked by a descriptor that was given away.
Waiting(i) == ready[i] \in {"msg", "eof"} /\ Open(i) /\ epoll[obj[i].fd] # "no"
AllServed ==
    \/ Blocked
    \/ /\ \A i \in Ids : ~Waiting(i)
       /\ plan.role = "connector" => \E i \in Ids : Says(i, "attached") /\ i > Min(Ids)
Served == []<>AllServed
=============================================================================
