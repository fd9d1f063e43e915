---------------------------- MODULE EventMonitor ----------------------------
(***************************************************************************)
(* c7event/monitor.cpp: the table of providers, the epoll set that follows *)
(* it, and the event loop.  Every call of the monitor holds lock_ for one  *)
(* step and calls on_manage or on_unmanage after that, so that a thread is *)
(* here a list of calls it still has to make: a call takes itself off the  *)
(* list and may put others in front of the rest.  Descriptors are numbers, *)
(* the lowest free one is given to a new file, and closing a file takes it *)
(* out of the epoll set.                                                   *)
(***************************************************************************)
EXTENDS Integers, Sequences, FiniteSets, FiniteSetsExt

CONSTANTS
    Users,  \* threads beside the one in loop
    Fds,    \* descriptor numbers
    Ids,    \* objects: providers, in the order of their creation
    Batch   \* how many events epoll_wait may return

None == 0
Loop == -1

MonitorAssumption ==
    /\ Fds \subseteq Nat \ {0} /\ Ids \subseteq Nat \ {0} /\ Fds # {} /\ Ids # {}
    /\ Batch \in Nat \ {0} /\ Users \subseteq Nat \ {0}

Threads == Users \cup {Loop}

VARIABLES
    prvdic,  \* prvdic_: by descriptor the provider, or None, its events, and whether it is suspended
    epoll,   \* by descriptor, what the epoll set watches: reading, writing or nothing
    file,    \* the object whose file a descriptor is, or None
    obj,     \* the objects: kind, fd, the descriptor that on_close will unmanage, of a timer the
             \* connector that it calls and the times it will, dead or not
    ready,   \* what has come on the file of an object, until it is taken
    todo,    \* by thread, the calls it still has to make
    evts,    \* the rest of what epoll_wait returned: descriptors, with the object they were of
    group,   \* ports_ of ext_attached: the attached receivers whose service is of that kind
    holder,  \* the thread that has called lock(), or None
    calls    \* history: by object, the calls of its service in order

monitorVars == <<prvdic, epoll, file, obj, ready, todo, evts, group, holder, calls>>

NoEntry == [prv |-> None, events |-> "no", susp |-> FALSE]
Unborn  == [kind |-> "none", fd |-> None, hook |-> None, arg |-> None, count |-> 0, dead |-> FALSE]

MonitorInit ==
    /\ prvdic = [fd \in Fds |-> NoEntry] /\ epoll = [fd \in Fds |-> "no"]
    /\ evts = <<>> /\ group = {} /\ holder = None
    /\ calls = [i \in Ids |-> <<>>]

Managed(fd) == fd \in Fds /\ prvdic[fd].prv # None

\* The call thread t is at, and what comes after it.
At(t, op)    == todo[t] # <<>> /\ Head(todo[t]).op = op
Call(t)      == Head(todo[t])
Then(t, ops) == todo' = [todo EXCEPT ![t] = ops \o Tail(@)]
MayLock(t)   == holder \in {None, t}
Called(i, c) == calls' = [calls EXCEPT ![i] = Append(@, c)]

\* Calls, as they stand in a list.
manage_(i)              == [op |-> "manage", id |-> i]
on_manage_(i)           == [op |-> "on_manage", id |-> i]
on_event_(i, of)        == [op |-> "on_event", id |-> i, of |-> of]
unmanage_(fd)           == [op |-> "unmanage", fd |-> fd]
on_unmanage_(i)         == [op |-> "on_unmanage", id |-> i]
suspend_(fd)            == [op |-> "suspend", fd |-> fd]
resume_(fd)             == [op |-> "resume", fd |-> fd]
change_event_(fd, ev)   == [op |-> "change_event", fd |-> fd, events |-> ev]
change_fd_(fd, new)     == [op |-> "change_fd", fd |-> fd, new |-> new]
change_provider_(fd, i) == [op |-> "change_provider", fd |-> fd, id |-> i]
close_(i)               == [op |-> "close", id |-> i]
close_fd_(i)            == [op |-> "close_fd", id |-> i]
release_(i)             == [op |-> "release", id |-> i]
remove_(fd)             == [op |-> "remove", fd |-> fd]
lock_                   == [op |-> "lock"]
unlock_                 == [op |-> "unlock"]
-----------------------------------------------------------------------------
(* Files                                                                   *)

Free      == {fd \in Fds : file[fd] = None}
NewFd     == Min(Free)
NewId     == Min({i \in Ids : obj[i].kind = "none"})

\* Bound: there is a descriptor and an object left for what is made next.
Room == Free # {} /\ \E i \in Ids : obj[i].kind = "none"

New(kind) == [Unborn EXCEPT !.kind = kind, !.fd = NewFd]

\* The provider's default_epoll_events
default_epoll_events(i) == IF obj[i].kind = "connector" THEN "out" ELSE "in"

\* fd::close: the functions of on_close are called while the descriptor is still open.
close(t) ==
    /\ At(t, "close")
    /\ LET i == Call(t).id
       IN IF obj[i].fd = None
          THEN Then(t, <<>>) /\ UNCHANGED obj
          ELSE /\ obj' = [obj EXCEPT ![i].hook = None]
               /\ Then(t, (IF obj[i].hook = None THEN <<>> ELSE <<unmanage_(obj[i].hook)>>)
                          \o (IF i \in group THEN <<remove_(obj[i].fd)>> ELSE <<>>) \o <<close_fd_(i)>>)
    /\ UNCHANGED <<prvdic, epoll, file, ready, evts, group, holder, calls>>

CloseFile(i) ==
    /\ file' = [file EXCEPT ![obj[i].fd] = None]
    /\ epoll' = [epoll EXCEPT ![obj[i].fd] = "no"]
    /\ obj' = [obj EXCEPT ![i].fd = None]

close_fd(t) ==
    /\ At(t, "close_fd")
    /\ LET i == Call(t).id
       IN IF obj[i].fd = None THEN UNCHANGED <<file, epoll, obj>> ELSE CloseFile(i)
    /\ Then(t, <<>>)
    /\ UNCHANGED <<prvdic, ready, evts, group, holder, calls>>

\* portgroup: a member goes when its port is closed, whoever closes it.
Removed(fd) == {i \in group : obj[i].fd # fd}

remove(t) ==
    /\ At(t, "remove") /\ group' = Removed(Call(t).fd) /\ Then(t, <<>>)
    /\ UNCHANGED <<prvdic, epoll, file, obj, ready, evts, holder, calls>>

\* A shared_ptr to i goes.  The destructor of the object closes its file.
release(t) ==
    /\ At(t, "release")
    /\ LET i == Call(t).id
           others == \/ \E fd \in Fds : prvdic[fd].prv = i
                     \/ release_(i) \in Range(Tail(todo[t]))
                     \/ \E u \in Threads \ {t} : release_(i) \in Range(todo[u])
       IN IF others THEN Then(t, <<>>) /\ UNCHANGED obj
                    ELSE Then(t, <<close_(i)>>) /\ obj' = [obj EXCEPT ![i].dead = TRUE]
    /\ UNCHANGED <<prvdic, epoll, file, ready, evts, group, holder, calls>>
-----------------------------------------------------------------------------
(* The monitor                                                             *)

\* lock() of a user, around calls of the monitor
lock(t)   == At(t, "lock") /\ holder = None /\ holder' = t /\ Then(t, <<>>)
             /\ UNCHANGED <<prvdic, epoll, file, obj, ready, evts, group, calls>>
unlock(t) == At(t, "unlock") /\ holder' = None /\ Then(t, <<>>)
             /\ UNCHANGED <<prvdic, epoll, file, obj, ready, evts, group, calls>>

manage(t) ==
    /\ At(t, "manage") /\ MayLock(t)
    /\ LET i == Call(t).id
           fd == obj[i].fd
       IN IF fd = None \/ epoll[fd] # "no"      \* epoll_ctl(ADD) fails
          THEN Then(t, <<release_(i)>>) /\ UNCHANGED <<prvdic, epoll>>
          ELSE /\ epoll' = [epoll EXCEPT ![fd] = default_epoll_events(i)]
               /\ prvdic' = [prvdic EXCEPT ![fd] = [prv |-> i, events |-> default_epoll_events(i), susp |-> FALSE]]
               /\ Then(t, <<on_manage_(i), release_(i)>>)
    /\ UNCHANGED <<file, obj, ready, evts, group, holder, calls>>

change_provider(t) ==
    /\ At(t, "change_provider") /\ MayLock(t)
    /\ LET i == Call(t).id
           fd == Call(t).fd
       IN IF ~Managed(fd)
          THEN Then(t, <<release_(i)>>) /\ UNCHANGED prvdic
          ELSE /\ prvdic' = [prvdic EXCEPT ![fd].prv = i]
               /\ Then(t, <<on_manage_(i), release_(prvdic[fd].prv)>>)
    /\ UNCHANGED <<epoll, file, obj, ready, evts, group, holder, calls>>

change_event(t) ==
    /\ At(t, "change_event") /\ MayLock(t)
    /\ LET fd == Call(t).fd
           ev == Call(t).events
       IN IF ~Managed(fd)
          THEN UNCHANGED <<prvdic, epoll>>
          ELSE /\ prvdic' = [prvdic EXCEPT ![fd].events = ev]
               /\ epoll' = IF prvdic[fd].susp \/ epoll[fd] = "no" THEN epoll ELSE [epoll EXCEPT ![fd] = ev]
    /\ Then(t, <<>>)
    /\ UNCHANGED <<file, obj, ready, evts, group, holder, calls>>

change_fd(t) ==
    /\ At(t, "change_fd") /\ MayLock(t)
    /\ LET fd == Call(t).fd
           new == Call(t).new
       IN IF ~Managed(fd)
          THEN UNCHANGED <<prvdic, epoll>>
          ELSE /\ epoll' = IF prvdic[fd].susp THEN epoll ELSE [epoll EXCEPT ![fd] = "no", ![new] = prvdic[fd].events]
               /\ prvdic' = [prvdic EXCEPT ![new] = prvdic[fd], ![fd] = NoEntry]
    /\ Then(t, <<>>)
    /\ UNCHANGED <<file, obj, ready, evts, group, holder, calls>>

\* epoll_ctl(DEL) fails for what is suspended already.
suspend(t) ==
    /\ At(t, "suspend") /\ MayLock(t)
    /\ LET fd == Call(t).fd
       IN IF ~Managed(fd) \/ epoll[fd] = "no"
          THEN UNCHANGED <<prvdic, epoll>>
          ELSE epoll' = [epoll EXCEPT ![fd] = "no"] /\ prvdic' = [prvdic EXCEPT ![fd].susp = TRUE]
    /\ Then(t, <<>>)
    /\ UNCHANGED <<file, obj, ready, evts, group, holder, calls>>

resume(t) ==
    /\ At(t, "resume") /\ MayLock(t)
    /\ LET fd == Call(t).fd
       IN IF ~Managed(fd)
          THEN UNCHANGED <<prvdic, epoll>>
          ELSE /\ prvdic' = [prvdic EXCEPT ![fd].susp = FALSE]
               /\ epoll' = IF epoll[fd] # "no" THEN epoll ELSE [epoll EXCEPT ![fd] = prvdic[fd].events]
    /\ Then(t, <<>>)
    /\ UNCHANGED <<file, obj, ready, evts, group, holder, calls>>

\* The provider is out of the table before epoll_ctl(DEL), and is not told when that fails.
unmanage(t) ==
    /\ At(t, "unmanage") /\ MayLock(t)
    /\ LET fd == Call(t).fd
           i == prvdic[fd].prv
       IN IF ~Managed(fd)
          THEN Then(t, <<>>) /\ UNCHANGED <<prvdic, epoll, calls>>
          ELSE /\ prvdic' = [prvdic EXCEPT ![fd] = NoEntry]
               /\ epoll' = [epoll EXCEPT ![fd] = "no"]
               /\ \/ epoll[fd] # "no" /\ Then(t, <<on_unmanage_(i), release_(i)>>) /\ UNCHANGED calls
                  \/ epoll[fd] = "no" /\ Then(t, <<release_(i)>>) /\ Called(i, "dropped")
    /\ UNCHANGED <<file, obj, ready, evts, group, holder>>
-----------------------------------------------------------------------------
(* monitor::loop                                                           *)

\* A socket that nobody has connected hangs up whatever it is watched for, as one that was refused.
HasEvent(fd) == /\ epoll[fd] # "no" /\ file[fd] # None
                /\ ready[file[fd]] \in {"idle", "refused"} \cup
                     (IF epoll[fd] = "out" THEN {"ok"} ELSE {"msg", "eof", "conn", "expired"})

\* epoll_wait: some of the descriptors that have an event, in some order
epoll_wait ==
    /\ todo[Loop] = <<>> /\ evts = <<>>
    /\ \E k \in 1 .. Batch :
         \E some \in kSubset(k, {fd \in Fds : HasEvent(fd)}) :
           \E order \in Bijection(1 .. k, some) :
             evts' = [n \in 1 .. k |-> [fd |-> order[n], of |-> file[order[n]]]]
    /\ UNCHANGED <<prvdic, epoll, file, obj, ready, todo, group, holder, calls>>

\* Mutant of dispatch: the provider is taken from what epoll_wait returned.
dispatch_unchecked ==
    /\ todo[Loop] = <<>> /\ evts # <<>> /\ MayLock(Loop)
    /\ LET i == Head(evts).of
       IN todo' = [todo EXCEPT ![Loop] = <<on_event_(i, i), release_(i)>>]
    /\ evts' = Tail(evts)
    /\ UNCHANGED <<prvdic, epoll, file, obj, ready, group, holder, calls>>

\* The next event: its provider may have been unmanaged, and is held while it is called.
dispatch ==
    /\ todo[Loop] = <<>> /\ evts # <<>> /\ MayLock(Loop)
    /\ LET i == prvdic[Head(evts).fd].prv
       IN todo' = [todo EXCEPT ![Loop] = IF i = None THEN <<>> ELSE <<on_event_(i, Head(evts).of), release_(i)>>]
    /\ evts' = Tail(evts)
    /\ UNCHANGED <<prvdic, epoll, file, obj, ready, group, holder, calls>>

MonitorCalls(t) ==
    \/ close(t) \/ close_fd(t) \/ remove(t) \/ release(t) \/ lock(t) \/ unlock(t) \/ manage(t)
    \/ change_provider(t) \/ change_event(t) \/ change_fd(t) \/ suspend(t) \/ resume(t) \/ unmanage(t)
=============================================================================
