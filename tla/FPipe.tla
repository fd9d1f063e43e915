------------------------------- MODULE FPipe -------------------------------
(***************************************************************************)
(* fpipe of c7threadcom.hpp: a pipe with two buffers of NElm elements.     *)
(* The putter fills one while the getter empties the other; the full       *)
(* buffer goes to the getter through the pipe1 put2get_, the empty one     *)
(* back through get2put_ (both of Pipe1).  Nothing else is locked: put_    *)
(* and what it points to are the putter's, get_ and what it points to the  *)
(* getter's.                                                               *)
(***************************************************************************)
EXTENDS Pipe1

CONSTANTS
    NElm,         \* n_elm_
    MayAbort,     \* a third thread may call abort
    MaxPut        \* bound: elements put

put2get == "put2get"
get2put == "get2put"
P == "putter"
G == "getter"

FPipeAssumption ==
    /\ Pipes = {put2get, get2put} /\ Threads = {P, G}
    /\ NElm \in Nat \ {0}
    /\ MayAbort \in BOOLEAN
    /\ MaxPut \in Nat

VARIABLES
    bufs,     \* bufs_: idx, cnt and the elements of each buffer
    put_,     \* the buffer of the putter, 0 if it has none
    get_,     \* the buffer of the getter, 0 if it has none
    call,     \* the call the putter is in
    ppc,      \* where it is in it
    gpc,      \* where the getter is in get
    apc,      \* where the third thread is in abort
    puts,     \* history: elements put; an element is its number
    got,      \* history: the elements got, in order
    ended,    \* history: get has returned CLOSED
    cut       \* history: close went on without having flushed

bufVars == <<bufs, put_, get_>>
hist    == <<puts, got, ended, cut>>
vars    == <<pipeVars, bufVars, call, ppc, gpc, apc, hist>>

Bufs == {1, 2}
Buffer == [idx : 0 .. NElm, cnt : 0 .. NElm, top : [0 .. NElm - 1 -> 0 .. MaxPut]]

TypeOK ==
    /\ PipeTypeOK(Bufs)
    /\ bufs \in [Bufs -> Buffer]
    /\ \A b \in Bufs : bufs[b].idx <= bufs[b].cnt
    /\ put_ \in {0} \cup Bufs /\ get_ \in {0} \cup Bufs
    /\ call \in {"none", "put", "flush", "close"}
    /\ ppc \in {"idle", "send", "recv", "store", "close", "reset", "closed"}
    /\ gpc \in {"idle", "give", "take", "load"}
    /\ apc \in {"none", "half", "done"}
    /\ puts \in 0 .. MaxPut /\ got \in Seq(0 .. MaxPut)
    /\ ended \in BOOLEAN /\ cut \in BOOLEAN

\* The state reset() leaves: the putter has an empty buffer, the getter one it has read.
Init ==
    /\ PipeInit
    /\ bufs = [b \in Bufs |-> [idx |-> IF b = 1 THEN 0 ELSE NElm, cnt |-> NElm,
                               top |-> [i \in 0 .. NElm - 1 |-> 0]]]
    /\ put_ = 1 /\ get_ = 2
    /\ call = "none" /\ ppc = "idle" /\ gpc = "idle" /\ apc = "none"
    /\ puts = 0 /\ got = <<>> /\ ended = FALSE /\ cut = FALSE
-----------------------------------------------------------------------------
(* the putter                                                              *)

\* Where put_ready begins, and what comes after it.
Ready(b, buffer) == IF b = 0 THEN "recv" ELSE IF buffer.idx = buffer.cnt THEN "send" ELSE "store"

put ==
    /\ ppc = "idle" /\ puts < MaxPut
    /\ call' = "put"
    /\ ppc' = Ready(put_, IF put_ = 0 THEN {} ELSE bufs[put_])
    /\ UNCHANGED <<pipeVars, bufVars, gpc, apc, hist>>

Empty == put_ = 0 \/ bufs[IF put_ = 0 THEN 1 ELSE put_].idx = 0

\* flush, and close, which begins with a flush: what is in the buffer is all it will have.
flush(what) ==
    /\ ppc = "idle"
    /\ call' = what
    /\ IF Empty
       THEN ppc' = (IF what = "close" THEN "close" ELSE "idle") /\ UNCHANGED bufs
       ELSE bufs' = [bufs EXCEPT ![put_].cnt = bufs[put_].idx] /\ ppc' = "send"
    /\ UNCHANGED <<pipeVars, put_, get_, gpc, apc, hist>>

\* put_ready is over, and was not OK: close goes on all the same.
Fails ==
    /\ ppc' = IF call = "close" THEN "close" ELSE "idle"
    /\ cut' = (cut \/ call = "close")

send_keep ==              \* mutant: put_ is not forgotten when its buffer is sent
    /\ ppc = "send" /\ Awake(P)
    /\ \/ put_wait(P, put2get) /\ UNCHANGED <<put_, ppc, cut>>
       \/ put_ok(put2get, put_) /\ ppc' = (IF call = "put" THEN "store" ELSE "idle")
          /\ UNCHANGED <<put_, cut>>
       \/ put_refused(put2get) /\ Fails /\ UNCHANGED put_
    /\ UNCHANGED <<bufs, get_, call, gpc, apc, puts, got, ended>>

send ==
    /\ ppc = "send" /\ Awake(P)
    /\ \/ put_wait(P, put2get) /\ UNCHANGED <<put_, ppc, cut>>
       \/ put_ok(put2get, put_) /\ put_' = 0 /\ ppc' = "recv" /\ UNCHANGED cut
       \/ put_refused(put2get) /\ Fails /\ UNCHANGED put_
    /\ UNCHANGED <<bufs, get_, call, gpc, apc, puts, got, ended>>

After == CASE call = "put"   -> "store"
           [] call = "close" -> "close"
           [] OTHER          -> "idle"

recv ==
    /\ ppc = "recv" /\ Awake(P)
    /\ \/ get_wait(P, get2put) /\ UNCHANGED <<bufs, put_, ppc, cut>>
       \/ /\ get_ok(get2put)
          /\ put_' = data[get2put]
          /\ bufs' = [bufs EXCEPT ![put_'].cnt = NElm, ![put_'].idx = 0]
          /\ ppc' = After
          /\ UNCHANGED cut
       \/ get_refused(get2put) /\ Fails /\ UNCHANGED <<bufs, put_>>
    /\ UNCHANGED <<get_, call, gpc, apc, puts, got, ended>>

put_timeout ==
    /\ TimedOut(P)
    /\ Fails
    /\ UNCHANGED <<bufVars, call, gpc, apc, puts, got, ended>>

store ==
    /\ ppc = "store"
    /\ bufs' = [bufs EXCEPT ![put_].top[bufs[put_].idx] = puts + 1, ![put_].idx = bufs[put_].idx + 1]
    /\ puts' = puts + 1
    /\ ppc' = "idle"
    /\ UNCHANGED <<pipeVars, put_, get_, call, gpc, apc, got, ended, cut>>

close_pipe ==
    /\ ppc = "close"
    /\ close(put2get)
    /\ ppc' = "reset"
    /\ UNCHANGED <<bufVars, call, gpc, apc, hist>>

close_reset ==
    /\ ppc = "reset"
    /\ reset(get2put)
    /\ ppc' = "closed"
    /\ UNCHANGED <<bufVars, call, gpc, apc, hist>>
-----------------------------------------------------------------------------
(* the getter                                                              *)

get ==
    /\ gpc = "idle"
    /\ gpc' = IF get_ = 0 THEN "take" ELSE IF bufs[get_].idx = bufs[get_].cnt THEN "give" ELSE "load"
    /\ UNCHANGED <<pipeVars, bufVars, call, ppc, apc, hist>>

give ==
    /\ gpc = "give" /\ Awake(G)
    /\ \/ put_wait(G, get2put) /\ UNCHANGED <<get_, gpc>>
       \/ put_ok(get2put, get_) /\ get_' = 0 /\ gpc' = "take"
       \/ put_refused(get2put) /\ gpc' = "idle" /\ UNCHANGED get_
    /\ UNCHANGED <<bufs, put_, call, ppc, apc, hist>>

take_on ==                \* mutant: the getter goes on where it was in that buffer
    /\ gpc = "take" /\ Awake(G)
    /\ \/ get_wait(G, put2get) /\ UNCHANGED <<get_, bufs, gpc, ended>>
       \/ get_ok(put2get) /\ get_' = data[put2get] /\ gpc' = "load" /\ UNCHANGED <<bufs, ended>>
       \/ get_refused(put2get) /\ gpc' = "idle" /\ ended' = (ended \/ state[put2get] = "CLOSED")
          /\ UNCHANGED <<bufs, get_>>
    /\ UNCHANGED <<put_, call, ppc, apc, puts, got, cut>>

take ==
    /\ gpc = "take" /\ Awake(G)
    /\ \/ get_wait(G, put2get) /\ UNCHANGED <<get_, bufs, gpc, ended>>
       \/ /\ get_ok(put2get)
          /\ get_' = data[put2get]
          /\ bufs' = [bufs EXCEPT ![get_'].idx = 0]
          /\ gpc' = "load"
          /\ UNCHANGED ended
       \/ /\ get_refused(put2get)
          /\ gpc' = "idle"
          /\ ended' = (ended \/ state[put2get] = "CLOSED")
          /\ UNCHANGED <<bufs, get_>>
    /\ UNCHANGED <<put_, call, ppc, apc, puts, got, cut>>

load ==
    /\ gpc = "load"
    /\ got' = Append(got, bufs[get_].top[bufs[get_].idx])
    /\ bufs' = [bufs EXCEPT ![get_].top[bufs[get_].idx] = 0, ![get_].idx = bufs[get_].idx + 1]
    /\ gpc' = "idle"
    /\ UNCHANGED <<pipeVars, put_, get_, call, ppc, apc, puts, ended, cut>>

get_timeout ==
    /\ TimedOut(G)
    /\ gpc' = "idle"
    /\ UNCHANGED <<bufVars, call, ppc, apc, hist>>
-----------------------------------------------------------------------------
\* The two calls of abort().
abort_get2put ==
    /\ MayAbort /\ apc = "none"
    /\ abort(get2put)
    /\ apc' = "half"
    /\ UNCHANGED <<bufVars, call, ppc, gpc, hist>>

abort_put2get ==
    /\ apc = "half"
    /\ abort(put2get)
    /\ apc' = "done"
    /\ UNCHANGED <<bufVars, call, ppc, gpc, hist>>

PutterRuns == send \/ recv \/ put_timeout \/ store \/ close_pipe \/ close_reset
GetterRuns == get \/ give \/ take \/ get_timeout \/ load

Next ==
    \/ put \/ flush("flush") \/ flush("close")
    \/ PutterRuns \/ GetterRuns
    \/ abort_get2put \/ abort_put2get
    \/ \E t \in Threads : (WakeUp(t) \/ Expire(t)) /\ UNCHANGED <<bufVars, call, ppc, gpc, apc, hist>>

Spec == Init /\ [][Next]_vars

\* Both threads run, the getter gets again and again, and an abort is carried through.
FairSpec == Spec /\ WF_vars(PutterRuns) /\ WF_vars(GetterRuns) /\ WF_vars(abort_put2get)
-----------------------------------------------------------------------------
(* Properties                                                              *)

InPipe(p) == IF state[p] \in {"EXIST", "CLOSING"} THEN {data[p]} ELSE {}

\* No buffer is in two hands: the putter and the getter never look at the same one, and a
\* buffer that is on its way is nobody's.
BuffersOwned ==
    LET holds == <<{put_} \ {0}, {get_} \ {0}, InPipe(put2get), InPipe(get2put)>>
    IN  \A i, j \in 1 .. 4 : i # j => holds[i] \cap holds[j] = {}

\* The elements are got in the order of put, none is got twice and none is skipped.
InOrder == got = [k \in 1 .. Len(got) |-> k]

\* When get returns CLOSED, everything that was put has been got: unless a timeout, or the
\* abort, kept close from flushing.
ClosedIsDrained == ended /\ ~cut => Len(got) = puts

\* A call of the putter returns as long as the getter gets.
PutterReturns == ppc \notin {"idle", "closed"} ~> ppc \in {"idle", "closed"}

\* A get that is in progress when the pipe is closed returns.
GetterReturns == ~<>[](ppc = "closed" /\ gpc \in {"give", "take"})

\* Everything that was put is got in the end, once the pipe is closed.
CloseDelivers == ppc = "closed" /\ ~cut /\ apc = "none" ~> Len(got) = puts \/ apc # "none"
=============================================================================
