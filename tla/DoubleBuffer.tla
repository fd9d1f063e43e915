---------------------------- MODULE DoubleBuffer ----------------------------
(***************************************************************************)
(* c7nseq/thread.hpp: a function that runs in a thread of its own and      *)
(* whose output a reader iterates over.  The two exchange two buffers      *)
(* through the lists free_ and wait_ of a double_buffer; an empty buffer   *)
(* in one of them is the other side's farewell.                            *)
(***************************************************************************)
EXTENDS CondVar, Sequences, SequencesExt

CONSTANTS
    Producer, Consumer,  \* the two threads
    Size,                \* buffer_size
    MayThrow,            \* the function may throw
    MayStop,             \* the reader may drop its iterator before the end
    MaxItems             \* bound: items the function puts out

DoubleBufferAssumption ==
    /\ Producer # Consumer /\ Threads = {Producer, Consumer} /\ Timed = {}
    /\ Size \in Nat \ {0} /\ MaxItems \in Nat
    /\ MayThrow \in BOOLEAN /\ MayStop \in BOOLEAN

VARIABLES
    free,    \* free_
    filled,  \* wait_
    v_th,    \* v_th_, the buffer of the function
    vec,     \* vec_ of the iterator
    idx,     \* idx_ of the iterator
    ppc,     \* where the thread is
    cpc,     \* where the reader is
    made,    \* history: how many items the function has put out: 1, 2, 3, ...
    read,    \* history: what the reader has read
    threw    \* history: the function ended with an exception

producerVars == <<v_th, ppc, made, threw>>
consumerVars == <<vec, idx, cpc, read>>
vars == <<cvVars, free, filled, producerVars, consumerVars>>

Items   == 1 .. MaxItems
Buffers == [items : Seq(Items), capacity : {0, Size}]
New     == [items |-> <<>>, capacity |-> Size]  \* reserve(size_)
Empty   == [items |-> <<>>, capacity |-> 0]     \* a new vector, or one that was moved from

TypeOK ==
    /\ CondVarTypeOK
    /\ free \in Seq(Buffers) /\ filled \in Seq(Buffers)
    /\ v_th \in Buffers /\ vec \in Buffers
    /\ idx \in Nat
    /\ ppc \in {"run", "full", "put", "exit", "flush", "finalize", "done"}
    /\ cpc \in {"init", "read", "next", "get", "join", "over", "drop", "gone"}
    /\ made \in 0 .. MaxItems
    /\ read \in Seq(Items)
    /\ threw \in BOOLEAN

\* The context has made both buffers, taken one of them and started the thread.
Init ==
    /\ CondVarInit
    /\ free = <<New>> /\ filled = <<>>
    /\ v_th = New /\ vec = Empty /\ idx = 0
    /\ ppc = "run" /\ cpc = "init"
    /\ made = 0 /\ read = <<>> /\ threw = FALSE
-----------------------------------------------------------------------------
(* The thread                                                              *)

output ==                     \* out << data
    /\ ppc = "run" /\ made < MaxItems
    /\ made' = made + 1
    /\ v_th' = [v_th EXCEPT !.items = Append(@, made')]
    /\ ppc' = IF Len(v_th'.items) = v_th.capacity THEN "full" ELSE "run"
    /\ UNCHANGED <<cvVars, free, filled, threw, consumerVars>>

\* What put does when free_ is not empty; an empty buffer there makes it return false.
TakeFree ==
    /\ v_th' = [Head(free) EXCEPT !.items = <<>>]
    /\ free' = Tail(free)
    /\ ppc' = IF v_th'.capacity = Size THEN "run" ELSE "exit"

put ==
    /\ ppc = "full"
    /\ filled' = Append(filled, v_th)
    /\ IF free # <<>>
       THEN TakeFree /\ notify_all
       ELSE /\ v_th' = Empty /\ ppc' = "put" /\ UNCHANGED free
            /\ parked' = {Producer} /\ UNCHANGED expired   \* notify_all, then wait
    /\ UNCHANGED <<made, threw, consumerVars>>

put_again ==
    /\ ppc = "put" /\ Awake(Producer)
    /\ IF free # <<>> THEN TakeFree /\ UNCHANGED cvVars
                      ELSE wait(Producer) /\ UNCHANGED <<free, v_th, ppc>>
    /\ UNCHANGED <<filled, made, threw, consumerVars>>

return ==
    /\ ppc = "run"
    /\ ppc' = "flush"
    /\ UNCHANGED <<cvVars, free, filled, v_th, made, threw, consumerVars>>

throw ==
    /\ ppc = "run" /\ MayThrow
    /\ ppc' = "finalize" /\ threw' = TRUE
    /\ UNCHANGED <<cvVars, free, filled, v_th, made, consumerVars>>

exit ==                       \* self::exit() of operator<<
    /\ ppc = "exit"
    /\ ppc' = "finalize"
    /\ UNCHANGED <<cvVars, free, filled, v_th, made, threw, consumerVars>>

flush ==
    /\ ppc = "flush"
    /\ IF v_th.items # <<>>
       THEN filled' = Append(filled, v_th) /\ v_th' = Empty /\ notify_all
       ELSE UNCHANGED <<filled, v_th, cvVars>>
    /\ ppc' = "finalize"
    /\ UNCHANGED <<free, made, threw, consumerVars>>

shutdown_producer ==          \* the thread's finalize
    /\ ppc = "finalize"
    /\ filled' = Append(filled, Empty)
    /\ notify_all
    /\ ppc' = "done"
    /\ UNCHANGED <<free, v_th, made, threw, consumerVars>>
-----------------------------------------------------------------------------
(* The reader                                                              *)

TakeFilled ==
    /\ vec' = Head(filled) /\ idx' = 0
    /\ filled' = Tail(filled)
    /\ cpc' = "read"

\* init_consumer, and get once it has given its buffer back
await_filled ==
    /\ cpc \in {"init", "get"} /\ Awake(Consumer)
    /\ IF filled # <<>> THEN TakeFilled /\ UNCHANGED cvVars
                        ELSE wait(Consumer) /\ UNCHANGED <<filled, vec, idx, cpc>>
    /\ UNCHANGED <<free, read, producerVars>>

next ==                       \* *it, ++it
    /\ cpc = "read" /\ vec.items # <<>>
    /\ read' = Append(read, vec.items[idx + 1])
    /\ IF idx = Len(vec.items) - 1 THEN cpc' = "next" /\ UNCHANGED idx
                                   ELSE idx' = idx + 1 /\ UNCHANGED cpc
    /\ UNCHANGED <<cvVars, free, filled, vec, producerVars>>

get ==
    /\ cpc = "next"
    /\ free' = Append(free, vec)
    /\ IF filled # <<>>
       THEN TakeFilled /\ notify_all
       ELSE /\ vec' = Empty /\ cpc' = "get" /\ UNCHANGED <<filled, idx>>
            /\ parked' = {Consumer} /\ UNCHANGED expired
    /\ UNCHANGED <<read, producerVars>>

\* The comparison with the end, which joins the thread and raises its exception.
at_end ==
    /\ cpc = "read" /\ vec.items = <<>>
    /\ cpc' = "join"
    /\ UNCHANGED <<cvVars, free, filled, vec, idx, read, producerVars>>

join ==
    /\ cpc \in {"join", "drop"} /\ ppc = "done"
    /\ cpc' = IF cpc = "join" THEN "over" ELSE "gone"
    /\ UNCHANGED <<cvVars, free, filled, vec, idx, read, producerVars>>

\* ~context: shutdown_consumer, then join
shutdown_consumer ==
    /\ cpc = "over" \/ (cpc = "read" /\ MayStop)
    /\ free' = Append(free, Empty)
    /\ notify_all
    /\ cpc' = "drop"
    /\ UNCHANGED <<filled, vec, idx, read, producerVars>>
-----------------------------------------------------------------------------
Produces == output \/ put \/ put_again \/ return \/ throw \/ exit \/ flush \/ shutdown_producer
Consumes == await_filled \/ next \/ get \/ at_end \/ join \/ shutdown_consumer
Wakes    == (\E t \in Threads : WakeUp(t)) /\ UNCHANGED <<free, filled, producerVars, consumerVars>>

Next == Produces \/ Consumes \/ Wakes

Spec == Init /\ [][Next]_vars

FairSpec == Spec /\ WF_vars(Produces) /\ WF_vars(Consumes)
-----------------------------------------------------------------------------
(* Properties                                                              *)

Unread == IF cpc = "next" THEN <<>> ELSE SubSeq(vec.items, idx + 1, Len(vec.items))
All(bs) == FlattenSeq([k \in DOMAIN bs |-> bs[k].items])

\* What the function has put out was read, in order, or is on the way: in the buffer of the
\* reader, in wait_ or in the buffer of the function, which an exception leaves behind.
InOrder == read \o Unread \o All(filled) \o v_th.items = [k \in 1 .. made |-> k]

\* There are two buffers, however often they change hands: none is lost, by a farewell
\* either, and none is at two places.
BuffersOwned ==
    LET Real(bs) == Cardinality({k \in DOMAIN bs : bs[k].capacity = Size})
    IN Real(free) + Real(filled) + Real(<<v_th>>) + Real(<<vec>>) = 2

\* Neither side sleeps beside a buffer.
NoLostWakeup ==
    /\ Producer \in parked => free = <<>>
    /\ Consumer \in parked => filled = <<>>

\* The reader that meets the end has read all the function has put out, but for what an
\* exception has left in the buffer; and the thread is over, also when the reader stops before.
EndIsTheEnd ==
    /\ cpc \in {"over", "gone"} => ppc = "done"
    /\ cpc = "over" => read \o v_th.items = [k \in 1 .. made |-> k] /\ (~threw => v_th.items = <<>>)

\* The reader comes to an end, and the destructor of its iterator returns: also when it
\* stops in the middle, with the thread waiting for a buffer.
ReaderReturns == <>(cpc = "gone")
=============================================================================
