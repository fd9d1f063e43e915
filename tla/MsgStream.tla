----------------------------- MODULE MsgStream -----------------------------
(***************************************************************************)
(* Messages of several parts on stream sockets: multipart_msgbuf over      *)
(* fd::write_v and fd::read_n.  Threads of one process send through a      *)
(* shared_port, whose lock they hold for a message, or to all ports of a   *)
(* group; a receiver at the other end of each port reads header and parts  *)
(* piece by piece into the storage of its message buffer, and its service  *)
(* may keep a message, by moving it or by copying it, before the buffer is *)
(* used again.  A byte is a cell <<message, part, number>>; part 0 is the  *)
(* internal_header, which tells the sizes of the parts.                    *)
(***************************************************************************)
EXTENDS Integers, Sequences, FiniteSets, SequencesExt

CONSTANTS
    Ports,       \* the ports of the sending process
    Senders,     \* its threads
    Casters,     \* those of them that send to the group; at most one, for the errors are shared
    Sizes,       \* Sizes[m]: the sizes of the parts of message m
    HeadLen,     \* sizeof(internal_header)
    Room,        \* what the buffers of a socket hold
    PartAlign,   \* part_align_
    WholeAlign,  \* whole_align_
    MayTimeOut,  \* reads and writes may end with EWOULDBLOCK
    MayClose     \* ports that the sending process may close at any time

MsgStreamAssumption ==
    /\ Casters \subseteq Senders /\ Cardinality(Casters) <= 1 /\ MayClose \subseteq Ports
    /\ \A m \in DOMAIN Sizes : Sizes[m] \in Seq(Nat) /\ Len(Sizes[m]) = Len(Sizes[1])
    /\ {HeadLen, Room, PartAlign, WholeAlign} \subseteq Nat \ {0} /\ MayTimeOut \in BOOLEAN

VARIABLES
    next,      \* the next message
    snd,       \* snd[t]: where thread t is, what it sends, where to, and the iovec that is left
    io_mutex,  \* io_mutex[p]: the thread that has the lock of the port
    net,       \* net[p]: the cells in the socket
    open,      \* the ports that the sending process has not closed
    group,     \* the ports in the portgroup
    errs,      \* errs_ of the portgroup
    rcv,       \* rcv[p]: where the receiver is in recv
    buf,       \* buf[p]: its message buffer, and the one of the service
    heap,      \* heap[p]: the blocks of memory of its storages
    sent, got, kept, wrote, told  \* history

sides   == <<rcv, buf, heap, got, kept>>
msgVars == <<next, snd, io_mutex, net, open, group, errs, sides, sent, wrote, told>>

Parts     == DOMAIN Sizes[1]
Nobody    == 0
Null      == <<0, 0>>
RoundUp(n, align) == ((n + align - 1) \div align) * align

PartOf(m, i) == [k \in 1 .. (IF i = 0 THEN HeadLen ELSE Sizes[m][i]) |-> <<m, i, k>>]
Whole(m)     == [i \in {0} \cup Parts |-> PartOf(m, i)]
Least(S)     == CHOOSE x \in S : \A y \in S : x <= y

Resting == [pc |-> "idle", m |-> 0, ports |-> <<>>, cast |-> {}, iov |-> <<>>]
Empty   == [sizes |-> [i \in Parts |-> 0], base |-> [i \in Parts |-> Null], store |-> 0]

MsgInit ==
    /\ next = 1
    /\ snd = [t \in Senders |-> Resting]
    /\ io_mutex = [p \in Ports |-> Nobody]
    /\ net = [p \in Ports |-> <<>>]
    /\ open = Ports /\ group = Ports /\ errs = {}
    /\ rcv = [p \in Ports |-> [pc |-> "idle", head |-> <<>>, part |-> 0, done |-> 0]]
    /\ buf = [p \in Ports |-> [b \in {"in", "kept"} |-> Empty]]
    /\ heap = [p \in Ports |-> [a \in 1 .. 3 |-> <<>>]]
    /\ sent = [p \in Ports |-> <<>>] /\ got = [p \in Ports |-> <<>>]
    /\ kept = [p \in Ports |-> 0] /\ wrote = [p \in Ports |-> {}]
    /\ told = [m |-> 0, ports |-> {}, errs |-> {}]
-----------------------------------------------------------------------------
(* The senders                                                             *)

\* send(port), or send(ports): the errors are cleared, and the ports that are in the group now are
\* copied under its lock.
send(t) ==
    /\ snd[t].pc = "idle" /\ next \in DOMAIN Sizes
    /\ next' = next + 1
    /\ \/ /\ t \in Casters
          /\ snd' = [snd EXCEPT ![t] = [pc |-> "next", m |-> next, ports |-> SetToSeq(group),
                                        cast |-> group, iov |-> <<>>]]
          /\ errs' = {}
       \/ /\ t \notin Casters
          /\ \E p \in Ports : snd' = [snd EXCEPT ![t] = [pc |-> "next", m |-> next, ports |-> <<p>>,
                                                         cast |-> {}, iov |-> <<>>]]
          /\ UNCHANGED errs
    /\ UNCHANGED <<io_mutex, net, open, group, sides, sent, wrote, told>>

\* send(port): the header and the parts in an iovec, and the lock of the port.
lock(t) ==
    LET p == snd[t].ports[1]
    IN /\ snd[t].pc = "next" /\ snd[t].ports # <<>>
       /\ io_mutex[p] = Nobody
       /\ io_mutex' = [io_mutex EXCEPT ![p] = t]
       /\ snd' = [snd EXCEPT ![t].pc = "write",
                             ![t].iov = [k \in 1 .. Len(Sizes[1]) + 1 |-> PartOf(snd[t].m, k - 1)]]
       /\ sent' = [sent EXCEPT ![p] = Append(@, snd[t].m)]
       /\ UNCHANGED <<next, net, open, group, errs, sides, wrote, told>>

\* The iovec after z bytes: entries that are done, or were empty, are passed, the next one is cut.
Bytes(iov, n) == Len(FlattenSeq(SubSeq(iov, 1, n)))
Passed(iov, z) == Max({n \in 0 .. Len(iov) : Bytes(iov, n) <= z})

Advance_uncut(iov, z) ==      \* mutant: the entry that was written in part is written again
    SubSeq(iov, Passed(iov, z) + 1, Len(iov))

Advance(iov, z) ==
    LET n == Passed(iov, z)
    IN [k \in 1 .. Len(iov) - n |->
          IF k = 1 THEN SubSeq(iov[n + 1], z - Bytes(iov, n) + 1, Len(iov[n + 1])) ELSE iov[n + k]]

\* The write to the port is over; port.close() is what a user does after an error.
Return(t, fails) ==
    LET p == snd[t].ports[1]
    IN /\ io_mutex' = [io_mutex EXCEPT ![p] = Nobody]
       /\ snd' = [snd EXCEPT ![t].pc = "next", ![t].ports = Tail(@), ![t].iov = <<>>]
       /\ IF fails
          THEN /\ errs' = IF t \in Casters THEN errs \cup {p} ELSE errs
               /\ open' = open \ {p}
               /\ group' = group \ {p}
               /\ UNCHANGED wrote
          ELSE /\ wrote' = [wrote EXCEPT ![p] = @ \cup {snd[t].m}]
               /\ UNCHANGED <<open, group, errs>>

\* writev takes as much as there is room for.
write_v(t) ==
    LET p == snd[t].ports[1]
        all == FlattenSeq(snd[t].iov)
    IN /\ snd[t].pc = "write" /\ p \in open /\ rcv[p].pc # "closed"
       /\ \E z \in 1 .. Least({Len(all), Room - Len(net[p])}) :
            /\ net' = [net EXCEPT ![p] = @ \o SubSeq(all, 1, z)]
            /\ LET left == Advance(snd[t].iov, z)
               IN IF left = <<>> THEN Return(t, FALSE)
                  ELSE /\ snd' = [snd EXCEPT ![t].iov = left]
                       /\ UNCHANGED <<io_mutex, open, group, errs, wrote>>
       /\ UNCHANGED <<next, sides, sent, told>>

\* EBADF, EPIPE, or EWOULDBLOCK when there is no room for some time.
write_fails(t) ==
    LET p == snd[t].ports[1]
    IN /\ snd[t].pc = "write"
       /\ p \notin open \/ rcv[p].pc = "closed" \/ (MayTimeOut /\ Len(net[p]) = Room)
       /\ Return(t, TRUE)
       /\ UNCHANGED <<next, net, sides, sent, told>>

\* The message went to all its ports; a group tells the errors.
send_return(t) ==
    /\ snd[t].pc = "next" /\ snd[t].ports = <<>>
    /\ snd' = [snd EXCEPT ![t] = Resting]
    /\ told' = IF t \in Casters THEN [m |-> snd[t].m, ports |-> snd[t].cast, errs |-> errs] ELSE told
    /\ UNCHANGED <<next, io_mutex, net, open, group, errs, sides, sent, wrote>>

\* The sending process closes a port nobody sends to; on_close takes it out of the group.
close(p) ==
    /\ p \in MayClose \cap open /\ io_mutex[p] = Nobody
    /\ open' = open \ {p}
    /\ group' = group \ {p}
    /\ UNCHANGED <<next, snd, io_mutex, net, errs, sides, sent, wrote, told>>
-----------------------------------------------------------------------------
(* Storage and message buffers of a receiver                               *)

Offset(sizes, i) == FoldLeft(LAMBDA sum, j : sum + RoundUp(sizes[j], PartAlign), 0, [j \in 1 .. i - 1 |-> j])

\* storage::reserve: realloc may move the block, and here it does.
reserve(mem, store, req) ==
    LET size == RoundUp(req, WholeAlign)
        new  == Least({a \in DOMAIN mem : mem[a] = <<>>})
        old  == IF store = 0 THEN <<>> ELSE mem[store]
    IN IF Len(old) >= size THEN [mem |-> mem, store |-> store]
       ELSE [mem |-> [a \in DOMAIN mem |->
                        IF a = new THEN old \o [k \in 1 .. size - Len(old) |-> Null]
                        ELSE IF a = store THEN <<>> ELSE mem[a]],
             store |-> new]

\* Buffer b gets parts of these sizes, without their contents.
setup_iov_base(mem, b, sizes) ==
    LET r == reserve(mem, b.store, Offset(sizes, Len(sizes) + 1))
    IN [mem |-> r.mem,
        buf |-> [sizes |-> sizes, store |-> r.store,
                 base |-> [i \in Parts |-> IF sizes[i] > 0 THEN <<r.store, Offset(sizes, i)>> ELSE Null]]]

Part(mem, b, i) ==
    IF b.sizes[i] = 0 THEN <<>>
    ELSE SubSeq(mem[b.base[i][1]], b.base[i][2] + 1, b.base[i][2] + b.sizes[i])
-----------------------------------------------------------------------------
(* The receiver                                                            *)

NextPart(p, sizes) == {i \in Parts : i > rcv[p].part /\ sizes[i] > 0}

\* The read_n of one piece is over: the next part that is not empty, or the message is there.
GoOn(p, head, sizes) ==
    LET more == NextPart(p, sizes)
    IN rcv' = [rcv EXCEPT ![p] = IF more # {} THEN [pc |-> "parts", head |-> head, part |-> Least(more), done |-> 0]
                                 ELSE [pc |-> "message", head |-> head, part |-> 0, done |-> 0]]

\* on_event, and read of what is there of the header.
read_head(p) ==
    /\ rcv[p].pc \in {"idle", "head"}
    /\ \E z \in 1 .. Least({Len(net[p]), HeadLen - rcv[p].done}) :
         LET head == rcv[p].head \o SubSeq(net[p], 1, z)
         IN /\ net' = [net EXCEPT ![p] = SubSeq(@, z + 1, Len(@))]
            /\ IF Len(head) < HeadLen
               THEN /\ rcv' = [rcv EXCEPT ![p] = [pc |-> "head", head |-> head, part |-> 0, done |-> Len(head)]]
                    /\ UNCHANGED <<buf, heap>>
               ELSE LET sizes == Sizes[Last(head)[1]]
                        s == setup_iov_base(heap[p], buf[p]["in"], sizes)
                    IN /\ buf' = [buf EXCEPT ![p]["in"] = s.buf]
                       /\ heap' = [heap EXCEPT ![p] = s.mem]
                       /\ GoOn(p, head, sizes)
    /\ UNCHANGED <<next, snd, io_mutex, open, group, errs, sent, wrote, told, got, kept>>

read_part(p) ==
    LET b == buf[p]["in"]
        i == rcv[p].part
        at == b.base[i]
        done == rcv[p].done
    IN /\ rcv[p].pc = "parts"
       /\ \E z \in 1 .. Least({Len(net[p]), b.sizes[i] - done}) :
            /\ net' = [net EXCEPT ![p] = SubSeq(@, z + 1, Len(@))]
            /\ heap' = [heap EXCEPT ![p][at[1]] = [k \in DOMAIN @ |->
                          IF k - at[2] - done \in 1 .. z THEN net[p][k - at[2] - done] ELSE @[k]]]
            /\ IF done + z = b.sizes[i] THEN GoOn(p, rcv[p].head, b.sizes)
               ELSE rcv' = [rcv EXCEPT ![p].done = @ + z]
       /\ UNCHANGED <<next, snd, io_mutex, open, group, errs, sent, wrote, told, buf, got, kept>>

\* The end of the stream (CLOSED or INCOMP), or nothing comes (BUSY): the service hears of it, and
\* the port is closed.
read_fails(p) ==
    /\ rcv[p].pc \in {"idle", "head", "parts"} /\ net[p] = <<>>
    /\ p \notin open \/ (MayTimeOut /\ rcv[p].pc # "idle")
    /\ rcv' = [rcv EXCEPT ![p].pc = "closed"]
    /\ UNCHANGED <<next, snd, io_mutex, net, open, group, errs, sent, wrote, told, buf, heap, got, kept>>

\* operator=(multipart_msgbuf&&): b gets parts and storage of in, its own storage is freed.
move(mem, b, in) == [mem |-> IF b.store = 0 THEN mem ELSE [mem EXCEPT ![b.store] = <<>>], buf |-> in]

\* deep_copy_from: the parts have new places in the storage of b.
copy_contents(mem, b, in) ==
    LET s == setup_iov_base(mem, b, in.sizes)
        Is(k, i) == k - s.buf.base[i][2] \in 1 .. in.sizes[i]
        Cell(k) == IF \E i \in Parts : Is(k, i)
                   THEN LET i == CHOOSE j \in Parts : Is(k, j) IN Part(mem, in, i)[k - s.buf.base[i][2]]
                   ELSE s.mem[s.buf.store][k]
    IN [mem |-> [a \in DOMAIN mem |-> IF a = s.buf.store THEN [k \in DOMAIN s.mem[a] |-> Cell(k)]
                                     ELSE s.mem[a]],
        buf |-> s.buf]

\* on_message: the service keeps nothing, takes the message, or a copy of it.
on_message(p) ==
    LET in == buf[p]["in"]
        taken  == move(heap[p], buf[p]["kept"], in)
        copied == copy_contents(heap[p], buf[p]["kept"], in)
        message == [i \in {0} \cup Parts |-> IF i = 0 THEN rcv[p].head ELSE Part(heap[p], in, i)]
    IN /\ rcv[p].pc = "message"
       /\ rcv' = [rcv EXCEPT ![p] = [pc |-> "idle", head |-> <<>>, part |-> 0, done |-> 0]]
       /\ got' = [got EXCEPT ![p] = Append(@, message)]
       /\ \/ UNCHANGED <<buf, heap, kept>>
          \/ /\ buf' = [buf EXCEPT ![p] = [b \in {"in", "kept"} |-> IF b = "in" THEN Empty ELSE taken.buf]]
             /\ heap' = [heap EXCEPT ![p] = taken.mem]
             /\ kept' = [kept EXCEPT ![p] = Len(got[p]) + 1]
          \/ /\ buf' = [buf EXCEPT ![p]["kept"] = copied.buf]
             /\ heap' = [heap EXCEPT ![p] = copied.mem]
             /\ kept' = [kept EXCEPT ![p] = Len(got[p]) + 1]
    /\ UNCHANGED <<next, snd, io_mutex, net, open, group, errs, sent, wrote, told>>
-----------------------------------------------------------------------------
SenderRuns(t)   == lock(t) \/ write_v(t) \/ write_fails(t) \/ send_return(t)
ReceiverRuns(p) == read_head(p) \/ read_part(p) \/ read_fails(p) \/ on_message(p)

MsgNext ==
    \/ \E t \in Senders : send(t) \/ SenderRuns(t)
    \/ \E p \in Ports : close(p) \/ ReceiverRuns(p)
-----------------------------------------------------------------------------
\* What a service gets are the messages that were sent to its port, whole and in the order in which
\* the senders had the lock: however the reads and writes are cut, whoever closes, times out or
\* fails in the middle of a message.
WholeInOrder ==
    \A p \in Ports : /\ Len(got[p]) <= Len(sent[p])
                     /\ \A k \in DOMAIN got[p] : got[p][k] = Whole(sent[p][k])

\* A message that a service has kept stays what it was while the buffer of the receiver is used
\* again; and what the two buffers use is allocated, to one of them.
KeptIsIntact ==
    \A p \in Ports :
      LET in == buf[p]["in"]
          mine == buf[p]["kept"]
      IN /\ kept[p] > 0 => \A i \in Parts : Part(heap[p], mine, i) = got[p][kept[p]][i]
         /\ in.store = 0 \/ in.store # mine.store
         /\ \A b \in {in, mine} : b.store # 0 => heap[p][b.store] # <<>>
         /\ \A a \in DOMAIN heap[p] : heap[p][a] # <<>> => a \in {in.store, mine.store}

\* After a send to a group its errors are the ports that did not get all of the message.
ErrorsAreTold == told.errs = {p \in told.ports : told.m \notin wrote[p]}

\* Where nobody closes and nothing times out every message that is sent arrives, and send returns.
AllArrive ==
    /\ \A p \in Ports : []<>(Len(got[p]) = Len(sent[p]))
    /\ \A t \in Senders : []<>(snd[t].pc = "idle")
=============================================================================
