-------------------------------- MODULE MLog --------------------------------
(***************************************************************************)
(* c7mlog: a log in a mapped file.  Threads of several processes reserve a *)
(* record in a ring with one compare-and-swap and fill it afterwards, word *)
(* by word, without a lock.  A reader loads the file and walks back from   *)
(* nextaddr: the last word of each record is its size.  A word is a number *)
(* here, with the put that wrote it; a record has a head (size, order, the *)
(* complement of order), data, and its size again.  The time stamp is kept *)
(* with the order.                                                         *)
(***************************************************************************)
EXTENDS Integers, Sequences, FiniteSets, SequencesExt

CONSTANTS
    Writers,   \* threads that put
    Parts,     \* partitions: a level is put into the ring of its part
    Size,      \* size_ of a ring, in words
    Lengths,   \* lengths of records, in words
    MayCrash,  \* a writer may die in the middle of a put
    MaxClear,  \* bound: calls of mlog_clear and attachments of another process
    MaxPut     \* bound: puts

HeadLen == 3  \* words of a record head
Spare   == 1  \* put refuses a record that does not leave that much of the ring
Word    == 256 \* raddr_t is an unsigned number below this

MLogAssumption ==
    /\ Size \in Nat /\ Parts # {} /\ Lengths \subseteq {l \in Nat : l > HeadLen}
    /\ Size < Word /\ MaxPut < Word /\ MaxPut \in Nat /\ MaxClear \in Nat /\ MayCrash \in BOOLEAN

VARIABLES
    nextaddr,  \* nextaddr[p]
    ring,      \* ring[p][k]: a word [val, time, by]
    cnt,       \* hdr_->cnt
    log_beg,   \* hdr_->log_beg
    clock,     \* the time; it is later with each call
    w,         \* w[t]: the put that writer t is in
    clears,    \* how many times the log was cleared
    reserved,  \* history: the records reserved in part p since it was reset, with their places
    total,     \* history: the words reserved in part p
    overlap,   \* history: two puts were at work at the same time
    disturbed  \* history: a record was reserved over one that is still written, or the log was
               \* cleared during a put

vars == <<nextaddr, ring, cnt, log_beg, clock, w, clears, reserved, total, overlap, disturbed>>

Idle  == [pc |-> "idle"]
Zero  == [val |-> 0, time |-> 0, by |-> 0]
Reset == [[k \in 0 .. Size - 1 |-> Zero] EXCEPT ![0] = Zero]

\* A new file: setup_context has cleared it, and clear has put one word of 0 into each ring.
Init ==
    /\ nextaddr = [p \in Parts |-> 1]
    /\ ring = [p \in Parts |-> Reset]
    /\ cnt = 0 /\ log_beg = 0 /\ clock = 1
    /\ w = [t \in Writers |-> Idle]
    /\ clears = 0
    /\ reserved = [p \in Parts |-> <<>>]
    /\ total = [p \in Parts |-> 1]
    /\ overlap = FALSE /\ disturbed = FALSE

Busy    == {t \in Writers : w[t].pc \notin {"idle", "dead"}}
Puts    == clock - 1 - clears

\* The records of part p that nothing was reserved over yet.
Kept(p) == SelectSeq(reserved[p], LAMBDA r : r.from >= total[p] - Size)
-----------------------------------------------------------------------------
(* mlog_writer                                                             *)

\* The time is taken, and the head built.
put(t, p, n) ==
    /\ w[t] = Idle /\ Puts < MaxPut
    /\ n + Spare <= Size      \* else false
    /\ w' = [w EXCEPT ![t] = [pc |-> "reserve", part |-> p, size |-> n, time |-> clock]]
    /\ clock' = clock + 1
    /\ overlap' = (overlap \/ Busy # {})
    /\ UNCHANGED <<nextaddr, ring, cnt, log_beg, clears, reserved, total, disturbed>>

reserve_next(p, n) == (nextaddr[p] + n) % Size

\* The compare-and-swap that succeeds.
reserve(t) ==
    /\ w[t].pc = "reserve"
    /\ LET p == w[t].part
           to == total[p] + w[t].size
       IN /\ w' = [w EXCEPT ![t] = [pc |-> "order", part |-> p, size |-> @.size, time |-> @.time,
                                    addr |-> nextaddr[p]]]
          /\ nextaddr' = [nextaddr EXCEPT ![p] = reserve_next(p, w[t].size)]
          /\ reserved' = [reserved EXCEPT ![p] = Append(@, [id |-> w[t].time, size |-> w[t].size,
                                                            from |-> total[p], done |-> FALSE])]
          /\ total' = [total EXCEPT ![p] = to]
          /\ disturbed' = (disturbed \/ \E i \in DOMAIN reserved[p] :
                              /\ ~reserved[p][i].done /\ reserved[p][i].from < to - Size
                              /\ \E u \in Busy : w[u].time = reserved[p][i].id)
    /\ UNCHANGED <<ring, cnt, log_beg, clock, clears, overlap>>

order(t) ==
    /\ w[t].pc = "order"
    /\ cnt' = cnt + 1
    /\ w' = [w EXCEPT ![t] = [pc |-> "write", part |-> @.part, size |-> @.size, time |-> @.time,
                              addr |-> @.addr, order |-> cnt', pos |-> 0]]
    /\ UNCHANGED <<nextaddr, ring, log_beg, clock, clears, reserved, total, overlap, disturbed>>

\* The word at position k of the record of x.
RecordWord(x, k) ==
    CASE k = 0 \/ k = x.size - 1 -> x.size
      [] k = 1 -> x.order
      [] k = 2 -> Word - 1 - x.order
      [] OTHER -> HeadLen + 1  \* data, which may look like a size

place(x) == (x.addr + x.pos) % Size

Finished(t) ==
    /\ w' = [w EXCEPT ![t] = Idle]
    /\ reserved' = [reserved EXCEPT ![w[t].part] =
                      [i \in DOMAIN @ |-> [@[i] EXCEPT !.done = @ \/ reserved[w[t].part][i].id = w[t].time]]]

\* rbuf->put, word by word
write(t) ==
    /\ w[t].pc = "write"
    /\ ring' = [ring EXCEPT ![w[t].part][place(w[t])] =
                  [val |-> RecordWord(w[t], w[t].pos), time |-> w[t].time, by |-> w[t].time]]
    /\ IF w[t].pos + 1 = w[t].size
       THEN Finished(t)
       ELSE w' = [w EXCEPT ![t].pos = @ + 1] /\ UNCHANGED reserved
    /\ UNCHANGED <<nextaddr, cnt, log_beg, clock, clears, total, overlap, disturbed>>

crash(t) ==
    /\ MayCrash
    /\ t \in Busy
    /\ w' = [w EXCEPT ![t] = [pc |-> "dead"]]
    /\ UNCHANGED <<nextaddr, ring, cnt, log_beg, clock, clears, reserved, total, overlap, disturbed>>

\* mlog_clear, which another program calls
mlog_clear ==
    /\ clears < MaxClear
    /\ cnt' = 0 /\ log_beg' = clock
    /\ clears' = clears + 1 /\ clock' = clock + 1
    /\ disturbed' = (disturbed \/ Busy # {})
    /\ UNCHANGED <<nextaddr, ring, w, reserved, total, overlap>>

\* Another process opens the file: it clears a log without records, that is one for which cnt is 0.
setup_context ==
    /\ clears < MaxClear /\ cnt = 0 /\ \E p \in Parts : total[p] > 1
    /\ ring' = [p \in Parts |-> [ring[p] EXCEPT ![0] = Zero]]
    /\ nextaddr' = [p \in Parts |-> 1]
    /\ reserved' = [p \in Parts |-> <<>>]
    /\ total' = [p \in Parts |-> 1]
    /\ clears' = clears + 1 /\ clock' = clock + 1
    /\ disturbed' = (disturbed \/ Busy # {})
    /\ UNCHANGED <<cnt, log_beg, w, overlap>>

Next ==
    \/ \E t \in Writers :
         \/ \E p \in Parts, n \in Lengths : put(t, p, n)
         \/ reserve(t) \/ order(t) \/ write(t) \/ crash(t)
    \/ mlog_clear \/ setup_context

Spec == Init /\ [][Next]_vars
-----------------------------------------------------------------------------
(* mlog_reader, of a file that is loaded now.  Addresses are unsigned      *)
(* words.                                                                  *)

At(p, a) == ring[p][a % Size]
Minus(a, b) == (a + Word - b) % Word

\* One step back from recaddr a: where the record before it begins, or that there is none.
back(p, a) ==
    LET brkaddr == nextaddr[p] + Size
        size    == At(p, Minus(a, 1)).val
        from    == Minus(a, size)
    IN IF size = 0 \/ from < brkaddr
          \/ At(p, from).val # size
          \/ At(p, from + 1).val + At(p, from + 2).val # Word - 1
          \/ At(p, from + 1).time < log_beg
       THEN [ok |-> FALSE]
       ELSE [ok |-> TRUE, addr |-> from, size |-> size,
             time |-> At(p, from + 1).time, order |-> At(p, from + 1).val]

\* All records rec_reader::get gives out of part p, the last one first.
walk(p) ==
    LET step(found, k) ==
            IF Len(found) < k - 1 THEN found
            ELSE LET r == back(p, IF k = 1 THEN nextaddr[p] + 2 * Size ELSE found[k - 1].addr)
                 IN IF r.ok THEN Append(found, r @@ [part |-> p]) ELSE found
    IN FoldLeft(step, <<>>, [k \in 1 .. Size |-> k])

Newer(x, y) == x.time > y.time \/ (x.time = y.time /\ x.order > y.order)

\* prescan: what is chosen, the newest first, merged from the parts; maxcount of them at most
prescan(maxcount, choice) ==
    LET chosen == [p \in Parts |-> SelectSeq(walk(p), LAMBDA x : x.size \in choice)]
        all == FoldSet(LAMBDA p, n : n + Len(chosen[p]), 0, Parts)
        heads(pos) == {chosen[p][pos[p] + 1] : p \in {q \in Parts : pos[q] < Len(chosen[q])}}
        merge(m, k) ==
            LET top == CHOOSE x \in heads(m.pos) : \A y \in heads(m.pos) : x = y \/ ~Newer(y, x)
            IN [pos |-> [m.pos EXCEPT ![top.part] = @ + 1], recs |-> Append(m.recs, top)]
        count == Min({maxcount, all})
    IN FoldLeft(merge, [pos |-> [p \in Parts |-> 0], recs |-> <<>>], [k \in 1 .. count |-> k]).recs

\* scan: what is given to the caller's access, the oldest first
scan(maxcount, choice) == Reverse(prescan(Min({maxcount, cnt}), choice))

\* The puts whose words a reader finds in record x.
Authors(x) == {At(x.part, x.addr + k).by : k \in 0 .. x.size - 1}
-----------------------------------------------------------------------------
(* Properties                                                              *)

TypeOK ==
    /\ nextaddr \in [Parts -> 0 .. Size - 1]
    /\ ring \in [Parts -> [0 .. Size - 1 -> [val : 0 .. Word - 1, time : 0 .. clock, by : 0 .. clock]]]
    /\ cnt \in 0 .. MaxPut /\ log_beg \in 0 .. clock /\ clears \in 0 .. MaxClear
    /\ w \in [Writers -> UNION {{Idle, [pc |-> "dead"]},
                [pc : {"reserve"}, part : Parts, size : Lengths, time : 1 .. clock],
                [pc : {"order"}, part : Parts, size : Lengths, time : 1 .. clock, addr : 0 .. Size - 1],
                [pc : {"write"}, part : Parts, size : Lengths, time : 1 .. clock, addr : 0 .. Size - 1,
                 order : 1 .. MaxPut, pos : 0 .. Size - 1]}]

\* No record of part p is unfinished, of those the ring holds.
AllDone(p) == \A i \in DOMAIN Kept(p) : Kept(p)[i].done

\* The records of part p after the last one that is not finished, as far as the ring holds
\* them and since the log was cleared.
Newest(p) ==
    LET open == {i \in DOMAIN Kept(p) : ~Kept(p)[i].done}
        from == IF open = {} THEN 0 ELSE CHOOSE i \in open : \A j \in open : j <= i
    IN SelectSeq(SubSeq(Kept(p), from + 1, Len(Kept(p))), LAMBDA r : r.id >= log_beg)

\* What a reader gets is whole, each record written by one put, and is in the ring since the
\* log was cleared; only what is not newer than a put that is not finished may be otherwise,
\* as long as that one lies in the ring.
RecordsAreWhole ==
    ~disturbed =>
        \A p \in Parts :
            LET newest == Newest(p)
                found == walk(p)
            IN /\ \A k \in DOMAIN found \cap DOMAIN newest : Authors(found[k]) = {newest[Len(newest) + 1 - k].id}
               /\ AllDone(p) => Len(found) <= Len(newest)

\* A reader gets the newest records: of each part those after the last unfinished one, all of
\* them, the last one first, whatever lies before: an unfinished record hides only older ones.
NewestAreRead ==
    ~disturbed =>
        \A p \in Parts :
            LET found == walk(p)
                newest == Newest(p)
            IN /\ Len(found) >= Len(newest)
               /\ \A k \in DOMAIN newest : found[k].time = newest[Len(newest) + 1 - k].id

\* Parts are merged by time: of puts that were never at work at the same time, a reader gets
\* the last ones that it has chosen and that the rings hold, in the order of the puts.
MergedByTime ==
    (~disturbed /\ ~overlap /\ \A p \in Parts : \A i \in DOMAIN reserved[p] : reserved[p][i].done) =>
        \A choice \in SUBSET Lengths, n \in 1 .. MaxPut :
            LET recs == scan(n, choice)
                held == UNION {ToSet(SelectSeq(Newest(p), LAMBDA r : r.size \in choice)) : p \in Parts}
                want == {r.id : r \in held}
                last == {a \in want : Cardinality({b \in want : b > a}) < n}
            IN /\ {recs[i].time : i \in DOMAIN recs} = last
               /\ \A i \in 1 .. Len(recs) - 1 : recs[i].time < recs[i + 1].time
=============================================================================
