-------------------------------- MODULE NSeq --------------------------------
(***************************************************************************)
(* What an adapter of c7nseq sees of the sequence below it is the          *)
(* positions 0 .. Len(u) of an iterator over the items u, the last one     *)
(* being its end. Reading or leaving the end of u is undefined.  An        *)
(* adapter that yields its items in order, meets its end after the last    *)
(* one and never leaves u is such an iterator again, so adapters may be    *)
(* piped.                                                                  *)
(*                                                                         *)
(* Then the ends of a pipe: a loop over the sequence that puts each item   *)
(* into a container, one operator per loop body: the container c after the *)
(* item a.                                                                 *)
(*                                                                         *)
(* And the adapters that hand out the iterator of a random access          *)
(* sequence, moved or wrapped: head, skip_head, tail, drop_tail, slice,    *)
(* transform, enumerate, reverse, range, c_array, sort.  A view is a       *)
(* record with the adapter op, its parameters and the sequence u below it; *)
(* rev says that it is walked from rbegin to rend, that is over            *)
(* Reverse(u).  An iterator it is the position in what is below, the index *)
(* i is enumerate's.                                                       *)
(***************************************************************************)
EXTENDS Integers, Sequences, SequencesExt, FiniteSets, FiniteSetsExt

CONSTANT Undef  \* what reading outside of a sequence gives, or an item that was moved away

\* *it at position p
At(u, p) == IF p \in 0 .. Len(u) - 1 THEN u[p + 1] ELSE Undef

\* p == end(u)
Ends(u, p) == p = Len(u)

\* The items from position p up to, not including, position q.
Between(u, p, q) == SubSeq(u, p + 1, q)
-----------------------------------------------------------------------------
\* to_vector and to_list: in order; so does push_back
to_vector(c, a) == Append(c, a)

\* push_front: backwards
push_front(c, a) == <<a>> \o c

\* to_set and insert: the first of equal items stays
insert(c, a) == c \cup {a}

\* to_map and insert_or_assign of (key, value): the last value of a key stays
insert_or_assign(c, k, a) == [x \in DOMAIN c \cup {k} |-> IF x = k THEN a ELSE c[x]]

\* accumulate without an initial value (c = <<>> until the first item), with one
accumulate_without(op, c, a) == IF c = <<>> THEN <<a>> ELSE <<op[c[1], a]>>
accumulate_inplace(op, c, a) == op[c, a]
-----------------------------------------------------------------------------

Smaller(a, b) == IF a < b THEN a ELSE b

\* What the view is laid over, in the direction it is walked.
Below(v) == IF v.rev THEN Reverse(v.u) ELSE v.u

\* size() of each adapter
head_size(v)  == IF Len(v.u) < v.n THEN Len(v.u) ELSE v.n
skip_size(v)  == IF Len(v.u) < v.n THEN 0 ELSE Len(v.u) - v.n
slice_size(v) == Smaller((Len(v.u) - v.off + v.gap - 1) \div v.gap, v.n)

\* begin and end, or rbegin and rend, as positions in Below(v)
head_begin(v) == IF v.rev /\ Len(v.u) > v.n THEN Len(v.u) - v.n ELSE 0
head_end(v)   == IF v.rev THEN Len(v.u) ELSE head_size(v)

skip_head_begin(v) == IF v.rev THEN 0 ELSE Smaller(Len(v.u), v.n)
skip_head_end(v)   == IF v.rev THEN skip_size(v) ELSE Len(v.u)

tail_begin(v) == IF ~v.rev /\ Len(v.u) > v.n THEN Len(v.u) - v.n ELSE 0
tail_end(v)   == IF v.rev THEN Smaller(Len(v.u), v.n) ELSE Len(v.u)

drop_tail_end(v) == Len(v.u) - Smaller(v.n, Len(v.u))

slice_begin(v) == v.off
slice_end(v)   == v.off + slice_size(v) * v.gap
slice_rbegin(v) ==
    LET last == v.off + (slice_size(v) - 1) * v.gap IN Len(v.u) - 1 - last
slice_rend(v) == Len(v.u) - 1 - v.off + v.gap

\* operator++, += n and operator* of slice_ra_iter, transform_iter, enumerate_iter,
\* range_proxy_iter and reverse_iter, and of the plain iterator that the others hand out
slice_plus(v, x, n)     == [x EXCEPT !.it = @ + n * v.gap]
transform_plus(v, x, n) == [x EXCEPT !.it = @ + n]
enumerate_plus(v, x, n) == [x EXCEPT !.it = @ + n, !.i = @ + n * x.step]
reverse_plus(v, x, n)   == [x EXCEPT !.it = @ + n]
proxy_plus(v, x, n)     == [x EXCEPT !.it = @ + n]
range_plus(v, x, n)     == [x EXCEPT !.it = @ + n]

transform_value(v, x) == LET a == At(Below(v), x.it) IN IF a = Undef THEN a ELSE v.f[a]
enumerate_value(v, x) == <<x.i, At(Below(v), x.it)>>
range_value(v, x)     == (IF v.rev THEN v.beg + v.step * (v.n - 1) ELSE v.beg)
                            + (IF v.rev THEN -v.step ELSE v.step) * x.it

enumerate_begin(v) ==
    IF v.rev THEN [it |-> 0, i |-> v.beg + v.step * (Len(v.u) - 1), step |-> -v.step]
             ELSE [it |-> 0, i |-> v.beg, step |-> v.step]

\* mutant: the distance of what is below
slice_minus_raw(v, x, y) == x.it - y.it
slice_minus(v, x, y)     == (x.it - y.it) \div v.gap
transform_minus(v, x, y) == x.it - y.it
enumerate_minus(v, x, y) == (x.it - y.it) \div x.step
-----------------------------------------------------------------------------
(* The iterators as one: where a view begins and ends, how it goes on.     *)

ViewOps == {"head", "skip_head", "tail", "drop_tail", "slice", "transform", "enumerate",
            "reverse", "proxy", "range", "c_array", "sort"}

Plain(p) == [it |-> p, i |-> 0, step |-> 1]

view_begin(v) ==
    CASE v.op = "head" -> Plain(head_begin(v))
      [] v.op = "skip_head" -> Plain(skip_head_begin(v))
      [] v.op = "tail" -> Plain(tail_begin(v))
      [] v.op = "slice" -> Plain(IF v.rev THEN slice_rbegin(v) ELSE slice_begin(v))
      [] v.op = "enumerate" -> enumerate_begin(v)
      [] OTHER -> Plain(0)

view_end(v) ==
    CASE v.op = "head" -> head_end(v)
      [] v.op = "skip_head" -> skip_head_end(v)
      [] v.op = "tail" -> tail_end(v)
      [] v.op = "drop_tail" -> drop_tail_end(v)
      [] v.op = "slice" -> IF v.rev THEN slice_rend(v) ELSE slice_end(v)
      [] v.op = "range" -> v.n
      [] OTHER -> Len(v.u)

view_plus(v, x, n) ==
    CASE v.op = "slice" -> slice_plus(v, x, n)
      [] v.op = "transform" -> transform_plus(v, x, n)
      [] v.op = "enumerate" -> enumerate_plus(v, x, n)
      [] v.op = "reverse" -> reverse_plus(v, x, n)
      [] v.op = "range" -> range_plus(v, x, n)
      [] OTHER -> proxy_plus(v, x, n)

\* reverse_seq begins at rbegin of what is below it, sort_seq at the sorted items.
view_value(v, x) ==
    CASE v.op = "transform" -> transform_value(v, x)
      [] v.op = "enumerate" -> enumerate_value(v, x)
      [] v.op = "range" -> range_value(v, x)
      [] v.op = "reverse" -> At(Reverse(Below(v)), x.it)
      [] v.op = "sort" -> At(SortSeq(v.u, <), x.it)
      [] OTHER -> At(Below(v), x.it)

view_minus(v, x, y) ==
    CASE v.op = "slice" -> slice_minus(v, x, y)
      [] v.op = "enumerate" -> enumerate_minus(v, x, y)
      [] OTHER -> transform_minus(v, x, y)

view_size(v) ==
    CASE v.op \in {"head", "tail"} -> head_size(v)
      [] v.op \in {"skip_head", "drop_tail"} -> skip_size(v)
      [] v.op = "slice" -> slice_size(v)
      [] v.op = "range" -> v.n
      [] OTHER -> Len(v.u)
-----------------------------------------------------------------------------
(***************************************************************************)
(* The adapters of c7nseq with an input iterator of their own, over an     *)
(* underlying sequence that need not be random access.  Of each: the       *)
(* iterator that begin() makes, operator++, the comparison with the end,   *)
(* operator*. A view is a record with the adapter op, its parameters and   *)
(* the sequence u below it (chain and zip have a second one, w).           *)
(***************************************************************************)
\* --- head and skip_head
head_iter(v) == [it |-> 0, n |-> IF v.u = <<>> THEN 0 ELSE v.n]
head_next(v, x) ==
    CASE x.n > 0 /\ ~Ends(v.u, x.it) -> [it |-> x.it + 1, n |-> x.n - 1]
      [] OTHER -> [x EXCEPT !.n = 0]
head_ended(v, x) == x.n = 0

skip_head_iter(v) == [it |-> IF v.n < Len(v.u) THEN v.n ELSE Len(v.u)]
skip_head_next(v, x) == IF Ends(v.u, x.it) THEN x ELSE [it |-> x.it + 1]

\* --- tail reads everything into a ring of n items; drop_tail stays n items behind
tail_iter(v) ==
    LET written(k) == {j \in 0 .. Len(v.u) - 1 : j % v.n = k}
    IN [rbuf |-> [k \in 0 .. v.n - 1 |-> IF written(k) = {} THEN Undef ELSE At(v.u, Max(written(k)))],
        lim  |-> Len(v.u),
        idx  |-> IF Len(v.u) <= v.n THEN 0 ELSE Len(v.u) - v.n]
tail_next(v, x)  == IF x.idx < x.lim THEN [x EXCEPT !.idx = @ + 1] ELSE x
tail_ended(v, x) == x.idx = x.lim
tail_value(v, x) == x.rbuf[x.idx % v.n]

drop_tail_iter(v) ==
    LET held == IF v.n < Len(v.u) THEN v.n ELSE Len(v.u)
    IN [it |-> held, i |-> 0, hold |-> Between(v.u, 0, held)]
\* mutant: the place of the oldest item stays the first one
drop_tail_next_first(v, x) ==
    IF Ends(v.u, x.it) THEN x
    ELSE [it |-> x.it + 1, i |-> x.i, hold |-> [x.hold EXCEPT ![x.i + 1] = At(v.u, x.it)]]
drop_tail_next(v, x) ==
    IF Ends(v.u, x.it) THEN x
    ELSE [it |-> x.it + 1, i |-> (x.i + 1) % Len(x.hold), hold |-> [x.hold EXCEPT ![x.i + 1] = At(v.u, x.it)]]
drop_tail_value(v, x) == x.hold[x.i + 1]
\* Both move the items: this is what they leave of what is below, for who reads it next.
drop_tail_left(v, x) == [v EXCEPT !.u = [k \in DOMAIN v.u |-> IF k <= x.it THEN Undef ELSE v.u[k]]]

\* --- slice counts down max; it advances by gap, one at a time, to the end of u at most
slice_iter(v) == IF v.off > Len(v.u) THEN [it |-> Len(v.u), max |-> 0]
                 ELSE [it |-> v.off, max |-> v.n]
slice_next(v, x) ==
    CASE x.max <= 0 -> x
      [] x.max > 0 /\ x.it + v.gap > Len(v.u) -> [it |-> Len(v.u), max |-> 0]
      [] OTHER -> [it |-> x.it + v.gap, max |-> x.max - 1]
slice_ended(v, x) == x.max = 0

\* --- the predicates, with the state that skip_while and unique carry along: what the
\* predicate says of an item, and its state after that
pred_start(v) == IF v.op = "unique" THEN [next |-> FALSE, save |-> 0] ELSE [available |-> FALSE]
pred_keeps(v, s, a) ==
    CASE v.op = "filter" -> a \in v.pred
      [] v.op = "skip_while" -> s.available \/ a \notin v.pred
      [] v.op = "unique" -> s.next => s.save # a
pred_after(v, s, a) ==
    CASE v.op = "filter" -> s
      [] v.op = "skip_while" -> [available |-> s.available \/ a \notin v.pred]
      [] v.op = "unique" -> IF s.next THEN [s EXCEPT !.save = a] ELSE [s EXCEPT !.next = TRUE]

\* --- filter, from position p on, with the predicate in state s: the first item it keeps
filter_from(v, p, s) ==
    LET before[q \in p .. Len(v.u)] ==
            IF q = p THEN s ELSE pred_after(v, before[q - 1], At(v.u, q - 1))
        kept == {q \in p .. Len(v.u) - 1 : pred_keeps(v, before[q], At(v.u, q))}
        stop == Min(kept \cup {Len(v.u)})
    IN [it |-> stop,
        pred |-> IF Ends(v.u, stop) THEN before[stop] ELSE pred_after(v, before[stop], At(v.u, stop))]
filter_iter(v)    == filter_from(v, 0, pred_start(v))
filter_next(v, x) == IF Ends(v.u, x.it) THEN x ELSE filter_from(v, x.it + 1, x.pred)

\* --- trim: what reverse and skip_while leave becomes a string, which is reversed and
\* skipped again; v.pred are the spaces
trim_rest(v) ==
    LET back == [v EXCEPT !.op = "skip_while", !.u = Reverse(v.u)]
        walk[k \in 0 .. Len(v.u)] == IF k = 0 THEN filter_iter(back) ELSE filter_next(back, walk[k - 1])
        read == {k \in 0 .. Len(v.u) : ~Ends(back.u, walk[k].it)}
    IN [back EXCEPT !.u = Reverse([k \in 1 .. Cardinality(read) |-> At(back.u, walk[k - 1].it)])]

\* --- take_while
take_while_at(v, p) == [it |-> p, ended |-> Ends(v.u, p) \/ At(v.u, p) \notin v.pred]
take_while_next(v, x)  == IF x.ended THEN x ELSE take_while_at(v, x.it + 1)
take_while_ended(v, x) == x.ended

\* --- windows of n items: as a pair of iterators, or as a list
window_range_iter(v) == IF v.n > Len(v.u) THEN [it |-> Len(v.u), wb |-> Len(v.u)] ELSE [it |-> v.n, wb |-> 0]
window_range_next(v, x) == IF Ends(v.u, x.it) THEN [x EXCEPT !.wb = x.it]
                           ELSE [it |-> x.it + 1, wb |-> x.wb + 1]
window_range_value(v, x) == Between(v.u, x.wb, x.it)

window_list_iter(v) == IF v.n > Len(v.u) THEN [it |-> Len(v.u), window |-> <<>>]
                       ELSE [it |-> v.n, window |-> Between(v.u, 0, v.n)]
window_list_next(v, x) == IF Ends(v.u, x.it) THEN [x EXCEPT !.window = <<>>]
                          ELSE [it |-> x.it + 1, window |-> Append(Tail(x.window), At(v.u, x.it))]

\* --- groups of items that are equal to their first one (here: of the same class), as a
\* pair of iterators or as a vector; and the lines of split_lines, whose test remembers
\* the previous character
NewLine == 0
lines_eq(first, prev) == first # NewLine /\ prev # NewLine
group_stop(v, p, prev) ==
    LET same(q) == IF v.op = "split_lines"
                     THEN lines_eq(At(v.u, p), IF q = p + 1 THEN prev ELSE At(v.u, q - 1))
                     ELSE v.class[At(v.u, p)] = v.class[At(v.u, q)]
    IN Min({q \in p + 1 .. Len(v.u) - 1 : ~same(q)} \cup {Len(v.u)})
make_group_range(v, p) ==
    IF Ends(v.u, p) THEN [it |-> p, beg |-> p, end |-> p]
    ELSE LET q == group_stop(v, p, Undef) IN [it |-> q, beg |-> p, end |-> q]
make_group_vec(v, p, prev) ==
    IF Ends(v.u, p) THEN [it |-> p, group |-> <<>>, prev |-> prev]
    ELSE LET q == group_stop(v, p, prev)
             \* the last character the test was called with
             asked == IF Ends(v.u, q) /\ q = p + 1 THEN prev ELSE At(v.u, Min({q, Len(v.u) - 1}))
         IN [it |-> q, group |-> Between(v.u, p, q), prev |-> asked]

\* --- infix puts op(a, b) between neighbours
infix_iter(v) == [it |-> 0, state |-> "opr", infix |-> Undef]
infix_next(v, x) ==
    CASE x.state = "infix" -> [x EXCEPT !.state = "opr"]
      [] x.state = "opr" /\ Ends(v.u, x.it) -> x
      [] x.state = "opr" /\ ~Ends(v.u, x.it) ->
            IF Ends(v.u, x.it + 1) THEN [x EXCEPT !.it = @ + 1]
            ELSE [it |-> x.it + 1, state |-> "infix", infix |-> <<At(v.u, x.it), At(v.u, x.it + 1)>>]
infix_value(v, x) == IF x.state = "infix" THEN x.infix ELSE <<At(v.u, x.it)>>

\* --- chain of u and w, zip of u and w
chain_iter(v) == [it |-> 0, it2 |-> 0, which |-> 0]
chain_next(v, x) ==
    CASE ~Ends(v.u, x.it) -> [x EXCEPT !.it = @ + 1, !.which = IF Ends(v.u, x.it + 1) THEN 1 ELSE @]
      [] Ends(v.u, x.it) /\ ~Ends(v.w, x.it2) -> [x EXCEPT !.it2 = @ + 1]
      [] OTHER -> x
chain_ended(v, x) == Ends(v.w, x.it2)
chain_value(v, x) == IF x.which = 0 THEN At(v.u, x.it) ELSE At(v.w, x.it2)

zip_iter(v)     == [it |-> 0, it2 |-> 0]
zip_next(v, x)  == [it |-> x.it + 1, it2 |-> x.it2 + 1]
\* mutant: at the end when both are
zip_ended_both(v, x) == Ends(v.u, x.it) /\ Ends(v.w, x.it2)
zip_ended(v, x) == Ends(v.u, x.it) \/ Ends(v.w, x.it2)
zip_value(v, x) == <<At(v.u, x.it), At(v.w, x.it2)>>

\* --- a sequence behind a virtual interface (vseq): an iterator of u on the heap
vseq_iter(v)      == [it |-> 0]
vseq_next(v, x)   == [x EXCEPT !.it = @ + 1]
vseq_ended(v, x)  == Ends(v.u, x.it)
vseq_value(v, x)  == At(v.u, x.it)

\* --- the empty sequence is at its end, wherever one goes
empty_iter(v)     == [none |-> 0]
empty_next(v, x)  == x
empty_ended(v, x) == TRUE

\* --- u, n times over
repeat_iter(v) == [it |-> 0, n |-> v.n]
repeat_next(v, x) ==
    LET left == IF x.n > 0 THEN x.n - 1 ELSE 0
    IN CASE ~Ends(v.u, x.it + 1) -> [x EXCEPT !.it = @ + 1]
         [] Ends(v.u, x.it + 1) /\ left # 0 -> [it |-> 0, n |-> left]
         [] OTHER -> [it |-> x.it + 1, n |-> left]
repeat_ended(v, x) == x.n = 0 /\ Ends(v.u, x.it)
-----------------------------------------------------------------------------
(* base64 and URL encoding, and the sequences that a coroutine generates   *)
(* into a buffer (generator, flat, drop_tail_while, take_tail_while).      *)
(* Bytes and characters are their codes; a base64 character is its value,  *)
(* 0 .. 63, or Pad.                                                        *)

Pad == 64

\* --- base64enc: three bytes to four characters
base64enc_from(v, p) ==
    LET n == Min({3, Len(v.u) - p})
        b(k) == IF k < n THEN At(v.u, p + k) ELSE 0
        cbuf == <<b(0) \div 4, (b(0) % 4) * 16 + b(1) \div 16, (b(1) % 16) * 4 + b(2) \div 64, b(2) % 64>>
    IN IF n = 0 THEN [it |-> p, cbuf |-> <<>>, idx |-> -1]
       ELSE [it |-> p + n, idx |-> 0,
             cbuf |-> [k \in 1 .. 4 |-> IF k > n + 1 THEN Pad ELSE cbuf[k]]]
base64enc_next(v, x)  == IF x.idx + 1 = 4 THEN base64enc_from(v, x.it) ELSE [x EXCEPT !.idx = @ + 1]
base64_ended(v, x)    == x.idx = -1
base64enc_value(v, x) == x.cbuf[x.idx + 1]

\* --- base64dec: it stops advancing at the end of u, and still reads there
base64dec_from(v, p) ==
    LET step(q) == IF Ends(v.u, q) THEN q ELSE q + 1
        p2 == step(p + 1)
        p3 == step(p2)
        dec(q) == IF At(v.u, q) = Pad THEN 0 ELSE At(v.u, q)
        idx == CASE At(v.u, p2) = Pad -> 2
                 [] At(v.u, p2) # Pad /\ At(v.u, p3) = Pad -> 1
                 [] OTHER -> 0
        bytes == <<(dec(p) * 4 + dec(p + 1) \div 16) % 256,
                   ((dec(p + 1) % 16) * 16 + dec(p2) \div 4) % 256,
                   ((dec(p2) % 4) * 64 + dec(p3)) % 256>>
    IN IF Ends(v.u, p) THEN [it |-> p, ubuf |-> <<>>, idx |-> -1]
       ELSE [it |-> step(p3), idx |-> idx,
             ubuf |-> [k \in 1 .. 3 |-> IF k > idx THEN bytes[k - idx] ELSE Undef]]
base64dec_next(v, x)  == IF x.idx + 1 = 3 THEN base64dec_from(v, x.it) ELSE [x EXCEPT !.idx = @ + 1]
base64dec_value(v, x) == x.ubuf[x.idx + 1]

\* --- URL encoding: the characters that stay, and the others as %XX
Space == 32
Plus  == 43
Percent == 37
Unreserved == (48 .. 57) \cup (65 .. 90) \cup (97 .. 122) \cup {45, 95, 46, 126}
HexDigit(d) == IF d < 10 THEN 48 + d ELSE 55 + d

urlencode_from(v, p) ==
    LET c == At(v.u, p)
    IN CASE Ends(v.u, p) -> [it |-> p, cbuf |-> <<>>, idx |-> -1]
         [] ~Ends(v.u, p) /\ c \in Unreserved -> [it |-> p + 1, cbuf |-> <<Undef, Undef, c>>, idx |-> 2]
         [] ~Ends(v.u, p) /\ c = Space /\ v.body -> [it |-> p + 1, cbuf |-> <<Undef, Undef, Plus>>, idx |-> 2]
         [] OTHER -> [it |-> p + 1, idx |-> 0,
                      cbuf |-> <<Percent, HexDigit(c \div 16), HexDigit(c % 16)>>]
urlencode_next(v, x) == IF x.idx + 1 = 3 THEN urlencode_from(v, x.it) ELSE [x EXCEPT !.idx = @ + 1]

\* decode_ch appends the hexadecimal digit c to t, or leaves t when c is none.
decode_ch(t, c) ==
    CASE c \in 48 .. 57 -> (t * 16 + c - 48) % 256
      [] c \in 65 .. 70 -> (t * 16 + c - 55) % 256
      [] c \in 97 .. 102 -> (t * 16 + c - 87) % 256
      [] c = 0 -> (t * 16 + (IF t % 2 = 0 THEN 16 ELSE 0)) % 256   \* strchr finds the final 0 of its table
      [] OTHER -> t

urldecode_from(v, p) ==
    LET c == At(v.u, p)
        first == IF p + 1 < Len(v.u) THEN decode_ch(0, At(v.u, p + 1)) ELSE c
    IN CASE Ends(v.u, p) -> [it |-> p, ch |-> Undef, end |-> TRUE]
         [] ~Ends(v.u, p) /\ c = Percent ->
                [it |-> Min({p + 3, Len(v.u)}), end |-> FALSE,
                 ch |-> IF p + 2 < Len(v.u) THEN decode_ch(first, At(v.u, p + 2)) ELSE first]
         [] OTHER -> [it |-> p + 1, end |-> FALSE, ch |-> IF c = Plus THEN Space ELSE c]
-----------------------------------------------------------------------------
(* Generators: the function runs as a coroutine until its buffer is full   *)
(* or it has returned; whoever reads goes on with it when the buffer is    *)
(* read.                                                                   *)

\* What the function of a view puts out, item by item.
drop_tail_while_out(v) ==
    LET step(s, a) == IF a \in v.pred THEN [s EXCEPT !.hold = Append(@, a)]
                      ELSE [out |-> Append(s.out \o s.hold, a), hold |-> <<>>]
    IN FoldLeft(step, [out |-> <<>>, hold |-> <<>>], v.u).out
take_tail_while_out(v) ==
    LET step(hold, a) == IF a \in v.pred THEN Append(hold, a) ELSE <<>>
    IN FoldLeft(step, <<>>, v.u)
flat_out(v) == FoldLeft(LAMBDA out, s : FoldLeft(LAMBDA o, a : Append(o, a), out, s), <<>>, v.u)

gen_out(v) == CASE v.op = "drop_tail_while" -> drop_tail_while_out(v)
                [] v.op = "take_tail_while" -> take_tail_while_out(v)
                [] v.op = "flat" -> flat_out(v)

\* next(): data is the item handed out, Undef for nullptr
gen_next(v, g) ==
    LET n == Min({v.capacity, Len(g.todo)})
        h == IF g.index < Len(g.buff) THEN g
             ELSE [todo |-> SubSeq(g.todo, n + 1, Len(g.todo)), buff |-> SubSeq(g.todo, 1, n),
                   index |-> 0, data |-> Undef]
    IN IF h.buff = <<>> THEN [h EXCEPT !.data = Undef]
       ELSE [h EXCEPT !.index = @ + 1, !.data = h.buff[h.index + 1]]

gen_start(v)      == [todo |-> gen_out(v), buff |-> <<>>, index |-> 0, data |-> Undef]
gen_iter(v)       == gen_next(v, gen_start(v))
gen_advance(v, x) == IF x.data = Undef THEN x ELSE gen_next(v, x)
gen_ended(v, x)   == x.data = Undef
gen_value(v, x)   == x.data
=============================================================================
