---------------------------- MODULE MCSequences -----------------------------
(***************************************************************************)
(* A reader walks a sequence of c7nseq: ++ until the end, and where the    *)
(* iterator is random access also backwards and by jumps, comparing with   *)
(* an iterator it has kept; where a sequence may be read again it starts   *)
(* again. The initial state picks the adapter, its parameters and what it  *)
(* is laid over.  Reference says what the adapter is for.                  *)
(*                                                                         *)
(* Or it picks another use of the library's containers of data: a kind of  *)
(* growing array, of which a program uses two; an array that is sorted by  *)
(* several threads; a document that is dumped as JSON and loaded; a file   *)
(* that is rewritten and read.                                             *)
(***************************************************************************)
EXTENDS NSeq, FiniteSets, TLC

CONSTANTS
    MaxLen,  \* bound: items of a sequence
    MaxArg,  \* bound: the numbers n, off and gap that adapters are given
    Sizes, Keys  \* of what is sorted

VARIABLES
    view,          \* the adapter, its parameters, what is below it
    it,            \* the iterator
    at,            \* history: how far it is from begin
    made,          \* what the sinks have made of the items read
    kept, keptAt,  \* a copy of an iterator of a random access view, and where it was
    use,           \* what is used: "seq", "array", "sort", "json", "file" or "files"
    kind, buf, mem, held, calls,             \* the arrays
    sorted_by, given, area, tasks,           \* the array that is sorted
    doc, text, edited, loaded, done,         \* the document
    names, inodes, call, reader, last        \* the file

seqVars   == <<view, it, at, made, kept, keptAt>>
arrayVars == <<kind, buf, mem, held, calls>>
sortVars  == <<sorted_by, given, area, tasks>>
docVars   == <<doc, text, edited, loaded, done>>
fileVars  == <<names, inodes, call, reader, last>>
vars      == <<use, seqVars, arrayVars, sortVars, docVars, fileVars>>

Arrays == INSTANCE Buffers
            WITH Objects <- 1 .. 2, Busy <- {1}, FileSizes <- {0, 2},
                 Zero <- 0, Junk <- Undef, Page <- 2, InitReq <- 2, Thresholds <- {0, 2},
                 MaxItems <- MaxArg, MaxCalls <- MaxLen + 1, SwitchMayFail <- FALSE

Sorting == INSTANCE SortThreads
             WITH sort <- sorted_by, mem <- area,
                  Sorts <- {"msort", "msort_mv", "qsort", "qsort_mv", "rsort"},
                  Named <- {"msort_mv", "qsort", "qsort_mv", "rsort"}, KeyMask <- {0, 2},
                  MaxLevel <- 2, MtThreshold <- 2, Threshold <- 2, MaxDepth <- 1

\* Calls of rewrite one after the other, and two at a time
Alone    == INSTANCE Files WITH Calls <- 1 .. 3, Overlap <- 1, Prefixed <- {1, 2}, MaxTries <- 3
Together == INSTANCE Files WITH Calls <- 1 .. 2, Overlap <- 2, Prefixed <- {1}, MaxTries <- 3

ASSUME Arrays!BuffersAssumption /\ Sorting!SortThreadsAssumption
ASSUME Alone!FilesAssumption /\ Together!FilesAssumption

Items == 0 .. 2
Args  == 0 .. MaxArg
Sources == BoundedSeq(Items, MaxLen)
Short   == BoundedSeq(Items, MaxLen - 1)
Preds   == {{}, {1}, {0, 2}}
Doubled == [a \in Items |-> a + 10]
-----------------------------------------------------------------------------
(* The views, as the adapters are meant to be used; README says what they  *)
(* do outside of that.                                                     *)

View(o, u, r) == [op |-> o, u |-> u, rev |-> r]

RandomViews ==
    {View(o, u, r) @@ [n |-> n, gap |-> 1] : o \in {"head", "skip_head", "tail"}, u \in Sources, r \in BOOLEAN, n \in Args}
    \cup {View("drop_tail", u, FALSE) @@ [n |-> n, gap |-> 1] : u \in Sources, n \in Args}
    \cup {v \in {View("slice", u, r) @@ [n |-> n, off |-> off, gap |-> gap] :
                   u \in Sources, r \in BOOLEAN, n \in Args, off \in Args, gap \in 1 .. MaxArg} :
            v.off <= Len(v.u)}
    \cup {View(o, u, r) @@ [f |-> Doubled, gap |-> 1] : o \in {"transform", "proxy"}, u \in Sources, r \in {FALSE}}
    \cup {View(o, u, FALSE) @@ [gap |-> 1] : o \in {"reverse", "c_array", "sort"}, u \in Sources}
    \cup {View("enumerate", u, r) @@ [beg |-> b, step |-> s, gap |-> 1] : u \in Sources, r \in BOOLEAN, b \in {0, 5}, s \in {1, 3}}
    \cup {View("range", <<>>, r) @@ [n |-> n, beg |-> b, step |-> s, gap |-> 1] :
            r \in BOOLEAN, n \in Args, b \in {0, 5}, s \in {1, -2}}

\* slice of a sequence without random access needs a count, or a gap that oversteps the end.
SliceStops(v) == LET m == (Len(v.u) - v.off + v.gap - 1) \div v.gap
                 IN v.off > Len(v.u) \/ v.n <= m \/ v.off + m * v.gap # Len(v.u)

FilterViews ==
    {View(o, u, FALSE) @@ [n |-> n] : o \in {"skip_head_seq", "tail_seq", "window_range", "window_list"},
                                      u \in Sources, n \in 1 .. MaxArg}
    \cup {View("drop_tail_seq", u, FALSE) @@ [n |-> n, of |-> u] : u \in Sources, n \in 1 .. MaxArg}
    \cup {v \in {View("head_seq", u, FALSE) @@ [n |-> n] : u \in Sources, n \in Args} : v.n <= Len(v.u) \/ v.u = <<>>}
    \cup {v \in {View("slice_seq", u, FALSE) @@ [n |-> n, off |-> off, gap |-> gap] :
                   u \in Sources, n \in Args, off \in Args, gap \in 1 .. MaxArg} : SliceStops(v)}
    \cup {View(o, u, FALSE) @@ [pred |-> p] : o \in {"filter", "take_while", "skip_while", "trim"}, u \in Sources, p \in Preds}
    \cup {v \in {View("unique", u, FALSE) : u \in Sources} :
            Len(v.u) > 1 => (v.u[2] = v.u[1]) = (v.u[2] = 0)}
    \cup {View(o, u, FALSE) @@ [class |-> c] : o \in {"group_range", "group_vec"}, u \in Sources,
                                               c \in {[a \in Items |-> a], [a \in Items |-> a \div 2]}}
    \cup {View(o, u, FALSE) : o \in {"split_lines", "infix", "vseq"}, u \in Sources}
    \cup {View("empty", <<>>, FALSE)}
    \cup {View(o, u, FALSE) @@ [w |-> w] : o \in {"chain", "zip"}, u \in Short \ {<<>>}, w \in Short \ {<<>>}}
    \cup {View("repeat", u, FALSE) @@ [n |-> n] : u \in Short \ {<<>>}, n \in 1 .. MaxArg}

Bytes == {0, 77, 255}
Chars == {65, 10, Space, Percent, Plus}

\* What base64enc makes of the bytes b: of each three bytes the digits of one number.
Encoded(b) ==
    LET groups == (Len(b) + 2) \div 3
        byte(k) == IF k <= Len(b) THEN b[k] ELSE 0
        number(g) == byte(3 * g - 2) * 65536 + byte(3 * g - 1) * 256 + byte(3 * g)
        digits(g) == <<number(g) \div 262144, (number(g) \div 4096) % 64, (number(g) \div 64) % 64, number(g) % 64>>
        used(g) == Min({4, Len(b) - 3 * (g - 1) + 1})
    IN FlattenSeq([g \in 1 .. groups |-> [k \in 1 .. 4 |-> IF k > used(g) THEN Pad ELSE digits(g)[k]]])

UrlEncoded(s, body) ==
    FlattenSeq([k \in DOMAIN s |->
        CASE s[k] \in Unreserved -> <<s[k]>>
          [] s[k] = Space /\ body -> <<Plus>>
          [] OTHER -> <<Percent, HexDigit(s[k] \div 16), HexDigit(s[k] % 16)>>])

CodeViews ==
    {View("base64enc", b, FALSE) : b \in BoundedSeq(Bytes, MaxLen)}
    \cup {View("base64dec", Encoded(b), FALSE) @@ [of |-> b] : b \in BoundedSeq(Bytes, MaxLen)}
    \cup {View("urlencode", s, FALSE) @@ [body |-> b] : s \in BoundedSeq(Chars, 2), b \in BOOLEAN}
    \cup {View("urldecode", UrlEncoded(s, b), FALSE) @@ [of |-> s] : s \in BoundedSeq(Chars, 2), b \in BOOLEAN}
    \cup {View(o, u, FALSE) @@ [pred |-> p, capacity |-> c] :
            o \in {"drop_tail_while", "take_tail_while"}, u \in Sources, p \in Preds, c \in 1 .. 3}

FlatViews == {View("flat", s, FALSE) @@ [capacity |-> c] : s \in BoundedSeq({<<>>, <<1>>, <<0, 2>>}, 3), c \in 1 .. 3}

Generated == {"drop_tail_while", "take_tail_while", "flat"}
-----------------------------------------------------------------------------
(* The documents, with what is hard to write: strings of every kind of     *)
(* character, reals of many digits and of none behind the point, times in  *)
(* summer, members that nobody knows.                                      *)

Scalar(t)  == [t |-> t]
Row(t, of) == [t |-> t, of |-> of]
DictOf(key, of) == [t |-> "dict", key |-> key, of |-> of]
Members(t, of) == [t |-> t, of |-> of, order |-> SetToSeq(DOMAIN of)]
Doc(ty, v) == [ty |-> ty, as |-> ty, v |-> v]
KeyA == <<"a">>
KeyB == <<"b">>
TextOf == BoundedSeq({"a", "\"", "\\", "/", "nl", "soh", "hi"}, 2)
Reals  == {[m |-> 15, x |-> -1], [m |-> -1, x |-> 0], [m |-> 1, x |-> 6], [m |-> 1000001, x |-> -6],
           [m |-> 1234567, x |-> -3], [m |-> 3, x |-> -5], [m |-> 25, x |-> -4], [m |-> 0, x |-> 0]}
Zones  == [std : {1}, summer : {{3}}, now : {1, 2}]
Inner  == Members("struct", KeyA :> Row("array", Scalar("int")))
Outer(t) == Members(t, (KeyA :> Scalar("bool")) @@ (KeyB :> Inner))
RawToken(code, raw) == [code |-> code, raw |-> raw]
RawInt   == RawToken("INT", <<"7">>)
RawKey   == <<RawToken("STRING", <<"\"", "k", "\"">>), RawToken("COLON", <<":">>)>>
RawArray(s) == <<RawToken("SQUARE_L", <<"[">>)>> \o s \o <<RawToken("SQUARE_R", <<"]">>)>>
RawDict(s)  == <<RawToken("CURLY_L", <<"{">>)>> \o s \o <<RawToken("CURLY_R", <<"}">>)>>
Unknown  == {<<RawInt>>, RawArray(<<>>), RawArray(<<RawInt>>), RawDict(RawKey \o RawArray(<<RawInt>>)),
             RawArray(<<RawInt, RawToken("COMMA", <<",">>), RawInt>>)}
OuterValue(unc) == [m |-> (KeyA :> TRUE) @@ (KeyB :> [m |-> (KeyA :> <<1, 2>>), unc |-> <<>>]), unc |-> unc]

Docs == <<
    {Doc(Scalar("int"), n) : n \in {0, 7, -120}},
    {Doc(Scalar("real"), r) : r \in Reals},
    {Doc(Scalar("str"), s) : s \in TextOf},
    {Doc([t |-> "time", zone |-> z], tv) : z \in Zones, tv \in {237, 305}},
    {Doc(Row("pair", <<Scalar("str"), Scalar("int")>>), <<KeyA, 1>>)},
    {Doc(Row("tuple", <<Scalar("int"), Scalar("bool")>>), <<n, TRUE>>) : n \in {0, 1}},
    {Doc(Row("array", Scalar("int")), v) : v \in BoundedSeq({0, 5}, 2)},
    {Doc(Row("array", Row("array", Scalar("real"))), <<<<>>, <<r>>>>) : r \in Reals},
    {Doc(DictOf(Scalar("str"), Scalar("int")), (s :> 1) @@ (KeyA :> 2)) : s \in TextOf},
    {Doc(DictOf(Scalar("int"), Scalar("bool")), (n :> TRUE) @@ (5 :> FALSE)) : n \in {0, -1, 5}},
    {Doc(DictOf(Scalar("real"), Scalar("bool")), r :> TRUE) : r \in Reals},
    {Doc(DictOf(Row("pair", <<Scalar("int"), Scalar("str")>>), Scalar("int")), <<1, s>> :> 1) : s \in {KeyA, <<"\"">>}},
    {Doc(DictOf([t |-> "time", zone |-> z], [t |-> "time", zone |-> z]), 237 :> 305) : z \in Zones},
    {[ty |-> Outer("object"), as |-> Outer(t), v |-> OuterValue(unc)] :
            t \in {"struct", "strict", "object"},
            unc \in {<<>>} \cup {(<<"x">> :> u) @@ (<<"nl">> :> <<RawInt>>) : u \in Unknown}},
    {[ty |-> Outer("object"), as |-> Outer("object"), v |-> OuterValue(s :> <<RawInt>>)] : s \in TextOf \ {KeyA}},
    {Doc(Members("strict", KeyA :> Scalar("int")), [m |-> (KeyA :> n), unc |-> <<>>]) : n \in {0, 1}}>>

Text == INSTANCE JsonText WITH Precision <- 6, Typos <- {",", "]", "1", "\""}, MaxText <- 14

ASSUME Text!JsonAssumption

-----------------------------------------------------------------------------
(* Begin, ++, end and * of a view                                          *)

IsRandom(v) == v.op \in ViewOps

Begin(v) ==
    CASE IsRandom(v) -> view_begin(v)
      [] v.op = "head_seq" -> head_iter(v)
      [] v.op = "skip_head_seq" -> skip_head_iter(v)
      [] v.op = "tail_seq" -> tail_iter(v)
      [] v.op = "drop_tail_seq" -> drop_tail_iter(v)
      [] v.op = "slice_seq" -> slice_iter(v)
      [] v.op \in {"filter", "skip_while", "unique"} -> filter_iter(v)
      [] v.op = "trim" -> filter_iter(trim_rest(v))
      [] v.op = "take_while" -> take_while_at(v, 0)
      [] v.op = "window_range" -> window_range_iter(v)
      [] v.op = "window_list" -> window_list_iter(v)
      [] v.op = "group_range" -> make_group_range(v, 0)
      [] v.op \in {"group_vec", "split_lines"} -> make_group_vec(v, 0, Undef)
      [] v.op = "infix" -> infix_iter(v)
      [] v.op = "chain" -> chain_iter(v)
      [] v.op = "zip" -> zip_iter(v)
      [] v.op = "repeat" -> repeat_iter(v)
      [] v.op = "vseq" -> vseq_iter(v)
      [] v.op = "empty" -> empty_iter(v)
      [] v.op = "base64enc" -> base64enc_from(v, 0)
      [] v.op = "base64dec" -> base64dec_from(v, 0)
      [] v.op = "urlencode" -> urlencode_from(v, 0)
      [] v.op = "urldecode" -> urldecode_from(v, 0)
      [] v.op \in Generated -> gen_iter(v)

Advance(v, x) ==
    CASE IsRandom(v) -> view_plus(v, x, 1)
      [] v.op = "head_seq" -> head_next(v, x)
      [] v.op = "skip_head_seq" -> skip_head_next(v, x)
      [] v.op = "tail_seq" -> tail_next(v, x)
      [] v.op = "drop_tail_seq" -> drop_tail_next(v, x)
      [] v.op = "slice_seq" -> slice_next(v, x)
      [] v.op \in {"filter", "skip_while", "unique"} -> filter_next(v, x)
      [] v.op = "trim" -> filter_next(trim_rest(v), x)
      [] v.op = "take_while" -> take_while_next(v, x)
      [] v.op = "window_range" -> window_range_next(v, x)
      [] v.op = "window_list" -> window_list_next(v, x)
      [] v.op = "group_range" -> make_group_range(v, x.it)
      [] v.op \in {"group_vec", "split_lines"} -> make_group_vec(v, x.it, x.prev)
      [] v.op = "infix" -> infix_next(v, x)
      [] v.op = "chain" -> chain_next(v, x)
      [] v.op = "zip" -> zip_next(v, x)
      [] v.op = "repeat" -> repeat_next(v, x)
      [] v.op = "vseq" -> vseq_next(v, x)
      [] v.op = "empty" -> empty_next(v, x)
      [] v.op = "base64enc" -> base64enc_next(v, x)
      [] v.op = "base64dec" -> base64dec_next(v, x)
      [] v.op = "urlencode" -> urlencode_next(v, x)
      [] v.op = "urldecode" -> urldecode_from(v, x.it)
      [] v.op \in Generated -> gen_advance(v, x)

Ended(v, x) ==
    CASE IsRandom(v) -> x.it = view_end(v)
      [] v.op = "head_seq" -> head_ended(v, x)
      [] v.op = "tail_seq" -> tail_ended(v, x)
      [] v.op = "slice_seq" -> slice_ended(v, x)
      [] v.op = "trim" -> Ends(trim_rest(v).u, x.it)
      [] v.op = "take_while" -> take_while_ended(v, x)
      [] v.op = "window_range" -> Ends(v.u, x.wb)
      [] v.op = "window_list" -> x.window = <<>>
      [] v.op = "group_range" -> x.beg = x.end
      [] v.op \in {"group_vec", "split_lines"} -> x.group = <<>>
      [] v.op = "chain" -> chain_ended(v, x)
      [] v.op = "zip" -> zip_ended(v, x)
      [] v.op = "repeat" -> repeat_ended(v, x)
      [] v.op = "vseq" -> vseq_ended(v, x)
      [] v.op = "empty" -> empty_ended(v, x)
      [] v.op \in {"base64enc", "base64dec", "urlencode"} -> base64_ended(v, x)
      [] v.op = "urldecode" -> x.end
      [] v.op \in Generated -> gen_ended(v, x)
      [] OTHER -> Ends(v.u, x.it)

Value(v, x) ==
    CASE IsRandom(v) -> view_value(v, x)
      [] v.op = "tail_seq" -> tail_value(v, x)
      [] v.op = "trim" -> At(trim_rest(v).u, x.it)
      [] v.op = "drop_tail_seq" -> drop_tail_value(v, x)
      [] v.op = "window_range" -> window_range_value(v, x)
      [] v.op = "window_list" -> x.window
      [] v.op = "group_range" -> Between(v.u, x.beg, x.end)
      [] v.op \in {"group_vec", "split_lines"} -> x.group
      [] v.op = "infix" -> infix_value(v, x)
      [] v.op = "chain" -> chain_value(v, x)
      [] v.op = "zip" -> zip_value(v, x)
      [] v.op = "vseq" -> vseq_value(v, x)
      [] v.op \in {"base64enc", "urlencode"} -> base64enc_value(v, x)
      [] v.op = "base64dec" -> base64dec_value(v, x)
      [] v.op = "urldecode" -> x.ch
      [] v.op \in Generated -> gen_value(v, x)
      [] OTHER -> At(v.u, x.it)
-----------------------------------------------------------------------------
(* What the adapters are for                                               *)

First(u, n) == SubSeq(u, 1, Min({n, Len(u)}))
Without(u, n) == SubSeq(u, n + 1, Len(u))   \* without its first n items
EachGap(u, off, gap, n) ==
    LET m == IF off >= Len(u) THEN 0 ELSE (Len(u) - off - 1) \div gap + 1
    IN [k \in 1 .. Min({m, n}) |-> u[off + (k - 1) * gap + 1]]
LeadIn(u, p) == Min({k \in 1 .. Len(u) : u[k] \notin p} \cup {Len(u) + 1}) - 1   \* items of p at the front
TailIn(u, p) == LeadIn(Reverse(u), p)

\* u cut before each position of cuts
Cut(u, cuts) ==
    LET starts == SetToSortSeq({1} \cup cuts, <)
    IN IF u = <<>> THEN <<>>
       ELSE [k \in 1 .. Len(starts) |->
               SubSeq(u, starts[k], IF k = Len(starts) THEN Len(u) ELSE starts[k + 1] - 1)]

Forward(v) ==
    CASE v.op \in {"head", "head_seq"} -> First(v.u, v.n)
      [] v.op \in {"skip_head", "skip_head_seq"} -> Without(v.u, v.n)
      [] v.op \in {"tail", "tail_seq"} -> Without(v.u, Len(v.u) - Min({v.n, Len(v.u)}))
      [] v.op = "drop_tail" -> First(v.u, Len(v.u) - Min({v.n, Len(v.u)}))
      [] v.op = "drop_tail_seq" -> First(v.of, Len(v.of) - Min({v.n, Len(v.of)}))
      [] v.op \in {"slice", "slice_seq"} -> EachGap(v.u, v.off, v.gap, v.n)
      [] v.op = "transform" -> [k \in DOMAIN v.u |-> v.f[v.u[k]]]
      [] v.op = "enumerate" -> [k \in DOMAIN v.u |-> <<v.beg + (k - 1) * v.step, v.u[k]>>]
      [] v.op = "range" -> [k \in 1 .. v.n |-> v.beg + (k - 1) * v.step]
      [] v.op = "reverse" -> Reverse(v.u)
      [] v.op = "sort" -> CHOOSE s \in [DOMAIN v.u -> Items] :
                            /\ \A k \in 1 .. Len(s) - 1 : s[k] <= s[k + 1]
                            /\ \A a \in Items : Cardinality({k \in DOMAIN s : s[k] = a}) = Cardinality({k \in DOMAIN v.u : v.u[k] = a})
      [] v.op = "filter" -> SelectSeq(v.u, LAMBDA a : a \in v.pred)
      [] v.op = "take_while" -> First(v.u, LeadIn(v.u, v.pred))
      [] v.op = "skip_while" -> Without(v.u, LeadIn(v.u, v.pred))
      [] v.op = "trim" -> SubSeq(v.u, LeadIn(v.u, v.pred) + 1, Len(v.u) - TailIn(v.u, v.pred))
      [] v.op = "drop_tail_while" -> First(v.u, Len(v.u) - TailIn(v.u, v.pred))
      [] v.op = "take_tail_while" -> Without(v.u, Len(v.u) - TailIn(v.u, v.pred))
      [] v.op = "unique" -> LET c == Cut(v.u, {k \in 2 .. Len(v.u) : v.u[k] # v.u[k - 1]})
                            IN [k \in DOMAIN c |-> c[k][1]]
      [] v.op \in {"window_range", "window_list"} ->
            [k \in 1 .. Max({0, Len(v.u) - v.n + 1}) |-> SubSeq(v.u, k, k + v.n - 1)]
      [] v.op \in {"group_range", "group_vec"} ->
            Cut(v.u, {k \in 2 .. Len(v.u) : v.class[v.u[k]] # v.class[v.u[k - 1]]})
      [] v.op = "split_lines" -> Cut(v.u, {k \in 2 .. Len(v.u) : v.u[k - 1] = NewLine})
      [] v.op = "infix" -> [k \in 1 .. Max({0, 2 * Len(v.u) - 1}) |->
                              IF k % 2 = 1 THEN <<v.u[(k + 1) \div 2]>> ELSE <<v.u[k \div 2], v.u[k \div 2 + 1]>>]
      [] v.op = "chain" -> v.u \o v.w
      [] v.op = "zip" -> [k \in 1 .. Min({Len(v.u), Len(v.w)}) |-> <<v.u[k], v.w[k]>>]
      [] v.op = "repeat" -> FlattenSeq([k \in 1 .. v.n |-> v.u])
      [] v.op = "flat" -> FlattenSeq(v.u)
      [] v.op = "base64enc" -> Encoded(v.u)
      [] v.op = "urlencode" -> UrlEncoded(v.u, v.body)
      [] v.op \in {"base64dec", "urldecode"} -> v.of
      [] OTHER -> v.u

Reference(v) == IF v.rev THEN Reverse(Forward([v EXCEPT !.rev = FALSE])) ELSE Forward(v)
-----------------------------------------------------------------------------
(* The reader                                                              *)

\* The operations given to accumulate, at what it calls them with.
OpFirst(c, a)  == [x \in ToSet(c), y \in {a} |-> x]
OpAppend(c, a) == [x \in {c}, y \in {a} |-> Append(x, y)]
Nothing == [vec |-> <<>>, front |-> <<>>, set |-> {}, map |-> <<>>, first |-> <<>>, acc |-> <<>>]

\* The loops of the sinks, with the item a that was read at position k.
Collect(m, k, a) ==
    [vec |-> to_vector(m.vec, a), front |-> push_front(m.front, a), set |-> insert(m.set, a),
     map |-> insert_or_assign(m.map, a, k),
     first |-> accumulate_without(OpFirst(m.first, a), m.first, a),
     acc |-> accumulate_inplace(OpAppend(m.acc, a), m.acc, a)]

\* What an iterator that has come to x leaves of the view.
Left(v, x) == IF v.op = "drop_tail_seq" THEN drop_tail_left(v, x) ELSE v

\* begin() of a view
Starts(v) == it = Begin(v) /\ view = Left(v, it)

Init ==
    /\ \/ use \in {"json", "file", "files", "array", "sort"} /\ Starts(View("empty", <<>>, FALSE))
       \/ /\ use = "seq"
          /\ \/ (\E v \in RandomViews : Starts(v)) \/ (\E v \in FilterViews : Starts(v))
             \/ (\E v \in CodeViews : Starts(v)) \/ (\E v \in FlatViews : Starts(v))
    /\ at = 0
    /\ made = Nothing
    /\ kept = it
    /\ keptAt = 0
    /\ IF use = "array" THEN kind \in Arrays!Kinds ELSE kind = "none"
    /\ Arrays!BuffersInit
    /\ IF use = "sort"
       THEN /\ Sorting!SortInit
            /\ Cardinality(DOMAIN given) > 5 => sorted_by = "qsort" /\ tasks[<<>>].level = 0
       ELSE sorted_by = "none" /\ given = <<>> /\ area = <<>> /\ tasks = <<>>
    /\ IF use = "json" THEN Text!JsonInit ELSE doc = 0 /\ text = 0 /\ edited = 0 /\ loaded = 0 /\ done = 0
    /\ IF use = "files" THEN Together!FilesInit ELSE Alone!FilesInit

\* for (auto&& v: seq) ...
Read ==
    /\ ~Ended(view, it)
    /\ at <= Len(Reference(view))
    /\ it' = Advance(view, it) /\ view' = Left(view, it')
    /\ at' = at + 1
    /\ made' = Collect(made, at, Value(view, it))
    /\ UNCHANGED <<kept, keptAt>>

\* it += n, n < 0 for --, of an iterator that is random access
Jump(n) ==
    /\ IsRandom(view)
    /\ at + n \in 0 .. Len(Reference(view))
    /\ it' = view_plus(view, it, n)
    /\ at' = at + n
    /\ made' = Nothing
    /\ UNCHANGED <<view, kept, keptAt>>

Keep ==
    /\ IsRandom(view)
    /\ kept' = it
    /\ keptAt' = at
    /\ UNCHANGED <<view, it, at, made>>

\* begin() again, of a sequence that is not generated on the way: of all that is below, but behind
\* a drop_tail without random access of what the reading before has left there.
Restart ==
    /\ view.op \notin Generated
    /\ at > 0
    /\ LET now == IF view.op = "drop_tail_seq" THEN [view EXCEPT !.of = view.u] ELSE view
       IN it' = Begin(now) /\ view' = Left(now, it')
    /\ at' = 0
    /\ made' = Nothing
    /\ UNCHANGED <<kept, keptAt>>

Next ==
    /\ UNCHANGED use
    /\ \/ /\ use = "seq"
          /\ Read \/ (\E n \in -MaxLen .. MaxLen : Jump(n)) \/ Keep \/ Restart
          /\ UNCHANGED <<arrayVars, sortVars, docVars, fileVars>>
       \/ /\ use = "array" /\ Arrays!BuffersNext
          /\ UNCHANGED <<seqVars, sortVars, docVars, fileVars>>
       \/ /\ use = "sort" /\ Sorting!SortNext
          /\ UNCHANGED <<seqVars, arrayVars, docVars, fileVars>>
       \/ /\ use = "json" /\ Text!JsonNext
          /\ UNCHANGED <<seqVars, arrayVars, sortVars, fileVars>>
       \/ /\ \/ use = "file" /\ Alone!FilesNext
             \/ use = "files" /\ Together!FilesNext
          /\ UNCHANGED <<seqVars, arrayVars, sortVars, docVars>>

Spec == Init /\ [][Next]_vars
-----------------------------------------------------------------------------
\* What a loop makes of the sequence: a vector of what it has read, the same backwards, the
\* set, the last place of each item, the first item, and what accumulate was given.
Collects ==
    LET read == made.vec
    IN /\ Len(read) <= at /\ read = SubSeq(Reference(view), at - Len(read) + 1, at)
       /\ made.front = Reverse(read) /\ made.acc = read /\ made.first = First(read, 1)
       /\ made.set = ToSet(read) /\ DOMAIN made.map = made.set
       /\ \A a \in made.set : made.map[a] = at - Len(read) - 1 + Max({k \in DOMAIN read : read[k] = a})

(* The reader meets the items the adapter is for, in order, and the end    *)
(* right after the last: neither a predicate with state, nor a ring, nor a *)
(* buffer that fills up, nor a jump of the iterator changes that; and what *)
(* a sink makes of it is what it has read.  Who reads again meets the same *)
(* items, but behind a drop_tail that has moved them away: there it meets  *)
(* what is left of them (tail.hpp).  What is read from an array is what    *)
(* was put into it, wherever it has grown to.                              *)
Yields ==
    LET ref == Reference(view)
    IN /\ at <= Len(ref)
       /\ Ended(view, it) = (at = Len(ref))
       /\ at < Len(ref) => Value(view, it) = ref[at + 1]
       /\ Collects
       /\ Arrays!HoldsWhatWasPut

\* No adapter advances what is below it beyond its end: it is within u (and w) also when the
\* adapter looks ahead, skips or fills a group.  And an array is within memory of its own.
StaysInside ==
    /\ ("it" \in DOMAIN it /\ view.op \notin {"slice", "range"}) => it.it \in 0 .. Len(view.u)
    /\ "it2" \in DOMAIN it => it.it2 \in 0 .. Len(view.w)
    /\ Arrays!MemoryIsOwn

\* Random access means that distance, order and size() count the items: it - kept is the
\* number of steps between them, kept + (it - kept) is it, and size() is the number of items.
DistanceCounts ==
    IsRandom(view) =>
        /\ view_size(view) = Len(Reference(view))
        /\ it.step = 1 => view_minus(view, it, kept) = at - keptAt
        /\ view_plus(view, kept, at - keptAt) = it
        /\ (it.it < kept.it) = (at < keptAt)

\* A sort leaves the items it was given, in order, however its threads took turns; and each
\* of them has a range of its own.
SortedAndWhole == use = "sort" => Sorting!SortedAndWhole /\ Sorting!RangesApart

(* What was written is what is read.  load accepts what is a value of its  *)
(* type and nothing else, and gives back what dump has written, but for    *)
(* the values that Restorable leaves out. Whoever opens a file that is     *)
(* being rewritten finds one version of it, whole; when a process is       *)
(* killed between two system calls, the last version is at the path or the *)
(* backup.                                                                 *)
ComesBack ==
    /\ use = "json" => Text!LoadsTheGrammar /\ Text!Restores
    /\ use = "file" => Alone!VersionsAreWhole /\ Alone!LastIsThere /\ Alone!FailureIsClean
    /\ use = "files" => Together!VersionsAreWhole /\ Together!LastIsThere /\ Together!FailureIsClean
=============================================================================
