------------------------------ MODULE JsonText ------------------------------
(***************************************************************************)
(* c7json: a text is a sequence of characters, of which the lexer makes    *)
(* tokens; load walks over tokens, dump writes a text.                     *)
(*                                                                         *)
(* The type ty of a proxy is a record: t is "int", "real", "bool", "str",  *)
(* "time" (with the zone of the process), "pair", "tuple" (of: a sequence  *)
(* of types), "array" (of), "dict" (key, of), "struct", "strict", "object" *)
(* (order: the names of the members, of: their types).  "any" is a value   *)
(* that proxy_unconcern goes over.  The value of a struct has its members  *)
(* m and the members unc that an object does not know, as the tokens they  *)
(* were.                                                                   *)
(*                                                                         *)
(* A character is a string; bs, ff, nl, cr, ht and soh are the control     *)
(* characters.  A real is m * 10^x.  A second has 100 microseconds and 10  *)
(* milliseconds, and what %Y...%S prints is one digit.                     *)
(***************************************************************************)
EXTENDS Integers, Sequences, SequencesExt, FiniteSetsExt, FiniteSets, TLC

CONSTANTS
    Precision,  \* significant digits of std::defaultfloat
    Docs,       \* sets of documents, in a sequence: type ty and value v of what is dumped,
                \* type as of what is loaded
    Typos,      \* characters that somebody may type
    MaxText     \* bound: the longest text that somebody edits

JsonAssumption == Precision \in Nat \ {0} /\ MaxText \in Nat

VARIABLES
    doc,     \* the document, and how it is dumped
    text,    \* what was dumped
    edited,  \* somebody has changed the text
    loaded,  \* what load has made of it
    done     \* history: load was called

jsonVars == <<doc, text, edited, loaded, done>>

Quote     == "\""
Backslash == "\\"
DigitChars == <<"0", "1", "2", "3", "4", "5", "6", "7", "8", "9">>
IsDigit(c)  == c \in ToSet(DigitChars)
DigitOf(c)  == CHOOSE d \in 0 .. 9 : DigitChars[d + 1] = c
Spaces == {" ", "ht", "nl", "cr"}
HexChars == ToSet(DigitChars) \cup {"a", "b", "c", "d", "e", "f"}

\* What jsonize_string writes after a backslash, and expect_string reads; and other controls.
Escapes == {<<"bs", "b">>, <<"ff", "f">>, <<"nl", "n">>, <<"cr", "r">>, <<"ht", "t">>,
            <<Backslash, Backslash>>, <<"/", "/">>, <<Quote, Quote>>}
Hex == [c \in {"soh"} |-> <<"0", "0", "0", "1">>]

NumDigits(m) == Min({k \in 1 .. 9 : m < 10^k})
Decimal(m) == [k \in 1 .. NumDigits(m) |-> DigitChars[1 + ((m \div 10^(NumDigits(m) - k)) % 10)]]
Number(s) == FoldLeft(LAMBDA n, c : 10 * n + DigitOf(c), 0, s)
Signed(m, s) == IF m < 0 THEN <<"-">> \o s ELSE s
Abs(m) == IF m < 0 THEN -m ELSE m
Zeros(n) == [k \in 1 .. n |-> "0"]
\* The same number with the shortest m
Real(m, x) ==
    LET k == IF m = 0 THEN 0 ELSE Max({j \in 0 .. 8 : m % 10^j = 0})
    IN [m |-> m \div 10^k, x |-> IF m = 0 THEN 0 ELSE x + k]

Cut(s, p, q) == SubSeq(s, p, Min({q, Len(s)}))
Put(f, k, a) == [j \in DOMAIN f \cup {k} |-> IF j = k THEN a ELSE f[j]]
-----------------------------------------------------------------------------
(* The lexer: the token of s that begins at p.  "endless": get() does not  *)
(* come back, since the end of the text is no end of a string.             *)

Token(c, val, s, p, q) == [code |-> c, val |-> val, raw |-> Cut(s, p, q), next |-> q + 1]
Error(s, p, q) == Token("error", <<>>, s, p, q)

CharAt(s, p) == IF p <= Len(s) THEN s[p] ELSE "eof"
skip_spaces(s, p) == Min({q \in p .. Len(s) + 1 : CharAt(s, q) \notin Spaces})
DigitsEnd(s, p)   == Min({q \in p .. Len(s) + 1 : ~IsDigit(CharAt(s, q))})

expect_keyword(s, p, code, word) ==
    IF Cut(s, p, p + Len(word) - 1) = word THEN Token(code, <<>>, s, p, p + Len(word) - 1)
    ELSE Error(s, p, p + Len(word) - 1)

RECURSIVE expect_string(_, _, _, _)
\* p: the quote; q: the next character; eval: the string so far
expect_string(s, p, q, eval) ==
    LET c == CharAt(s, q)
        e == CharAt(s, q + 1)
        hex == Cut(s, q + 2, q + 5)
        known == {x \in Escapes : x[2] = e}
    IN CASE c = Quote -> Token("STRING", eval, s, p, q)
         [] c = "eof" -> Token("endless", <<>>, s, p, q)
         [] c = Backslash /\ known # {} ->
                expect_string(s, p, q + 2, Append(eval, (CHOOSE x \in known : TRUE)[1]))
         [] c = Backslash /\ e = "u" /\ Len(hex) = 4 /\ ToSet(hex) \subseteq HexChars ->
                expect_string(s, p, q + 6, Append(eval, IF hex = Hex["soh"] THEN "soh" ELSE "other"))
         [] c = Backslash /\ known = {} -> Error(s, p, q + 1)
         [] OTHER -> expect_string(s, p, q + 1, Append(eval, c))

\* i: the first digit; f, e, n: behind the integer, the fraction, the exponent
expect_number(s, p) ==
    LET i == IF s[p] = "-" THEN p + 1 ELSE p
        f == IF CharAt(s, i) = "0" THEN i + 1 ELSE DigitsEnd(s, i)
        e == IF CharAt(s, f) = "." THEN DigitsEnd(s, f + 1) ELSE f
        sign == IF CharAt(s, e + 1) \in {"+", "-"} THEN 1 ELSE 0
        n == IF CharAt(s, e) = "e" THEN DigitsEnd(s, e + 1 + sign) ELSE e
        m == Number(SubSeq(s, i, f - 1) \o SubSeq(s, f + 1, e - 1))
        x == Number(SubSeq(s, e + 1 + sign, n - 1))
        signed(a) == IF i > p THEN -a ELSE a
        exponent == IF CharAt(s, e + 1) = "-" THEN -x ELSE x
    IN CASE f = i -> Error(s, p, i)
         [] f > i /\ (e = f + 1 \/ (n > e /\ n = e + 1 + sign)) -> Error(s, p, n)
         [] f > i /\ e = f /\ n = e -> Token("INT", signed(m), s, p, n - 1)
         [] OTHER -> LET r == Real(m, exponent - Max({0, e - f - 1}))
                     IN Token("REAL", [r EXCEPT !.m = signed(@)], s, p, n - 1)

get(s, p) ==
    LET c == s[p]
        one(code) == Token(code, <<>>, s, p, p)
    IN CASE c = "[" -> one("SQUARE_L")
         [] c = "]" -> one("SQUARE_R")
         [] c = "{" -> one("CURLY_L")
         [] c = "}" -> one("CURLY_R")
         [] c = ":" -> one("COLON")
         [] c = "," -> one("COMMA")
         [] c = "t" -> expect_keyword(s, p, "TRUE", <<"t", "r", "u", "e">>)
         [] c = "f" -> expect_keyword(s, p, "FALSE", <<"f", "a", "l", "s", "e">>)
         [] c = "n" -> expect_keyword(s, p, "NULL", <<"n", "u", "l", "l">>)
         [] c = Quote -> expect_string(s, p, p + 1, <<>>)
         [] c = "-" \/ IsDigit(c) -> expect_number(s, p)
         [] OTHER -> Error(s, p, p)

RECURSIVE Tokens(_, _)
AndOn(s, t) == <<t>> \o IF t.code \in {"error", "endless"} THEN <<>> ELSE Tokens(s, t.next)
\* What the lexer finds from p on, as far as a load goes at most
Tokens(s, p) ==
    LET q == skip_spaces(s, p)
    IN IF q > Len(s) THEN <<>> ELSE AndOn(s, get(s, q))

CodeAt(ts, p) == IF p \in DOMAIN ts THEN ts[p].code ELSE "none"
-----------------------------------------------------------------------------
(* dump.  d has the text o so far, the prefix pref of the next item,       *)
(* whether items are put on lines of their own, and how a time is written. *)
(* How far a line is indented is left out.                                 *)

dump_helper(indent, time_prec) == [o |-> <<>>, pref |-> <<>>, indent |-> indent, time_prec |-> time_prec]

head(d) == IF d.indent THEN <<"nl">> ELSE <<>>
next(d) == <<",">> \o head(d)
put(d, s)   == [d EXCEPT !.o = @ \o s]
begin(d, c) == [d EXCEPT !.o = Append(@, c), !.pref = head(d)]
pref(d)     == [d EXCEPT !.o = @ \o d.pref, !.pref = next(d)]
end(d, c)   == [d EXCEPT !.o = Append(@ \o head(d), c), !.pref = next(d)]

jsonize_string(s) ==
    LET put_char(c) ==
            IF \E x \in Escapes : x[1] = c THEN <<Backslash, (CHOOSE x \in Escapes : x[1] = c)[2]>>
            ELSE IF c \in DOMAIN Hex THEN <<Backslash, "u">> \o Hex[c] ELSE <<c>>
    IN <<Quote>> \o FlattenSeq([k \in DOMAIN s |-> put_char(s[k])]) \o <<Quote>>

\* m * 10^x as std::defaultfloat prints it, with at most Precision digits
Rounded(m, x) ==
    LET over == NumDigits(m) - Precision
    IN IF over <= 0 THEN Real(m, x) ELSE Real((m + 5 * 10^(over - 1)) \div 10^over, x + over)
print_real(r) ==
    LET a == Rounded(Abs(r.m), r.x)
        ds == Decimal(a.m)
        n == Len(ds)
        point == n + a.x   \* digits before the point
        exp == Abs(point - 1)
    IN CASE a.m = 0 -> <<"0">>
         [] a.m # 0 /\ point \in -3 .. Precision ->
                Signed(r.m, IF a.x >= 0 THEN ds \o Zeros(a.x)
                            ELSE IF point > 0 THEN SubSeq(ds, 1, point) \o <<".">> \o SubSeq(ds, point + 1, n)
                            ELSE <<"0", ".">> \o Zeros(-point) \o ds)
         [] OTHER -> Signed(r.m, <<ds[1]>> \o (IF n > 1 THEN <<".">> \o Tail(ds) ELSE <<>>)
                                 \o <<"e", IF point > 0 THEN "+" ELSE "-">>
                                 \o (IF exp < 10 THEN <<"0">> ELSE <<>>) \o Decimal(exp))

\* The zone of the process: its standard offset, the seconds of summer time, the offset when
\* it first read a time.
Offset(zone, sec) == zone.std + (IF sec \in zone.summer THEN 1 ELSE 0)

print_time(zone, tv, time_prec) ==
    LET sec == tv \div 100
        us == tv % 100
        off == Offset(zone, sec)
        date == <<Quote, "T">> \o Decimal(sec + off)
    IN CASE time_prec = 6 -> date \o <<".">> \o (IF us < 10 THEN <<"0">> ELSE <<>>) \o Decimal(us) \o <<"+">> \o Decimal(off) \o <<Quote>>
         [] time_prec = 3 -> date \o <<".">> \o Decimal(us \div 10) \o <<"+">> \o Decimal(off) \o <<Quote>>
         [] OTHER -> <<Quote, "T", ":">> \o Decimal(sec + off)   \* the colon for a zone that is not there

dump_basic(ty, v, time_prec) ==
    CASE ty.t = "int"  -> Signed(v, Decimal(Abs(v)))
      [] ty.t = "real" -> print_real(v)
      [] ty.t = "bool" -> IF v THEN <<"t", "r", "u", "e">> ELSE <<"f", "a", "l", "s", "e">>
      [] ty.t = "str"  -> jsonize_string(v)
      [] ty.t = "time" -> print_time(ty.zone, v, time_prec)

dump_unconcern(ts, d) ==
    LET one(h, t) == CASE t.code \in {"CURLY_L", "SQUARE_L"} -> pref(begin(h, t.raw[1]))
                       [] t.code \in {"CURLY_R", "SQUARE_R"} -> end(h, t.raw[1])
                       [] t.code = "COMMA" -> pref(put(h, t.raw))
                       [] OTHER -> put(h, t.raw)
    IN FoldLeft(one, d, ts)

RECURSIVE dump(_, _, _)
dump_key(ty, k, d) ==
    IF ty.t \in {"str", "time"} THEN dump(ty, k, d)
    ELSE put(d, jsonize_string(dump(ty, k, dump_helper(FALSE, 6)).o))
dump_items(ty, v, d) ==
    FoldLeft(LAMBDA h, k : dump(IF ty.t = "array" THEN ty.of ELSE ty.of[k], v[k], pref(h)), d, [k \in DOMAIN v |-> k])
dump_dict(ty, v, d) ==
    FoldLeft(LAMBDA h, k : dump(ty.of, v[k], put(dump_key(ty.key, k, pref(h)), <<":">>)), d, SetToSeq(DOMAIN v))
dump_members(ty, v, d) ==
    FoldLeft(LAMBDA h, k : dump(ty.of[k], v.m[k], put(pref(h), <<Quote>> \o k \o <<Quote, ":">>)), d, ty.order)
dump_custom(v, d) ==
    FoldLeft(LAMBDA h, k : dump_unconcern(v.unc[k], put(pref(h), <<Quote>> \o k \o <<Quote, ":">>)), d, SetToSeq(DOMAIN v.unc))
dump(ty, v, d) ==
    CASE ty.t \in {"pair", "tuple", "array"} -> end(dump_items(ty, v, begin(d, "[")), "]")
      [] ty.t = "dict" -> end(dump_dict(ty, v, begin(d, "{")), "}")
      [] ty.t \in {"struct", "strict"} -> end(dump_members(ty, v, begin(d, "{")), "}")
      [] ty.t = "object" -> end(dump_custom(v, dump_members(ty, v, begin(d, "{"))), "}")
      [] OTHER -> put(d, dump_basic(ty, v, d.time_prec))

json_dump(ty, v, indent, time_prec) == dump(ty, v, dump_helper(indent, time_prec)).o
-----------------------------------------------------------------------------
(* load.  The tokens from p on into a proxy that holds v; the result says  *)
(* whether it was a value, at which token it ended or failed, and what the *)
(* proxy holds then.                                                       *)

Done(p, v) == [ok |-> TRUE, never |-> FALSE, p |-> p, v |-> v]
\* never: it waits for the end of a string, and does not come back
Failed(ts, p, v) == [ok |-> FALSE, never |-> CodeAt(ts, p) = "endless", p |-> p, v |-> v]
Closed(ts, p, v, close) == IF CodeAt(ts, p) = close THEN Done(p, v) ELSE Failed(ts, p, v)

RECURSIVE clear(_)
clear(ty) ==
    CASE ty.t = "int" -> 0
      [] ty.t = "real" -> Real(0, 0)
      [] ty.t = "bool" -> FALSE
      [] ty.t = "str" -> <<>>
      [] ty.t = "time" -> 0
      [] ty.t \in {"array", "dict"} -> <<>>
      [] ty.t \in {"pair", "tuple"} -> [k \in DOMAIN ty.of |-> clear(ty.of[k])]
      [] ty.t \in {"struct", "strict", "object"} -> [m |-> [k \in DOMAIN ty.of |-> clear(ty.of[k])], unc |-> <<>>]

\* The raw string of a token as a date, a fraction of three or six digits or none, and a zone
IsTime(r) ==
    LET n == Len(r)
    IN /\ n \in {6, 8, 9}
       /\ r[1] = Quote /\ r[2] = "T" /\ r[n - 2] = "+" /\ r[n] = Quote
       /\ n > 6 => r[4] = "."
       /\ \A k \in {3, n - 1} \cup 5 .. n - 3 : IsDigit(r[k])
as_time(zone, r) ==
    LET n == Len(r)
        sec == DigitOf(r[3]) + (zone.now - DigitOf(r[n - 1])) - zone.std
    IN 100 * sec + (IF n = 6 THEN 0 ELSE Number(SubSeq(r, 5, n - 3)) * (IF n = 8 THEN 10 ELSE 1))

load_basic(ty, ts, p, v) ==
    LET c == CodeAt(ts, p)
    IN CASE ty.t = "int" /\ c = "INT" -> Done(p, ts[p].val)
         [] ty.t = "real" /\ c = "REAL" -> Done(p, ts[p].val)
         [] ty.t = "bool" /\ c \in {"TRUE", "FALSE"} -> Done(p, c = "TRUE")
         [] ty.t = "str" /\ c = "STRING" -> Done(p, ts[p].val)
         [] ty.t = "time" /\ c = "STRING" /\ IsTime(ts[p].raw) -> Done(p, as_time(ty.zone, ts[p].raw))
         [] ty.t = "any" /\ c \in {"TRUE", "FALSE", "STRING", "INT", "REAL"} -> Done(p, v)
         [] OTHER -> Failed(ts, p, v)

RECURSIVE load(_, _, _, _), load_parts(_, _, _, _), load_items(_, _, _, _, _)

\* The rest of a pair or a tuple, after its part k was loaded with the result e
AndParts(ty, ts, e, v, k) ==
    LET w == [v EXCEPT ![k] = e.v]
        c == CodeAt(ts, e.p + 1)
    IN IF ~e.ok THEN [e EXCEPT !.v = w]
       ELSE IF k = Len(ty.of) THEN Closed(ts, e.p + 1, w, "SQUARE_R")
       ELSE IF c = "COMMA" THEN load_parts(ty, ts, e.p + 2, <<k + 1, w>>)
       ELSE Failed(ts, e.p + 1, w)
load_parts(ty, ts, p, kv) == AndParts(ty, ts, load(ty.of[kv[1]], ts, p, kv[2][kv[1]]), kv[2], kv[1])

\* The loops of array, dict, struct and unconcern: an item, and after a comma another
AndItems(ty, ts, e, close) ==
    IF ~e.ok THEN e
    ELSE IF CodeAt(ts, e.p + 1) = "COMMA" THEN load_items(ty, ts, e.p + 2, e.v, close)
    ELSE Closed(ts, e.p + 1, e.v, close)

Appended(e, v) == [e EXCEPT !.v = IF e.ok THEN Append(v, e.v) ELSE v]
Assigned(e, v, k) == [e EXCEPT !.v = [v EXCEPT !.m = Put(@, k, e.v)]]
Inserted(e, v, k) == [e EXCEPT !.v = IF e.ok THEN Put(v, k, e.v) ELSE v]
Stored(e, v, k, ts, p) ==
    LET raw_token(j) == [code |-> ts[j].code, raw |-> ts[j].raw]
    IN IF ~e.ok THEN [e EXCEPT !.v = v]
       ELSE Done(e.p, [v EXCEPT !.unc = Put(@, k, [j \in 1 .. e.p - p + 1 |-> raw_token(p + j - 1)])])

\* The value at p of a member of an object of type ty
load_custom(ty, ts, p, v, key) ==
    CASE ty.t = "struct" -> [load([t |-> "any"], ts, p, <<>>) EXCEPT !.v = v]
      [] ty.t = "strict" -> Failed(ts, p, v)
      [] ty.t = "object" -> Stored(load([t |-> "any"], ts, p, <<>>), v, key, ts, p)
      [] ty.t = "any" -> load(ty, ts, p, v)

\* The key of a dict: a string as it is, or what its text says
load_key(ty, tkn) ==
    IF ty.t \in {"str", "time"} THEN load_basic(ty, <<tkn>>, 1, clear(ty))
    ELSE load(ty, Tokens(tkn.val, 1), 1, clear(ty))
AndValue(ty, ts, p, v, key) ==
    IF ~key.ok THEN [key EXCEPT !.p = p, !.v = v] ELSE Inserted(load(ty.of, ts, p, clear(ty.of)), v, key.v)

load_member(ty, ts, p, v) ==
    LET key == ts[p].val
    IN CASE CodeAt(ts, p) # "STRING" -> Failed(ts, p, v)
         [] CodeAt(ts, p) = "STRING" /\ CodeAt(ts, p + 1) # "COLON" -> Failed(ts, p + 1, v)
         [] OTHER -> IF ty.t = "dict" THEN AndValue(ty, ts, p + 2, v, load_key(ty.key, ts[p]))
                     ELSE IF ty.t # "any" /\ key \in DOMAIN ty.of
                          THEN Assigned(load(ty.of[key], ts, p + 2, v.m[key]), v, key)
                     ELSE load_custom(ty, ts, p + 2, v, key)

load_items(ty, ts, p, v, close) ==
    AndItems(ty, ts, IF ty.t = "array" THEN Appended(load(ty.of, ts, p, clear(ty.of)), v)
                     ELSE IF close = "SQUARE_R" THEN load(ty, ts, p, v)
                     ELSE load_member(ty, ts, p, v), close)

load(ty, ts, p, v) ==
    LET c == CodeAt(ts, p)
        is_empty(close) == CodeAt(ts, p + 1) = close
    IN CASE ty.t \in {"pair", "tuple"} /\ c = "SQUARE_L" ->
                IF ty.t = "tuple" /\ is_empty("SQUARE_R") THEN Done(p + 1, v)
                ELSE load_parts(ty, ts, p + 1, <<1, v>>)
         [] ty.t \in {"array", "any"} /\ c = "SQUARE_L" ->
                IF is_empty("SQUARE_R") THEN Done(p + 1, v) ELSE load_items(ty, ts, p + 1, v, "SQUARE_R")
         [] ty.t \in {"dict", "struct", "strict", "object", "any"} /\ c = "CURLY_L" ->
                IF is_empty("CURLY_R") THEN Done(p + 1, v) ELSE load_items(ty, ts, p + 1, v, "CURLY_R")
         [] OTHER -> load_basic(ty, ts, p, v)

AndReturn(ty, ts, v) ==
    IF ts = <<>> THEN Failed(ts, 0, v) ELSE load(ty, ts, 1, clear(ty))
json_load(ty, s, v) == AndReturn(ty, Tokens(s, 1), v)
-----------------------------------------------------------------------------
(* A program that dumps a document and loads it, perhaps with another type *)
(* and after somebody has edited the text.                                 *)

JsonInit ==
    /\ \E k \in DOMAIN Docs : \E d \in Docs[k], indent \in BOOLEAN, prec \in {0, 3, 6} :
          /\ prec # 6 => ~indent
          /\ doc = d @@ [indent |-> indent, prec |-> prec]
    /\ text = <<>>
    /\ edited = FALSE
    /\ loaded = Failed(<<>>, 0, clear(doc.as))
    /\ done = FALSE

JsonDump ==
    /\ text = <<>>
    /\ text' = json_dump(doc.ty, doc.v, doc.indent, doc.prec)
    /\ UNCHANGED <<doc, edited, loaded, done>>

JsonEdit ==
    /\ text # <<>> /\ ~edited /\ ~done /\ Len(text) <= MaxText
    /\ \E k \in DOMAIN text : text' = RemoveAt(text, k) \/ \E c \in Typos : text' = InsertAt(text, k, c)
    /\ edited' = TRUE
    /\ UNCHANGED <<doc, loaded, done>>

JsonLoad ==
    /\ text # <<>>
    /\ loaded' = json_load(doc.as, text, loaded.v)
    /\ done' = TRUE
    /\ UNCHANGED <<doc, text, edited>>

JsonNext == JsonDump \/ JsonEdit \/ JsonLoad
-----------------------------------------------------------------------------
RECURSIVE Restorable(_, _, _), Kept(_, _, _), Accepts(_, _, _, _)

\* A real has a point or an exponent in it, and no more digits than are printed.
RealIsPlain(r) ==
    LET n == NumDigits(Abs(r.m))
    IN r.m # 0 /\ n <= Precision /\ (r.x < 0 \/ n + r.x > Precision)

KeyPrec(ty, prec) == IF ty.t = "time" THEN prec ELSE 6

\* A time of which the property says that it comes back. Two cases are left out, and nothing is
\* said of them: with precision 0 dump writes neither the zone nor the closing quote, and when the
\* process first read a time at another offset than standard time, a time that is read is off by
\* the difference.
TimeIsPlain(zone, prec) == prec # 0 /\ zone.now = zone.std

\* The values v that load is to make again of what dump has written
Restorable(ty, v, prec) ==
    CASE ty.t \in {"int", "bool", "str"} -> TRUE
      [] ty.t = "real" -> RealIsPlain(v)
      [] ty.t = "time" -> TimeIsPlain(ty.zone, prec)
      [] ty.t = "array" -> \A k \in DOMAIN v : Restorable(ty.of, v[k], prec)
      [] ty.t \in {"pair", "tuple"} -> \A k \in DOMAIN v : Restorable(ty.of[k], v[k], prec)
      [] ty.t = "dict" -> \A k \in DOMAIN v : Restorable(ty.key, k, KeyPrec(ty.key, prec)) /\ Restorable(ty.of, v[k], prec)
      [] OTHER ->
            /\ \A k \in DOMAIN v.m : Restorable(ty.of[k], v.m[k], prec)
            /\ ty.t = "strict" => v.unc = <<>>
            /\ \A k \in DOMAIN v.unc :
                 ToSet(k) \cap {Quote, Backslash} = {} /\ \A t \in ToSet(v.unc[k]) : t.code # "COMMA"

\* And what they are then: a time has the digits that were written; members that a struct does
\* not know are not kept.
Kept(ty, v, prec) ==
    CASE ty.t \in {"int", "bool", "str", "real"} -> v
      [] ty.t = "time" -> v - (IF prec = 3 THEN v % 10 ELSE 0)
      [] ty.t = "array" -> [k \in DOMAIN v |-> Kept(ty.of, v[k], prec)]
      [] ty.t \in {"pair", "tuple"} -> [k \in DOMAIN v |-> Kept(ty.of[k], v[k], prec)]
      [] ty.t = "dict" ->
            LET kept(k) == Kept(ty.key, k, KeyPrec(ty.key, prec))
            IN [k \in {kept(j) : j \in DOMAIN v} |-> Kept(ty.of, v[CHOOSE j \in DOMAIN v : kept(j) = k], prec)]
      [] OTHER -> [m |-> [k \in DOMAIN v.m |-> Kept(ty.of[k], v.m[k], prec)],
                   unc |-> IF ty.t = "object" THEN v.unc ELSE <<>>]

\* The tokens i .. j are a value of type ty; the commas at some of the positions between are
\* those between its items.
Accepts(ty, ts, i, j) ==
    LET code(k) == CodeAt(ts, k)
        commas == {k \in i + 1 .. j - 1 : code(k) = "COMMA"}
        from(c, b) == b + 1
        to(c, b) == Min({k \in c \cup {j} : k > b}) - 1
        nth(c, b) == Cardinality({k \in c \cup {i} : k <= b})
        key_is(k, a) == CASE ty.t # "dict" -> TRUE
                          [] ty.t = "dict" /\ ty.key.t \in {"str", "time"} -> Accepts(ty.key, ts, a, a)
                          [] OTHER -> LET inner == Tokens(ts[a].val, 1)
                                      IN \E e \in DOMAIN inner : Accepts(ty.key, inner, 1, e)
        value_type(a) == CASE ty.t = "any" -> ty
                           [] ty.t = "dict" -> ty.of
                           [] ty.t \in {"struct", "strict", "object"} ->
                                 IF ts[a].val \in DOMAIN ty.of THEN ty.of[ts[a].val] ELSE [t |-> "any"]
        member(a, b) == /\ code(a) = "STRING" /\ code(a + 1) = "COLON" /\ key_is(ts[a].val, a)
                        /\ ty.t = "strict" => ts[a].val \in DOMAIN ty.of
                        /\ Accepts(value_type(a), ts, a + 2, b)
        listed == code(i) = "SQUARE_L" /\ code(j) = "SQUARE_R" /\ i < j
        braced == code(i) = "CURLY_L" /\ code(j) = "CURLY_R" /\ i < j
        is_list == /\ ty.t \in {"array", "any"} /\ listed
                   /\ i + 1 = j \/ \E c \in SUBSET commas : \A b \in c \cup {i} :
                        Accepts(IF ty.t = "array" THEN ty.of ELSE ty, ts, from(c, b), to(c, b))
        is_row == /\ ty.t \in {"pair", "tuple"} /\ listed
                  /\ \/ ty.t = "tuple" /\ i + 1 = j
                     \/ \E c \in SUBSET commas : /\ Cardinality(c) = Len(ty.of) - 1
                                                 /\ \A b \in c \cup {i} : Accepts(ty.of[nth(c, b)], ts, from(c, b), to(c, b))
        is_map == /\ ty.t \in {"dict", "struct", "strict", "object", "any"} /\ braced
                  /\ i + 1 = j \/ \E c \in SUBSET commas : \A b \in c \cup {i} : member(from(c, b), to(c, b))
    IN is_list \/ is_row \/ is_map \/ (i = j /\ load_basic(ty, ts, i, 0).ok)

\* What load reads is a value of its type that the text begins with, and it reads every one.
LoadsTheGrammar ==
    done => \E ts \in {Tokens(text, 1)} : loaded.ok = (\E j \in DOMAIN ts : Accepts(doc.as, ts, 1, j))

\* load gives back what was dumped, for the values given above; of the others it says nothing.
Restores ==
    (done /\ ~edited /\ Restorable(doc.as, doc.v, doc.prec)) =>
        loaded.ok /\ loaded.v = Kept(doc.as, doc.v, doc.prec)
=============================================================================
