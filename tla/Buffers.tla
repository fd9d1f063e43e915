------------------------------- MODULE Buffers ------------------------------
(***************************************************************************)
(* The growing arrays of libc7xx: rawbuf over std_memory_manager or        *)
(* anon_mmap_manager, and mmvec over an mmobj, which takes anonymous       *)
(* memory until it is larger than its threshold, or there is none, and     *)
(* goes on with a file then.  Any allocation may fail, and may move what   *)
(* is allocated. Sizes are in items.  One action is one call.              *)
(***************************************************************************)
EXTENDS Integers, Sequences

CONSTANTS
    Objects,    \* the numbers of the arrays, between which contents are moved
    Busy,       \* those that are also resized, inserted into, and so on
    FileSizes,  \* of the files that are read
    Zero, Junk, \* what resize fills in; what new memory holds
    Page,       \* items in a page
    InitReq,    \* items of the first allocation of a rawbuf
    Thresholds, \* thresholds that mmvecs are given
    MaxItems,   \* bound: items of an array
    MaxCalls,   \* bound: calls made on rawbufs
    SwitchMayFail  \* the file is opened, and then cannot be enlarged or mapped

BuffersAssumption ==
    /\ Page \in Nat \ {0} /\ InitReq \in Nat \ {0} /\ MaxItems \in Nat /\ MaxCalls \in Nat
    /\ Objects \subseteq Nat /\ FileSizes \subseteq Nat /\ Busy \subseteq Objects /\ Zero # Junk
    /\ Thresholds \subseteq Nat /\ SwitchMayFail \in BOOLEAN

VARIABLES
    kind, \* what the arrays are: "std", "anon" (rawbuf), "mmvec", or "none" at all
    buf,  \* [Objects -> an array with its manager; fd: "none", "open" or "mapped"]
    mem,  \* what is allocated at each address, <<>> where nothing is
    held, \* history: what was put into each array; Junk where a failed call leaves it open
    calls \* history: calls made on rawbufs

vars == <<kind, buf, mem, held, calls>>

Addresses == 1 .. 4   \* two arrays, one of which is copied into new memory
Kinds == {"std", "anon", "mmvec"}
New   == [top |-> 0, capa |-> 0, n |-> 0, addr |-> 0, size |-> 0,
          threshold |-> 0, path |-> FALSE, fd |-> "none"]

c7_align(z)    == ((z + Page - 1) \div Page) * Page
Fit(c, z)      == [k \in 1 .. z |-> IF k <= Len(c) THEN c[k] ELSE Junk]
Put(c, pos, s) == [k \in 1 .. Len(c) |-> IF k - pos \in 1 .. Len(s) THEN s[k - pos] ELSE c[k]]
Cells(m, a)    == IF a = 0 THEN <<>> ELSE m[a]
Free(m, a)     == IF a = 0 THEN m ELSE [m EXCEPT ![a] = <<>>]
Unused(m)      == CHOOSE a \in Addresses : m[a] = <<>> /\ \A c \in 1 .. a - 1 : m[c] # <<>>

\* b with size cells at address a, its old ones given back
Moved(m, b, a, cells) ==
    [ok |-> TRUE, mem |-> [Free(m, b.addr) EXCEPT ![a] = cells],
     b |-> [b EXCEPT !.addr = a, !.size = Len(cells)]]
Kept(m, b)   == [ok |-> TRUE, mem |-> m, b |-> b]
Failed(m, b) == [ok |-> FALSE, mem |-> m, b |-> b]

\* realloc and mremap: in place or elsewhere, with what was there
Reallocated(m, b, z) ==
    {Moved(m, b, a, Fit(Cells(m, b.addr), z)) : a \in ({b.addr} \ {0}) \cup {Unused(m)}}
-----------------------------------------------------------------------------
(* The managers of rawbuf                                                  *)

std_reserve(m, b, z) ==
    IF z = b.size THEN {Kept(m, b)} ELSE Reallocated(m, b, z) \cup {Failed(m, b)}

anon_reserve(m, b, z) ==
    IF c7_align(z) = b.size THEN {Kept(m, b)} ELSE Reallocated(m, b, c7_align(z)) \cup {Failed(m, b)}

reset_manager(m, b) == Free(m, b.addr)

\* Their memory changes hands; what is left has none.
mgr_moved(b, from) == [b EXCEPT !.addr = from.addr, !.size = from.size]
mgr_left(b)        == [b EXCEPT !.addr = 0, !.size = 0]

\* rawbuf::reserve
reserve(m, b, n_req) ==
    LET rs == IF kind = "std" THEN std_reserve(m, b, n_req) ELSE anon_reserve(m, b, n_req)
    IN IF n_req = b.capa THEN {Kept(m, b)}
       ELSE {IF r.ok THEN [r EXCEPT !.b.top = r.b.addr, !.b.capa = r.b.size] ELSE r : r \in rs}

\* The next capacity: 1.6 times the old one, the first one fixed.
extend(m, b) ==
    LET more == (b.capa * 8) \div 5
    IN CASE b.capa = 0 -> reserve(m, b, InitReq)
         [] b.capa # 0 /\ more = b.capa -> reserve(m, b, more + InitReq)
         [] OTHER -> reserve(m, b, more)
-----------------------------------------------------------------------------
(* The manager of mmvec                                                    *)

\* opentmp or open fails without a path.  Once the file is open it is kept, mapped or not.
switch_to_file_mm(m, b, z) ==
    LET size == c7_align(z)
    IN {Failed(m, b)}
       \cup {Failed(m, [b EXCEPT !.fd = "open"]) : x \in {y \in {1} : b.path /\ SwitchMayFail}}
       \cup {Moved(m, [b EXCEPT !.fd = "mapped"], Unused(m), Fit(Cells(m, b.addr), size)) : x \in {y \in {1} : b.path}}

\* The file is mapped once more, at another place, and has what was put there already.
resize_file_mm(m, b, z) ==
    LET file == IF b.fd = "mapped" THEN Cells(m, b.addr) ELSE <<>>
    IN {Failed(m, b), Moved(m, [b EXCEPT !.fd = "mapped"], Unused(m), Fit(file, c7_align(z)))}

resize_anon_mm(m, b, z) ==
    LET size == c7_align(z)
    IN IF size \in {0, b.size} THEN {Kept(m, b)}
       ELSE Reallocated(m, b, size) \cup (IF b.path THEN switch_to_file_mm(m, b, size) ELSE {Failed(m, b)})

mm_resize(m, b, z) ==
    CASE b.fd # "none" -> resize_file_mm(m, b, z)
      [] b.fd = "none" /\ z > b.threshold -> switch_to_file_mm(m, b, z)
      [] OTHER -> resize_anon_mm(m, b, z)

\* operator= of mmobj leaves the threshold as it is.
mm_moved(b, from) == [mgr_moved(b, from) EXCEPT !.path = from.path, !.fd = from.fd]
mm_reset(m, b)    == [mem |-> Free(m, b.addr), b |-> mm_moved(b, New)]

mm_init(m, b, z, threshold, path) ==
    LET r == mm_reset(m, b)
    IN mm_resize(r.mem, [r.b EXCEPT !.threshold = threshold, !.path = path], z)

Adopt(r) == IF r.ok THEN [r EXCEPT !.b.top = r.b.addr, !.b.capa = r.b.size] ELSE r

extend_vec(m, b) == {Adopt(r) : r \in mm_resize(m, b, b.capa * 2)}
-----------------------------------------------------------------------------
(* The calls.  A call that fails leaves the array as it was.               *)

Counted == calls' = (IF kind = "mmvec" THEN calls ELSE calls + 1) /\ calls < MaxCalls

\* What is behind the n items of an array is junk to everybody.
Becomes(o, r, h) ==
    /\ mem' = IF r.b.top = 0 THEN r.mem
              ELSE [r.mem EXCEPT ![r.b.top] = Fit(SubSeq(@, 1, r.b.n), Len(@))]
    /\ buf' = [buf EXCEPT ![o] = r.b]
    /\ held' = [held EXCEPT ![o] = h]
    /\ UNCHANGED kind
    /\ Counted
Written(r, s)    == [r EXCEPT !.mem[r.b.top] = Put(@, r.b.n, s), !.b.n = @ + Len(s)]
Takes(b, from)   == [b EXCEPT !.top = from.top, !.capa = from.capa, !.n = from.n]
Emptied(b)       == Takes(b, New)
raw_moved(b, from) == Takes(mgr_moved(b, from), from)
vec_moved(b, from) == Takes(mm_moved(b, from), from)
vec_left(b)      == [mgr_left(b) EXCEPT !.path = FALSE, !.fd = "none"]
contents(o)      == SubSeq(Cells(mem, buf[o].top), 1, buf[o].n)   \* begin() .. end()

push_back(o, x) ==
    /\ kind \in {"std", "anon"} /\ buf[o].n < MaxItems
    /\ \E r \in IF buf[o].n = buf[o].capa THEN extend(mem, buf[o]) ELSE {Kept(mem, buf[o])} :
         IF r.ok THEN Becomes(o, Written(r, <<x>>), Append(held[o], x)) ELSE Becomes(o, r, held[o])

\* push_back of cnt items of the array from, from pos on: after the memory has moved
push_back_rb(o, from, pos, cnt) ==
    /\ kind \in {"std", "anon"} /\ buf[o].n + cnt \in 1 .. MaxItems
    /\ pos + cnt <= buf[from].n
    /\ \E r \in reserve(mem, buf[o], buf[o].n + cnt) :
         LET src == Cells(r.mem, IF from = o THEN r.b.top ELSE buf[from].top)
         IN IF r.ok THEN Becomes(o, Written(r, SubSeq(src, pos + 1, pos + cnt)),
                                 held[o] \o SubSeq(held[from], pos + 1, pos + cnt))
            ELSE Becomes(o, r, held[o])

reserve_call(o, n_req) ==
    /\ kind \in {"std", "anon"} /\ n_req >= buf[o].n
    /\ \E r \in reserve(mem, buf[o], n_req) : Becomes(o, r, held[o])

resize(o, n) ==
    /\ kind \in {"std", "anon"}
    /\ LET zeros == [k \in 1 .. n - buf[o].n |-> Zero]
       IN IF n > buf[o].n
          THEN \E r \in reserve(mem, buf[o], n) :
                 IF r.ok THEN Becomes(o, Written(r, zeros), held[o] \o zeros) ELSE Becomes(o, r, held[o])
          ELSE Becomes(o, Kept(mem, [buf[o] EXCEPT !.n = n]), SubSeq(held[o], 1, n))

\* insert_from and append_from: the items s of a file, whose reading may fail after the items
\* behind pos have been moved out of the way.
insert_from(o, s, pos) ==
    /\ kind \in {"std", "anon"} /\ pos <= buf[o].n /\ buf[o].n + Len(s) \in 1 .. MaxItems
    /\ \E r \in reserve(mem, buf[o], buf[o].n + Len(s)), failed \in BOOLEAN :
         LET old  == SubSeq(r.mem[r.b.top], 1, r.b.n)
             tail == SubSeq(old, pos + 1, Len(old))
             come == IF failed THEN [k \in DOMAIN s |-> Junk] ELSE s
             wide == [r EXCEPT !.mem[r.b.top] = Put(Put(@, pos + Len(s), tail), pos, come)]
             h    == SubSeq(held[o], 1, pos)
         IN CASE ~r.ok -> Becomes(o, r, held[o])
              [] r.ok /\ failed -> Becomes(o, wide, h \o [k \in DOMAIN tail |-> Junk])
              [] OTHER -> Becomes(o, [wide EXCEPT !.b.n = @ + Len(s)],
                                  h \o s \o SubSeq(held[o], pos + 1, Len(held[o])))

\* init of an mmvec that has nothing; z > 0
init(o, z, threshold, path) ==
    /\ kind = "mmvec" /\ buf[o].capa = 0
    /\ \E r \in mm_init(mem, buf[o], z, threshold, path) : Becomes(o, Adopt(r), held[o])

\* append, and push_back, which throws what append returns
append(o, x) ==
    /\ kind = "mmvec" /\ buf[o].capa > 0 /\ buf[o].n < MaxItems
    /\ \E r \in IF buf[o].n = buf[o].capa THEN extend_vec(mem, buf[o]) ELSE {Kept(mem, buf[o])} :
         IF r.ok THEN Becomes(o, Written(r, <<x>>), Append(held[o], x)) ELSE Becomes(o, r, held[o])

pop_back(o) ==
    /\ kind = "mmvec" /\ buf[o].n > 0
    /\ Becomes(o, Kept(mem, [buf[o] EXCEPT !.n = @ - 1]), SubSeq(held[o], 1, buf[o].n - 1))

\* clear, and flush_to when all is written
clear(o) == kind # "none" /\ Becomes(o, Kept(mem, [buf[o] EXCEPT !.n = 0]), <<>>)

\* reset, free and the end of the array
reset(o) ==
    /\ kind # "none"
    /\ LET b == IF kind = "mmvec" THEN mm_reset(mem, buf[o]).b ELSE mgr_left(buf[o])
       IN Becomes(o, [mem |-> reset_manager(mem, buf[o]), b |-> Emptied(b)], <<>>)

\* o = std::move(from), and the constructor that moves when o is new
move(o, from) ==
    /\ kind # "none" /\ o # from
    /\ mem' = Free(mem, buf[o].addr)
    /\ buf' = [buf EXCEPT ![o] = IF kind = "mmvec" THEN vec_moved(@, buf[from]) ELSE raw_moved(@, buf[from]),
                          ![from] = Emptied(IF kind = "mmvec" THEN vec_left(@) ELSE mgr_left(@))]
    /\ held' = [held EXCEPT ![o] = held[from], ![from] = <<>>]
    /\ UNCHANGED kind
    /\ Counted

BuffersInit ==
    /\ buf = [o \in Objects |-> New]
    /\ mem = [a \in Addresses |-> <<>>]
    /\ held = [o \in Objects |-> <<>>]
    /\ calls = 0

Item(o) == 10 * o + buf[o].n
File(z) == [k \in 1 .. z |-> k]

Rawbuf(o) ==
    \/ \E from \in Objects, pos, cnt \in 0 .. MaxItems : push_back_rb(o, from, pos, cnt)
    \/ \E n \in 1 .. MaxItems : reserve_call(o, n)
    \/ \E n \in 0 .. MaxItems : resize(o, n)
    \/ \E z \in FileSizes, pos \in 0 .. MaxItems : insert_from(o, File(z), pos)

BuffersNext ==
    \/ \E o \in Busy : Rawbuf(o)
    \/ \E o \in Objects :
         \/ push_back(o, Item(o)) \/ append(o, Item(o))
         \/ \E z \in {1, Page + 1}, t \in Thresholds, path \in BOOLEAN : init(o, z, t, path)
         \/ pop_back(o) \/ clear(o) \/ reset(o)
         \/ \E from \in Objects : move(o, from)

Spec == kind \in Kinds /\ BuffersInit /\ [][BuffersNext]_vars
-----------------------------------------------------------------------------
\* An array holds what was put into it, in order, however often its memory was moved, changed
\* for a file, or handed to another array, and whatever failed on the way: a failed call leaves
\* open only what is behind the place where insert_from was to read.
HoldsWhatWasPut ==
    \A o \in Objects :
        /\ buf[o].n = Len(held[o])
        /\ \A k \in 1 .. buf[o].n : held[o][k] # Junk => contents(o)[k] = held[o][k]

\* The memory an array writes to is there, is as large as the array takes it for, and is its
\* own; and memory that no array has any more was given back.
MemoryIsOwn ==
    /\ \A o \in Objects :
         /\ buf[o].n <= buf[o].capa
         /\ buf[o].top = buf[o].addr /\ buf[o].capa = buf[o].size
         /\ Len(Cells(mem, buf[o].top)) = buf[o].capa
         /\ buf[o].fd = "mapped" => buf[o].top # 0
    /\ \A a \in Addresses : mem[a] # <<>> => \E o \in Objects : buf[o].addr = a
    /\ \A o, from \in Objects : o # from /\ buf[o].top # 0 => buf[o].top # buf[from].top
=============================================================================
