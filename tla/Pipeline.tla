------------------------------ MODULE Pipeline ------------------------------
(***************************************************************************)
(* c7pipeline: programs connected by pipes, built from the last to the     *)
(* first; and nseq/command, which sends a sequence through them with a     *)
(* thread and reads what comes out.  The table of descriptors of the       *)
(* parent maps numbers to ends: what an end reads from and writes to is a  *)
(* channel, 0 is /dev/null.  A program is a filter that copies items, and  *)
(* may fail.                                                               *)
(***************************************************************************)
EXTENDS Integers, Sequences, FiniteSets

CONSTANTS
    N,           \* the number of programs
    Ways,        \* how they are executed, some of "command", "socket", "fds"
    MaxFd,       \* descriptors of the parent are 3 .. MaxFd
    CloseLimit,  \* exec_on_child closes the descriptors below this one
    MaxItems,    \* the sequence is 1 .. MaxItems
    BufSize,     \* buffer_size: items written or read at once
    Room,        \* items in a pipe
    MayFail,     \* programs that may exit with an error
    ForkFails    \* fork and pipe may fail

PipelineAssumption ==
    /\ N \in Nat \ {0} /\ MaxFd \in Nat /\ MaxFd >= 10 /\ CloseLimit \in Nat
    /\ Ways \subseteq {"command", "socket", "fds"} /\ MayFail \subseteq 1 .. N
    /\ {BufSize, Room} \subseteq Nat \ {0} /\ MaxItems \in Nat /\ ForkFails \in BOOLEAN

VARIABLES
    way,     \* chosen once
    table,   \* the descriptors of the parent
    var,     \* the variables of exec and build that hold a descriptor; -1 is none
    at,      \* where the thread that executes the pipeline is
    chan,    \* chan[c]: the items in channel c
    prog,    \* prog[i]: what child i is, the ends it has, the item it copies
    sender,  \* the thread of command_ctx: where it is, the next item, its buffer
    reader,  \* command_iter: where it is, vec_, and what it has yielded
    own      \* history: the descriptors that the user has to close, wrong ones that were closed

pipeVars == <<way, table, var, at, chan, prog, sender, reader, own>>

Progs     == 1 .. N
Into(i)   == i                  \* the channel that program i reads
Fds       == 3 .. MaxFd
End(r, w) == [rd |-> r, wr |-> w]
Free      == End(-1, -1)
DevNull   == End(0, 0)
Open      == {f \in Fds : table[f] # Free}

\* The k-th descriptor that is free
Lowest(k) == CHOOSE f \in Fds \ Open : Cardinality({g \in Fds \ Open : g <= f}) = k

\* close of some variables: those that hold -1 do nothing.
Without(tab, S) == [f \in Fds |-> IF f \in S THEN Free ELSE tab[f]]
Wrong(tab, S)   == {f \in S \ {-1} : tab[f] = Free}

NoProg == [st |-> "none", ends |-> <<>>, others |-> {}, item |-> 0, status |-> 0]
Dead(i, status) == [NoProg EXCEPT !.st = "dead", !.status = status]

PipeInit ==
    /\ way \in Ways
    /\ table = [f \in Fds |-> IF way = "fds" /\ f \in {3, 4} THEN DevNull ELSE Free]
    /\ var = [fd0 |-> -1, p1 |-> -1, fd2 |-> -1, null2 |-> -1, keep0 |-> -1, keep1 |-> -1]
    /\ at = "exec"
    /\ chan = [c \in 1 .. N + 1 |-> <<>>]
    /\ prog = [i \in Progs |-> NoProg]
    /\ sender = [pc |-> "fill", next |-> 1, buf |-> <<>>]
    /\ reader = [pc |-> "read", vec |-> <<>>, out |-> <<>>]
    /\ own = [open |-> {}, wrong |-> {}]
-----------------------------------------------------------------------------
(* exec opens what is connected to the programs; its last part is build,   *)
(* with p1 for fd1.                                                        *)

Build(tab, values, mine) ==
    /\ table' = tab
    /\ var' = values
    /\ own' = [own EXCEPT !.open = mine]
    /\ at' = "build"
    /\ UNCHANGED <<way, chan, prog, sender, reader>>

\* exec(pfd, -1): a pipe to the first program, and one from the last
exec_pipes ==
    /\ at = "exec" /\ way = "command"
    /\ LET f == [k \in 1 .. 5 |-> Lowest(k)]
       IN Build([table EXCEPT ![f[1]] = End(1, -1), ![f[2]] = End(-1, 1), ![f[3]] = End(N + 1, -1),
                              ![f[4]] = End(-1, N + 1), ![f[5]] = DevNull],
                [fd0 |-> f[1], p1 |-> f[4], fd2 |-> f[5], null2 |-> f[5], keep0 |-> f[3], keep1 |-> f[2]],
                {})

\* exec(-1): a socketpair, whose one side is for the programs, twice
exec_socket ==
    /\ at = "exec" /\ way = "socket"
    /\ LET f == [k \in 1 .. 4 |-> Lowest(k)]
       IN Build([table EXCEPT ![f[1]] = End(N + 1, 1), ![f[2]] = End(1, N + 1), ![f[3]] = DevNull,
                              ![f[4]] = End(1, N + 1)],
                [fd0 |-> f[2], p1 |-> f[4], fd2 |-> f[3], null2 |-> f[3], keep0 |-> f[1], keep1 |-> -1],
                {})

\* exec(fd0, fd1, fd2): /dev/null for -1, a dup of fd1 where it is the same as another (fd0 and fd2
\* must be different).  The user keeps fd2, and what was not given.
exec_fds ==
    /\ at = "exec" /\ way = "fds"
    /\ \E u0, u1, u2 \in {-1, 3, 4} :
         /\ u0 # u2 \/ u0 = -1
         /\ LET fd0 == IF u0 = -1 THEN Lowest(1) ELSE u0
                fd1 == IF u1 \in {-1, u0, u2} THEN Lowest(2) ELSE u1
                fd2 == IF u2 = -1 THEN Lowest(3) ELSE u2
            IN Build([f \in Fds |-> IF f \in {fd0, fd1, fd2} THEN DevNull ELSE table[f]],
                     [fd0 |-> fd0, p1 |-> fd1, fd2 |-> fd2, null2 |-> IF u2 = -1 THEN fd2 ELSE -1,
                      keep0 |-> -1, keep1 |-> -1],
                     {3, 4} \ ({u0, u1} \ {u2}))
-----------------------------------------------------------------------------
(* build, from the last program to the first                               *)

Todo == {i \in Progs : prog[i].st = "none"}
Last == CHOOSE i \in Todo : \A j \in Todo : j <= i

\* A pipe before the program, or fd0 before the first one; fork; and the parent closes p0 and p1
\* (what is in closes).  The child has all descriptors of the parent until it is in exec_on_child.
Start(closes) ==
    /\ at = "build" /\ Todo # {}
    /\ LET i  == Last
           p0 == IF i = 1 THEN var.fd0 ELSE Lowest(1)
           w  == IF i = 1 THEN -1 ELSE Lowest(2)
           tab == IF i = 1 THEN table
                  ELSE [table EXCEPT ![p0] = End(Into(i), -1), ![w] = End(-1, Into(i))]
           ends == {p0} \cup {var[k] : k \in closes}
       IN /\ prog' = [prog EXCEPT ![i] =
                [NoProg EXCEPT !.st = "forked",
                               !.ends = <<p0, var.p1, var.fd2>>,
                               !.others = {<<f, tab[f]>> : f \in {g \in Fds : tab[g] # Free}}]]
          /\ table' = Without(tab, ends)
          /\ own' = [own EXCEPT !.wrong = @ \cup Wrong(tab, ends)]
          /\ var' = [var EXCEPT !.p1 = w, !.fd0 = IF i = 1 THEN -1 ELSE @]
    /\ UNCHANGED <<way, at, chan, sender, reader>>

build_next_keeps == Start({}) \* mutant: the parent keeps its end of the pipe to the program
build_next       == Start({"p1"})

\* build returns, then exec: only what is for the user is still open.
build_return ==
    /\ at = "build" /\ Todo = {}
    /\ at' = "use"
    /\ table' = Without(table, {var.fd0, var.p1, var.null2})
    /\ own' = [own EXCEPT !.wrong = @ \cup Wrong(table, {var.fd0, var.p1, var.null2})]
    /\ UNCHANGED <<way, var, chan, prog, sender, reader>>

\* pipe or fork fails: the programs that were started are killed and waited for, and exec closes
\* the ends that were for the user, too.
build_fails ==
    /\ at = "build" /\ Todo # {} /\ ForkFails
    /\ at' = "failed"
    /\ prog' = [i \in Progs |-> Dead(i, -9)]
    /\ LET S == {var.fd0, var.p1, var.null2, var.keep0, var.keep1}
       IN /\ table' = Without(table, S)
          /\ own' = [own EXCEPT !.wrong = @ \cup Wrong(table, S)]
    /\ UNCHANGED <<way, var, chan, sender, reader>>
-----------------------------------------------------------------------------
(* The children                                                            *)

Lives(i)  == prog[i].st \in {"forked", "runs"}
Held(i)   == {e[2] : e \in prog[i].others}
             \cup IF prog[i].st = "runs" THEN {prog[i].ends[k] : k \in 1 .. 3} ELSE {}
InUse     == {table[f] : f \in Open} \cup UNION {Held(i) : i \in {j \in Progs : Lives(j)}}
Readers(c) == \E e \in InUse : e.rd = c
Writers(c) == \E e \in InUse : e.wr = c

\* p0, p1 and fd2 become 0, 1 and 2, and what is below CloseLimit is closed; chdir and exec may fail.
exec_on_child(i) ==
    LET EndOf(f) == (CHOOSE e \in prog[i].others : e[1] = f)[2]
    IN /\ prog[i].st = "forked"
       /\ \/ prog' = [prog EXCEPT ![i].st = "runs", ![i].ends = [k \in 1 .. 3 |-> EndOf(@[k])],
                                  ![i].others = {e \in @ : e[1] >= CloseLimit}]
          \/ i \in MayFail /\ prog' = [prog EXCEPT ![i] = Dead(i, 1)]
       /\ UNCHANGED <<way, table, var, at, chan, sender, reader, own>>

\* The program copies an item; at the end of what it reads it exits, and SIGPIPE kills it when
\* nobody reads what it writes.
prog_reads(i) ==
    LET c == prog[i].ends[1].rd
    IN /\ prog[i].st = "runs" /\ prog[i].item = 0 /\ c # 0
       /\ chan[c] # <<>>
       /\ prog' = [prog EXCEPT ![i].item = Head(chan[c])]
       /\ chan' = [chan EXCEPT ![c] = Tail(@)]
       /\ UNCHANGED <<way, table, var, at, sender, reader, own>>

prog_writes(i) ==
    LET c == prog[i].ends[2].wr
    IN /\ prog[i].st = "runs" /\ prog[i].item # 0
       /\ c # 0 /\ Readers(c) => Len(chan[c]) < Room
       /\ chan' = IF c # 0 /\ Readers(c) THEN [chan EXCEPT ![c] = Append(@, prog[i].item)] ELSE chan
       /\ prog' = [prog EXCEPT ![i] = IF c = 0 \/ Readers(c) THEN [@ EXCEPT !.item = 0] ELSE Dead(i, -13)]
       /\ UNCHANGED <<way, table, var, at, sender, reader, own>>

prog_exits(i) ==
    LET c == prog[i].ends[1].rd
    IN /\ prog[i].st = "runs"
       /\ \/ /\ prog[i].item = 0
             /\ c # 0 => chan[c] = <<>> /\ ~Writers(c)
             /\ prog' = [prog EXCEPT ![i] = Dead(i, 0)]
          \/ i \in MayFail /\ prog' = [prog EXCEPT ![i] = Dead(i, 1)]
       /\ UNCHANGED <<way, table, var, at, chan, sender, reader, own>>
-----------------------------------------------------------------------------
(* The thread that sends: it writes its buffer when that is full, and at   *)
(* the end.                                                                *)

Sending == way = "command" /\ at \in {"use", "gone"}
SenderCloses(pc) ==
    /\ sender' = [sender EXCEPT !.pc = pc]
    /\ table' = Without(table, {var.keep1})
    /\ own' = [own EXCEPT !.wrong = @ \cup Wrong(table, {var.keep1})]

sender_fill ==
    /\ Sending /\ sender.pc = "fill"
    /\ sender.next <= MaxItems /\ Len(sender.buf) < BufSize
    /\ sender' = [sender EXCEPT !.next = @ + 1, !.buf = Append(@, sender.next)]
    /\ UNCHANGED <<way, table, var, at, chan, prog, reader, own>>

MustWrite ==
    \/ sender.pc = "write"
    \/ sender.pc = "fill" /\ sender.buf # <<>> /\ (Len(sender.buf) = BufSize \/ sender.next > MaxItems)

sender_write ==
    /\ Sending /\ MustWrite
    /\ \/ /\ Readers(1) /\ Len(chan[1]) < Room
          /\ chan' = [chan EXCEPT ![1] = Append(@, Head(sender.buf))]
          /\ sender' = [sender EXCEPT !.buf = Tail(@), !.pc = IF Len(sender.buf) = 1 THEN "fill" ELSE "write"]
          /\ UNCHANGED <<table, own>>
       \/ ~Readers(1) /\ SenderCloses("error") /\ UNCHANGED chan
    /\ UNCHANGED <<way, var, at, prog, reader>>

sender_end ==
    /\ Sending /\ sender.pc = "fill" /\ sender.next > MaxItems /\ sender.buf = <<>>
    /\ SenderCloses("end")
    /\ UNCHANGED <<way, var, at, chan, prog, reader>>
-----------------------------------------------------------------------------
(* command_iter                                                            *)

Reading(pc) == way = "command" /\ at = "use" /\ reader.pc = pc

\* readvec: read_n until vec_ is full, or the end.
readvec ==
    /\ Reading("read")
    /\ \/ /\ chan[N + 1] # <<>>
          /\ reader' = [reader EXCEPT !.vec = Append(@, Head(chan[N + 1])),
                                      !.pc = IF Len(reader.vec) + 1 = BufSize THEN "have" ELSE "read"]
          /\ chan' = [chan EXCEPT ![N + 1] = Tail(@)]
          /\ UNCHANGED <<table, own>>
       \/ /\ chan[N + 1] = <<>> /\ ~Writers(N + 1)
          /\ reader' = [reader EXCEPT !.pc = IF reader.vec = <<>> THEN "closed" ELSE "have"]
          /\ table' = IF reader.vec = <<>> THEN Without(table, {var.keep0}) ELSE table
          /\ own' = IF reader.vec = <<>> THEN [own EXCEPT !.wrong = @ \cup Wrong(table, {var.keep0})] ELSE own
          /\ UNCHANGED chan
    /\ UNCHANGED <<way, var, at, prog, sender>>

\* operator* and operator++
next_item ==
    /\ Reading("have")
    /\ reader' = [reader EXCEPT !.out = Append(@, Head(reader.vec)), !.vec = Tail(@),
                                !.pc = IF Len(reader.vec) = 1 THEN "read" ELSE "have"]
    /\ UNCHANGED <<way, table, var, at, chan, prog, sender, own>>

\* operator==(end): it waits for the programs, and raises when one has failed.
AllDead == \A i \in Progs : prog[i].st = "dead"
iter_end ==
    /\ Reading("closed") /\ AllDead
    /\ reader' = [reader EXCEPT !.pc = IF \A i \in Progs : prog[i].status \in {0, -13} THEN "end" ELSE "raised"]
    /\ UNCHANGED <<way, table, var, at, chan, prog, sender, own>>

\* ~command_ctx, after the sequence or in the middle of it: kill, wait, and rfd_ is closed.
drop ==
    /\ way = "command" /\ at = "use" /\ reader.pc \in {"have", "end", "raised"}
    /\ at' = "gone"
    /\ prog' = [i \in Progs |-> IF Lives(i) THEN Dead(i, -9) ELSE prog[i]]
    /\ table' = IF reader.pc = "have" THEN Without(table, {var.keep0}) ELSE table
    /\ UNCHANGED <<way, var, chan, sender, reader, own>>

\* The user of exec closes what was returned, and waits.
wait ==
    /\ way # "command" /\ at \in {"use", "wait"}
    /\ \/ at = "use" /\ at' = "wait" /\ table' = Without(table, {var.keep0})
       \/ at = "wait" /\ AllDead /\ at' = "gone" /\ UNCHANGED table
    /\ UNCHANGED <<way, var, chan, prog, sender, reader, own>>
-----------------------------------------------------------------------------
exec         == exec_pipes \/ exec_socket \/ exec_fds
ParentRuns   == exec \/ build_next \/ build_return \/ build_fails \/ readvec \/ next_item \/ iter_end \/ wait
SenderRuns   == sender_fill \/ sender_write \/ sender_end
ProgRuns(i)  == exec_on_child(i) \/ prog_reads(i) \/ prog_writes(i) \/ prog_exits(i)

PipeNext == ParentRuns \/ drop \/ SenderRuns \/ \E i \in Progs : ProgRuns(i)
-----------------------------------------------------------------------------
\* What is read is what was sent, in order, and the sequence does not end, without an exception,
\* before everything has come: whichever program fails.
PipedInOrder ==
    /\ reader.out \o reader.vec = [k \in 1 .. Len(reader.out) + Len(reader.vec) |-> k]
    /\ reader.pc = "end" => reader.out = [k \in 1 .. MaxItems |-> k]

\* exec closes each descriptor once, those it made and fd0 and fd1, and no other one; and in the
\* end, or when it fails, the parent has none left that the user does not know.
FdsAreClosed ==
    /\ own.wrong = {}
    /\ at = "failed" => Open = own.open
    /\ at = "use" => Open \ {var.keep0, var.keep1} = own.open
    /\ at = "gone" /\ (way = "command" => sender.pc \in {"end", "error"}) => Open = own.open

\* The programs come to their end, and so do the sequence and the wait for them: nobody else holds
\* an end of a pipe open.
PipeEnds == []<>(at = "failed" \/ at = "gone" \/ reader.pc \in {"end", "raised"})
=============================================================================
