------------------------------ MODULE DataPara ------------------------------
(***************************************************************************)
(* The data-parallel rounds of c7thread/datapara.hpp.  The driver thread   *)
(* collects items in rcv_items_; when a batch is full, or the round ends,  *)
(* it exchanges the buffer with that of the main threads and starts them;  *)
(* main thread i processes the items i, i + N, ... of the batch; then main *)
(* thread 0 exchanges the buffer with snd_items_ and starts the post       *)
(* thread, which processes the batch in order while the next one is        *)
(* collected.                                                              *)
(*                                                                         *)
(* The buffers are not locked: only the bits of sync_mask_ keep the        *)
(* threads apart.  A call of sync_mask_ is one step (Mask shows that it    *)
(* may be taken as one), and so is each exchange of buffers.               *)
(***************************************************************************)
EXTENDS Integers, Sequences, FiniteSets

CONSTANTS
    N,           \* main_n_thread_
    Capacity,    \* max_items_
    SameType,    \* ItemIn = ItemOut: the main threads process the items in place
    MayCrash,    \* the threads whose process function may throw: some of 0..N
    EndAnytime,  \* end() may be called in the middle of a round
    MaxPut,      \* bound: items put in a behaviour
    MaxRounds    \* bound: rounds in a behaviour

Mains == 0 .. N - 1
Post  == N                       \* the post thread has the next index
Team  == 0 .. N

DataParaAssumption ==
    /\ N \in Nat \ {0}
    /\ Capacity \in Nat \ {0}
    /\ SameType \in BOOLEAN
    /\ MayCrash \subseteq Team
    /\ EndAnytime \in BOOLEAN
    /\ MaxPut \in Nat
    /\ MaxRounds \in Nat

VARIABLES
    mask,      \* sync_mask_: the set of the bits that are on
    rcv,       \* rcv_items_: an item is its number in the order of put
    in,        \* in_items_ (items_ if SameType)
    out,       \* out_items_: 0 is an ItemOut no main thread has written
    snd,       \* snd_items_
    dpc,       \* where the driver is
    todo,      \* what the driver does when the main threads are resumed
    pc,        \* pc[i]: where thread i of the team is
    size,      \* size[i]: out_items_.size() as thread i read it in resize
    inRound,   \* between start_round and the return of end_round
    puts,      \* history: items put
    mained,    \* history: mained[i] is the number of times item i was main-processed
    posted,    \* history: what the post thread processed, in order
    rounds     \* history: rounds started

buffers == <<rcv, in, out, snd>>
driver  == <<dpc, todo, inRound, puts, rounds>>
work    == <<mained, posted>>
vars    == <<mask, buffers, driver, pc, size, work>>

start_req(i) == <<"start_req", i>>
paused(i)    == <<"paused", i>>
FINISH_REQ   == <<"finish", 0>>
FINISHED_ANY == <<"finish", 1>>

Except            == {FINISH_REQ, FINISHED_ANY}
allmain_start_req == {start_req(i) : i \in Mains}
allmain_paused    == {paused(i) : i \in Mains}
all_paused        == {paused(i) : i \in Team}
Bits              == {start_req(i) : i \in Team} \cup all_paused \cup Except

Items == 1 .. MaxPut

DriverAt == {"idle", "wait", "swap", "off", "on", "alloff", "all", "failed", "join", "ended"}
MainAt   == {"pause", "wait", "check", "resize", "init", "apply", "join", "swap", "on", "alloff", "exit", "done"}

TypeOK ==
    /\ mask \subseteq Bits
    /\ rcv \in Seq(Items) /\ in \in Seq(Items)
    /\ out \in Seq(Items \cup {0}) /\ snd \in Seq(Items \cup {0})
    /\ dpc \in DriverAt
    /\ todo \in {"put", "first", "last"}
    /\ pc \in [Team -> MainAt]
    /\ size \in [Team -> Nat]
    /\ inRound \in BOOLEAN
    /\ puts \in 0 .. MaxPut
    /\ mained \in [Items -> Nat]
    /\ posted \in Seq(Items \cup {0})
    /\ rounds \in 0 .. MaxRounds

\* The state init() leaves: empty buffers, a cleared mask, all threads started.
Init ==
    /\ mask = {}
    /\ rcv = <<>> /\ in = <<>> /\ out = <<>> /\ snd = <<>>
    /\ dpc = "idle"
    /\ todo = "put"
    /\ pc = [i \in Team |-> "pause"]
    /\ size = [i \in Team |-> 0]
    /\ inRound = FALSE
    /\ puts = 0
    /\ mained = [i \in Items |-> 0]
    /\ posted = <<>>
    /\ rounds = 0
-----------------------------------------------------------------------------
(* the driver                                                              *)

start_round ==
    /\ dpc = "idle" /\ ~inRound
    /\ rounds < MaxRounds
    /\ rounds' = rounds + 1
    /\ inRound' = TRUE
    /\ rcv' = <<>>
    /\ UNCHANGED <<mask, in, out, snd, dpc, todo, puts, pc, size, work>>

Push(buffer) ==
    /\ rcv' = Append(buffer, puts + 1)
    /\ puts' = puts + 1

put ==
    /\ dpc = "idle" /\ inRound
    /\ puts < MaxPut
    /\ IF Len(rcv) = Capacity
       THEN dpc' = "wait" /\ todo' = "put" /\ UNCHANGED <<rcv, puts>>
       ELSE Push(rcv) /\ UNCHANGED <<dpc, todo>>
    /\ UNCHANGED <<mask, in, out, snd, inRound, rounds, pc, size, work>>

end_round ==
    /\ dpc = "idle" /\ inRound
    /\ dpc' = "wait"
    /\ todo' = "first"
    /\ UNCHANGED <<mask, buffers, inRound, puts, rounds, pc, size, work>>

wait_process ==
    /\ dpc = "wait"
    /\ allmain_paused \subseteq mask \/ FINISHED_ANY \in mask
    /\ dpc' = CASE FINISHED_ANY \in mask -> "failed"          \* EFAULT
                [] FINISHED_ANY \notin mask /\ todo = "last" -> "all"
                [] OTHER -> "swap"
    /\ UNCHANGED <<mask, buffers, todo, inRound, puts, rounds, pc, size, work>>

\* resume_process, call by call.
resume_swap ==
    /\ dpc = "swap"
    /\ rcv' = in /\ in' = rcv
    /\ dpc' = "off"
    /\ UNCHANGED <<mask, out, snd, todo, inRound, puts, rounds, pc, size, work>>

resume_off_skipped ==    \* mutant: without (A)
    /\ dpc = "off"
    /\ dpc' = "on"
    /\ UNCHANGED <<mask, buffers, todo, inRound, puts, rounds, pc, size, work>>

resume_off ==            \* (A)
    /\ dpc = "off"
    /\ mask' = mask \ allmain_paused
    /\ dpc' = "on"
    /\ UNCHANGED <<buffers, todo, inRound, puts, rounds, pc, size, work>>

resume_on ==
    /\ dpc = "on"
    /\ mask' = mask \cup allmain_start_req
    /\ dpc' = "alloff"
    /\ UNCHANGED <<buffers, todo, inRound, puts, rounds, pc, size, work>>

resume_resumed ==        \* the end of resume_process, and the rest of put or of end_round
    /\ dpc = "alloff"
    /\ allmain_start_req \cap mask = {}
    /\ \/ /\ todo = "put"
          /\ Push(<<>>)
          /\ dpc' = "idle"
          /\ UNCHANGED todo
       \/ /\ todo = "first"
          /\ rcv' = <<>>
          /\ dpc' = "wait"
          /\ todo' = "last"
          /\ UNCHANGED puts
    /\ UNCHANGED <<mask, in, out, snd, inRound, rounds, pc, size, work>>

end_round_return_main == \* mutant: end_round does not wait for the post thread
    /\ dpc = "all"
    /\ allmain_paused \subseteq mask
    /\ dpc' = "idle"
    /\ inRound' = FALSE
    /\ UNCHANGED <<mask, buffers, todo, puts, rounds, pc, size, work>>

end_round_return ==
    /\ dpc = "all"
    /\ all_paused \subseteq mask
    /\ dpc' = "idle"
    /\ inRound' = FALSE
    /\ UNCHANGED <<mask, buffers, todo, puts, rounds, pc, size, work>>

end ==
    /\ dpc = "failed" \/ (dpc = "idle" /\ (EndAnytime \/ ~inRound))
    /\ mask' = mask \cup {FINISH_REQ}
    /\ dpc' = "join"
    /\ UNCHANGED <<buffers, todo, inRound, puts, rounds, pc, size, work>>

end_joined ==
    /\ dpc = "join"
    /\ \A i \in Team : pc[i] = "done"
    /\ dpc' = "ended"
    /\ inRound' = FALSE
    /\ UNCHANGED <<mask, buffers, todo, puts, rounds, pc, size, work>>

\* init() of a driver that was ended: everything as in Init, but for the history.
init ==
    /\ dpc = "ended"
    /\ rounds < MaxRounds
    /\ mask' = {}
    /\ rcv' = <<>> /\ in' = <<>> /\ out' = <<>> /\ snd' = <<>>
    /\ dpc' = "idle"
    /\ pc' = [i \in Team |-> "pause"]
    /\ UNCHANGED <<todo, inRound, puts, rounds, size, work>>
-----------------------------------------------------------------------------
(* the main threads and the post thread                                    *)

Goto(i, label) == pc' = [pc EXCEPT ![i] = label]

pause(i) ==
    /\ pc[i] = "pause"
    /\ mask' = mask \cup {paused(i)}
    /\ Goto(i, "wait")
    /\ UNCHANGED <<buffers, driver, size, work>>

awake(i) ==              \* wait_any: both bits are cleared at return
    /\ pc[i] = "wait"
    /\ mask \cap ({start_req(i)} \cup Except) # {}
    /\ mask' = mask \ {start_req(i), paused(i)}
    /\ Goto(i, IF mask \cap Except # {} THEN "exit" ELSE IF i = Post THEN "apply" ELSE "check")
    /\ UNCHANGED <<buffers, driver, size, work>>

main_check(i) ==
    /\ i \in Mains
    /\ pc[i] = "check"
    /\ Goto(i, IF in = <<>> THEN "pause" ELSE IF SameType THEN "apply" ELSE "resize")
    /\ UNCHANGED <<mask, buffers, driver, size, work>>

\* out_items_.resize(n) is not atomic, and every main thread calls it: the size is read,
\* then the elements beyond it are initialized (or destroyed) and the size is stored.
main_resize(i) ==
    /\ pc[i] = "resize"
    /\ size' = [size EXCEPT ![i] = Len(out)]
    /\ Goto(i, "init")
    /\ UNCHANGED <<mask, buffers, driver, work>>

main_init(i) ==
    /\ pc[i] = "init"
    /\ out' = [k \in 1 .. Len(in) |-> IF k <= size[i] /\ k <= Len(out) THEN out[k] ELSE 0]
    /\ Goto(i, "apply")
    /\ UNCHANGED <<mask, rcv, in, snd, driver, size, work>>

Share(i) == {k \in 1 .. Len(in) : (k - 1) % N = i}

main_apply(i) ==
    /\ i \in Mains
    /\ pc[i] = "apply"
    /\ mained' = [j \in Items |-> mained[j] + Cardinality({k \in Share(i) : in[k] = j})]
    /\ out' = IF SameType THEN out ELSE [k \in DOMAIN out |-> IF k \in Share(i) THEN in[k] ELSE out[k]]
    /\ Goto(i, IF i = 0 THEN "join" ELSE "pause")
    /\ UNCHANGED <<mask, rcv, in, snd, driver, size, posted>>

Others == {paused(i) : i \in Team \ {0}}

main_join_mains ==       \* mutant: main thread 0 does not wait for the post thread
    /\ pc[0] = "join"
    /\ {paused(i) : i \in Mains \ {0}} \subseteq mask \/ mask \cap Except # {}
    /\ Goto(0, IF mask \cap Except # {} THEN "exit" ELSE "swap")
    /\ UNCHANGED <<mask, buffers, driver, size, work>>

main_join ==             \* wait_all_or(m_wait_others, m_except)
    /\ pc[0] = "join"
    /\ Others \subseteq mask \/ mask \cap Except # {}
    /\ Goto(0, IF mask \cap Except # {} THEN "exit" ELSE "swap")
    /\ UNCHANGED <<mask, buffers, driver, size, work>>

main_swap ==             \* swap_snd
    /\ pc[0] = "swap"
    /\ IF SameType
       THEN in' = snd /\ snd' = in /\ UNCHANGED out
       ELSE out' = snd /\ snd' = out /\ UNCHANGED in
    /\ Goto(0, "on")
    /\ UNCHANGED <<mask, rcv, driver, size, work>>

main_start_post ==
    /\ pc[0] = "on"
    /\ mask' = mask \cup {start_req(Post)}
    /\ Goto(0, "alloff")
    /\ UNCHANGED <<buffers, driver, size, work>>

main_post_resumed ==
    /\ pc[0] = "alloff"
    /\ start_req(Post) \notin mask
    /\ Goto(0, "pause")
    /\ UNCHANGED <<mask, buffers, driver, size, work>>

post_apply ==
    /\ pc[Post] = "apply"
    /\ posted' = posted \o snd
    /\ Goto(Post, "pause")
    /\ UNCHANGED <<mask, buffers, driver, size, mained>>

\* The process function throws: the thread ends, and its on_exit runs.
crash(i) ==
    /\ i \in MayCrash
    /\ pc[i] = "apply"
    /\ Goto(i, "exit")
    /\ UNCHANGED <<mask, buffers, driver, size, work>>

on_exit_silent(i) ==     \* mutant: the bits of a thread that ends are not set
    /\ pc[i] = "exit"
    /\ Goto(i, "done")
    /\ UNCHANGED <<mask, buffers, driver, size, work>>

on_exit(i) ==
    /\ pc[i] = "exit"
    /\ mask' = mask \cup {FINISHED_ANY, paused(i)}
    /\ Goto(i, "done")
    /\ UNCHANGED <<buffers, driver, size, work>>
-----------------------------------------------------------------------------
main_thread(i) ==
    \/ pause(i) \/ awake(i) \/ main_check(i) \/ main_resize(i) \/ main_init(i) \/ main_apply(i)
    \/ i = 0 /\ (main_join \/ main_swap \/ main_start_post \/ main_post_resumed)
    \/ on_exit(i)

post_thread == pause(Post) \/ awake(Post) \/ post_apply \/ on_exit(Post)

TeamRuns(i) == (i \in Mains /\ main_thread(i)) \/ (i = Post /\ post_thread)

\* What the driver does once it is in a call.
DriverRuns ==
    wait_process \/ resume_swap \/ resume_off \/ resume_on \/ resume_resumed
    \/ end_round_return \/ end_joined

Next ==
    \/ start_round \/ put \/ end_round \/ end \/ init
    \/ DriverRuns
    \/ \E i \in Team : TeamRuns(i) \/ crash(i)

Spec == Init /\ [][Next]_vars

\* Every thread runs when it can; the process functions return (or throw).  The calls of the
\* driver are the program's, which need not come.
Fairness == WF_vars(DriverRuns) /\ \A i \in Team : WF_vars(TeamRuns(i))

FairSpec == Spec /\ Fairness
-----------------------------------------------------------------------------
(* Properties                                                              *)

\* Each batch is worked on by the right threads and by nobody else at that time: the driver
\* exchanges its buffer only while no main thread looks at the items, and main thread 0
\* hands the batch on only when the others are done with it and the post thread is done
\* with the one before.
BuffersApart ==
    /\ dpc \in {"swap", "off", "on"} =>
         \A i \in Mains : pc[i] \in {"wait", "exit", "done"}
    /\ pc[0] \in {"swap", "on"} =>
         /\ \A i \in Mains \ {0} : pc[i] \notin {"check", "resize", "init", "apply"}
         /\ pc[Post] # "apply"

\* No item is main-processed twice, and the post thread sees the items in the order of put,
\* none of them twice, each after it was main-processed: whatever threads throw, and
\* whenever end() comes.
ProcessedInOrder ==
    /\ \A j \in Items : mained[j] <= 1
    /\ \A k \in DOMAIN posted : posted[k] \in Items /\ mained[posted[k]] = 1
    /\ \A k \in 1 .. Len(posted) - 1 : posted[k] < posted[k + 1]

\* end_round returns ok only when every item of the round was main- and post-processed.
RoundIsComplete ==
    dpc = "idle" /\ ~inRound => \A j \in 1 .. puts : mained[j] = 1 /\ \E k \in DOMAIN posted : posted[k] = j

\* The exchange never brings back a batch: what the post thread gets was written by the main
\* threads for it ("ItemOut&" of datapara_main_process is what datapara_post_process gets).
PostSeesResults == pc[Post] = "apply" => \A k \in DOMAIN snd : snd[k] # 0

\* A call of the driver returns: put, end_round and end never hang.
DriverReturns == dpc \notin {"idle", "failed", "ended"} ~> dpc \in {"idle", "failed", "ended"}
=============================================================================
