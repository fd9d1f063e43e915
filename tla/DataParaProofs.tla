--------------------------- MODULE DataParaProofs ---------------------------
(***************************************************************************)
(* Theorems about DataPara.                                                *)
(***************************************************************************)
EXTENDS DataPara, FiniteSetTheorems, TLAPS
-----------------------------------------------------------------------------
(* Proof of BuffersApart, for any number of main threads, whatever threads *)
(* throw and whenever end() comes.  What a bit of sync_mask_ says about    *)
(* its thread:                                                             *)

\* A thread whose paused bit is on waits or is over.
PausedMeansIdle == \A i \in Team : paused(i) \in mask => pc[i] \in {"wait", "done"}

\* The driver starts main threads in one place, and leaves it when all have taken their
\* requests; a request is for a thread that waits, and whose paused bit was taken off before:
\* that it is on again means that the request was taken.
RequestsAreFresh ==
    /\ dpc # "alloff" => \A i \in Mains : start_req(i) \notin mask
    /\ dpc = "on" => \A i \in Mains : pc[i] = "wait" => paused(i) \notin mask
    /\ \A i \in Mains : start_req(i) \in mask => pc[i] \in {"wait", "exit", "done"}
    /\ \A i \in Mains : pc[i] = "wait" /\ paused(i) \in mask => start_req(i) \notin mask

\* So with the request of the post thread, which main thread 0 starts.
PostIsAsked == start_req(Post) \in mask => pc[0] = "alloff"

\* While the driver exchanges its buffer the main threads have no request and do not work, and
\* while main thread 0 does the others have none.
Apart ==
    /\ dpc \in {"swap", "off", "on"} => \A i \in Mains : pc[i] \in {"wait", "exit", "done"}
    /\ pc[0] \in {"swap", "on"} =>
         /\ \A i \in Team \ {0} : pc[i] \in {"wait", "exit", "done"}
         /\ \A i \in Mains \ {0} : pc[i] = "wait" => start_req(i) \notin mask

BitsInv ==
    /\ pc \in [Team -> MainAt] /\ dpc \in DriverAt
    /\ PausedMeansIdle /\ RequestsAreFresh /\ PostIsAsked /\ Apart

LEMMA BitsDiffer ==
    /\ \A i, j : start_req(i) = start_req(j) <=> i = j
    /\ \A i, j : paused(i) = paused(j) <=> i = j
    /\ \A i, j : start_req(i) # paused(j)
    /\ \A i : start_req(i) \notin Except /\ paused(i) \notin Except
    /\ FINISH_REQ \in Except /\ FINISHED_ANY \in Except
  BY DEF start_req, paused, Except, FINISH_REQ, FINISHED_ANY

LEMMA TeamMembers ==
    ASSUME DataParaAssumption
    PROVE  Team = Mains \cup {Post} /\ Post \notin Mains /\ 0 \in Mains /\ Post # 0
  BY DEF DataParaAssumption, Team, Mains, Post

\* The driver changes no place of the team, and of the mask what belongs to main threads.
LEMMA DriverKeepsApart ==
    ASSUME DataParaAssumption, BitsInv,
           \/ start_round \/ put \/ end_round \/ end \/ init \/ DriverRuns
    PROVE  BitsInv'
<1> USE BitsDiffer, TeamMembers DEF BitsInv, allmain_start_req, allmain_paused, all_paused
<1>1. CASE start_round \/ put \/ end_round \/ end_round_return \/ end_joined \/ resume_swap
  BY <1>1 DEF start_round, put, Push, end_round, end_round_return, end_joined, resume_swap, DriverAt,
       PausedMeansIdle, RequestsAreFresh, PostIsAsked, Apart
<1>2. CASE end
  BY <1>2 DEF end, DriverAt, PausedMeansIdle, RequestsAreFresh, PostIsAsked, Apart
<1>3. CASE init
  BY <1>3 DEF init, DriverAt, MainAt, PausedMeansIdle, RequestsAreFresh, PostIsAsked, Apart
<1>4. CASE wait_process
  BY <1>4 DEF wait_process, DriverAt, PausedMeansIdle, RequestsAreFresh, PostIsAsked, Apart
<1>5. CASE resume_off
  BY <1>5 DEF resume_off, DriverAt, PausedMeansIdle, RequestsAreFresh, PostIsAsked, Apart
<1>6. CASE resume_on
  BY <1>6 DEF resume_on, DriverAt, PausedMeansIdle, RequestsAreFresh, PostIsAsked, Apart
<1>7. CASE resume_resumed
  BY <1>7 DEF resume_resumed, Push, DriverAt, PausedMeansIdle, RequestsAreFresh, PostIsAsked, Apart
<1> QED
  BY <1>1, <1>2, <1>3, <1>4, <1>5, <1>6, <1>7 DEF DriverRuns

LEMMA TeamKeepsApart ==
    ASSUME DataParaAssumption, BitsInv, NEW i \in Team, TeamRuns(i) \/ crash(i)
    PROVE  BitsInv'
<1> USE BitsDiffer, TeamMembers DEF BitsInv, Goto, driver
<1>1. CASE pause(i)
  BY <1>1 DEF pause, MainAt, PausedMeansIdle, RequestsAreFresh, PostIsAsked, Apart
<1>2. CASE awake(i)
  BY <1>2 DEF awake, MainAt, PausedMeansIdle, RequestsAreFresh, PostIsAsked, Apart
<1>3. CASE i \in Mains /\ (main_check(i) \/ main_resize(i) \/ main_init(i) \/ main_apply(i))
  BY <1>3 DEF main_check, main_resize, main_init, main_apply, MainAt, PausedMeansIdle, RequestsAreFresh, PostIsAsked, Apart
<1>4. CASE main_join
  BY <1>4 DEF main_join, Others, MainAt, PausedMeansIdle, RequestsAreFresh, PostIsAsked, Apart
<1>5. CASE main_swap \/ main_start_post \/ main_post_resumed
  BY <1>5 DEF main_swap, main_start_post, main_post_resumed, MainAt, PausedMeansIdle, RequestsAreFresh, PostIsAsked, Apart
<1>6. CASE post_apply
  BY <1>6 DEF post_apply, MainAt, PausedMeansIdle, RequestsAreFresh, PostIsAsked, Apart
<1>7. CASE crash(i)
  BY <1>7 DEF crash, MainAt, PausedMeansIdle, RequestsAreFresh, PostIsAsked, Apart
<1>8. CASE on_exit(i)
  BY <1>8 DEF on_exit, MainAt, PausedMeansIdle, RequestsAreFresh, PostIsAsked, Apart
<1> QED
  BY <1>1, <1>2, <1>3, <1>4, <1>5, <1>6, <1>7, <1>8 DEF TeamRuns, main_thread, post_thread

\* The phases of the bits keep driver, main threads and post thread apart.
THEOREM BuffersAreApart == DataParaAssumption => (Spec => []BuffersApart)
<1>1. DataParaAssumption /\ Init => BitsInv
  BY BitsDiffer, TeamMembers
     DEF Init, BitsInv, MainAt, DriverAt, PausedMeansIdle, RequestsAreFresh, PostIsAsked, Apart
<1>2. DataParaAssumption /\ BitsInv /\ [Next]_vars => BitsInv'
  <2>1. ASSUME UNCHANGED vars, BitsInv PROVE BitsInv'
    BY <2>1 DEF vars, driver, BitsInv, PausedMeansIdle, RequestsAreFresh, PostIsAsked, Apart
  <2> QED
    BY <2>1, DriverKeepsApart, TeamKeepsApart DEF Next
<1>3. DataParaAssumption /\ BitsInv => BuffersApart
  BY TeamMembers DEF BitsInv, Apart, BuffersApart
<1>4. ASSUME DataParaAssumption PROVE Spec => []BuffersApart
  BY <1>1, <1>2, <1>3, <1>4, PTL DEF Spec
<1> QED
  BY <1>4
-----------------------------------------------------------------------------
(* Proof of ProcessedInOrder, for a driver whose main threads process the  *)
(* items in place (the others share a vector that all of them resize).     *)
(* Posted items come before those of the post thread, these before those   *)
(* of the main threads, these before those that the driver collects.       *)

Asc(s)      == \A a, b \in 1 .. Len(s) : a < b => s[a] < s[b]
Below(s, t) == \A a \in 1 .. Len(s), b \in 1 .. Len(t) : s[a] < t[b]
WerePut(s)  == \A a \in 1 .. Len(s) : s[a] \in 1 .. puts
All(s, n)   == \A a \in 1 .. Len(s) : mained[s[a]] = n

\* Main thread i has its share of the batch still to do.
Pending(i) == dpc \in {"off", "on"} \/ start_req(i) \in mask \/ pc[i] \in {"check", "resize", "init", "apply"}
\* The batch is on its way to the post thread; it is for somebody; the post thread has one.
OnItsWay ==
    dpc \in {"off", "on"} \/ start_req(0) \in mask \/ pc[0] \in {"check", "resize", "init", "apply", "join", "swap"}
InLive   == OnItsWay \/ \E i \in Mains : Pending(i)
SndLive  == start_req(Post) \in mask \/ pc[Post] = "apply" \/ pc[0] = "on"
RcvLive  == dpc \in {"idle", "wait", "swap", "all"}

ItemTypes ==
    /\ rcv \in Seq(Nat) /\ in \in Seq(Nat) /\ snd \in Seq(Nat) /\ posted \in Seq(Nat)
    /\ puts \in 0 .. MaxPut /\ mained \in [Items -> Nat]
    /\ \A j \in Items : mained[j] <= IF j > puts THEN 0 ELSE 1

PostedInv == Asc(posted) /\ WerePut(posted) /\ All(posted, 1)
SndInv == SndLive => Asc(snd) /\ WerePut(snd) /\ All(snd, 1) /\ Below(posted, snd)
InInv  == InLive => Asc(in) /\ WerePut(in) /\ Below(posted, in) /\ (SndLive => Below(snd, in))
RcvInv == RcvLive => /\ Asc(rcv) /\ WerePut(rcv) /\ All(rcv, 0) /\ Below(posted, rcv)
                     /\ (SndLive => Below(snd, rcv)) /\ (InLive => Below(in, rcv))

\* A share is done once, and all of them before main thread 0 hands on the batch.
ShareInv ==
    /\ \A i \in Mains : Pending(i) => \A k \in Share(i) : mained[in[k]] = 0
    /\ OnItsWay => \A i \in Mains :
          ~Pending(i) /\ pc[i] \in {"pause", "wait", "join"} => \A k \in Share(i) : mained[in[k]] = 1
    /\ pc[0] = "swap" => All(in, 1)

PlaceInv ==
    /\ \A i \in Team : pc[i] = "done" => FINISHED_ANY \in mask
    /\ start_req(Post) \in mask => pc[Post] \in {"wait", "exit", "done"}
    /\ SameType => \A i \in Team : pc[i] \notin {"resize", "init"}
    /\ \A i \in Team \ {0} : pc[i] \notin {"join", "swap", "on", "alloff"}
    /\ pc[Post] \notin {"check", "resize", "init"}
    /\ pc[0] = "swap" => \A i \in Mains : start_req(i) \notin mask
    /\ dpc \in {"wait", "swap", "off", "on", "alloff"} /\ todo = "put" => puts < MaxPut

\* A single main thread with output items of its own: what it writes for item j is j.
OutInv ==
    ~SameType =>
        /\ out \in Seq(Nat)
        /\ pc[0] = "apply" => Len(out) = Len(in)
        /\ pc[0] \in {"join", "swap"} => out = in

\* The main threads do not resize a vector that another one uses.
OwnOutput == SameType \/ N = 1

OrderInv == BitsInv /\ ItemTypes /\ PostedInv /\ SndInv /\ InInv /\ RcvInv /\ ShareInv /\ PlaceInv /\ OutInv

LEMMA OneTurn ==
    ASSUME NEW S, NEW f, NEW j, \A k, l \in S : f[k] = f[l] => k = l
    PROVE  Cardinality({k \in S : f[k] = j}) = IF \E k \in S : f[k] = j THEN 1 ELSE 0
<1>1. CASE \E k \in S : f[k] = j
  <2>1. PICK k \in S : f[k] = j
    BY <1>1
  <2>2. {l \in S : f[l] = j} = {k}
    BY <2>1
  <2> QED
    BY <1>1, <2>2, FS_Singleton
<1>2. CASE ~\E k \in S : f[k] = j
  <2>1. {l \in S : f[l] = j} = {}
    BY <1>2
  <2> QED
    BY <1>2, <2>1, FS_EmptySet
<1> QED
  BY <1>1, <1>2

LEMMA Shares ==
    ASSUME DataParaAssumption, in \in Seq(Nat)
    PROVE  /\ \A i \in Mains : Share(i) \subseteq 1 .. Len(in)
           /\ \A k \in 1 .. Len(in) : \E i \in Mains : k \in Share(i)
           /\ \A i, j \in Mains : i # j => Share(i) \cap Share(j) = {}
<1>1. \A k \in 1 .. Len(in) : (k - 1) % N \in Mains
  BY DEF DataParaAssumption, Mains
<1> QED
  BY <1>1 DEF Share

\* A step that moves no item and gives no buffer to anybody.
LEMMA NothingMoved ==
    ASSUME OrderInv, UNCHANGED <<rcv, in, snd, posted, puts, mained>>,
           SndLive' => SndLive, InLive' => InLive, RcvLive' => RcvLive
    PROVE  ItemTypes' /\ PostedInv' /\ SndInv' /\ InInv' /\ RcvInv'
<1>1. ItemTypes' /\ PostedInv'
  BY DEF OrderInv, ItemTypes, PostedInv, Asc, WerePut, All
<1>2. SndInv'
  BY DEF OrderInv, SndInv, Asc, WerePut, All, Below
<1>3. InInv'
  BY DEF OrderInv, InInv, Asc, WerePut, All, Below
<1>4. RcvInv'
  BY DEF OrderInv, RcvInv, Asc, WerePut, All, Below
<1> QED
  BY <1>1, <1>2, <1>3, <1>4

LEMMA DriverKeepsPlaces ==
    ASSUME DataParaAssumption, OrderInv,
           \/ start_round \/ put \/ end_round \/ end \/ init \/ DriverRuns
    PROVE  PlaceInv'
<1> USE BitsDiffer, TeamMembers DEF OrderInv, PlaceInv, allmain_start_req, allmain_paused, all_paused
<1>1. CASE start_round \/ put \/ end_round \/ wait_process \/ end_round_return \/ end_joined \/ resume_swap
  BY <1>1 DEF start_round, put, Push, end_round, wait_process, end_round_return, end_joined, resume_swap, ItemTypes
<1>2. CASE end \/ resume_off \/ resume_resumed
  BY <1>2 DEF end, resume_off, resume_resumed, Push
<1>3. CASE init
  BY <1>3 DEF init
<1>4. CASE resume_on
  BY <1>4 DEF resume_on, BitsInv, Apart
<1> QED
  BY <1>1, <1>2, <1>3, <1>4 DEF DriverRuns

LEMMA TeamKeepsPlaces ==
    ASSUME DataParaAssumption, OrderInv, NEW i \in Team, TeamRuns(i) \/ crash(i)
    PROVE  PlaceInv'
<1> USE BitsDiffer, TeamMembers DEF OrderInv, PlaceInv, Goto, driver, BitsInv
<1>1. CASE pause(i)
  BY <1>1 DEF pause
<1>2. CASE awake(i)
  BY <1>2 DEF awake
<1>3. CASE i \in Mains /\ (main_check(i) \/ main_resize(i) \/ main_init(i) \/ main_apply(i))
  BY <1>3 DEF main_check, main_resize, main_init, main_apply
<1>4. CASE main_join
  BY <1>4 DEF main_join, Others, PausedMeansIdle, RequestsAreFresh
<1>5. CASE main_swap \/ main_start_post \/ main_post_resumed
  BY <1>5 DEF main_swap, main_start_post, main_post_resumed, Apart
<1>6. CASE post_apply \/ crash(i)
  BY <1>6 DEF post_apply, crash
<1>7. CASE on_exit(i)
  BY <1>7 DEF on_exit
<1> QED
  BY <1>1, <1>2, <1>3, <1>4, <1>5, <1>6, <1>7 DEF TeamRuns, main_thread, post_thread

LEMMA DriverKeepsOrder ==
    ASSUME DataParaAssumption, OrderInv,
           \/ start_round \/ put \/ end_round \/ end \/ init \/ DriverRuns
    PROVE  ItemTypes' /\ PostedInv' /\ SndInv' /\ InInv' /\ RcvInv' /\ ShareInv'
<1> USE BitsDiffer, TeamMembers
<1> DEFINE Kept == ItemTypes' /\ PostedInv' /\ SndInv' /\ InInv' /\ RcvInv'
<1>1. CASE end_round \/ wait_process \/ end_round_return \/ end_joined \/ end \/ resume_off \/ resume_on
  <2> USE <1>1 DEF end_round, wait_process, end_round_return, end_joined, end, resume_off, resume_on,
                   allmain_start_req, allmain_paused
  <2>1. UNCHANGED <<rcv, in, snd, posted, puts, mained, pc>>
    BY DEF buffers, work
  <2>2. \A i \in Mains : Pending(i)' <=> Pending(i)
    BY <2>1 DEF Pending
  <2>3. OnItsWay' <=> OnItsWay
    BY <2>1 DEF OnItsWay
  <2>4. (SndLive' <=> SndLive) /\ (RcvLive' => RcvLive)
    BY <2>1 DEF SndLive, RcvLive
  <2>5. Kept
    BY <2>1, <2>2, <2>3, <2>4, NothingMoved DEF InLive
  <2>6. ShareInv'
    BY <2>1, <2>2, <2>3 DEF OrderInv, ShareInv, Share, All
  <2> QED
    BY <2>5, <2>6
<1>2. CASE start_round \/ put \/ resume_resumed
  <2> USE <1>2 DEF start_round, put, Push, resume_resumed
  <2>1. UNCHANGED <<in, snd, posted, mained, pc, mask>>
    BY DEF work
  <2>2. \A i \in Mains : Pending(i)' <=> Pending(i)
    BY <2>1 DEF Pending
  <2>3. (OnItsWay' <=> OnItsWay) /\ (SndLive' <=> SndLive)
    BY <2>1 DEF OnItsWay, SndLive
  <2>4. InLive' <=> InLive
    BY <2>2, <2>3 DEF InLive
  <2>5. \/ rcv' = <<>> /\ puts' = puts
        \/ rcv' = rcv /\ puts' = puts /\ RcvLive
        \/ rcv' = Append(rcv, puts + 1) /\ puts' = puts + 1 /\ puts < MaxPut /\ RcvLive
        \/ rcv' = <<puts + 1>> /\ puts' = puts + 1 /\ puts < MaxPut
    BY DEF OrderInv, PlaceInv, RcvLive
  <2>6. ItemTypes'
    <3>1. puts' \in 0 .. MaxPut
      BY <2>5 DEF OrderInv, ItemTypes, DataParaAssumption
    <3>3. rcv' \in Seq(Nat)
      <4>1. rcv \in Seq(Nat) /\ puts + 1 \in Nat
        BY DEF OrderInv, ItemTypes, DataParaAssumption
      <4>2. <<>> \in Seq(Nat) /\ <<puts + 1>> \in Seq(Nat) /\ Append(rcv, puts + 1) \in Seq(Nat)
        BY <4>1
      <4> QED
        BY <2>5, <4>1, <4>2
    <3>2. \A j \in Items : mained[j] <= IF j > puts' THEN 0 ELSE 1
      BY <2>5 DEF OrderInv, ItemTypes, DataParaAssumption, Items
    <3> QED
      BY <2>1, <3>1, <3>2, <3>3 DEF OrderInv, ItemTypes
  <2>7. PostedInv' /\ SndInv' /\ InInv'
    <3>1. puts \in Nat /\ puts' \in Nat /\ puts' >= puts
      BY <2>5 DEF OrderInv, ItemTypes, DataParaAssumption
    <3>2. PostedInv'
      BY <2>1, <3>1 DEF OrderInv, PostedInv, Asc, WerePut, All
    <3>3. SndInv'
      BY <2>1, <2>3, <3>1 DEF OrderInv, SndInv, Asc, WerePut, All, Below
    <3>4. InInv'
      BY <2>1, <2>3, <2>4, <3>1 DEF OrderInv, InInv, Asc, WerePut, Below
    <3> QED
      BY <3>2, <3>3, <3>4
  <2>8. RcvInv'
    <3>1. CASE rcv' = <<>>
      BY <3>1 DEF RcvInv, Asc, WerePut, All, Below
    <3>2. CASE rcv' = rcv /\ puts' = puts /\ RcvLive
      BY <2>1, <2>3, <2>4, <3>2 DEF OrderInv, RcvInv, Asc, WerePut, All, Below
    <3>3. CASE rcv' = <<puts + 1>> /\ puts' = puts + 1 /\ puts < MaxPut
      <4>1. Len(rcv') = 1 /\ rcv'[1] = puts + 1
        BY <3>3 DEF OrderInv, ItemTypes
      <4>2. puts \in Nat /\ puts + 1 \in Items /\ mained[puts + 1] = 0
        BY <3>3 DEF OrderInv, ItemTypes, DataParaAssumption, Items
      <4>3. Asc(rcv') /\ WerePut(rcv)' /\ All(rcv, 0)'
        BY <2>1, <3>3, <4>1, <4>2 DEF OrderInv, RcvInv, ItemTypes, Asc, WerePut, All
      <4>4. Below(posted', rcv')
        BY <2>1, <3>3, <4>1, <4>2 DEF OrderInv, PostedInv, RcvInv, ItemTypes, WerePut, Below
      <4>5. SndLive' => Below(snd', rcv')
        BY <2>1, <2>3, <3>3, <4>1, <4>2 DEF OrderInv, SndInv, RcvInv, ItemTypes, WerePut, Below
      <4>6. InLive' => Below(in', rcv')
        BY <2>1, <2>4, <3>3, <4>1, <4>2 DEF OrderInv, InInv, RcvInv, ItemTypes, WerePut, Below
      <4> QED
        BY <4>3, <4>4, <4>5, <4>6 DEF RcvInv
    <3>4. CASE rcv' = Append(rcv, puts + 1) /\ puts' = puts + 1 /\ puts < MaxPut /\ RcvLive
      <4>1. Len(rcv) \in Nat /\ Len(rcv') = Len(rcv) + 1 /\ \A a \in 1 .. Len(rcv) + 1 : rcv'[a] = IF a = Len(rcv) + 1 THEN puts + 1 ELSE rcv[a]
        BY <3>4 DEF OrderInv, ItemTypes
      <4>2. puts \in Nat /\ puts + 1 \in Items /\ mained[puts + 1] = 0
        BY <3>4 DEF OrderInv, ItemTypes, DataParaAssumption, Items
      <4>3. Asc(rcv') /\ WerePut(rcv)' /\ All(rcv, 0)'
        <5>1. WerePut(rcv)' /\ All(rcv, 0)'
          BY <2>1, <3>4, <4>1, <4>2 DEF OrderInv, RcvInv, WerePut, All
        <5>2. ASSUME NEW a \in 1 .. Len(rcv'), NEW b \in 1 .. Len(rcv'), a < b
              PROVE  rcv'[a] < rcv'[b]
          <6>1. a \in 1 .. Len(rcv) /\ rcv'[a] = rcv[a] /\ rcv[a] \in 1 .. puts
            BY <3>4, <4>1, <5>2 DEF OrderInv, RcvInv, WerePut
          <6>2. CASE b = Len(rcv) + 1
            BY <4>1, <4>2, <6>1, <6>2
          <6>3. CASE b # Len(rcv) + 1
            BY <3>4, <4>1, <5>2, <6>1, <6>3 DEF OrderInv, RcvInv, Asc
          <6> QED
            BY <6>2, <6>3
        <5> QED
          BY <5>1, <5>2 DEF Asc
      <4>4. Below(posted', rcv')
        BY <2>1, <3>4, <4>1, <4>2 DEF OrderInv, PostedInv, RcvInv, WerePut, Below
      <4>5. SndLive' => Below(snd', rcv')
        BY <2>1, <2>3, <3>4, <4>1, <4>2 DEF OrderInv, SndInv, RcvInv, WerePut, Below
      <4>6. InLive' => Below(in', rcv')
        BY <2>1, <2>4, <3>4, <4>1, <4>2 DEF OrderInv, InInv, RcvInv, WerePut, Below
      <4> QED
        BY <4>3, <4>4, <4>5, <4>6 DEF RcvInv
    <3> QED
      BY <2>5, <3>1, <3>2, <3>3, <3>4
  <2>9. ShareInv'
    BY <2>1, <2>2, <2>3 DEF OrderInv, ShareInv, Share, All
  <2> QED
    BY <2>6, <2>7, <2>8, <2>9
<1>3. CASE resume_swap
  <2> USE <1>3 DEF resume_swap
  <2>1. UNCHANGED <<snd, posted, mained, puts, pc, mask>> /\ rcv' = in /\ in' = rcv /\ RcvLive /\ ~RcvLive'
    BY DEF work, RcvLive
  <2>2. \A i \in Mains : Pending(i)'
    BY DEF Pending
  <2>3. SndLive' <=> SndLive
    BY <2>1 DEF SndLive
  <2>4. ItemTypes' /\ PostedInv' /\ SndInv' /\ RcvInv'
    BY <2>1, <2>3 DEF OrderInv, ItemTypes, PostedInv, SndInv, RcvInv, Asc, WerePut, All, Below
  <2>5. InInv'
    BY <2>1, <2>3 DEF OrderInv, InInv, RcvInv, Asc, WerePut, Below
  <2>6. \A i \in Mains : \A k \in Share(i)' : mained'[in'[k]] = 0
    BY <2>1 DEF OrderInv, RcvInv, All, Share
  <2>7. pc[0] # "swap"
    BY DEF OrderInv, BitsInv, Apart
  <2> QED
    BY <2>1, <2>2, <2>4, <2>5, <2>6, <2>7 DEF ShareInv
<1>4. CASE init
  <2> USE <1>4 DEF init
  <2>1. ItemTypes' /\ PostedInv'
    BY DEF OrderInv, ItemTypes, PostedInv, Asc, WerePut, All, work
  <2>2. ~SndLive' /\ ~InLive' /\ ~OnItsWay' /\ pc'[0] # "swap"
    BY DEF SndLive, InLive, OnItsWay, Pending, Team
  <2>3. \A i \in Mains : ~Pending(i)'
    BY DEF Pending
  <2>4. SndInv' /\ InInv' /\ RcvInv' /\ ShareInv'
    BY <2>2, <2>3 DEF SndInv, InInv, RcvInv, ShareInv, Asc, WerePut, All, Below
  <2> QED
    BY <2>1, <2>4
<1> QED
  BY <1>1, <1>2, <1>3, <1>4 DEF DriverRuns

\* What main_apply does to the counts of its items.
LEMMA ApplyCounts ==
    ASSUME DataParaAssumption, OrderInv, NEW i \in Mains, main_apply(i)
    PROVE  /\ mained' \in [Items -> Nat]
           /\ \A k \in Share(i) : mained'[in[k]] = mained[in[k]] + 1
           /\ \A j \in Items : (\A k \in Share(i) : in[k] # j) => mained'[j] = mained[j]
<1>1. Pending(i) /\ InLive
  BY DEF main_apply, Pending, InLive
<1>2. \A k, l \in Share(i) : in[k] = in[l] => k = l
  <2>1. in \in Seq(Nat) /\ Asc(in)
    BY <1>1 DEF OrderInv, ItemTypes, InInv
  <2>2. Share(i) \subseteq 1 .. Len(in)
    BY <2>1, Shares DEF OrderInv, ItemTypes
  <2>3. ASSUME NEW k \in 1 .. Len(in), NEW l \in 1 .. Len(in), in[k] = in[l] PROVE k = l
    <3>1. in[k] \in Nat /\ in[l] \in Nat
      BY <2>1
    <3>2. ~(k < l) /\ ~(l < k)
      BY <2>1, <2>3, <3>1 DEF Asc
    <3> QED
      BY <3>2
  <2> QED
    BY <2>2, <2>3
<1>3. \A j \in Items : mained'[j] = mained[j] + IF \E k \in Share(i) : in[k] = j THEN 1 ELSE 0
  <2>1. ASSUME NEW j \in Items
        PROVE  Cardinality({k \in Share(i) : in[k] = j}) = IF \E k \in Share(i) : in[k] = j THEN 1 ELSE 0
    BY <1>2, OneTurn
  <2>2. \A j \in Items : mained'[j] = mained[j] + Cardinality({k \in Share(i) : in[k] = j})
    BY DEF main_apply
  <2> QED
    BY <2>1, <2>2
<1>4. \A j \in Items : mained[j] \in Nat
  BY DEF OrderInv, ItemTypes
<1>5. \A k \in Share(i) : in[k] \in Items
  <2>1. WerePut(in) /\ Share(i) \subseteq 1 .. Len(in) /\ puts \in 0 .. MaxPut
    BY <1>1, Shares DEF OrderInv, ItemTypes, InInv
  <2> QED
    BY <2>1 DEF WerePut, Items, DataParaAssumption
<1>6. mained' = [j \in Items |-> mained'[j]]
  BY DEF main_apply
<1> QED
  BY <1>3, <1>4, <1>5, <1>6

\* Nobody else has an item of the share that a main thread processes.
LEMMA ApplyKeepsOrder ==
    ASSUME DataParaAssumption, OwnOutput, OrderInv, NEW i \in Mains, main_apply(i)
    PROVE  ItemTypes' /\ PostedInv' /\ SndInv' /\ InInv' /\ RcvInv' /\ ShareInv'
<1> USE TeamMembers, BitsDiffer
<1>1. UNCHANGED <<rcv, in, snd, posted, puts, mask, dpc>>
  BY DEF main_apply, driver
<1>2. Pending(i) /\ ~Pending(i)' /\ InLive
  BY <1>1 DEF main_apply, Goto, Pending, InLive, OrderInv, BitsInv, RequestsAreFresh, Apart, Team
<1>3. \A j \in Mains \ {i} : pc'[j] = pc[j] /\ (Pending(j)' <=> Pending(j))
  BY <1>1 DEF main_apply, Goto, Pending, Team
<1>4. (OnItsWay' => OnItsWay) /\ pc'[i] \in {"join", "pause"} /\ pc'[0] # "swap" /\ (SndLive' => SndLive)
  <2>1. pc'[i] \in {"join", "pause"} /\ (i = 0 => pc'[0] = "join") /\ (i # 0 => pc'[0] = pc[0]) /\ pc'[Post] = pc[Post]
    BY DEF main_apply, Goto, OrderInv, BitsInv, Team
  <2>2. pc[i] = "apply" /\ pc[0] # "swap"
    BY DEF main_apply, OrderInv, BitsInv, Apart, Team
  <2>3. OnItsWay' => OnItsWay
    BY <1>1, <2>1, <2>2 DEF OnItsWay
  <2>4. SndLive' => SndLive
    BY <1>1, <2>1 DEF SndLive
  <2> QED
    BY <2>1, <2>2, <2>3, <2>4
<1>5. InLive' => InLive
  BY <1>2
<1>6. /\ mained' \in [Items -> Nat]
      /\ \A k \in Share(i) : mained'[in[k]] = mained[in[k]] + 1
      /\ \A j \in Items : (\A k \in Share(i) : in[k] # j) => mained'[j] = mained[j]
  BY ApplyCounts
<1>7. /\ \A j \in Mains : Share(j) \subseteq 1 .. Len(in)
      /\ \A j \in Mains \ {i} : Share(i) \cap Share(j) = {}
  BY Shares DEF OrderInv, ItemTypes
<1>8. /\ Asc(in) /\ WerePut(in) /\ Below(posted, in)
      /\ SndLive => Below(snd, in)
      /\ RcvLive => Below(in, rcv)
  BY <1>2 DEF OrderInv, InInv, RcvInv
<1>9. \A k \in Share(i) : mained[in[k]] = 0 /\ mained'[in[k]] = 1
  <2>1. \A k \in Share(i) : mained[in[k]] = 0
    BY <1>2 DEF OrderInv, ShareInv
  <2> QED
    BY <1>6, <2>1
<1>10. 1 .. puts \subseteq Items /\ puts \in 0 .. MaxPut /\ MaxPut \in Nat
  BY DEF OrderInv, ItemTypes, Items, DataParaAssumption
<1>11. ItemTypes'
  <2>1. ASSUME NEW j \in Items PROVE mained'[j] <= IF j > puts THEN 0 ELSE 1
    <3>1. CASE \E k \in Share(i) : in[k] = j
      <4>1. PICK k \in Share(i) : in[k] = j
        BY <3>1
      <4>2. j \in 1 .. puts /\ mained'[j] = 1
        BY <1>7, <1>8, <1>9, <4>1 DEF WerePut
      <4> QED
        BY <1>10, <4>2
    <3>2. CASE \A k \in Share(i) : in[k] # j
      BY <1>6, <3>2 DEF OrderInv, ItemTypes
    <3> QED
      BY <3>1, <3>2
  <2> QED
    BY <1>1, <1>6, <2>1 DEF OrderInv, ItemTypes
<1>12. ASSUME NEW s, s \in Seq(Nat), WerePut(s), Below(s, in) \/ Below(in, s)
       PROVE  \A a \in 1 .. Len(s) : mained'[s[a]] = mained[s[a]]
  <2>1. ASSUME NEW a \in 1 .. Len(s) PROVE s[a] \in Items /\ \A k \in Share(i) : in[k] # s[a]
    <3>1. s[a] \in Items /\ s[a] \in Nat
      BY <1>10, <1>12 DEF WerePut
    <3>2. ASSUME NEW k \in Share(i) PROVE in[k] # s[a]
      <4>1. k \in 1 .. Len(in) /\ in[k] \in Nat
        BY <1>7 DEF OrderInv, ItemTypes
      <4>2. s[a] < in[k] \/ in[k] < s[a]
        BY <1>12, <4>1 DEF Below
      <4> QED
        BY <3>1, <4>1, <4>2
    <3> QED
      BY <3>1, <3>2
  <2> QED
    BY <1>6, <2>1
<1>13. PostedInv'
  <2>1. \A a \in 1 .. Len(posted) : mained'[posted[a]] = mained[posted[a]]
    BY <1>8, <1>12 DEF OrderInv, ItemTypes, PostedInv
  <2> QED
    BY <1>1, <2>1 DEF OrderInv, PostedInv, Asc, WerePut, All
<1>14. SndInv'
  <2>1. SUFFICES ASSUME SndLive PROVE SndInv'
    BY <1>4 DEF SndInv
  <2>2. \A a \in 1 .. Len(snd) : mained'[snd[a]] = mained[snd[a]]
    BY <1>8, <1>12, <2>1 DEF OrderInv, ItemTypes, SndInv
  <2> QED
    BY <1>1, <2>1, <2>2 DEF OrderInv, SndInv, Asc, WerePut, All, Below
<1>15. InInv'
  BY <1>1, <1>4, <1>8 DEF InInv, Asc, WerePut, Below
<1>16. RcvInv'
  <2>1. SUFFICES ASSUME RcvLive PROVE RcvInv'
    BY <1>1 DEF RcvInv, RcvLive
  <2>2. \A a \in 1 .. Len(rcv) : mained'[rcv[a]] = mained[rcv[a]]
    BY <1>8, <1>12, <2>1 DEF OrderInv, ItemTypes, RcvInv
  <2> QED
    BY <1>1, <1>2, <1>4, <2>1, <2>2 DEF OrderInv, RcvInv, Asc, WerePut, All, Below
<1>17. ASSUME NEW j \in Mains \ {i} PROVE \A k \in Share(j) : mained'[in[k]] = mained[in[k]]
  <2>1. ASSUME NEW k \in Share(j) PROVE in[k] \in Items /\ \A l \in Share(i) : in[l] # in[k]
    <3>1. k \in 1 .. Len(in) /\ in[k] \in Items
      BY <1>7, <1>8, <1>10 DEF WerePut
    <3>2. ASSUME NEW l \in Share(i) PROVE in[l] # in[k]
      <4>1. l \in 1 .. Len(in) /\ k # l /\ in[l] \in Nat /\ in[k] \in Nat
        BY <1>7, <3>1 DEF OrderInv, ItemTypes
      <4>2. l < k \/ k < l
        BY <3>1, <4>1
      <4>3. in[l] < in[k] \/ in[k] < in[l]
        BY <1>8, <3>1, <4>1, <4>2 DEF Asc
      <4> QED
        BY <4>1, <4>3
    <3> QED
      BY <3>1, <3>2
  <2> QED
    BY <1>6, <2>1
<1>18. ShareInv'
  <2>1. \A j \in Mains : Share(j)' = Share(j)
    BY <1>1 DEF Share
  <2>2. \A j \in Mains : Pending(j)' => \A k \in Share(j) : mained'[in[k]] = 0
    BY <1>2, <1>3, <1>17 DEF OrderInv, ShareInv
  <2>3. OnItsWay' => \A j \in Mains :
           ~Pending(j)' /\ pc'[j] \in {"pause", "wait", "join"} => \A k \in Share(j) : mained'[in[k]] = 1
    BY <1>3, <1>4, <1>9, <1>17 DEF OrderInv, ShareInv
  <2> QED
    BY <1>1, <1>4, <2>1, <2>2, <2>3 DEF ShareInv
<1> QED
  BY <1>11, <1>13, <1>14, <1>15, <1>16, <1>18

LEMMA Joined ==
    ASSUME NEW s \in Seq(Nat), NEW t \in Seq(Nat), Asc(s), Asc(t), Below(s, t)
    PROVE  /\ Asc(s \o t)
           /\ \A u : Below(s, u) /\ Below(t, u) => Below(s \o t, u)
<1> DEFINE j == s \o t
           Left(a)  == a \in 1 .. Len(s) /\ j[a] = s[a]
           Right(a) == a > Len(s) /\ a - Len(s) \in 1 .. Len(t) /\ j[a] = t[a - Len(s)]
<1>1. \A a \in 1 .. Len(j) : a \in Nat /\ (Left(a) \/ Right(a))
  OBVIOUS
<1> HIDE DEF j
<1>2. Len(s) \in Nat /\ Len(t) \in Nat
  OBVIOUS
<1>3. ASSUME NEW a \in 1 .. Len(j), NEW b \in 1 .. Len(j), a < b PROVE j[a] < j[b]
  <2>1. CASE Left(a) /\ Left(b)
    BY <1>3, <2>1 DEF Asc
  <2>2. CASE Left(a) /\ Right(b)
    BY <2>2 DEF Below
  <2>3. CASE Right(a)
    <3>1. Right(b) /\ a - Len(s) < b - Len(s)
      BY <1>1, <1>2, <1>3, <2>3
    <3>2. t[a - Len(s)] < t[b - Len(s)]
      BY <2>3, <3>1 DEF Asc
    <3> QED
      BY <2>3, <3>1, <3>2
  <2> QED
    BY <1>1, <2>1, <2>2, <2>3
<1>4. ASSUME NEW u, Below(s, u), Below(t, u), NEW a \in 1 .. Len(j), NEW b \in 1 .. Len(u) PROVE j[a] < u[b]
  BY <1>1, <1>4 DEF Below
<1>5. Asc(j)
  BY <1>3 DEF Asc
<1>6. \A u : Below(s, u) /\ Below(t, u) => Below(j, u)
  BY <1>4 DEF Below
<1> QED
  BY <1>5, <1>6 DEF j

LEMMA TeamKeepsOrder ==
    ASSUME DataParaAssumption, OwnOutput, OrderInv, NEW i \in Team, TeamRuns(i) \/ crash(i)
    PROVE  ItemTypes' /\ PostedInv' /\ SndInv' /\ InInv' /\ RcvInv' /\ ShareInv'
<1> USE TeamMembers, BitsDiffer
<1> DEFINE Kept == ItemTypes' /\ PostedInv' /\ SndInv' /\ InInv' /\ RcvInv'
<1>0. /\ pc \in [Team -> MainAt] /\ Mains \subseteq Team /\ Post \in Team
      /\ PlaceInv /\ RequestsAreFresh /\ PostIsAsked /\ Apart /\ PausedMeansIdle
  BY DEF OrderInv, BitsInv
\* A thread that goes from one place to another, and nothing else.
<1>1. ASSUME UNCHANGED <<rcv, in, snd, posted, puts, mained, dpc>>,
             \A j \in Mains : Pending(j)' => Pending(j),
             OnItsWay' => OnItsWay, SndLive' => SndLive,
             pc'[0] = "swap" => pc[0] = "swap",
             OnItsWay' => \A j \in Mains : ~Pending(j)' /\ pc'[j] \in {"pause", "wait", "join"} =>
                (~Pending(j) /\ pc[j] \in {"pause", "wait", "join"}) \/ in = <<>>
      PROVE  Kept /\ ShareInv'
  <2>1. RcvLive' => RcvLive
    BY <1>1 DEF RcvLive
  <2>2. InLive' => InLive
    BY <1>1 DEF InLive
  <2>3. Kept
    BY <1>1, <2>1, <2>2, NothingMoved
  <2>4. \A j \in Mains : Share(j)' = Share(j)
    BY <1>1 DEF Share
  <2>5. in = <<>> => \A j \in Mains : Share(j) = {}
    BY DEF Share
  <2>6. \A j \in Mains : Pending(j)' => \A k \in Share(j) : mained'[in'[k]] = 0
    BY <1>1 DEF OrderInv, ShareInv
  <2>7. OnItsWay' => \A j \in Mains :
           ~Pending(j)' /\ pc'[j] \in {"pause", "wait", "join"} => \A k \in Share(j) : mained'[in'[k]] = 1
    BY <1>1, <2>5 DEF OrderInv, ShareInv
  <2>8. pc'[0] = "swap" => All(in, 1)'
    BY <1>1 DEF OrderInv, ShareInv, All
  <2> QED
    BY <2>3, <2>4, <2>6, <2>7, <2>8 DEF ShareInv
<1>2. CASE pause(i)
  <2>1. /\ UNCHANGED <<rcv, in, snd, posted, puts, mained, dpc>>
        /\ pc[i] = "pause" /\ pc' = [pc EXCEPT ![i] = "wait"] /\ \A j \in Team : start_req(j) \in mask' <=> start_req(j) \in mask
    BY <1>2 DEF pause, Goto, buffers, driver, work
  <2>2. \A j \in Mains : Pending(j)' <=> Pending(j)
    BY <1>0, <2>1 DEF Pending
  <2>3. (OnItsWay' => OnItsWay) /\ (SndLive' => SndLive) /\ (pc'[0] = "swap" => pc[0] = "swap")
    BY <1>0, <2>1 DEF OnItsWay, SndLive
  <2>4. \A j \in Mains : pc'[j] \in {"pause", "wait", "join"} => pc[j] \in {"pause", "wait", "join"}
    BY <1>0, <2>1
  <2> QED
    BY <1>1, <2>1, <2>2, <2>3, <2>4
<1>3. CASE awake(i)
  <2>1. /\ UNCHANGED <<rcv, in, snd, posted, puts, mained, dpc>>
        /\ pc[i] = "wait" /\ pc' = [pc EXCEPT ![i] = pc'[i]]
        /\ \A j \in Team : start_req(j) \in mask' <=> (start_req(j) \in mask /\ j # i)
        /\ \/ pc'[i] = "exit"
           \/ start_req(i) \in mask /\ pc'[i] = IF i = Post THEN "apply" ELSE "check"
    BY <1>0, <1>3 DEF awake, Goto, buffers, driver, work
  <2>2. \A j \in Mains : Pending(j)' => Pending(j)
    BY <1>0, <2>1 DEF Pending
  <2>3. (OnItsWay' => OnItsWay) /\ (SndLive' => SndLive) /\ (pc'[0] = "swap" => pc[0] = "swap")
    BY <1>0, <2>1 DEF OnItsWay, SndLive
  <2>4. \A j \in Mains : pc'[j] \in {"pause", "wait", "join"} => pc[j] = pc'[j] /\ (~Pending(j)' => ~Pending(j))
    BY <1>0, <2>1 DEF Pending
  <2> QED
    BY <1>1, <2>1, <2>2, <2>3, <2>4
<1>4. CASE i \in Mains /\ main_check(i)
  <2>1. /\ UNCHANGED <<rcv, in, snd, posted, puts, mained, dpc, mask>>
        /\ pc[i] = "check" /\ pc' = [pc EXCEPT ![i] = pc'[i]]
        /\ (in = <<>> /\ pc'[i] = "pause") \/ pc'[i] \in {"apply", "resize"}
    BY <1>0, <1>4 DEF main_check, Goto, buffers, driver, work
  <2>2. \A j \in Mains : Pending(j)' => Pending(j)
    BY <1>0, <2>1 DEF Pending
  <2>3. (OnItsWay' => OnItsWay) /\ (SndLive' => SndLive) /\ (pc'[0] = "swap" => pc[0] = "swap")
    BY <1>0, <2>1 DEF OnItsWay, SndLive
  <2>4. \A j \in Mains : pc'[j] \in {"pause", "wait", "join"} =>
           in = <<>> \/ (pc[j] = pc'[j] /\ (~Pending(j)' => ~Pending(j)))
    BY <1>0, <2>1 DEF Pending
  <2> QED
    BY <1>1, <2>1, <2>2, <2>3, <2>4
<1>5. CASE i \in Mains /\ (main_resize(i) \/ main_init(i))
  <2>1. /\ UNCHANGED <<rcv, in, snd, posted, puts, mained, dpc, mask>>
        /\ pc[i] \in {"resize", "init"} /\ pc' = [pc EXCEPT ![i] = pc'[i]] /\ pc'[i] \in {"init", "apply"}
    BY <1>0, <1>5 DEF main_resize, main_init, Goto, buffers, driver, work
  <2>2. \A j \in Mains : Pending(j)' => Pending(j)
    BY <1>0, <2>1 DEF Pending
  <2>3. (OnItsWay' => OnItsWay) /\ (SndLive' => SndLive) /\ (pc'[0] = "swap" => pc[0] = "swap")
    BY <1>0, <1>5, <2>1 DEF OnItsWay, SndLive
  <2>4. \A j \in Mains : pc'[j] \in {"pause", "wait", "join"} => pc[j] = pc'[j] /\ (~Pending(j)' => ~Pending(j))
    BY <1>0, <2>1 DEF Pending
  <2> QED
    BY <1>1, <2>1, <2>2, <2>3, <2>4
<1>6. CASE i \in Mains /\ main_apply(i)
  BY <1>6, ApplyKeepsOrder
<1>7. CASE main_join
  <2>0. /\ UNCHANGED <<rcv, in, snd, posted, puts, mained, dpc, mask>>
        /\ pc[0] = "join" /\ pc' = [pc EXCEPT ![0] = pc'[0]]
        /\ pc'[0] = "exit" \/ (pc'[0] = "swap" /\ Others \subseteq mask /\ mask \cap Except = {})
    BY <1>0, <1>7 DEF main_join, Goto, buffers, driver, work
  <2>1. CASE pc'[0] = "exit"
    <3>1. \A j \in Mains : (Pending(j)' => Pending(j)) /\ (j # 0 => pc'[j] = pc[j] /\ (~Pending(j)' => ~Pending(j)))
      BY <1>0, <2>0, <2>1 DEF Pending
    <3>2. (OnItsWay' => OnItsWay) /\ (SndLive' => SndLive)
      BY <1>0, <2>0, <2>1 DEF OnItsWay, SndLive
    <3> QED
      BY <1>0, <1>1, <2>0, <2>1, <3>1, <3>2
  <2>2. CASE pc'[0] = "swap" /\ Others \subseteq mask /\ mask \cap Except = {}
    <3>1. \A j \in Mains : Pending(j)' <=> Pending(j)
      BY <1>0, <2>0, <2>2 DEF Pending
    <3>2. (OnItsWay' <=> OnItsWay) /\ (SndLive' <=> SndLive) /\ OnItsWay
      BY <1>0, <2>0, <2>2 DEF OnItsWay, SndLive
    <3>3. (InLive' => InLive) /\ (RcvLive' => RcvLive)
      BY <2>0, <3>1, <3>2 DEF InLive, RcvLive
    <3>4. Kept
      BY <2>0, <3>2, <3>3, NothingMoved
    <3>5. dpc \notin {"off", "on"}
      BY <1>0, <2>0 DEF Apart
    <3>6. \A j \in Mains : ~Pending(j) /\ pc[j] \in {"wait", "join"}
      <4>1. ASSUME NEW j \in Mains \ {0} PROVE ~Pending(j) /\ pc[j] = "wait"
        <5>1. paused(j) \in mask
          BY <2>2 DEF Others
        <5>2. pc[j] = "wait"
          BY <1>0, <2>2, <5>1 DEF PausedMeansIdle, PlaceInv
        <5> QED
          BY <1>0, <3>5, <5>1, <5>2 DEF RequestsAreFresh, Pending
      <4>2. ~Pending(0)
        BY <1>0, <2>0, <3>5 DEF RequestsAreFresh, Pending
      <4> QED
        BY <2>0, <4>1, <4>2
    <3>7. \A j \in Mains : Share(j)' = Share(j) /\ \A k \in Share(j) : mained'[in'[k]] = 1
      BY <2>0, <3>2, <3>6 DEF OrderInv, ShareInv, Share
    <3>8. All(in, 1)'
      BY <2>0, <3>7, Shares DEF OrderInv, ItemTypes, All
    <3> QED
      BY <3>1, <3>4, <3>6, <3>7, <3>8 DEF ShareInv
  <2> QED
    BY <2>0, <2>1, <2>2
<1>8. CASE main_swap
  <2>1. /\ UNCHANGED <<rcv, posted, puts, mained, dpc, mask>> /\ in' \in {in, snd} /\ snd' = in
        /\ pc[0] = "swap" /\ pc' = [pc EXCEPT ![0] = "on"]
    BY <1>8 DEF main_swap, Goto, driver, work, OrderInv, OutInv
  <2>2. dpc \notin {"off", "on"} /\ OnItsWay /\ InLive
    BY <1>0, <2>1 DEF Apart, OnItsWay, InLive
  <2>3. \A j \in Mains : ~Pending(j)'
    BY <1>0, <2>1, <2>2 DEF Pending, Apart, PlaceInv
  <2>4. ~OnItsWay' /\ ~InLive' /\ pc'[0] # "swap"
    BY <1>0, <2>1, <2>2, <2>3 DEF OnItsWay, InLive, PlaceInv
  <2>5. ItemTypes' /\ PostedInv'
    BY <2>1 DEF OrderInv, ItemTypes, PostedInv, Asc, WerePut, All
  <2>6. SndInv'
    BY <2>1, <2>2 DEF OrderInv, InInv, ShareInv, SndInv, Asc, WerePut, All, Below
  <2>7. RcvInv'
    BY <2>1, <2>2, <2>4 DEF OrderInv, RcvInv, RcvLive, Asc, WerePut, All, Below
  <2>8. InInv' /\ ShareInv'
    BY <2>3, <2>4 DEF InInv, ShareInv
  <2> QED
    BY <2>5, <2>6, <2>7, <2>8
<1>9. CASE main_start_post
  <2>1. /\ UNCHANGED <<rcv, in, snd, posted, puts, mained, dpc>>
        /\ pc[0] = "on" /\ pc' = [pc EXCEPT ![0] = "alloff"]
        /\ \A j \in Mains : start_req(j) \in mask' <=> start_req(j) \in mask
    BY <1>9 DEF main_start_post, Goto, buffers, driver, work
  <2>2. \A j \in Mains : Pending(j)' <=> Pending(j)
    BY <1>0, <2>1 DEF Pending
  <2>3. (OnItsWay' => OnItsWay) /\ (SndLive' => SndLive) /\ (pc'[0] = "swap" => pc[0] = "swap")
    BY <1>0, <2>1 DEF OnItsWay, SndLive
  <2>4. \A j \in Mains : pc'[j] \in {"pause", "wait", "join"} => pc[j] \in {"pause", "wait", "join"}
    BY <1>0, <2>1
  <2> QED
    BY <1>1, <2>1, <2>2, <2>3, <2>4
<1>10. CASE main_post_resumed
  <2>1. /\ UNCHANGED <<rcv, in, snd, posted, puts, mained, dpc, mask>>
        /\ pc[0] = "alloff" /\ pc' = [pc EXCEPT ![0] = "pause"]
    BY <1>10 DEF main_post_resumed, Goto, buffers, driver, work
  <2>2. \A j \in Mains : Pending(j)' <=> Pending(j)
    BY <1>0, <2>1 DEF Pending
  <2>3. (OnItsWay' => OnItsWay) /\ (SndLive' => SndLive) /\ (pc'[0] = "swap" => pc[0] = "swap")
    BY <1>0, <2>1 DEF OnItsWay, SndLive
  <2>4. (OnItsWay' => Pending(0)') /\ \A j \in Mains \ {0} : pc'[j] = pc[j]
    BY <1>0, <2>1 DEF OnItsWay, Pending
  <2> QED
    BY <1>1, <2>1, <2>2, <2>3, <2>4
<1>11. CASE post_apply
  <2>1. /\ UNCHANGED <<rcv, in, snd, puts, mained, dpc, mask>> /\ posted' = posted \o snd
        /\ pc[Post] = "apply" /\ pc' = [pc EXCEPT ![Post] = "pause"]
    BY <1>11 DEF post_apply, Goto, buffers, driver
  <2>2. (\A j \in Mains : pc'[j] = pc[j]) /\ pc'[Post] = "pause"
    BY <1>0, <2>1
  <2>3. SndLive /\ ~SndLive'
    BY <1>0, <2>1, <2>2 DEF SndLive, PlaceInv, Apart
  <2>4. (\A j \in Mains : Pending(j)' <=> Pending(j)) /\ (OnItsWay' <=> OnItsWay)
    BY <2>1, <2>2 DEF Pending, OnItsWay
  <2>5. InLive' <=> InLive
    BY <2>4 DEF InLive
  <2>6. /\ posted \in Seq(Nat) /\ snd \in Seq(Nat) /\ Asc(posted) /\ Asc(snd) /\ WerePut(posted) /\ WerePut(snd)
        /\ All(posted, 1) /\ All(snd, 1) /\ Below(posted, snd)
    BY <2>3 DEF OrderInv, ItemTypes, PostedInv, SndInv
  <2>7. /\ Len(posted) \in Nat /\ Len(snd) \in Nat /\ Len(posted') = Len(posted) + Len(snd)
        /\ \A a \in 1 .. Len(posted') :
              posted'[a] = IF a <= Len(posted) THEN posted[a] ELSE snd[a - Len(posted)]
        /\ posted' \in Seq(Nat)
    BY <2>1, <2>6
  <2>8. ASSUME NEW a \in 1 .. Len(posted')
        PROVE  a \in 1 .. Len(posted) \/ (a > Len(posted) /\ a - Len(posted) \in 1 .. Len(snd))
    BY <2>7
  <2>9. PostedInv'
    <3>1. Asc(posted')
      BY <2>1, <2>6, Joined
    <3>2. WerePut(posted)' /\ All(posted, 1)'
      BY <2>1, <2>6, <2>7, <2>8 DEF WerePut, All
    <3> QED
      BY <3>1, <3>2 DEF PostedInv
  <2>10. InInv'
    <3>1. InLive => Below(posted', in)
      BY <2>1, <2>3, <2>6, Joined DEF OrderInv, InInv
    <3> QED
      BY <2>1, <2>3, <2>5, <3>1 DEF OrderInv, InInv, Asc, WerePut, Below
  <2>11. RcvInv'
    <3>1. RcvLive => Below(posted', rcv)
      BY <2>1, <2>3, <2>6, Joined DEF OrderInv, RcvInv
    <3> QED
      BY <2>1, <2>3, <2>5, <3>1 DEF OrderInv, RcvInv, RcvLive, Asc, WerePut, All, Below
  <2>12. ItemTypes' /\ SndInv'
    BY <2>1, <2>3, <2>7 DEF OrderInv, ItemTypes, SndInv
  <2>13. ShareInv'
    BY <2>1, <2>2, <2>4 DEF OrderInv, ShareInv, Share, All
  <2> QED
    BY <2>9, <2>10, <2>11, <2>12, <2>13
<1>12. CASE crash(i) \/ on_exit(i)
  <2>1. /\ UNCHANGED <<rcv, in, snd, posted, puts, mained, dpc>>
        /\ pc[i] \in {"apply", "exit"} /\ pc'[i] \in {"exit", "done"} /\ \A j \in Team \ {i} : pc'[j] = pc[j]
        /\ \A j \in Team : start_req(j) \in mask' <=> start_req(j) \in mask
    BY <1>0, <1>12 DEF crash, on_exit, Goto, buffers, driver, work
  <2>2. \A j \in Mains : Pending(j)' => Pending(j)
    BY <1>0, <2>1 DEF Pending
  <2>3. (OnItsWay' => OnItsWay) /\ (SndLive' => SndLive) /\ (pc'[0] = "swap" => pc[0] = "swap")
    BY <1>0, <2>1 DEF OnItsWay, SndLive
  <2>4. \A j \in Mains : pc'[j] \in {"pause", "wait", "join"} => pc[j] = pc'[j] /\ (~Pending(j)' => ~Pending(j))
    BY <1>0, <2>1 DEF Pending
  <2> QED
    BY <1>1, <2>1, <2>2, <2>3, <2>4
<1> QED
  BY <1>2, <1>3, <1>4, <1>5, <1>6, <1>7, <1>8, <1>9, <1>10, <1>11, <1>12 DEF TeamRuns, main_thread, post_thread

LEMMA DriverKeepsOut ==
    ASSUME DataParaAssumption, OrderInv,
           \/ start_round \/ put \/ end_round \/ end \/ init \/ DriverRuns
    PROVE  OutInv'
<1> USE TeamMembers DEF OutInv
<1>1. CASE start_round \/ put \/ end_round \/ wait_process \/ resume_off \/ resume_on \/ resume_resumed
           \/ end_round_return \/ end \/ end_joined
  <2>1. UNCHANGED <<in, out, pc>>
    BY <1>1 DEF start_round, put, end_round, wait_process, resume_off, resume_on, resume_resumed,
         end_round_return, end, end_joined, buffers
  <2> QED
    BY <2>1 DEF OrderInv
<1>2. CASE resume_swap
  <2>1. UNCHANGED <<out, pc>> /\ pc[0] \in {"wait", "exit", "done"}
    BY <1>2 DEF resume_swap, OrderInv, BitsInv, Apart
  <2> QED
    BY <2>1 DEF OrderInv
<1>3. CASE init
  <2>1. out' = <<>> /\ pc'[0] = "pause" /\ <<>> \in Seq(Nat)
    BY <1>3 DEF init
  <2> QED
    BY <2>1
<1> QED
  BY <1>1, <1>2, <1>3 DEF DriverRuns

LEMMA TeamKeepsOut ==
    ASSUME DataParaAssumption, OwnOutput, OrderInv, NEW i \in Team, TeamRuns(i) \/ crash(i)
    PROVE  OutInv'
<1> USE TeamMembers
<1>0. SUFFICES ASSUME ~SameType
               PROVE  /\ out' \in Seq(Nat)
                      /\ pc'[0] = "apply" => Len(out') = Len(in')
                      /\ pc'[0] \in {"join", "swap"} => out' = in'
  BY DEF OutInv
<1>1. /\ Mains = {0} /\ (i = 0 \/ i = Post)
      /\ pc \in [Team -> MainAt] /\ 0 \in Team /\ Post \in Team
      /\ in \in Seq(Nat) /\ snd \in Seq(Nat) /\ out \in Seq(Nat)
      /\ pc[0] = "apply" => Len(out) = Len(in)
      /\ pc[0] \in {"join", "swap"} => out = in
  BY <1>0 DEF OwnOutput, OrderInv, OutInv, ItemTypes, BitsInv, Mains
<1>2. CASE i = Post
  <2>1. UNCHANGED <<in, out>> /\ pc'[0] = pc[0]
    BY <1>1, <1>2 DEF TeamRuns, post_thread, pause, awake, post_apply, on_exit, crash, Goto, buffers
  <2> QED
    BY <1>1, <2>1
<1>3. CASE main_init(0)
  <2> DEFINE new == [k \in 1 .. Len(in) |-> IF k <= size[0] /\ k <= Len(out) THEN out[k] ELSE 0]
  <2>1. out' = new /\ UNCHANGED in /\ pc'[0] = "apply"
    BY <1>1, <1>3 DEF main_init, Goto
  <2>2. ASSUME NEW k \in 1 .. Len(in) PROVE new[k] \in Nat
    BY <1>1
  <2>3. Len(in) \in Nat /\ new \in [1 .. Len(in) -> Nat]
    BY <1>1, <2>2
  <2>4. new \in Seq(Nat) /\ Len(new) = Len(in)
    BY <2>3
  <2> QED
    BY <2>1, <2>4
<1>4. CASE main_apply(0)
  <2>1. /\ out' = [k \in DOMAIN out |-> IF k \in Share(0) THEN in[k] ELSE out[k]]
        /\ UNCHANGED in /\ pc'[0] = "join" /\ Len(out) = Len(in)
    BY <1>0, <1>1, <1>4 DEF main_apply, Goto
  <2>2. DOMAIN out = 1 .. Len(in) /\ Share(0) = 1 .. Len(in)
    <3>1. DOMAIN out = 1 .. Len(out)
      BY <1>1
    <3>2. Share(0) \subseteq 1 .. Len(in) /\ \A k \in 1 .. Len(in) : k \in Share(0)
      BY <1>1, Shares
    <3> QED
      BY <2>1, <3>1, <3>2
  <2>3. out' = [k \in 1 .. Len(in) |-> in[k]]
    BY <2>1, <2>2
  <2>4. in = [k \in 1 .. Len(in) |-> in[k]]
    BY <1>1
  <2>5. out' = in
    BY <2>3, <2>4
  <2> QED
    BY <1>1, <2>1, <2>5
<1>5. CASE main_swap
  BY <1>0, <1>1, <1>5 DEF main_swap, Goto
<1>6. CASE pause(0) \/ awake(0) \/ main_check(0) \/ main_resize(0) \/ main_join \/ main_start_post
           \/ main_post_resumed \/ on_exit(0) \/ crash(0)
  <2>1. UNCHANGED <<in, out>> /\ pc'[0] # "apply" /\ (pc'[0] = "swap" => pc[0] = "join") /\ pc'[0] # "join"
    BY <1>0, <1>1, <1>6 DEF pause, awake, main_check, main_resize, main_join, main_start_post,
         main_post_resumed, on_exit, crash, Goto, buffers
  <2> QED
    BY <1>1, <2>1
<1> QED
  BY <1>1, <1>2, <1>3, <1>4, <1>5, <1>6 DEF TeamRuns, main_thread, post_thread

LEMMA InitOrderInv == ASSUME DataParaAssumption, Init PROVE OrderInv
<1>1. BitsInv
  BY BitsDiffer, TeamMembers
     DEF Init, BitsInv, MainAt, DriverAt, PausedMeansIdle, RequestsAreFresh, PostIsAsked, Apart
<1>2. ~SndLive /\ ~InLive /\ ~OnItsWay /\ (\A i \in Mains : ~Pending(i)) /\ PlaceInv
  BY TeamMembers DEF Init, SndLive, InLive, OnItsWay, Pending, PlaceInv
<1>3. ItemTypes /\ PostedInv /\ RcvInv /\ OutInv
  <2>1. /\ rcv = <<>> /\ in = <<>> /\ out = <<>> /\ snd = <<>> /\ posted = <<>>
        /\ <<>> \in Seq(Nat) /\ Len(<<>>) = 0 /\ pc[0] = "pause"
    BY TeamMembers DEF Init
  <2>2. ItemTypes
    BY <2>1 DEF DataParaAssumption, Init, ItemTypes
  <2> QED
    BY <1>2, <2>1, <2>2 DEF PostedInv, RcvInv, Asc, WerePut, All, Below, OutInv
<1>4. SndInv /\ InInv
  BY <1>2 DEF SndInv, InInv
<1>5. ShareInv
  BY <1>2, TeamMembers DEF Init, ShareInv
<1> QED
  BY <1>1, <1>2, <1>3, <1>4, <1>5 DEF OrderInv

LEMMA StepOrderInv ==
    ASSUME DataParaAssumption, OwnOutput, OrderInv, [Next]_vars
    PROVE  OrderInv'
<1>1. CASE \/ start_round \/ put \/ end_round \/ end \/ init \/ DriverRuns
  <2>1. BitsInv'
    BY <1>1, DriverKeepsApart DEF OrderInv
  <2> QED
    BY <1>1, <2>1, DriverKeepsPlaces, DriverKeepsOrder, DriverKeepsOut DEF OrderInv
<1>2. ASSUME NEW i \in Team, TeamRuns(i) \/ crash(i) PROVE OrderInv'
  <2>1. BitsInv'
    BY <1>2, TeamKeepsApart DEF OrderInv
  <2> QED
    BY <1>2, <2>1, TeamKeepsPlaces, TeamKeepsOrder, TeamKeepsOut DEF OrderInv
<1>3. CASE UNCHANGED vars
  <2> USE <1>3 DEF vars, driver, buffers, work, OrderInv
  <2>1. BitsInv' /\ PlaceInv' /\ OutInv'
    BY DEF BitsInv, PausedMeansIdle, RequestsAreFresh, PostIsAsked, Apart, PlaceInv, OutInv
  <2>2. /\ (SndLive' <=> SndLive) /\ (OnItsWay' <=> OnItsWay) /\ (RcvLive' <=> RcvLive)
        /\ \A i \in Mains : (Pending(i)' <=> Pending(i)) /\ Share(i)' = Share(i)
    BY DEF SndLive, OnItsWay, RcvLive, Pending, Share
  <2>3. InLive' <=> InLive
    BY <2>2 DEF InLive
  <2>4. ItemTypes' /\ PostedInv' /\ SndInv' /\ InInv' /\ RcvInv'
    BY <2>2, <2>3, NothingMoved
  <2>5. ShareInv'
    BY <2>2 DEF ShareInv, All
  <2> QED
    BY <2>1, <2>4, <2>5
<1> QED
  BY <1>1, <1>2, <1>3 DEF Next

LEMMA OrderInvMeans ==
    ASSUME DataParaAssumption, OrderInv
    PROVE  BuffersApart /\ ProcessedInOrder /\ PostSeesResults
<1>1. BuffersApart
  BY TeamMembers DEF OrderInv, BitsInv, Apart, BuffersApart
<1>2. \A j \in Items : mained[j] <= 1
  BY DEF OrderInv, ItemTypes
<1>3. posted \in Seq(Nat) /\ puts \in 0 .. MaxPut /\ Asc(posted) /\ WerePut(posted) /\ All(posted, 1)
  BY DEF OrderInv, ItemTypes, PostedInv
<1>4. \A k \in DOMAIN posted : posted[k] \in Items /\ mained[posted[k]] = 1
  BY <1>3 DEF DataParaAssumption, WerePut, All, Items
<1>5. \A k \in 1 .. Len(posted) - 1 : posted[k] < posted[k + 1]
  BY <1>3 DEF Asc
<1>6. pc[Post] = "apply" => snd \in Seq(Nat) /\ WerePut(snd)
  BY DEF OrderInv, SndInv, SndLive, ItemTypes
<1>7. PostSeesResults
  BY <1>3, <1>6 DEF WerePut, PostSeesResults
<1> QED
  BY <1>1, <1>2, <1>4, <1>5, <1>7 DEF ProcessedInOrder

\* The main threads process an item at most once, and the post thread sees the items in the
\* order of put, none of them twice, each after it was main-processed, and what the main
\* threads have written for it (datapara.hpp): for any number of main threads and any batch
\* size, whatever threads throw and whenever end() comes, where the main threads process the
\* items in place or there is one of them.
THEOREM ItemsInOrder == DataParaAssumption /\ OwnOutput => (Spec => [](ProcessedInOrder /\ PostSeesResults))
<1>1. DataParaAssumption /\ OrderInv => ProcessedInOrder /\ PostSeesResults
  BY OrderInvMeans
<1>2. ASSUME DataParaAssumption, OwnOutput PROVE Spec => [](ProcessedInOrder /\ PostSeesResults)
  BY <1>1, <1>2, InitOrderInv, StepOrderInv, PTL DEF Spec
<1> QED
  BY <1>2
-----------------------------------------------------------------------------
(* Proof of RoundIsComplete, where no function throws and end() comes      *)
(* between rounds: an item stays with somebody until it is posted, and     *)
(* end_round returns when nobody has anything left.                        *)

NobodyThrows == MayCrash = {} /\ EndAnytime = FALSE

Has(s, j) == \E a \in 1 .. Len(s) : s[a] = j

\* The phases of a round; threads end only when the driver is ended.
PhaseInv ==
    /\ dpc # "failed"
    /\ dpc \notin {"join", "ended"} => mask \cap Except = {} /\ \A i \in Team : pc[i] \notin {"exit", "done"}
    /\ IF inRound THEN dpc \notin {"join", "ended"} ELSE dpc \in {"idle", "join", "ended"}
    /\ dpc = "all" => todo = "last"
    /\ dpc # "idle" /\ inRound /\ todo = "last" => dpc \in {"wait", "all"} /\ rcv = <<>>

\* Main thread 0 is not done with a batch before the others are.
BatchInv == dpc \notin {"join", "ended"} /\ InLive /\ in # <<>> => OnItsWay

\* Somebody has the item.
WithSomebody(j) ==
    \/ Has(posted, j)
    \/ inRound /\ SndLive /\ Has(snd, j)
    \/ inRound /\ InLive /\ Has(in, j)
    \/ inRound /\ RcvLive /\ Has(rcv, j)

RoundInv == OrderInv /\ PhaseInv /\ BatchInv /\ \A j \in 1 .. puts : WithSomebody(j)

LEMMA DriverKeepsRound ==
    ASSUME DataParaAssumption, NobodyThrows, RoundInv,
           \/ start_round \/ put \/ end_round \/ end \/ init \/ DriverRuns
    PROVE  PhaseInv' /\ BatchInv' /\ \A j \in 1 .. puts' : WithSomebody(j)'
<1> USE TeamMembers, BitsDiffer DEF RoundInv
<1> DEFINE Kept == PhaseInv' /\ BatchInv' /\ \A j \in 1 .. puts' : WithSomebody(j)'
<1>0. /\ pc \in [Team -> MainAt] /\ Mains \subseteq Team /\ Post \in Team
      /\ PausedMeansIdle /\ RequestsAreFresh /\ PostIsAsked /\ Apart
      /\ rcv \in Seq(Nat) /\ in \in Seq(Nat) /\ snd \in Seq(Nat) /\ puts \in Nat
  BY DEF OrderInv, BitsInv, ItemTypes, DataParaAssumption
\* The team and its buffers stay; the batch stays where it is.
<1>1. ASSUME UNCHANGED <<in, snd, posted>>, SndLive' <=> SndLive, OnItsWay' <=> OnItsWay,
             \A i \in Mains : Pending(i)' <=> Pending(i), inRound => inRound', puts' = puts,
             dpc \in {"join", "ended"} => dpc' \in {"join", "ended"},
             (rcv' = rcv /\ (RcvLive => RcvLive')) \/ ~RcvLive \/ ~inRound
      PROVE  BatchInv' /\ \A j \in 1 .. puts' : WithSomebody(j)'
  <2>1. InLive' <=> InLive
    BY <1>1 DEF InLive
  <2> QED
    BY <1>1, <2>1 DEF BatchInv, WithSomebody, Has
<1>2. CASE start_round \/ end_round \/ wait_process \/ resume_off \/ resume_on
  <2> USE <1>2 DEF start_round, end_round, wait_process, resume_off, resume_on, allmain_start_req, allmain_paused
  <2>1. PhaseInv'
    <3>1. UNCHANGED pc /\ (mask \cap Except = {} => mask' \cap Except = {})
      BY DEF buffers
    <3>2. dpc' # "failed"
      BY DEF PhaseInv
    <3>3. /\ dpc' = "all" => todo' = "last"
          /\ dpc' # "idle" /\ inRound' /\ todo' = "last" => dpc' \in {"wait", "all"} /\ rcv' = <<>>
      BY DEF PhaseInv, buffers
    <3> QED
      BY <3>1, <3>2, <3>3 DEF PhaseInv
  <2>2. UNCHANGED <<in, snd, posted, pc, puts>>
    BY DEF buffers, work
  <2>3. (SndLive' <=> SndLive) /\ (OnItsWay' <=> OnItsWay) /\ \A i \in Mains : Pending(i)' <=> Pending(i)
    BY <1>0, <2>2 DEF SndLive, OnItsWay, Pending
  <2>4. inRound => inRound'
    OBVIOUS
  <2>5. dpc \notin {"join", "ended"} /\ dpc' # "failed"
    BY <2>1 DEF PhaseInv
  <2>6. (rcv' = rcv /\ (RcvLive => RcvLive')) \/ ~RcvLive \/ ~inRound
    BY <2>5 DEF RcvLive, buffers
  <2> QED
    BY <1>1, <2>1, <2>2, <2>3, <2>4, <2>5, <2>6
<1>3. CASE put \/ resume_resumed
  <2> USE <1>3 DEF put, Push, resume_resumed
  <2>1. PhaseInv'
    BY DEF PhaseInv, OrderInv, BitsInv, DriverAt
  <2>2. UNCHANGED <<in, snd, posted, pc, mask, inRound>> /\ inRound
    BY DEF work, PhaseInv
  <2>3. (SndLive' <=> SndLive) /\ (OnItsWay' <=> OnItsWay) /\ \A i \in Mains : Pending(i)' <=> Pending(i)
    BY <2>2 DEF SndLive, OnItsWay, Pending
  <2>4. InLive' <=> InLive
    BY <2>3 DEF InLive
  <2>5. BatchInv'
    BY <2>1, <2>2, <2>3, <2>4 DEF BatchInv
  <2>6. /\ RcvLive'
        /\ \/ rcv' = rcv /\ puts' = puts /\ RcvLive
           \/ rcv' = <<>> /\ puts' = puts /\ ~RcvLive
           \/ rcv' = Append(rcv, puts + 1) /\ puts' = puts + 1 /\ RcvLive
           \/ rcv' = Append(<<>>, puts + 1) /\ puts' = puts + 1 /\ ~RcvLive
    BY DEF RcvLive
  <2>7. ASSUME NEW j \in 1 .. puts' PROVE WithSomebody(j)'
    <3>1. CASE j \in 1 .. puts
      <4>1. RcvLive /\ Has(rcv, j) => Has(rcv, j)'
        <5>1. CASE rcv' = Append(rcv, puts + 1)
          <6>1. Len(rcv) \in Nat /\ Len(rcv') = Len(rcv) + 1 /\ \A a \in 1 .. Len(rcv) : rcv'[a] = rcv[a]
            BY <1>0, <5>1
          <6> QED
            BY <6>1 DEF Has
        <5>2. CASE rcv' = rcv \/ ~RcvLive
          BY <5>2 DEF Has
        <5> QED
          BY <2>6, <5>1, <5>2
      <4> QED
        BY <2>2, <2>3, <2>4, <2>6, <3>1, <4>1 DEF WithSomebody, Has
    <3>2. CASE j \notin 1 .. puts
      <4>1. puts' = puts + 1 /\ j = puts + 1 /\ (rcv' = Append(rcv, puts + 1) \/ rcv' = Append(<<>>, puts + 1))
        BY <1>0, <2>6, <3>2
      <4>2. Has(rcv', puts + 1)
        <5>1. CASE rcv' = Append(rcv, puts + 1)
          <6>1. Len(rcv) + 1 \in 1 .. Len(rcv') /\ rcv'[Len(rcv) + 1] = puts + 1
            BY <1>0, <5>1
          <6> QED
            BY <6>1 DEF Has
        <5>2. CASE rcv' = Append(<<>>, puts + 1)
          BY <1>0, <5>2 DEF Has
        <5> QED
          BY <4>1, <5>1, <5>2
      <4> QED
        BY <2>2, <2>6, <4>1, <4>2 DEF WithSomebody
    <3> QED
      BY <3>1, <3>2
  <2> QED
    BY <2>1, <2>5, <2>7
\* Nobody works on the old batch, and the new one is what was collected.
<1>4. CASE resume_swap
  <2>1. /\ rcv' = in /\ in' = rcv /\ dpc = "swap" /\ dpc' = "off"
        /\ UNCHANGED <<snd, posted, pc, mask, inRound, puts, todo>> /\ inRound
    BY <1>4 DEF resume_swap, work, PhaseInv
  <2>2. PhaseInv'
    BY <2>1 DEF PhaseInv
  <2>3. \A i \in Mains : pc[i] = "wait" /\ start_req(i) \notin mask
    BY <1>0, <2>1 DEF Apart, RequestsAreFresh, PhaseInv
  <2>4. ~InLive
    BY <2>1, <2>3 DEF InLive, OnItsWay, Pending
  <2>5. OnItsWay' /\ InLive' /\ (SndLive' <=> SndLive)
    BY <2>1 DEF InLive, OnItsWay, SndLive
  <2>6. BatchInv' /\ \A j \in 1 .. puts' : WithSomebody(j)'
    BY <2>1, <2>4, <2>5 DEF BatchInv, WithSomebody, Has
  <2> QED
    BY <2>2, <2>6
\* All are paused: nobody has anything.
<1>5. CASE end_round_return
  <2>1. /\ dpc = "all" /\ dpc' = "idle" /\ inRound' = FALSE /\ inRound /\ rcv = <<>>
        /\ UNCHANGED <<mask, rcv, in, snd, posted, pc, puts>> /\ all_paused \subseteq mask
    BY <1>5 DEF end_round_return, buffers, work, PhaseInv
  <2>2. \A i \in Team : pc[i] = "wait" /\ paused(i) \in mask
    BY <1>0, <2>1 DEF PausedMeansIdle, PhaseInv, all_paused
  <2>3. (\A i \in Mains : start_req(i) \notin mask) /\ start_req(Post) \notin mask
    BY <1>0, <2>1, <2>2 DEF RequestsAreFresh, PostIsAsked
  <2>4. ~InLive /\ ~SndLive
    BY <2>1, <2>2, <2>3 DEF InLive, SndLive, OnItsWay, Pending
  <2>5. ~InLive'
    BY <2>1, <2>2, <2>3 DEF InLive, OnItsWay, Pending
  <2>6. PhaseInv'
    BY <2>1 DEF PhaseInv
  <2>7. \A j \in 1 .. puts' : WithSomebody(j)'
    BY <2>1, <2>4 DEF WithSomebody, Has
  <2> QED
    BY <2>5, <2>6, <2>7 DEF BatchInv
<1>6. CASE end \/ end_joined
  <2>1. dpc' \in {"join", "ended"} /\ ~inRound' /\ ~inRound /\ UNCHANGED <<posted, puts>>
    BY <1>6 DEF end, end_joined, NobodyThrows, PhaseInv, work
  <2> QED
    BY <2>1 DEF PhaseInv, BatchInv, WithSomebody, Has
<1>7. CASE init
  <2>1. dpc' = "idle" /\ ~inRound' /\ ~inRound /\ UNCHANGED <<posted, puts>>
        /\ in' = <<>> /\ mask' = {} /\ pc' = [i \in Team |-> "pause"]
    BY <1>7 DEF init, PhaseInv, work
  <2> QED
    BY <2>1 DEF PhaseInv, BatchInv, WithSomebody, Has
<1> QED
  BY <1>2, <1>3, <1>4, <1>5, <1>6, <1>7 DEF DriverRuns

LEMMA TeamKeepsRound ==
    ASSUME DataParaAssumption, NobodyThrows, OwnOutput, RoundInv, NEW i \in Team, TeamRuns(i) \/ crash(i)
    PROVE  PhaseInv' /\ BatchInv' /\ \A j \in 1 .. puts' : WithSomebody(j)'
<1> USE TeamMembers, BitsDiffer DEF RoundInv
<1>0. /\ pc \in [Team -> MainAt] /\ Mains \subseteq Team /\ Post \in Team
      /\ PausedMeansIdle /\ RequestsAreFresh /\ PostIsAsked /\ Apart /\ PlaceInv
      /\ rcv \in Seq(Nat) /\ in \in Seq(Nat) /\ snd \in Seq(Nat) /\ posted \in Seq(Nat)
      /\ UNCHANGED <<dpc, todo, inRound, puts, rcv>>
  BY DEF OrderInv, BitsInv, ItemTypes, TeamRuns, main_thread, post_thread, pause, awake, main_check, main_resize,
         main_init, main_apply, main_join, main_swap, main_start_post, main_post_resumed, post_apply, on_exit,
         crash, driver, buffers
<1>1. PhaseInv' /\ (dpc \notin {"join", "ended"} => mask \cap Except = {} /\ pc'[i] # "exit" /\ pc[i] # "exit")
  <2>1. ASSUME dpc \notin {"join", "ended"}
        PROVE  /\ mask \cap Except = {} /\ mask' \cap Except = {} /\ pc[i] # "exit"
               /\ \A j \in Team : pc'[j] \notin {"exit", "done"}
    <3>1. mask \cap Except = {} /\ (\A j \in Team : pc[j] \notin {"exit", "done"}) /\ MayCrash = {}
      BY <2>1 DEF PhaseInv, NobodyThrows
    <3>2. ~on_exit(i) /\ ~crash(i) /\ ~on_exit(Post)
      BY <3>1 DEF on_exit, crash
    <3>3. /\ mask' \subseteq mask \cup {paused(i), start_req(Post)}
          /\ pc'[i] \notin {"exit", "done"} /\ \A j \in Team \ {i} : pc'[j] = pc[j]
      BY <1>0, <3>1, <3>2 DEF TeamRuns, main_thread, post_thread, pause, awake, main_check, main_resize,
         main_init, main_apply, main_join, main_swap, main_start_post, main_post_resumed, post_apply, Goto
    <3> QED
      BY <3>1, <3>3
  <2> QED
    BY <1>0, <2>1 DEF PhaseInv
\* The driver is ended: all was posted before.
<1>2. CASE dpc \in {"join", "ended"}
  <2>1. ~inRound /\ (posted' = posted \/ posted' = posted \o snd)
    BY <1>0, <1>2 DEF PhaseInv, TeamRuns, main_thread, post_thread, pause, awake, main_check, main_resize,
         main_init, main_apply, main_join, main_swap, main_start_post, main_post_resumed, post_apply, on_exit,
         crash, work
  <2>2. ASSUME NEW j \in 1 .. puts PROVE Has(posted', j)
    <3>1. PICK a \in 1 .. Len(posted) : posted[a] = j
      BY <2>1 DEF WithSomebody, Has
    <3>2. a \in 1 .. Len(posted') /\ posted'[a] = j
      BY <1>0, <2>1, <3>1
    <3> QED
      BY <3>2 DEF Has
  <2> QED
    BY <1>0, <1>1, <1>2, <2>2 DEF BatchInv, WithSomebody
<1> SUFFICES ASSUME dpc \notin {"join", "ended"}
             PROVE  BatchInv' /\ \A j \in 1 .. puts' : WithSomebody(j)'
  BY <1>1, <1>2
<1>3. mask \cap Except = {} /\ pc'[i] # "exit" /\ pc[i] # "exit"
  BY <1>1
\* Everybody keeps what he has.
<1>4. ASSUME UNCHANGED <<in, snd, posted>>, SndLive => SndLive', OnItsWay => OnItsWay' \/ in = <<>>,
             \A j \in Mains : Pending(j)' => Pending(j)
      PROVE  BatchInv' /\ \A j \in 1 .. puts' : WithSomebody(j)'
  <2>1. InLive' => InLive \/ OnItsWay'
    BY <1>4 DEF InLive
  <2>2. BatchInv'
    BY <1>0, <1>4, <2>1 DEF BatchInv
  <2>3. InLive /\ in # <<>> => InLive'
    BY <1>4 DEF BatchInv, InLive
  <2>4. \A j : Has(in, j) => in # <<>>
    BY <1>0 DEF Has
  <2>5. RcvLive' <=> RcvLive
    BY <1>0 DEF RcvLive
  <2> QED
    BY <1>0, <1>4, <2>2, <2>3, <2>4, <2>5 DEF WithSomebody, Has
<1>5. CASE pause(i)
  <2>1. UNCHANGED <<in, snd, posted>> /\ pc[i] = "pause" /\ pc' = [pc EXCEPT ![i] = "wait"]
        /\ \A j \in Team : start_req(j) \in mask' <=> start_req(j) \in mask
    BY <1>5 DEF pause, Goto, buffers, driver, work
  <2> QED
    BY <1>0, <1>4, <2>1 DEF Pending, OnItsWay, SndLive
<1>6. CASE awake(i)
  <2>1. /\ UNCHANGED <<in, snd, posted>> /\ pc[i] = "wait" /\ start_req(i) \in mask
        /\ pc' = [pc EXCEPT ![i] = IF i = Post THEN "apply" ELSE "check"]
        /\ \A j \in Team : start_req(j) \in mask' <=> (start_req(j) \in mask /\ j # i)
    <3>1. mask \cap Except = {} /\ start_req(i) \in mask /\ mask' = mask \ {start_req(i), paused(i)}
      BY <1>3, <1>6 DEF awake
    <3> QED
      BY <1>6, <3>1 DEF awake, Goto, buffers, driver, work
  <2> QED
    BY <1>0, <1>4, <2>1 DEF Pending, OnItsWay, SndLive
<1>7. CASE i \in Mains /\ (main_check(i) \/ main_resize(i) \/ main_init(i) \/ main_apply(i))
  <2>1. /\ UNCHANGED <<in, snd, posted, mask>> /\ pc[i] \in {"check", "resize", "init", "apply"} /\ pc' = [pc EXCEPT ![i] = pc'[i]]
        /\ \/ pc'[i] \in {"resize", "init", "apply"}
           \/ pc'[i] = "pause" /\ (i # 0 \/ in = <<>>)
           \/ pc'[i] = "join" /\ i = 0
    BY <1>0, <1>7 DEF main_check, main_resize, main_init, main_apply, Goto, buffers, driver, work
  <2>2. (\A j \in Mains : Pending(j)' => Pending(j)) /\ (SndLive => SndLive')
    BY <1>0, <1>7, <2>1 DEF Pending, SndLive
  <2>3. OnItsWay => OnItsWay' \/ in = <<>>
    BY <1>0, <1>7, <2>1 DEF OnItsWay
  <2> QED
    BY <1>4, <2>1, <2>2, <2>3
<1>8. CASE main_join
  <2>1. UNCHANGED <<in, snd, posted, mask>> /\ pc[0] = "join" /\ pc' = [pc EXCEPT ![0] = "swap"]
    BY <1>3, <1>8 DEF main_join, Goto, buffers, driver, work
  <2> QED
    BY <1>0, <1>4, <2>1 DEF Pending, OnItsWay, SndLive
\* The post thread has done its batch before, and gets this one.
<1>9. CASE main_swap
  <2>1. UNCHANGED <<posted, mask>> /\ snd' = in /\ pc[0] = "swap" /\ pc' = [pc EXCEPT ![0] = "on"]
    BY <1>9 DEF main_swap, Goto, driver, work, OrderInv, OutInv
  <2>2. ~SndLive /\ InLive /\ SndLive'
    BY <1>0, <2>1 DEF SndLive, InLive, OnItsWay, PostIsAsked, Apart
  <2>3. ASSUME NEW j \in Mains PROVE ~Pending(j)'
    BY <1>0, <2>1 DEF Pending, Apart, PlaceInv
  <2>4. ~InLive'
    BY <1>0, <2>1, <2>3 DEF InLive, OnItsWay, Pending
  <2>5. RcvLive' <=> RcvLive
    BY <1>0 DEF RcvLive
  <2> QED
    BY <1>0, <2>1, <2>2, <2>4, <2>5 DEF BatchInv, WithSomebody, Has
<1>10. CASE main_start_post
  <2>1. UNCHANGED <<in, snd, posted>> /\ pc[0] = "on" /\ pc' = [pc EXCEPT ![0] = "alloff"]
        /\ start_req(Post) \in mask' /\ \A j \in Mains : start_req(j) \in mask' <=> start_req(j) \in mask
    BY <1>10 DEF main_start_post, Goto, buffers, driver, work
  <2> QED
    BY <1>0, <1>4, <2>1 DEF Pending, OnItsWay, SndLive
<1>11. CASE main_post_resumed
  <2>1. UNCHANGED <<in, snd, posted, mask>> /\ pc[0] = "alloff" /\ pc' = [pc EXCEPT ![0] = "pause"]
    BY <1>11 DEF main_post_resumed, Goto, buffers, driver, work
  <2> QED
    BY <1>0, <1>4, <2>1 DEF Pending, OnItsWay, SndLive
<1>12. CASE post_apply
  <2>1. /\ UNCHANGED <<in, snd, mask>> /\ posted' = posted \o snd
        /\ pc[Post] = "apply" /\ pc' = [pc EXCEPT ![Post] = "pause"]
    BY <1>12 DEF post_apply, Goto, buffers, driver
  <2>2. (OnItsWay' <=> OnItsWay) /\ (\A j \in Mains : Pending(j)' <=> Pending(j)) /\ (RcvLive' <=> RcvLive)
    BY <1>0, <2>1 DEF OnItsWay, Pending, RcvLive
  <2>3. InLive' <=> InLive
    BY <2>2 DEF InLive
  <2>4. BatchInv'
    BY <1>0, <2>1, <2>2, <2>3 DEF BatchInv
  <2>5. ASSUME NEW j, Has(posted, j) \/ Has(snd, j) PROVE Has(posted', j)
    <3>1. /\ Len(posted') = Len(posted) + Len(snd) /\ Len(posted) \in Nat /\ Len(snd) \in Nat
          /\ \A a \in 1 .. Len(posted) : posted'[a] = posted[a]
          /\ \A a \in 1 .. Len(snd) : posted'[Len(posted) + a] = snd[a]
      BY <1>0, <2>1
    <3>2. CASE Has(posted, j)
      BY <3>1, <3>2 DEF Has
    <3>3. CASE Has(snd, j)
      <4>1. PICK a \in 1 .. Len(snd) : snd[a] = j
        BY <3>3 DEF Has
      <4>2. Len(posted) + a \in 1 .. Len(posted') /\ posted'[Len(posted) + a] = j
        BY <3>1, <4>1
      <4> QED
        BY <4>2 DEF Has
    <3> QED
      BY <2>5, <3>2, <3>3
  <2>6. \A j \in 1 .. puts' : WithSomebody(j)'
    BY <1>0, <2>1, <2>2, <2>3, <2>5 DEF WithSomebody, Has
  <2> QED
    BY <2>4, <2>6
<1>13. ~crash(i) /\ ~on_exit(i)
  BY <1>3, <1>0 DEF crash, on_exit, NobodyThrows
<1> QED
  BY <1>5, <1>6, <1>7, <1>8, <1>9, <1>10, <1>11, <1>12, <1>13 DEF TeamRuns, main_thread, post_thread

LEMMA InitRoundInv == ASSUME DataParaAssumption, NobodyThrows, Init PROVE RoundInv
<1>1. OrderInv
  BY InitOrderInv
<1>2. PhaseInv /\ BatchInv /\ puts = 0
  BY DEF Init, PhaseInv, BatchInv
<1> QED
  BY <1>1, <1>2 DEF RoundInv

LEMMA StepRoundInv ==
    ASSUME DataParaAssumption, NobodyThrows, OwnOutput, RoundInv, [Next]_vars
    PROVE  RoundInv'
<1>1. OrderInv'
  BY StepOrderInv DEF RoundInv
<1>2. CASE UNCHANGED vars
  <2> USE <1>2 DEF vars, driver, buffers, work, RoundInv
  <2>1. /\ (SndLive' <=> SndLive) /\ (OnItsWay' <=> OnItsWay) /\ (RcvLive' <=> RcvLive)
        /\ \A i \in Mains : Pending(i)' <=> Pending(i)
    BY DEF SndLive, OnItsWay, RcvLive, Pending
  <2>2. InLive' <=> InLive
    BY <2>1 DEF InLive
  <2>3. PhaseInv' /\ BatchInv' /\ \A j \in 1 .. puts' : WithSomebody(j)'
    BY <2>1, <2>2 DEF PhaseInv, BatchInv, WithSomebody, Has
  <2> QED
    BY <1>1, <2>3
<1> QED
  BY <1>1, <1>2, DriverKeepsRound, TeamKeepsRound DEF Next, RoundInv

LEMMA RoundInvMeans ==
    ASSUME DataParaAssumption, RoundInv
    PROVE  RoundIsComplete
<1>1. SUFFICES ASSUME ~inRound, NEW j \in 1 .. puts
               PROVE  mained[j] = 1 /\ \E k \in DOMAIN posted : posted[k] = j
  BY DEF RoundIsComplete
<1>2. PICK k \in 1 .. Len(posted) : posted[k] = j
  BY <1>1 DEF RoundInv, WithSomebody, Has
<1>3. posted \in Seq(Nat) /\ All(posted, 1)
  BY DEF RoundInv, OrderInv, ItemTypes, PostedInv
<1> QED
  BY <1>2, <1>3 DEF All

\* end_round returns when every item put so far was main- and post-processed
\* (datapara.hpp end_round): for any number of main threads and any batch size, where no
\* function throws, end() comes between rounds, and the main threads process the items in place
\* or there is one of them.
THEOREM RoundsAreComplete ==
    DataParaAssumption /\ NobodyThrows /\ OwnOutput => (Spec => []RoundIsComplete)
<1>1. DataParaAssumption /\ RoundInv => RoundIsComplete
  BY RoundInvMeans
<1>2. ASSUME DataParaAssumption, NobodyThrows, OwnOutput PROVE Spec => []RoundIsComplete
  BY <1>1, <1>2, InitRoundInv, StepRoundInv, PTL DEF Spec
<1> QED
  BY <1>2
=============================================================================
