----------------------------- MODULE Exchanges -----------------------------
(***************************************************************************)
(* What threads pass to each other in memory: the trays of a message box,  *)
(* the items of a pool, the elements of a pipe1 and of an fpipe, the       *)
(* sequence a thread puts out.  The initial state picks which of them is   *)
(* used; the others stay as they are.  With theorems about each, for any   *)
(* threads, sizes and bounds.                                              *)
(***************************************************************************)
EXTENDS Integers, Sequences, FiniteSets, FiniteSetTheorems, WellFoundedInduction, TLAPS

CONSTANTS
    BoxUsers, BoxTimed,   \* the threads that use the message box; those that pass a timeout
    MaxKeys, MaxCopies, MaxMsg,
    Borrowers,            \* the threads that use the pool
    ChunkSize, ChunkLimit, Waitable, MayMove, MaxHeld, MaxGets,
    Putters, Getters, PipeTimed, Controls, MaxElems,  \* the threads of the pipe1, and its elements
    FPipeTimed, NElm, MayAbort, MaxPut,     \* the size of a buffer of the fpipe, and its elements
    BufSize, MayThrow, MayStop, MaxItems    \* the size of a buffer of the sequence, and its items

VARIABLES
    object,           \* chosen once
    parked, expired,  \* of the object's condition variable
    box, tray_id, owned, boxOp, boxPut, boxGot, lost, closed,
    chunks, word, free, lending, attached, deleted, held, waits, gets,
    state1, data1, at1, op1, puts1, got1, ended1,
    state, data, at, bufs, put_, get_, call, ppc, gpc, apc, puts, got, ended, cut,
    nfree, filled, v_th, vec, idx, prpc, copc, made, read, threw

boxVars   == <<box, tray_id, owned, boxOp, boxPut, boxGot, lost, closed>>
poolVars  == <<chunks, word, free, lending, attached, deleted, held, waits, gets>>
pipe1Vars == <<state1, data1, at1, op1, puts1, got1, ended1>>
fpipeVars == <<state, data, at, bufs, put_, get_, call, ppc, gpc, apc, puts, got, ended, cut>>
seqVars   == <<nfree, filled, v_th, vec, idx, prpc, copc, made, read, threw>>
vars == <<object, parked, expired, boxVars, poolVars, pipe1Vars, fpipeVars, seqVars>>

Box    == INSTANCE MsgBox
            WITH Threads <- BoxUsers, Timed <- BoxTimed, op <- boxOp, put <- boxPut, got <- boxGot
Pool   == INSTANCE MPool WITH Threads <- Borrowers, Timed <- {}
Pipe   == INSTANCE Pipe1Use
            WITH Pipes <- {"pipe"}, Threads <- Putters \cup Getters, Timed <- PipeTimed,
                 MaxPut <- MaxElems, state <- state1, data <- data1, at <- at1, op <- op1,
                 puts <- puts1, got <- got1, ended <- ended1
FPipe  == INSTANCE FPipe
            WITH Pipes <- {"put2get", "get2put"}, Threads <- {"putter", "getter"}, Timed <- FPipeTimed
Output == INSTANCE DoubleBuffer
            WITH Producer <- 1, Consumer <- 2, Threads <- {1, 2}, Timed <- {}, Size <- BufSize,
                 free <- nfree, ppc <- prpc, cpc <- copc

ExchangesAssumption ==
    /\ Box!CondVarAssumption /\ Box!MsgBoxAssumption /\ IsFiniteSet(BoxUsers)
    /\ Pool!MPoolAssumption
    /\ Pipe!Pipe1Assumption /\ Pipe!Pipe1UseAssumption
    /\ FPipe!Pipe1Assumption /\ FPipe!FPipeAssumption
    /\ Output!DoubleBufferAssumption

\* What is not the pool, as it is made.
OthersInit == Box!Init /\ Pipe!Init /\ FPipe!Init /\ Output!Init

Init == object \in {"box", "pool", "pipe", "fpipe", "seq"} /\ OthersInit /\ Pool!Init

UsesBox   == UNCHANGED <<poolVars, pipe1Vars, fpipeVars, seqVars>>
UsesPool  == UNCHANGED <<boxVars, pipe1Vars, fpipeVars, seqVars>>
UsesPipe  == UNCHANGED <<parked, boxVars, poolVars, fpipeVars, seqVars>>
UsesFPipe == UNCHANGED <<parked, boxVars, poolVars, pipe1Vars, seqVars>>
UsesSeq   == UNCHANGED <<boxVars, poolVars, pipe1Vars, fpipeVars>>

Next ==
    /\ \/ object = "box"   /\ Box!Next   /\ UsesBox
       \/ object = "pool"  /\ Pool!Next  /\ UsesPool
       \/ object = "pipe"  /\ Pipe!Next  /\ UsesPipe
       \/ object = "fpipe" /\ FPipe!Next /\ UsesFPipe
       \/ object = "seq"   /\ Output!Next  /\ UsesSeq
    /\ UNCHANGED object

Spec == Init /\ [][Next]_vars

\* Thread t runs.  Of the fpipe, 1 is the putter and 2 the getter; of the sequence, 1 is its
\* thread and 2 the reader.
Runs(t) ==
    /\ \/ object = "box"   /\ t \in BoxUsers /\ Box!Runs(t) /\ UsesBox
       \/ object = "pipe"  /\ Pipe!Moves(t) /\ UsesPipe
       \/ object = "fpipe" /\ t = 1 /\ FPipe!PutterRuns /\ UsesFPipe
       \/ object = "fpipe" /\ t = 2 /\ FPipe!GetterRuns /\ UsesFPipe
       \/ object = "seq"   /\ t = 1 /\ Output!Produces /\ UsesSeq
       \/ object = "seq"   /\ t = 2 /\ Output!Consumes /\ UsesSeq
    /\ UNCHANGED object

\* The getters of the pipe come back for more.
GetsAgain(t) == object = "pipe" /\ Pipe!call(t) /\ UsesPipe /\ UNCHANGED object
-----------------------------------------------------------------------------
(* The properties of the objects                                           *)

\* No thread sleeps while what it waits for is there: a message, a free item, room or an
\* element in the pipe, a buffer; or when it will not come, because the tray or the pipe was
\* closed.
NoLostWakeup ==
    /\ object = "box" => Box!NoLostWakeup
    /\ object = "pool" => Pool!NoLostWakeup
    /\ object = "pipe" => Pipe!NoLostWakeup
    /\ object = "seq" => Output!NoLostWakeup

\* What is passed on has one owner, and lives as long as it has one. An open tray is in the box
\* while somebody has a tray_key to it; the pool's strategy is deleted once, when neither the
\* mpool nor a pointer needs it, and every item is free or lent to one thread, whichever way it
\* went; the two buffers of an fpipe, and of a sequence of a thread, are never in two hands,
\* timeouts and abort included.
OneOwner ==
    /\ object = "box" => Box!TrayLivesWithItsKeys
    /\ object = "pool" => Pool!PoolOutlivesItsItems /\ Pool!ItemIsInOnePlace
    /\ object = "fpipe" => FPipe!BuffersOwned
    /\ object = "seq" => Output!BuffersOwned

\* What is put into a tray, a pipe or a sequence is got once and in order, or went with the
\* tray; and who is told CLOSED, or that the sequence has ended, has been given everything before.
InOrder ==
    /\ object = "box" => Box!NoMessageLost
    /\ object = "pipe" => Pipe!InOrder /\ Pipe!ClosedIsDrained
    /\ object = "fpipe" => FPipe!InOrder /\ FPipe!ClosedIsDrained
    /\ object = "seq" => Output!InOrder /\ Output!EndIsTheEnd

\* A wait on a tray that is closed or has messages returns; puts into a pipe return as long as
\* somebody gets, and gets when it is closed; what was put into an fpipe is got in the end, once
\* it is closed; and who reads the sequence of a thread comes to its end, or drops it, with the
\* thread joined.
CallsReturn ==
    /\ object = "box" => Box!WaitReturns
    /\ object = "pipe" => Pipe!PutReturns /\ Pipe!GetReturns
    /\ object = "fpipe" => FPipe!PutterReturns /\ FPipe!GetterReturns /\ FPipe!CloseDelivers
    /\ object = "seq" => Output!ReaderReturns
-----------------------------------------------------------------------------
(* Numbers, and sequences of them.                                        *)

\* A set of naturals has a smallest element.
LEMMA Smallest == ASSUME NEW S, S \subseteq Nat, S # {} PROVE \E x \in S : \A y \in S : x <= y
<1>1. \A x, y \in Nat : x < y => <<x, y>> \in OpToRel(<, Nat)
  BY DEF OpToRel
<1>2. PICK R : IsWellFoundedOn(R, Nat) /\ \A x, y \in Nat : x < y => <<x, y>> \in R
  BY <1>1, NatLessThanWellFounded, Zenon
<1>3. IsWellFoundedOn(R, Nat)
  BY <1>2
<1>4. PICK x \in S : \A y \in S : <<y, x>> \notin R
  BY <1>3, WFMin, Zenon
<1>5. \A y \in S : ~(y < x)
  BY <1>2, <1>4
<1>6. \A y \in S : x <= y
  BY <1>5
<1> QED
  BY <1>6

\* The numbers from 1 on, in order.
Counts(s) == s \in Seq(Int) /\ s = [k \in 1 .. Len(s) |-> k]

LEMMA CountsOn ==
    ASSUME NEW s, Counts(s), NEW x, x = Len(s) + 1
    PROVE  Counts(Append(s, x)) /\ Len(Append(s, x)) = Len(s) + 1 /\ Len(s) \in Nat
<1>1. s \in Seq(Int) /\ Len(s) \in Nat /\ x \in Int /\ \A k \in 1 .. Len(s) : s[k] = k
  <2>1. s \in Seq(Int) /\ Len(s) \in Nat
    BY DEF Counts
  <2>2. s = [k \in 1 .. Len(s) |-> k]
    BY DEF Counts
  <2> QED
    BY <2>1, <2>2
<1>2. Append(s, x) \in Seq(Int) /\ Len(Append(s, x)) = Len(s) + 1
  BY <1>1
<1>3. \A k \in 1 .. Len(s) + 1 : Append(s, x)[k] = k
  BY <1>1
<1>4. DOMAIN Append(s, x) = 1 .. Len(s) + 1
  BY <1>1
<1>5. Append(s, x) = [k \in 1 .. Len(s) + 1 |-> k]
  BY <1>2, <1>3, <1>4
<1> QED
  BY <1>1, <1>2, <1>5 DEF Counts

LEMMA CountsNothing == Counts(<<>>)
  BY DEF Counts

-----------------------------------------------------------------------------
(* Theorems about the message box.  The tray_keys to tray k are pairs of   *)
(* their owner and a number; rc counts them.                               *)

Keepers(own, k) == {p \in BoxUsers \X (1 .. MaxCopies) : p[2] <= own[p[1]][k]}
InTray(k)       == IF k \in DOMAIN box THEN box[k].msgs ELSE lost[k]

\* A tray in the box is open and counts its tray_keys, and one that was not closed has none
\* when it is gone; a key that was not given yet was not used; and the messages that were put
\* were got, are there, or were lost with the tray.
TrayInv(k) ==
    /\ k \in DOMAIN box => /\ k <= tray_id /\ k \notin closed
                           /\ box[k].rc = Cardinality(Keepers(owned, k)) /\ box[k].rc > 0
    /\ k \notin DOMAIN box /\ k \notin closed => \A t \in BoxUsers : owned[t][k] = 0
    /\ k > tray_id => boxPut[k] = <<>> /\ boxGot[k] = <<>> /\ lost[k] = <<>> /\ k \notin closed
    /\ boxPut[k] = boxGot[k] \o InTray(k)

BoxAssumption == Box!CondVarAssumption /\ Box!MsgBoxAssumption /\ IsFiniteSet(BoxUsers)

BoxInv == Box!TypeOK /\ (\A k \in Box!Keys : TrayInv(k)) /\ Box!NoLostWakeup

LEMMA KeepersAreFinite ==
    ASSUME BoxAssumption, NEW own, NEW k
    PROVE  IsFiniteSet(Keepers(own, k)) /\ Cardinality(Keepers(own, k)) \in Nat
<1>1. MaxCopies \in Nat
  BY DEF BoxAssumption, Box!MsgBoxAssumption
<1>2. IsFiniteSet(BoxUsers) /\ IsFiniteSet(1 .. MaxCopies)
  BY <1>1, FS_Interval DEF BoxAssumption
<1>3. IsFiniteSet(BoxUsers \X (1 .. MaxCopies))
  BY <1>2, FS_Product
<1>4. Keepers(own, k) \subseteq BoxUsers \X (1 .. MaxCopies)
  BY DEF Keepers
<1> QED
  BY <1>3, <1>4, FS_Subset, FS_CardinalityType

Owners == [BoxUsers -> [Box!Keys -> 0 .. MaxCopies]]

\* In own2, u has one more key to tray k than in own.
OneMore(own, own2, u, k) ==
    \A t \in BoxUsers, j \in Box!Keys : own2[t][j] = IF t = u /\ j = k THEN own[t][j] + 1 ELSE own[t][j]

\* Of an owner's keys to a tray, one is added, or dropped.
LEMMA KeeperIsAdded ==
    ASSUME BoxAssumption, NEW own \in Owners, NEW u \in BoxUsers, NEW k \in Box!Keys, NEW own2 \in Owners,
           OneMore(own, own2, u, k)
    PROVE  /\ Cardinality(Keepers(own2, k)) = Cardinality(Keepers(own, k)) + 1
           /\ \A j \in Box!Keys : j # k => Keepers(own2, j) = Keepers(own, j)
<1>1. MaxCopies \in Nat
  BY DEF BoxAssumption, Box!MsgBoxAssumption
<1>2. \A t \in BoxUsers, j \in Box!Keys : own[t][j] \in 0 .. MaxCopies /\ own2[t][j] \in 0 .. MaxCopies
  BY DEF Owners
<1>3. \A j \in Box!Keys : j # k => Keepers(own2, j) = Keepers(own, j)
  BY <1>2 DEF Keepers, OneMore
<1>4. Keepers(own2, k) = Keepers(own, k) \cup {<<u, own[u][k] + 1>>}
  <2>1. ASSUME NEW p \in BoxUsers \X (1 .. MaxCopies)
        PROVE  p[2] <= own2[p[1]][k] <=> p[2] <= own[p[1]][k] \/ p = <<u, own[u][k] + 1>>
    <3>1. p = <<p[1], p[2]>> /\ p[1] \in BoxUsers /\ p[2] \in 1 .. MaxCopies
      OBVIOUS
    <3> QED
      BY <1>1, <1>2, <3>1 DEF OneMore
  <2>2. <<u, own[u][k] + 1>> \in BoxUsers \X (1 .. MaxCopies)
    <3>1. own2[u][k] = own[u][k] + 1
      BY DEF OneMore
    <3> QED
      BY <1>1, <1>2, <3>1
  <2> QED
    BY <2>1, <2>2 DEF Keepers
<1>5. <<u, own[u][k] + 1>> \notin Keepers(own, k)
  BY <1>2 DEF Keepers
<1>6. Cardinality(Keepers(own2, k)) = Cardinality(Keepers(own, k)) + 1
  BY <1>4, <1>5, KeepersAreFinite, FS_AddElement
<1> QED
  BY <1>3, <1>6

LEMMA KeeperIsDropped ==
    ASSUME BoxAssumption, NEW own \in Owners, NEW t \in BoxUsers, NEW k \in Box!Keys, NEW own2 \in Owners,
           OneMore(own2, own, t, k)
    PROVE  /\ Cardinality(Keepers(own2, k)) = Cardinality(Keepers(own, k)) - 1
           /\ \A j \in Box!Keys : j # k => Keepers(own2, j) = Keepers(own, j)
<1>1. /\ Cardinality(Keepers(own, k)) = Cardinality(Keepers(own2, k)) + 1
      /\ \A j \in Box!Keys : j # k => Keepers(own, j) = Keepers(own2, j)
  BY KeeperIsAdded
<1>2. Cardinality(Keepers(own2, k)) \in Nat
  BY KeepersAreFinite
<1> QED
  BY <1>1, <1>2

\* A tray has no keepers when nobody has a key to it, and one when one has one.
LEMMA NoKeepers ==
    ASSUME BoxAssumption, NEW own \in Owners, NEW k \in Box!Keys
    PROVE  /\ Cardinality(Keepers(own, k)) = 0 <=> \A t \in BoxUsers : own[t][k] = 0
           /\ \A t \in BoxUsers : (\A u \in BoxUsers : own[u][k] = IF u = t THEN 1 ELSE 0)
                  => Cardinality(Keepers(own, k)) = 1
<1>1. MaxCopies \in Nat /\ \A t \in BoxUsers : own[t][k] \in 0 .. MaxCopies
  BY DEF BoxAssumption, Box!MsgBoxAssumption, Owners
<1>2. Keepers(own, k) = {} => \A t \in BoxUsers : own[t][k] = 0
  <2>1. ASSUME NEW t \in BoxUsers, own[t][k] # 0 PROVE <<t, 1>> \in Keepers(own, k)
    <3>1. <<t, 1>> \in BoxUsers \X (1 .. MaxCopies)
      BY <1>1, <2>1
    <3> QED
      BY <1>1, <2>1, <3>1 DEF Keepers
  <2> QED
    BY <2>1
<1>3. (\A t \in BoxUsers : own[t][k] = 0) => Keepers(own, k) = {}
  BY DEF Keepers
<1>4. ASSUME NEW t \in BoxUsers, \A u \in BoxUsers : own[u][k] = IF u = t THEN 1 ELSE 0
      PROVE  Cardinality(Keepers(own, k)) = 1
  <2>1. ASSUME NEW p \in BoxUsers \X (1 .. MaxCopies) PROVE p[2] <= own[p[1]][k] <=> p = <<t, 1>>
    <3>1. p = <<p[1], p[2]>> /\ p[1] \in BoxUsers /\ p[2] \in 1 .. MaxCopies
      OBVIOUS
    <3> QED
      BY <1>1, <1>4, <3>1
  <2>2. <<t, 1>> \in BoxUsers \X (1 .. MaxCopies)
    <3>1. own[t][k] = 1
      BY <1>4
    <3> QED
      BY <1>1, <3>1
  <2>3. Keepers(own, k) = {<<t, 1>>}
    BY <2>1, <2>2 DEF Keepers
  <2> QED
    BY <2>3, FS_Singleton
<1> QED
  BY <1>2, <1>3, <1>4, KeepersAreFinite, FS_EmptySet

\* The number of the next message.
LEMMA TotalIsANumber ==
    ASSUME BoxAssumption, Box!TypeOK
    PROVE  Box!Total \in Nat /\ (Box!Total < MaxMsg => Box!Total + 1 \in Box!Msgs)
<1> DEFINE S == UNION {Box!ToSet(boxPut[k]) : k \in Box!Keys}
<1>1. S \subseteq Box!Msgs
  <2>1. ASSUME NEW k \in Box!Keys PROVE Box!ToSet(boxPut[k]) \subseteq Box!Msgs
    <3>1. boxPut[k] \in Seq(Box!Msgs)
      BY DEF Box!TypeOK
    <3> QED
      BY <3>1 DEF Box!ToSet
  <2> QED
    BY <2>1
<1>2. MaxMsg \in Nat
  BY DEF BoxAssumption, Box!MsgBoxAssumption
<1>3. IsFiniteSet(1 .. MaxMsg)
  BY <1>2, FS_Interval
<1> HIDE DEF S
<1>6. IsFiniteSet(S) /\ Cardinality(S) \in Nat
  BY <1>1, <1>3, FS_Subset, FS_CardinalityType DEF Box!Msgs
<1>4. Box!Cardinality(S) = Cardinality(S)
  BY DEF Box!Cardinality, Cardinality
<1>5. Box!Total \in Nat
  BY <1>6, <1>4 DEF Box!Total, S
<1> QED
  BY <1>2, <1>5 DEF Box!Msgs

\* The sequences of messages.
LEMMA Concatenated ==
    ASSUME NEW S, NEW g \in Seq(S), NEW m \in Seq(S)
    PROVE  /\ g \o m \in Seq(S) /\ (g \o m) \o <<>> = g \o m /\ g \o <<>> = g /\ <<>> \o m = m
  OBVIOUS

LEMMA Appended ==
    ASSUME NEW S, NEW g \in Seq(S), NEW m \in Seq(S), NEW x \in S
    PROVE  Append(g \o m, x) = g \o Append(m, x) /\ Append(m, x) \in Seq(S)
  OBVIOUS

LEMMA RcChanges ==
    ASSUME NEW f, NEW k \in DOMAIN f, NEW S, \A j \in DOMAIN f : f[j] \in [msgs : S, rc : Nat],
           NEW n \in Int, NEW g, g = [f EXCEPT ![k].rc = n]
    PROVE  /\ DOMAIN g = DOMAIN f
           /\ \A j \in DOMAIN f : /\ g[j].msgs = f[j].msgs /\ g[j].rc = IF j = k THEN n ELSE f[j].rc
                                  /\ g[j] \in [msgs : S, rc : Int]
                                  /\ n >= 0 => g[j] \in [msgs : S, rc : Nat]
<1>1. DOMAIN g = DOMAIN f /\ \A j \in DOMAIN f : g[j] = IF j = k THEN [f[k] EXCEPT !.rc = n] ELSE f[j]
  OBVIOUS
<1>2. f[k] \in [msgs : S, rc : Nat]
  BY Zenon
<1> DEFINE r == [f[k] EXCEPT !.rc = n]
<1>3. r \in [msgs : S, rc : Int] /\ r.msgs = f[k].msgs /\ r.rc = n /\ (n >= 0 => r \in [msgs : S, rc : Nat])
  BY <1>2
<1> HIDE DEF r
<1> QED
  BY <1>1, <1>3 DEF r

LEMMA BoxFacts ==
    ASSUME BoxInv
    PROVE  /\ owned \in Owners /\ tray_id \in 0 .. MaxKeys /\ DOMAIN box \subseteq Box!Keys
           /\ \A k \in Box!Keys : TrayInv(k) /\ InTray(k) \in Seq(Box!Msgs)
           /\ \A k \in DOMAIN box : /\ box[k].msgs \in Seq(Box!Msgs) /\ box[k].rc \in Nat
                                    /\ box[k] \in [msgs : Seq(Box!Msgs), rc : Nat]
           /\ boxOp \in [BoxUsers -> {0} \cup Box!Keys]
           /\ boxPut \in [Box!Keys -> Seq(Box!Msgs)] /\ boxGot \in [Box!Keys -> Seq(Box!Msgs)]
           /\ lost \in [Box!Keys -> Seq(Box!Msgs)] /\ closed \subseteq Box!Keys
           /\ parked \subseteq BoxUsers /\ expired \subseteq BoxTimed /\ parked \cap expired = {}
  BY DEF BoxInv, Box!TypeOK, Box!CondVarTypeOK, Owners, InTray

LEMMA InitBoxInv == BoxAssumption /\ Box!Init => BoxInv
<1> SUFFICES ASSUME BoxAssumption, Box!Init PROVE BoxInv
  OBVIOUS
<1>1. DOMAIN box = {} /\ tray_id = 0 /\ closed = {} /\ parked = {} /\ expired = {}
  BY DEF Box!Init, Box!CondVarInit
<1>2. MaxKeys \in Nat /\ MaxCopies \in Nat
  BY DEF BoxAssumption, Box!MsgBoxAssumption
<1>3. Box!TypeOK
  <2>1. <<>> \in Seq(Box!Msgs)
    OBVIOUS
  <2> QED
    BY <1>1, <1>2, <2>1 DEF Box!Init, Box!TypeOK, Box!CondVarTypeOK
<1>4. \A k \in Box!Keys : TrayInv(k)
  BY <1>1 DEF Box!Init, TrayInv, InTray, Box!Keys
<1> QED
  BY <1>1, <1>3, <1>4 DEF BoxInv, Box!NoLostWakeup

LEMMA ReserveKeepsBox ==
    ASSUME BoxAssumption, BoxInv, NEW t \in BoxUsers, Box!reserve(t)
    PROVE  BoxInv'
<1> PICK n \in Nat : n = tray_id + 1
  BY BoxFacts
<1>0. MaxKeys \in Nat /\ MaxCopies \in Nat /\ MaxCopies > 0 /\ n \in Box!Keys /\ tray_id \in Nat
      /\ n > tray_id
  BY BoxFacts DEF BoxAssumption, Box!MsgBoxAssumption, Box!reserve, Box!Keys
<1>1. /\ tray_id' = n
      /\ DOMAIN box' = DOMAIN box \cup {n}
      /\ box'[n] = [msgs |-> <<>>, rc |-> 1]
      /\ \A k \in DOMAIN box : k # n => box'[k] = box[k]
      /\ owned' = [owned EXCEPT ![t][n] = 1]
      /\ boxPut' = boxPut /\ boxGot' = boxGot /\ lost' = lost /\ closed' = closed
      /\ boxOp' = boxOp /\ parked' = parked /\ expired' = expired
  BY DEF Box!reserve, Box!history, Box!cvVars
<1>2. n \notin DOMAIN box /\ \A u \in BoxUsers : owned[u][n] = 0
  <2>1. n \notin DOMAIN box
    BY <1>0, BoxFacts DEF TrayInv
  <2> QED
    BY <1>0, <2>1, BoxFacts DEF TrayInv
<1>3. /\ owned' \in Owners
      /\ \A u \in BoxUsers, k \in Box!Keys :
             owned'[u][k] = IF u = t /\ k = n THEN owned[u][k] + 1 ELSE owned[u][k]
  BY <1>0, <1>1, <1>2, BoxFacts DEF Owners
<1>4. /\ \A k \in Box!Keys : k # n => Keepers(owned', k) = Keepers(owned, k)
      /\ Cardinality(Keepers(owned', n)) = 1
  <2>1. /\ \A k \in Box!Keys : k # n => Keepers(owned', k) = Keepers(owned, k)
        /\ Cardinality(Keepers(owned', n)) = Cardinality(Keepers(owned, n)) + 1
    <3>1. OneMore(owned, owned', t, n) /\ owned \in Owners
      BY <1>3, BoxFacts DEF OneMore
    <3> QED
      BY <1>0, <1>3, <3>1, KeeperIsAdded
  <2>2. Cardinality(Keepers(owned, n)) = 0
    BY <1>0, <1>2, BoxFacts, NoKeepers
  <2> QED
    BY <2>1, <2>2
<1>5. Box!TypeOK'
  <2>1. \A k \in DOMAIN box' : box'[k] \in [msgs : Seq(Box!Msgs), rc : Nat]
    <3>1. box'[n] \in [msgs : Seq(Box!Msgs), rc : Nat]
      BY <1>1
    <3> QED
      BY <1>1, <3>1, BoxFacts
  <2>2. DOMAIN box' \subseteq Box!Keys /\ tray_id' \in 0 .. MaxKeys
    BY <1>0, <1>1, BoxFacts DEF Box!Keys
  <2> QED
    BY <1>1, <1>3, <2>1, <2>2, BoxFacts DEF Box!TypeOK, Box!CondVarTypeOK, Owners
<1>6. ASSUME NEW k \in Box!Keys, k # n PROVE TrayInv(k)'
  <2>1. /\ TrayInv(k) /\ (k \in DOMAIN box' <=> k \in DOMAIN box)
        /\ (k \in DOMAIN box => box'[k] = box[k])
        /\ \A u \in BoxUsers : owned'[u][k] = owned[u][k]
    BY <1>1, <1>3, <1>6, BoxFacts
  <2>2. Keepers(owned', k) = Keepers(owned, k) /\ k \in Nat
    BY <1>4, <1>6 DEF Box!Keys
  <2>3. InTray(k)' = InTray(k)
    BY <1>1, <2>1 DEF InTray
  <2> QED
    BY <1>0, <1>1, <2>1, <2>2, <2>3 DEF TrayInv
<1>7. TrayInv(n)'
  <2>1. boxPut[n] = <<>> /\ boxGot[n] = <<>> /\ lost[n] = <<>> /\ n \notin closed
    BY <1>0, BoxFacts DEF TrayInv
  <2>2. InTray(n)' = <<>>
    BY <1>1 DEF InTray
  <2>3. n \in DOMAIN box' /\ box'[n].rc = 1 /\ n <= tray_id'
    BY <1>0, <1>1
  <2> QED
    BY <1>0, <1>1, <1>4, <2>1, <2>2, <2>3 DEF TrayInv
<1>8. Box!NoLostWakeup'
  BY <1>1, <1>2 DEF BoxInv, Box!NoLostWakeup
<1> QED
  BY <1>5, <1>6, <1>7, <1>8 DEF BoxInv

\* Tray k goes, closed or with its last tray_key.
LEMMA EraseKeepsTrays ==
    ASSUME BoxAssumption, BoxInv, NEW k \in DOMAIN box, box' = Box!Without(k), Box!Lose(k), parked' = {},
           expired' = expired, UNCHANGED <<tray_id, boxPut, boxGot, boxOp>>, owned' \in Owners,
           closed' \subseteq Box!Keys, closed' \ {k} = closed \ {k},
           \A j \in Box!Keys : j # k => Keepers(owned', j) = Keepers(owned, j)
                                        /\ \A u \in BoxUsers : owned'[u][j] = owned[u][j],
           k \notin closed' => \A u \in BoxUsers : owned'[u][k] = 0
    PROVE  BoxInv'
<1>1. /\ DOMAIN box' = DOMAIN box \ {k} /\ \A j \in DOMAIN box \ {k} : box'[j] = box[j]
      /\ lost' = [lost EXCEPT ![k] = box[k].msgs]
  BY DEF Box!Without, Box!Lose
<1>2. k \in Box!Keys /\ k <= tray_id
  BY BoxFacts DEF TrayInv
<1>3. Box!TypeOK'
  <2>1. \A j \in DOMAIN box' : box'[j] \in [msgs : Seq(Box!Msgs), rc : Nat]
    BY <1>1, BoxFacts
  <2>2. lost' \in [Box!Keys -> Seq(Box!Msgs)]
    BY <1>1, BoxFacts
  <2>3. DOMAIN box' \subseteq Box!Keys
    BY <1>1, BoxFacts
  <2> QED
    BY <2>1, <2>2, <2>3, BoxFacts DEF Box!TypeOK, Box!CondVarTypeOK, Owners
<1>4. ASSUME NEW j \in Box!Keys, j # k PROVE TrayInv(j)'
  <2>1. /\ TrayInv(j) /\ (j \in DOMAIN box' <=> j \in DOMAIN box) /\ (j \in DOMAIN box => box'[j] = box[j])
        /\ lost'[j] = lost[j] /\ (j \in closed' <=> j \in closed)
    BY <1>1, <1>4, BoxFacts
  <2>2. InTray(j)' = InTray(j)
    BY <2>1 DEF InTray
  <2>3. Keepers(owned', j) = Keepers(owned, j) /\ \A u \in BoxUsers : owned'[u][j] = owned[u][j]
    BY <1>4
  <2> QED
    BY <2>1, <2>2, <2>3 DEF TrayInv
<1>5. TrayInv(k)'
  <2>1. InTray(k)' = InTray(k) /\ k \notin DOMAIN box'
    BY <1>1, <1>2, BoxFacts DEF InTray
  <2>2. TrayInv(k) /\ ~(k > tray_id)
    BY <1>2, BoxFacts DEF Box!Keys
  <2> QED
    BY <2>1, <2>2 DEF TrayInv
<1> QED
  BY <1>3, <1>4, <1>5 DEF BoxInv, Box!NoLostWakeup

LEMMA DropKeepsBox ==
    ASSUME BoxAssumption, BoxInv, NEW t \in BoxUsers, NEW k \in Box!Keys, Box!drop(t, k)
    PROVE  BoxInv'
<1>1. /\ owned[t][k] > 0 /\ owned' = [owned EXCEPT ![t][k] = owned[t][k] - 1]
      /\ tray_id' = tray_id /\ boxOp' = boxOp /\ boxPut' = boxPut /\ boxGot' = boxGot /\ closed' = closed
  BY DEF Box!drop
<1>2. /\ owned' \in Owners
      /\ \A u \in BoxUsers, j \in Box!Keys :
             owned'[u][j] = IF u = t /\ j = k THEN owned[u][j] - 1 ELSE owned[u][j]
  <2>1. MaxCopies \in Nat
    BY DEF BoxAssumption, Box!MsgBoxAssumption
  <2>2. owned \in [BoxUsers -> [Box!Keys -> 0 .. MaxCopies]]
    BY BoxFacts DEF Owners
  <2> QED
    BY <1>1, <2>1, <2>2 DEF Owners
<1>3. /\ Cardinality(Keepers(owned', k)) = Cardinality(Keepers(owned, k)) - 1
      /\ \A j \in Box!Keys : j # k => Keepers(owned', j) = Keepers(owned, j)
  <2>1. OneMore(owned', owned, t, k) /\ owned \in Owners
    <3>1. owned \in Owners /\ \A u \in BoxUsers, j \in Box!Keys : owned[u][j] \in Int
      BY BoxFacts DEF Owners
    <3> QED
      BY <1>2, <3>1 DEF OneMore
  <2> QED
    BY <1>2, <2>1, KeeperIsDropped
<1>4. CASE k \in DOMAIN box /\ box[k].rc = 1
  <2>1. box' = Box!Without(k) /\ Box!Lose(k) /\ parked' = {} /\ expired' = expired
    BY <1>4 DEF Box!drop, Box!notify_all
  <2>2. Cardinality(Keepers(owned', k)) = 0
    BY <1>3, <1>4, BoxFacts DEF TrayInv
  <2>3. \A u \in BoxUsers : owned'[u][k] = 0
    BY <1>2, <2>2, NoKeepers
  <2>4. \A j \in Box!Keys : j # k => /\ Keepers(owned', j) = Keepers(owned, j)
                                     /\ \A u \in BoxUsers : owned'[u][j] = owned[u][j]
    BY <1>2, <1>3
  <2>5. UNCHANGED <<tray_id, boxPut, boxGot, boxOp>> /\ closed' \subseteq Box!Keys
        /\ closed' \ {k} = closed \ {k}
    BY <1>1, BoxFacts
  <2> QED
    BY <1>2, <1>4, <2>1, <2>3, <2>4, <2>5, EraseKeepsTrays
<1>5. CASE ~(k \in DOMAIN box /\ box[k].rc = 1)
  <2>1. /\ lost' = lost /\ parked' = parked /\ expired' = expired /\ DOMAIN box' = DOMAIN box
        /\ \A j \in DOMAIN box : /\ box'[j] \in [msgs : Seq(Box!Msgs), rc : Int]
                                 /\ box'[j].msgs = box[j].msgs
                                 /\ box'[j].rc = IF j = k THEN box[j].rc - 1 ELSE box[j].rc
    <3>1. CASE k \in DOMAIN box
      <4>1. box' = [box EXCEPT ![k].rc = box[k].rc - 1] /\ box[k].rc - 1 \in Int
        BY <1>5, <3>1, BoxFacts DEF Box!drop
      <4>2. \A j \in DOMAIN box : box[j] \in [msgs : Seq(Box!Msgs), rc : Nat]
        BY BoxFacts
      <4>3. /\ DOMAIN box' = DOMAIN box
            /\ \A j \in DOMAIN box : /\ box'[j].msgs = box[j].msgs
                                     /\ box'[j].rc = IF j = k THEN box[k].rc - 1 ELSE box[j].rc
                                     /\ box'[j] \in [msgs : Seq(Box!Msgs), rc : Int]
        BY <3>1, <4>1, <4>2, RcChanges
      <4> QED
        BY <1>5, <4>3 DEF Box!drop, Box!cvVars
    <3>2. CASE k \notin DOMAIN box
      BY <1>5, <3>2, BoxFacts DEF Box!drop, Box!cvVars
    <3> QED
      BY <3>1, <3>2
  <2>2. ASSUME NEW j \in Box!Keys PROVE TrayInv(j)'
    <3>1. TrayInv(j) /\ InTray(j)' = InTray(j)
      BY <2>1, BoxFacts DEF InTray
    <3>2. j \in DOMAIN box' => box'[j].rc = Cardinality(Keepers(owned', j)) /\ box'[j].rc > 0
      <4>1. ASSUME j \in DOMAIN box, j # k
            PROVE  box'[j].rc = Cardinality(Keepers(owned', j)) /\ box'[j].rc > 0
        BY <1>3, <2>1, <3>1, <4>1 DEF TrayInv
      <4>2. ASSUME k \in DOMAIN box
            PROVE  box'[k].rc = Cardinality(Keepers(owned', k)) /\ box'[k].rc > 0
        <5>1. TrayInv(k) /\ box[k].rc \in Nat /\ box'[k].rc = box[k].rc - 1
          BY <2>1, <4>2, BoxFacts
        <5> QED
          BY <1>3, <1>5, <4>2, <5>1 DEF TrayInv
      <4> QED
        BY <2>1, <4>1, <4>2
    <3>3. j \notin DOMAIN box' /\ j \notin closed' => \A u \in BoxUsers : owned'[u][j] = 0
      BY <1>1, <1>2, <2>1, <3>1 DEF TrayInv
    <3> QED
      BY <1>1, <2>1, <3>1, <3>2, <3>3 DEF TrayInv
  <2>3. Box!TypeOK'
    <3>1. ASSUME NEW j \in DOMAIN box' PROVE box'[j] \in [msgs : Seq(Box!Msgs), rc : Nat]
      <4>1. box'[j].rc = Cardinality(Keepers(owned', j))
        BY <2>1, <2>2, <3>1, BoxFacts DEF TrayInv
      <4>2. box'[j].rc \in Nat
        BY <4>1, KeepersAreFinite
      <4> QED
        BY <2>1, <3>1, <4>2
    <3> QED
      BY <1>1, <1>2, <2>1, <3>1, BoxFacts DEF Box!TypeOK, Box!CondVarTypeOK, Owners
  <2>4. Box!NoLostWakeup'
    BY <1>1, <2>1 DEF BoxInv, Box!NoLostWakeup
  <2> QED
    BY <2>2, <2>3, <2>4 DEF BoxInv
<1> QED
  BY <1>4, <1>5

LEMMA CopyKeepsBox ==
    ASSUME BoxAssumption, BoxInv, NEW t \in BoxUsers, NEW u \in BoxUsers, NEW k \in Box!Keys, Box!copy(t, u, k)
    PROVE  BoxInv'
<1>1. /\ owned[t][k] > 0 /\ owned[u][k] < MaxCopies /\ owned' = [owned EXCEPT ![u][k] = owned[u][k] + 1]
      /\ tray_id' = tray_id /\ boxOp' = boxOp /\ parked' = parked /\ expired' = expired
      /\ boxPut' = boxPut /\ boxGot' = boxGot /\ lost' = lost /\ closed' = closed
  BY DEF Box!copy, Box!history, Box!cvVars
<1>2. /\ owned' \in Owners
      /\ \A v \in BoxUsers, j \in Box!Keys :
             owned'[v][j] = IF v = u /\ j = k THEN owned[v][j] + 1 ELSE owned[v][j]
  <2>1. MaxCopies \in Nat
    BY DEF BoxAssumption, Box!MsgBoxAssumption
  <2>2. owned \in [BoxUsers -> [Box!Keys -> 0 .. MaxCopies]]
    BY BoxFacts DEF Owners
  <2> QED
    BY <1>1, <2>1, <2>2 DEF Owners
<1>3. /\ Cardinality(Keepers(owned', k)) = Cardinality(Keepers(owned, k)) + 1
      /\ \A j \in Box!Keys : j # k => Keepers(owned', j) = Keepers(owned, j)
  <2>1. OneMore(owned, owned', u, k) /\ owned \in Owners
    BY <1>2, BoxFacts DEF OneMore
  <2> QED
    BY <1>2, <2>1, KeeperIsAdded
<1>4. /\ DOMAIN box' = DOMAIN box
      /\ \A j \in DOMAIN box : /\ box'[j] \in [msgs : Seq(Box!Msgs), rc : Nat]
                               /\ box'[j].msgs = box[j].msgs
                               /\ box'[j].rc = IF j = k THEN box[j].rc + 1 ELSE box[j].rc
  <2>1. CASE k \in DOMAIN box
    <3>1. box' = [box EXCEPT ![k].rc = box[k].rc + 1] /\ box[k].rc + 1 \in Nat
      BY <2>1, BoxFacts DEF Box!copy
    <3>2. \A j \in DOMAIN box : box[j] \in [msgs : Seq(Box!Msgs), rc : Nat]
      BY BoxFacts
    <3>3. /\ DOMAIN box' = DOMAIN box
          /\ \A j \in DOMAIN box : /\ box'[j].msgs = box[j].msgs
                                   /\ box'[j].rc = IF j = k THEN box[k].rc + 1 ELSE box[j].rc
                                   /\ box'[j] \in [msgs : Seq(Box!Msgs), rc : Nat]
      BY <2>1, <3>1, <3>2, RcChanges
    <3> QED
      BY <3>3
  <2>2. CASE k \notin DOMAIN box
    BY <2>2, BoxFacts DEF Box!copy
  <2> QED
    BY <2>1, <2>2
<1>5. Box!TypeOK'
  BY <1>1, <1>2, <1>4, BoxFacts DEF Box!TypeOK, Box!CondVarTypeOK, Owners
<1>6. ASSUME NEW j \in Box!Keys PROVE TrayInv(j)'
  <2>1. TrayInv(j) /\ InTray(j)' = InTray(j)
    BY <1>1, <1>4, BoxFacts DEF InTray
  <2>2. j \in DOMAIN box' => box'[j].rc = Cardinality(Keepers(owned', j)) /\ box'[j].rc > 0
    <3>1. ASSUME j \in DOMAIN box, j # k
          PROVE  box'[j].rc = Cardinality(Keepers(owned', j)) /\ box'[j].rc > 0
      BY <1>3, <1>4, <2>1, <3>1 DEF TrayInv
    <3>2. ASSUME k \in DOMAIN box
          PROVE  box'[k].rc = Cardinality(Keepers(owned', k)) /\ box'[k].rc > 0
      <4>1. TrayInv(k) /\ box[k].rc \in Nat /\ box'[k].rc = box[k].rc + 1
        BY <1>4, <3>2, BoxFacts
      <4> QED
        BY <1>3, <3>2, <4>1 DEF TrayInv
    <3> QED
      BY <1>4, <3>1, <3>2
  <2>3. j \notin DOMAIN box' /\ j \notin closed' => \A v \in BoxUsers : owned'[v][j] = 0
    <3>1. j \notin DOMAIN box' /\ j \notin closed' => j # k /\ \A v \in BoxUsers : owned[v][j] = 0
      BY <1>1, <1>4, <2>1 DEF TrayInv
    <3> QED
      BY <1>2, <3>1
  <2> QED
    BY <1>1, <1>4, <2>1, <2>2, <2>3 DEF TrayInv
<1>7. Box!NoLostWakeup'
  BY <1>1, <1>4 DEF BoxInv, Box!NoLostWakeup
<1> QED
  BY <1>5, <1>6, <1>7 DEF BoxInv

LEMMA CloseKeepsBox ==
    ASSUME BoxAssumption, BoxInv, NEW k \in Box!Keys, Box!close(k)
    PROVE  BoxInv'
<1>1. /\ k \in DOMAIN box /\ box' = Box!Without(k) /\ Box!Lose(k) /\ parked' = {} /\ expired' = expired
      /\ closed' = closed \cup {k} /\ owned' = owned
      /\ UNCHANGED <<tray_id, boxPut, boxGot, boxOp>>
  BY DEF Box!close, Box!notify_all
<1>2. closed' \subseteq Box!Keys /\ closed' \ {k} = closed \ {k} /\ k \in closed' /\ owned' \in Owners
  BY <1>1, BoxFacts
<1>3. \A j \in Box!Keys : j # k => /\ Keepers(owned', j) = Keepers(owned, j)
                                   /\ \A u \in BoxUsers : owned'[u][j] = owned[u][j]
  BY <1>1
<1> QED
  BY <1>1, <1>2, <1>3, EraseKeepsTrays

\* The messages of tray k change, by put or by wait.
LEMMA MsgsChange ==
    ASSUME BoxAssumption, BoxInv, NEW k \in DOMAIN box, NEW ms \in Seq(Box!Msgs),
           box' = [box EXCEPT ![k].msgs = ms], UNCHANGED <<tray_id, owned, lost, closed>>,
           boxPut' \in [Box!Keys -> Seq(Box!Msgs)], boxGot' \in [Box!Keys -> Seq(Box!Msgs)],
           \A j \in Box!Keys : j # k => boxPut'[j] = boxPut[j] /\ boxGot'[j] = boxGot[j],
           boxPut'[k] = boxGot'[k] \o ms,
           boxOp' \in [BoxUsers -> {0} \cup Box!Keys],
           parked' \subseteq parked, expired' = expired
    PROVE  /\ Box!TypeOK' /\ \A j \in Box!Keys : TrayInv(j)'
           /\ DOMAIN box' = DOMAIN box /\ \A j \in DOMAIN box : j # k => box'[j].msgs = box[j].msgs
<1>1. DOMAIN box' = DOMAIN box
      /\ \A j \in DOMAIN box : box'[j] = IF j = k THEN [box[k] EXCEPT !.msgs = ms] ELSE box[j]
  OBVIOUS
<1>2. box[k] \in [msgs : Seq(Box!Msgs), rc : Nat]
  BY BoxFacts
<1>3. box'[k] \in [msgs : Seq(Box!Msgs), rc : Nat] /\ box'[k].msgs = ms /\ box'[k].rc = box[k].rc
  BY <1>1, <1>2
<1>4. \A j \in DOMAIN box : /\ box'[j].rc = box[j].rc
                            /\ box'[j].msgs = IF j = k THEN ms ELSE box[j].msgs
                            /\ box'[j] \in [msgs : Seq(Box!Msgs), rc : Nat]
  BY <1>1, <1>3, BoxFacts
<1>5. Box!TypeOK'
  BY <1>1, <1>4, BoxFacts DEF Box!TypeOK, Box!CondVarTypeOK, Owners
<1>6. ASSUME NEW j \in Box!Keys PROVE TrayInv(j)'
  <2>1. TrayInv(j) /\ k \in Box!Keys /\ ~(k > tray_id)
    <3>1. k \in Box!Keys /\ k <= tray_id /\ tray_id \in Nat
      BY BoxFacts DEF TrayInv
    <3> QED
      BY <3>1, BoxFacts DEF Box!Keys
  <2>2. InTray(j)' = IF j = k THEN ms ELSE InTray(j)
    BY <1>1, <1>4 DEF InTray
  <2>3. boxPut'[j] = boxGot'[j] \o InTray(j)'
    BY <2>1, <2>2 DEF TrayInv
  <2>4. \A u \in BoxUsers : owned'[u][j] = owned[u][j]
    OBVIOUS
  <2>5. Keepers(owned', j) = Keepers(owned, j)
    OBVIOUS
  <2> QED
    BY <1>1, <1>4, <2>1, <2>3, <2>4, <2>5 DEF TrayInv
<1> QED
  BY <1>1, <1>4, <1>5, <1>6

LEMMA PutKeepsBox ==
    ASSUME BoxAssumption, BoxInv, NEW k \in Box!Keys, Box!put_internal(k)
    PROVE  BoxInv'
<1>0. PICK x : x = Box!Total + 1
  OBVIOUS
<1>1. /\ k \in DOMAIN box /\ box' = [box EXCEPT ![k].msgs = Append(box[k].msgs, x)]
      /\ boxPut' = [boxPut EXCEPT ![k] = Append(boxPut[k], x)]
      /\ parked' = {} /\ expired' = expired /\ boxGot' = boxGot /\ boxOp' = boxOp
      /\ UNCHANGED <<tray_id, owned, lost, closed>> /\ Box!Total < MaxMsg
  BY <1>0 DEF Box!put_internal, Box!notify_all
<1>2. x \in Box!Msgs
  BY <1>0, <1>1, TotalIsANumber DEF BoxInv
<1>3. /\ box[k].msgs \in Seq(Box!Msgs) /\ boxGot[k] \in Seq(Box!Msgs)
      /\ boxPut[k] = boxGot[k] \o box[k].msgs
  BY <1>1, BoxFacts DEF TrayInv, InTray
<1>4. /\ Append(box[k].msgs, x) \in Seq(Box!Msgs)
      /\ Append(boxPut[k], x) = boxGot[k] \o Append(box[k].msgs, x)
      /\ Append(boxPut[k], x) \in Seq(Box!Msgs)
  <2>1. Append(boxPut[k], x) \in Seq(Box!Msgs)
    BY <1>2, BoxFacts
  <2>2. /\ Append(boxGot[k] \o box[k].msgs, x) = boxGot[k] \o Append(box[k].msgs, x)
        /\ Append(box[k].msgs, x) \in Seq(Box!Msgs)
    BY <1>2, <1>3, Appended
  <2> QED
    BY <1>3, <2>1, <2>2
<1>5. /\ boxPut' \in [Box!Keys -> Seq(Box!Msgs)] /\ boxPut'[k] = Append(boxPut[k], x)
      /\ \A j \in Box!Keys : j # k => boxPut'[j] = boxPut[j]
  BY <1>1, <1>4, BoxFacts
<1>6. /\ Box!TypeOK' /\ \A j \in Box!Keys : TrayInv(j)'
  BY <1>1, <1>4, <1>5, BoxFacts, MsgsChange
<1> QED
  BY <1>1, <1>6 DEF BoxInv, Box!NoLostWakeup

LEMMA TakeKeepsBox ==
    ASSUME BoxAssumption, BoxInv, NEW t \in BoxUsers, Box!wait_take(t)
    PROVE  BoxInv'
<1> PICK k : k = boxOp[t]
  OBVIOUS
<1>1. /\ k \in DOMAIN box /\ box' = [box EXCEPT ![k].msgs = <<>>]
      /\ boxGot' = [boxGot EXCEPT ![k] = boxGot[k] \o box[k].msgs]
      /\ boxOp' = [boxOp EXCEPT ![t] = 0] /\ t \notin parked
      /\ parked' = parked /\ expired' = expired /\ boxPut' = boxPut
      /\ UNCHANGED <<tray_id, owned, lost, closed>>
  BY DEF Box!wait_take, Box!Waits, Box!Awake, Box!Return, Box!cvVars
<1>2. /\ box[k].msgs \in Seq(Box!Msgs) /\ boxGot[k] \in Seq(Box!Msgs) /\ k \in Box!Keys
      /\ boxPut[k] = boxGot[k] \o box[k].msgs
  BY <1>1, BoxFacts DEF TrayInv, InTray
<1>3. /\ boxGot[k] \o box[k].msgs \in Seq(Box!Msgs) /\ <<>> \in Seq(Box!Msgs)
      /\ boxPut[k] = (boxGot[k] \o box[k].msgs) \o <<>>
  BY <1>2, Concatenated
<1>4. /\ boxGot' \in [Box!Keys -> Seq(Box!Msgs)] /\ boxGot'[k] = boxGot[k] \o box[k].msgs
      /\ \A j \in Box!Keys : j # k => boxGot'[j] = boxGot[j]
  BY <1>1, <1>2, <1>3, BoxFacts
<1>5. boxOp' \in [BoxUsers -> {0} \cup Box!Keys]
  BY <1>1, BoxFacts
<1>6. /\ Box!TypeOK' /\ (\A j \in Box!Keys : TrayInv(j)')
      /\ DOMAIN box' = DOMAIN box /\ \A j \in DOMAIN box : j # k => box'[j].msgs = box[j].msgs
  <2>1. <<>> \in Seq(Box!Msgs) /\ boxPut' \in [Box!Keys -> Seq(Box!Msgs)] /\ parked' \subseteq parked
    BY <1>1, BoxFacts
  <2>2. /\ \A j \in Box!Keys : j # k => boxPut'[j] = boxPut[j] /\ boxGot'[j] = boxGot[j]
        /\ boxPut'[k] = boxGot'[k] \o <<>>
    BY <1>1, <1>3, <1>4
  <2> QED
    BY <1>1, <1>4, <1>5, <2>1, <2>2, MsgsChange
<1>7. box'[k].msgs = <<>>
  BY <1>1, BoxFacts
<1>8. Box!NoLostWakeup'
  BY <1>1, <1>6, <1>7, BoxFacts DEF BoxInv, Box!NoLostWakeup
<1> QED
  BY <1>6, <1>8 DEF BoxInv

LEMMA StepBoxInv == BoxAssumption /\ BoxInv /\ [Box!Next]_Box!vars => BoxInv'
<1> SUFFICES ASSUME BoxAssumption, BoxInv, [Box!Next]_Box!vars PROVE BoxInv'
  OBVIOUS
\* What changes neither trays nor keys.
<1>1. ASSUME UNCHANGED <<box, tray_id, owned, boxPut, boxGot, lost, closed>>,
             parked' \subseteq BoxUsers, expired' \subseteq BoxTimed, parked' \cap expired' = {},
             boxOp' \in [BoxUsers -> {0} \cup Box!Keys],
             \A t \in parked' : boxOp'[t] \in DOMAIN box /\ box[boxOp'[t]].msgs = <<>>
      PROVE  BoxInv'
  <2>1. Box!TypeOK'
    BY <1>1, BoxFacts DEF Box!TypeOK, Box!CondVarTypeOK, BoxInv
  <2>2. \A k \in Box!Keys : TrayInv(k)'
    BY <1>1, BoxFacts DEF TrayInv, InTray
  <2> QED
    BY <1>1, <2>1, <2>2 DEF BoxInv, Box!NoLostWakeup
<1>2. \A t \in parked : boxOp[t] \in DOMAIN box /\ box[boxOp[t]].msgs = <<>> /\ boxOp[t] \in Box!Keys
  BY BoxFacts DEF BoxInv, Box!NoLostWakeup
<1> USE DEF Box!boxVars, Box!history, Box!cvVars
<1>3. ASSUME NEW t \in BoxUsers, NEW k \in Box!Keys, Box!wait_call(t, k) PROVE BoxInv'
  <2>1. boxOp[t] = 0 /\ boxOp' = [boxOp EXCEPT ![t] = k]
    BY <1>3 DEF Box!wait_call, Box!Free
  <2>2. t \notin parked
    BY <1>2, <2>1 DEF Box!Keys
  <2> QED
    BY <1>1, <1>2, <1>3, <2>1, <2>2, BoxFacts DEF Box!wait_call
<1>4. ASSUME NEW t \in BoxUsers, Box!wait_gone(t) PROVE BoxInv'
  <2>1. boxOp' = [boxOp EXCEPT ![t] = 0] /\ t \notin parked
    BY <1>4 DEF Box!wait_gone, Box!Waits, Box!Awake, Box!Return
  <2> QED
    BY <1>1, <1>2, <1>4, <2>1, BoxFacts DEF Box!wait_gone
<1>5. ASSUME NEW t \in BoxUsers, Box!wait_park(t) PROVE BoxInv'
  <2>1. parked' = parked \cup {t} /\ expired' = expired /\ t \notin expired /\ boxOp' = boxOp
    BY <1>5 DEF Box!wait_park, Box!wait, Box!Waits, Box!Awake
  <2>2. boxOp[t] \in DOMAIN box /\ box[boxOp[t]].msgs = <<>>
    BY <1>5 DEF Box!wait_park
  <2> QED
    BY <1>1, <1>2, <1>5, <2>1, <2>2, BoxFacts DEF Box!wait_park
<1>6. ASSUME NEW t \in BoxUsers, Box!wait_timeout(t) PROVE BoxInv'
  <2>1. /\ boxOp' = [boxOp EXCEPT ![t] = 0] /\ expired' = expired \ {t} /\ parked' = parked /\ t \in expired
    BY <1>6 DEF Box!wait_timeout, Box!TimedOut, Box!Return
  <2> QED
    BY <1>1, <1>2, <1>6, <2>1, BoxFacts DEF Box!wait_timeout
<1>7. ASSUME NEW t \in BoxUsers, Box!Wakes(t) PROVE BoxInv'
  <2>1. /\ parked' = parked \ {t} /\ boxOp' = boxOp
        /\ expired' = expired \/ (expired' = expired \cup {t} /\ t \in BoxTimed)
    BY <1>7 DEF Box!Wakes, Box!WakeUp, Box!Expire
  <2> QED
    BY <1>1, <1>2, <1>7, <2>1, BoxFacts DEF Box!Wakes
<1>8. CASE UNCHANGED Box!vars
  BY <1>1, <1>2, <1>8, BoxFacts DEF Box!vars
<1> QED
  BY <1>3, <1>4, <1>5, <1>6, <1>7, <1>8, ReserveKeepsBox, DropKeepsBox, CopyKeepsBox, CloseKeepsBox,
     PutKeepsBox, TakeKeepsBox
     DEF Box!Next, Box!Runs

LEMMA BoxInvMeans ==
    BoxAssumption /\ BoxInv => Box!NoLostWakeup /\ Box!TrayLivesWithItsKeys /\ Box!NoMessageLost
<1> SUFFICES ASSUME BoxAssumption, BoxInv PROVE Box!TrayLivesWithItsKeys /\ Box!NoMessageLost
  BY DEF BoxInv
<1>1. Box!NoMessageLost
  BY BoxFacts DEF Box!NoMessageLost, TrayInv, InTray
<1>2. ASSUME NEW k \in Box!Keys \ closed, k \in DOMAIN box PROVE \E t \in BoxUsers : owned[t][k] > 0
  <2>1. Cardinality(Keepers(owned, k)) # 0 /\ owned \in Owners /\ k \in Box!Keys
    BY <1>2, BoxFacts DEF TrayInv
  <2>2. PICK t \in BoxUsers : owned[t][k] # 0
    BY <2>1, NoKeepers
  <2> QED
    BY <2>1, <2>2 DEF Owners
<1>3. ASSUME NEW k \in Box!Keys \ closed, NEW t \in BoxUsers, owned[t][k] > 0 PROVE k \in DOMAIN box
  BY <1>3, BoxFacts DEF TrayInv
<1> QED
  BY <1>1, <1>2, <1>3 DEF Box!TrayLivesWithItsKeys

-----------------------------------------------------------------------------
(* Theorems about the pool: its free list as links between the words of    *)
(* the items.                                                              *)

\* The free list as its links: the items of the chunks made so far, of which the last is m,
\* and f the first of the free ones.  What a link names is free and named once.
Links(w, f, m) ==
    /\ \A i \in Pool!Items : w[i] \in Pool!Items => w[i] <= m /\ w[w[i]] # Pool!pool
    /\ \A i, j \in Pool!Items : w[i] \in Pool!Items /\ w[i] = w[j] => i = j
    /\ f \in Pool!Items => f <= m /\ w[f] # Pool!pool /\ \A i \in Pool!Items : w[i] # f
    /\ \A i \in Pool!Items : i > m => w[i] = Pool!nullptr

Words == [Pool!Items -> Pool!Items \cup {Pool!nullptr, Pool!pool}]

LEMMA LendLinks ==
    ASSUME NEW w \in Words, NEW s \in Pool!Items, NEW m \in Nat, Links(w, s, m)
    PROVE  /\ [w EXCEPT ![s] = Pool!pool] \in Words
           /\ w[s] \in Pool!Items \cup {Pool!nullptr}
           /\ Links([w EXCEPT ![s] = Pool!pool], w[s], m)
<1> DEFINE v == [w EXCEPT ![s] = Pool!pool]
<1>0. s <= m /\ w[s] # Pool!pool /\ \A i \in Pool!Items : w[i] # s
  BY DEF Links
<1>1. v \in Words /\ w[s] \in Pool!Items \cup {Pool!nullptr}
  BY <1>0 DEF Words
<1>2. Pool!pool \notin Pool!Items /\ v[s] = Pool!pool /\ \A i \in Pool!Items \ {s} : v[i] = w[i]
  BY DEF Words, Pool!Items, Pool!pool
<1>3. ASSUME NEW i \in Pool!Items, v[i] \in Pool!Items PROVE v[i] <= m /\ v[v[i]] # Pool!pool
  BY <1>0, <1>2, <1>3 DEF Links
<1>4. ASSUME NEW i \in Pool!Items, NEW j \in Pool!Items, v[i] \in Pool!Items, v[i] = v[j] PROVE i = j
  BY <1>2, <1>4 DEF Links
<1>5. ASSUME w[s] \in Pool!Items PROVE w[s] <= m /\ v[w[s]] # Pool!pool /\ \A i \in Pool!Items : v[i] # w[s]
  <2>1. w[s] # s /\ v[w[s]] = w[w[s]]
    BY <1>0, <1>2, <1>5
  <2>2. \A i \in Pool!Items : v[i] # w[s]
    BY <1>2, <1>5 DEF Links
  <2> QED
    BY <1>5, <2>1, <2>2 DEF Links
<1>6. \A i \in Pool!Items : i > m => v[i] = Pool!nullptr
  BY <1>0, <1>2 DEF Links, Pool!Items
<1> HIDE DEF v
<1>7. Links(v, w[s], m)
  BY <1>3, <1>4, <1>5, <1>6 DEF Links
<1> QED
  BY <1>1, <1>7 DEF v

LEMMA BackLinks ==
    ASSUME NEW w \in Words, NEW f \in Pool!Items \cup {Pool!nullptr}, NEW s \in Pool!Items, NEW m \in Nat,
           Links(w, f, m), w[s] = Pool!pool
    PROVE  [w EXCEPT ![s] = f] \in Words /\ Links([w EXCEPT ![s] = f], s, m)
<1> DEFINE v == [w EXCEPT ![s] = f]
<1>0. /\ Pool!nullptr \notin Pool!Items /\ Pool!pool \notin Pool!Items /\ Pool!nullptr # Pool!pool
  BY DEF Pool!Items, Pool!pool, Pool!nullptr
<1>1. v \in Words
  BY DEF Words
<1>2. v[s] = f /\ \A i \in Pool!Items \ {s} : v[i] = w[i]
  BY DEF Words
<1>3. s <= m
  BY <1>0 DEF Links, Pool!Items
<1>4. \A i \in Pool!Items : w[i] # s
  BY DEF Links
<1>5. \A i \in Pool!Items : v[i] # s
  <2>1. f # s
    BY DEF Links
  <2> QED
    BY <1>2, <1>4, <2>1
<1>6. v[s] # Pool!pool
  BY <1>0, <1>2
<1>7. ASSUME NEW i \in Pool!Items, v[i] \in Pool!Items PROVE v[i] <= m /\ v[v[i]] # Pool!pool
  <2>1. v[v[i]] = w[v[i]]
    BY <1>2, <1>5, <1>7
  <2> QED
    BY <1>2, <1>7, <2>1 DEF Links
<1>8. ASSUME NEW i \in Pool!Items, NEW j \in Pool!Items, v[i] \in Pool!Items, v[i] = v[j] PROVE i = j
  BY <1>2, <1>8 DEF Links
<1>9. \A i \in Pool!Items : i > m => v[i] = Pool!nullptr
  BY <1>2, <1>3 DEF Links, Pool!Items
<1> HIDE DEF v
<1>10. Links(v, s, m)
  BY <1>3, <1>5, <1>6, <1>7, <1>8, <1>9 DEF Links
<1> QED
  BY <1>1, <1>10 DEF v

LEMMA ProductGrows ==
    ASSUME NEW a \in Nat, NEW b \in Nat, NEW c \in Nat, a <= b
    PROVE  a * c <= c * b /\ (a + 1) * c = a * c + c /\ a * c \in Nat
<1>1. PICK d \in Nat : b = a + d
  BY b - a \in Nat
<1>2. c * b = a * c + d * c /\ d * c \in Nat /\ a * c \in Nat
  BY <1>1
<1>3. (a + 1) * c = a * c + c
  OBVIOUS
<1> QED
  BY <1>2, <1>3

\* A new chunk is linked from its first item to its last.
LEMMA AllocLinks ==
    ASSUME Pool!MPoolAssumption, word \in Words, chunks \in 0 .. ChunkLimit, chunks < ChunkLimit,
           Links(word, Pool!nullptr, chunks * ChunkSize)
    PROVE  /\ Pool!alloc \in Words
           /\ chunks * ChunkSize + 1 \in Pool!Items
           /\ Links(Pool!alloc, chunks * ChunkSize + 1, (chunks + 1) * ChunkSize)
           /\ \A i \in Pool!Items :
                  word[i] = Pool!pool => Pool!alloc[i] = Pool!pool /\ i # chunks * ChunkSize + 1
<1> DEFINE m == chunks * ChunkSize
           n == (chunks + 1) * ChunkSize
<1>0. ChunkSize \in Nat \ {0} /\ ChunkLimit \in Nat /\ chunks \in Nat /\ chunks + 1 <= ChunkLimit
  BY DEF Pool!MPoolAssumption
<1>1. m \in Nat /\ n = m + ChunkSize
  BY <1>0, ProductGrows
<1>2. n <= ChunkSize * ChunkLimit /\ n \in Nat
  BY <1>0, ProductGrows
<1>3. ChunkSize * ChunkLimit \in Nat
  BY <1>0
<1> HIDE DEF m, n
<1>4. /\ Pool!Items = 1 .. ChunkSize * ChunkLimit
      /\ Pool!Chunk(chunks) = m + 1 .. n
  BY DEF Pool!Items, Pool!Chunk, m, n
<1>5. Pool!alloc = [i \in Pool!Items |-> IF i \in m + 1 .. n THEN IF i < n THEN i + 1 ELSE Pool!nullptr ELSE word[i]]
  BY <1>4 DEF Pool!alloc, n
<1>6. Links(word, Pool!nullptr, m)
  BY DEF m
<1>7. \A i \in Pool!Items : i > m => word[i] = Pool!nullptr
  BY <1>6 DEF Links
<1>8. ASSUME NEW i \in Pool!Items
      PROVE  /\ i <= m => Pool!alloc[i] = word[i]
             /\ i > m /\ i < n => Pool!alloc[i] = i + 1 /\ i + 1 \in Pool!Items
             /\ i >= n => Pool!alloc[i] = Pool!nullptr
  BY <1>0, <1>1, <1>2, <1>3, <1>4, <1>5, <1>7
<1>9. Pool!alloc \in Words
  <2>1. \A i \in Pool!Items : Pool!alloc[i] \in Pool!Items \cup {Pool!nullptr, Pool!pool}
    BY <1>1, <1>2, <1>3, <1>4, <1>8 DEF Words
  <2> QED
    BY <1>5, <2>1 DEF Words
<1>10. Pool!nullptr \notin Pool!Items /\ Pool!pool \notin Pool!Items /\ Pool!nullptr # Pool!pool
       /\ \A i \in Pool!Items : i # Pool!pool /\ i + 1 # Pool!pool
  BY <1>4 DEF Pool!nullptr, Pool!pool
<1>11. ASSUME NEW i \in Pool!Items, i > m PROVE Pool!alloc[i] # Pool!pool
  <2>1. CASE i < n
    BY <1>8, <1>10, <1>11, <2>1
  <2>2. CASE i >= n
    BY <1>8, <1>10, <2>2
  <2> QED
    BY <1>2, <1>4, <2>1, <2>2
<1>12. ASSUME NEW i \in Pool!Items, Pool!alloc[i] \in Pool!Items
       PROVE  Pool!alloc[i] <= n /\ Pool!alloc[Pool!alloc[i]] # Pool!pool
  <2>1. CASE i <= m
    <3>1. Pool!alloc[i] = word[i] /\ word[i] <= m /\ word[word[i]] # Pool!pool
      BY <1>6, <1>8, <1>12, <2>1 DEF Links
    <3>2. word[i] \in Pool!Items
      BY <1>12, <3>1
    <3>3. Pool!alloc[word[i]] = word[word[i]]
      BY <1>8, <3>1, <3>2
    <3>4. m \in Int /\ n \in Int /\ m <= n /\ word[i] \in Int
      BY <1>0, <1>1, <1>2, <1>4, <3>2
    <3>5. Pool!alloc[i] <= n
      BY <3>1, <3>4
    <3> QED
      BY <3>1, <3>3, <3>5
  <2>2. CASE i > m
    <3>1. i < n /\ Pool!alloc[i] = i + 1
      BY <1>1, <1>2, <1>4, <1>8, <1>10, <1>12, <2>2
    <3> QED
      BY <1>1, <1>2, <1>4, <1>11, <1>12, <2>2, <3>1
  <2> QED
    BY <1>1, <1>4, <2>1, <2>2
<1>13. ASSUME NEW i \in Pool!Items, NEW j \in Pool!Items, Pool!alloc[i] \in Pool!Items, Pool!alloc[i] = Pool!alloc[j]
       PROVE  i = j
  <2>1. \A k \in Pool!Items : k <= m /\ Pool!alloc[k] \in Pool!Items => Pool!alloc[k] <= m
    BY <1>6, <1>8 DEF Links
  <2>2. ASSUME NEW k \in Pool!Items, k > m, Pool!alloc[k] \in Pool!Items PROVE Pool!alloc[k] = k + 1
    <3>1. k < n \/ k >= n
      BY <1>2, <1>4
    <3> QED
      BY <1>8, <1>10, <2>2, <3>1
  <2>3. CASE i <= m /\ j <= m
    BY <1>6, <1>8, <1>13, <2>3 DEF Links
  <2>4. CASE i > m \/ j > m
    BY <1>1, <1>4, <1>13, <2>1, <2>2, <2>4
  <2> QED
    BY <1>1, <1>4, <2>3, <2>4
<1>14. m + 1 \in Pool!Items /\ m + 1 <= n
  BY <1>0, <1>1, <1>2, <1>3, <1>4
<1>15. ASSUME NEW i \in Pool!Items PROVE Pool!alloc[i] # m + 1
  <2>1. CASE i <= m
    BY <1>1, <1>6, <1>8, <1>14, <2>1 DEF Links
  <2>2. CASE i > m
    BY <1>1, <1>2, <1>4, <1>8, <1>10, <1>14, <2>2
  <2> QED
    BY <1>1, <1>4, <2>1, <2>2
<1>16. Pool!alloc[m + 1] # Pool!pool
  BY <1>1, <1>11, <1>14
<1>17. \A i \in Pool!Items : i > n => Pool!alloc[i] = Pool!nullptr
  BY <1>1, <1>2, <1>4, <1>8
<1>18. Links(Pool!alloc, m + 1, n)
  BY <1>12, <1>13, <1>14, <1>15, <1>16, <1>17 DEF Links
<1>19. ASSUME NEW i \in Pool!Items, word[i] = Pool!pool PROVE Pool!alloc[i] = Pool!pool /\ i # m + 1
  <2>1. i <= m
    BY <1>1, <1>4, <1>7, <1>10, <1>19
  <2> QED
    BY <1>1, <1>4, <1>8, <1>19, <2>1
<1> QED
  BY <1>9, <1>14, <1>18, <1>19 DEF m, n

-----------------------------------------------------------------------------
(* The calls of get that were not given back: a thread with an item, or with nullptr while it
   waits for one. *)
LoansOf(has, awaits) ==
    {p \in Borrowers \X (Pool!Items \cup {Pool!nullptr}) :
       (p[2] = Pool!nullptr /\ awaits[p[1]]) \/ p[2] \in has[p[1]]}

Loans == LoansOf(held, waits)

\* An item is lent to one thread, and the free list is made of the others.
Lent ==
    /\ \A t \in Borrowers : \A i \in held[t] : word[i] = Pool!pool
    /\ \A t, u \in Borrowers : held[t] \cap held[u] # {} => t = u

Counted == IsFiniteSet(Loans) /\ lending = Cardinality(Loans)

Unused == ~attached /\ Loans = {}

PoolInv ==
    /\ Pool!TypeOK
    /\ Links(word, free, chunks * ChunkSize)
    /\ Lent
    /\ Counted
    /\ deleted = IF Unused THEN 1 ELSE 0

LEMMA Pairs ==
    ASSUME NEW t, NEW i, NEW u, NEW j, <<t, i>> = <<u, j>>
    PROVE  t = u /\ i = j
  OBVIOUS

\* Item s of the free list is lent to t, which had nothing or waited.
LEMMA LendLent ==
    ASSUME Pool!TypeOK, Lent, NEW t \in Borrowers, NEW s \in Pool!Items, NEW words \in Words,
           \A i \in Pool!Items : word[i] = Pool!pool => words[i] = Pool!pool /\ i # s,
           Pool!Lend(t, s, words)
    PROVE  /\ Lent'
           /\ held' \in [Borrowers -> SUBSET Pool!Items]
           /\ s \notin held[t] /\ held'[t] = held[t] \cup {s}
           /\ \A u \in Borrowers \ {t} : held'[u] = held[u]
<1>1. held \in [Borrowers -> SUBSET Pool!Items]
  BY DEF Pool!TypeOK
<1>2. \A u \in Borrowers : s \notin held[u]
  BY <1>1 DEF Lent
<1>3. /\ held'[t] = held[t] \cup {s}
      /\ \A u \in Borrowers \ {t} : held'[u] = held[u]
      /\ held' \in [Borrowers -> SUBSET Pool!Items]
  BY <1>1 DEF Pool!Lend
<1>4. word'[s] = Pool!pool /\ \A i \in Pool!Items \ {s} : word'[i] = words[i]
  BY DEF Pool!Lend, Words
<1>5. ASSUME NEW u \in Borrowers, NEW i \in held'[u] PROVE word'[i] = Pool!pool
  <2>1. CASE i = s
    BY <1>4, <2>1
  <2>2. CASE i # s
    <3>1. i \in held[u] /\ i \in Pool!Items
      BY <1>1, <1>3, <1>5, <2>2
    <3> QED
      BY <1>4, <2>2, <3>1 DEF Lent
  <2> QED
    BY <2>1, <2>2
<1>6. ASSUME NEW u \in Borrowers, NEW v \in Borrowers, held'[u] \cap held'[v] # {} PROVE u = v
  BY <1>2, <1>3, <1>6 DEF Lent
<1> QED
  BY <1>2, <1>3, <1>5, <1>6 DEF Lent

\* What is added to the loans is counted, and what is taken away.
LEMMA LoanAdded ==
    ASSUME Counted, NEW p, p \notin Loans, Loans' = Loans \cup {p}, lending \in Nat, lending' = lending + 1
    PROVE  Counted'
  BY FS_AddElement DEF Counted

LEMMA LoanRemoved ==
    ASSUME Counted, NEW p, p \in Loans, Loans' = Loans \ {p}, lending \in Nat, lending' = lending - 1
    PROVE  Counted'
  BY FS_RemoveElement DEF Counted

LEMMA LoanMoved ==
    ASSUME Counted, NEW p, NEW q, p \in Loans, q \notin Loans, Loans' = (Loans \ {p}) \cup {q},
           lending \in Nat, lending' = lending
    PROVE  Counted'
<1>1. IsFiniteSet(Loans \ {p}) /\ Cardinality(Loans \ {p}) = Cardinality(Loans) - 1
  BY FS_RemoveElement DEF Counted
<1>2. q \notin Loans \ {p}
  OBVIOUS
<1>3. IsFiniteSet(Loans') /\ Cardinality(Loans') = (Cardinality(Loans) - 1) + 1
  BY <1>1, <1>2, FS_AddElement
<1> QED
  BY <1>3 DEF Counted

LEMMA LoanMembers ==
    ASSUME NEW has \in [Borrowers -> SUBSET Pool!Items], NEW awaits,
           NEW t \in Borrowers, NEW i \in Pool!Items \cup {Pool!nullptr}
    PROVE  <<t, i>> \in LoansOf(has, awaits) <=> IF i = Pool!nullptr THEN awaits[t] ELSE i \in has[t]
<1>1. has[t] \subseteq Pool!Items /\ Pool!nullptr \notin Pool!Items
  BY DEF Pool!Items, Pool!nullptr
<1>2. <<t, i>>[1] = t /\ <<t, i>>[2] = i /\ <<t, i>> \in Borrowers \X (Pool!Items \cup {Pool!nullptr})
  OBVIOUS
<1>3. CASE i = Pool!nullptr
  <2>1. i \notin has[t]
    BY <1>1, <1>3
  <2> QED
    BY <1>2, <1>3, <2>1, Zenon DEF LoansOf
<1>4. CASE i # Pool!nullptr
  BY <1>2, <1>4, Zenon DEF LoansOf
<1> QED
  BY <1>3, <1>4

\* Two sets of loans are told apart by their members.
LEMMA LoansExtend ==
    ASSUME NEW S, S \subseteq Borrowers \X (Pool!Items \cup {Pool!nullptr}), NEW R,
           R \subseteq Borrowers \X (Pool!Items \cup {Pool!nullptr}),
           \A t \in Borrowers, i \in Pool!Items \cup {Pool!nullptr} : <<t, i>> \in S <=> <<t, i>> \in R
    PROVE  S = R
  OBVIOUS

LEMMA LoanIsAdded ==
    ASSUME NEW has \in [Borrowers -> SUBSET Pool!Items], NEW awaits,
           NEW has2 \in [Borrowers -> SUBSET Pool!Items], NEW awaits2,
           NEW t \in Borrowers, NEW s \in Pool!Items \cup {Pool!nullptr},
           \A u \in Borrowers \ {t} : has2[u] = has[u] /\ (awaits2[u] <=> awaits[u]),
           IF s = Pool!nullptr
           THEN ~awaits[t] /\ awaits2[t] /\ has2[t] = has[t]
           ELSE s \notin has[t] /\ has2[t] = has[t] \cup {s} /\ (awaits2[t] <=> awaits[t])
    PROVE  /\ <<t, s>> \notin LoansOf(has, awaits)
           /\ LoansOf(has2, awaits2) = LoansOf(has, awaits) \cup {<<t, s>>}
<1>0. Pool!nullptr \notin Pool!Items
  BY DEF Pool!Items, Pool!nullptr
<1>1. <<t, s>> \notin LoansOf(has, awaits)
  BY <1>0, LoanMembers
<1>2. ASSUME NEW u \in Borrowers, NEW i \in Pool!Items \cup {Pool!nullptr}
      PROVE  <<u, i>> \in LoansOf(has2, awaits2) <=> <<u, i>> \in LoansOf(has, awaits) \cup {<<t, s>>}
  <2>1. <<u, i>> \in LoansOf(has, awaits) <=> IF i = Pool!nullptr THEN awaits[u] ELSE i \in has[u]
    BY <1>0, LoanMembers
  <2>2. <<u, i>> \in LoansOf(has2, awaits2) <=> IF i = Pool!nullptr THEN awaits2[u] ELSE i \in has2[u]
    BY LoanMembers
  <2>3. <<u, i>> = <<t, s>> <=> u = t /\ i = s
    BY Pairs
  <2>4. CASE u = t /\ i = s
    BY <2>2, <2>4
  <2>5. CASE ~(u = t /\ i = s)
    <3>1. (IF i = Pool!nullptr THEN awaits2[u] ELSE i \in has2[u]) <=> (IF i = Pool!nullptr THEN awaits[u] ELSE i \in has[u])
      BY <1>0, <2>5
    <3> QED
      BY <2>1, <2>2, <2>3, <2>5, <3>1
  <2> QED
    BY <2>4, <2>5
<1>3. LoansOf(has2, awaits2) = LoansOf(has, awaits) \cup {<<t, s>>}
  <2>1. LoansOf(has2, awaits2) \subseteq Borrowers \X (Pool!Items \cup {Pool!nullptr})
        /\ LoansOf(has, awaits) \cup {<<t, s>>} \subseteq Borrowers \X (Pool!Items \cup {Pool!nullptr})
    BY DEF LoansOf
  <2> QED
    BY <1>2, <2>1, LoansExtend
<1> QED
  BY <1>1, <1>3

LEMMA ItemIsAdded ==
    ASSUME NEW has \in [Borrowers -> SUBSET Pool!Items], NEW awaits, NEW has2 \in [Borrowers -> SUBSET Pool!Items],
           NEW t \in Borrowers, NEW s \in Pool!Items,
           s \notin has[t], has2[t] = has[t] \cup {s}, \A u \in Borrowers \ {t} : has2[u] = has[u]
    PROVE  /\ <<t, s>> \notin LoansOf(has, awaits)
           /\ LoansOf(has2, awaits) = LoansOf(has, awaits) \cup {<<t, s>>}
<1>1. s # Pool!nullptr /\ s \in Pool!Items \cup {Pool!nullptr}
  BY DEF Pool!Items, Pool!nullptr
<1>2. ASSUME NEW awaits2, awaits2 = awaits
      PROVE  /\ <<t, s>> \notin LoansOf(has, awaits)
             /\ LoansOf(has2, awaits2) = LoansOf(has, awaits) \cup {<<t, s>>}
  <2>1. \A u \in Borrowers \ {t} : has2[u] = has[u] /\ (awaits2[u] <=> awaits[u])
    BY <1>2
  <2>2. IF s = Pool!nullptr
        THEN ~awaits[t] /\ awaits2[t] /\ has2[t] = has[t]
        ELSE s \notin has[t] /\ has2[t] = has[t] \cup {s} /\ (awaits2[t] <=> awaits[t])
    BY <1>1, <1>2
  <2> QED
    BY <1>1, <2>1, <2>2, LoanIsAdded
<1> QED
  BY <1>2

LEMMA LoanIsRemoved ==
    ASSUME NEW has \in [Borrowers -> SUBSET Pool!Items], NEW awaits,
           NEW has2 \in [Borrowers -> SUBSET Pool!Items], NEW awaits2,
           NEW t \in Borrowers, NEW s \in Pool!Items \cup {Pool!nullptr},
           \A u \in Borrowers \ {t} : has2[u] = has[u] /\ (awaits2[u] <=> awaits[u]),
           IF s = Pool!nullptr
           THEN awaits[t] /\ ~awaits2[t] /\ has2[t] = has[t]
           ELSE s \in has[t] /\ has2[t] = has[t] \ {s} /\ (awaits2[t] <=> awaits[t])
    PROVE  /\ <<t, s>> \in LoansOf(has, awaits)
           /\ LoansOf(has2, awaits2) = LoansOf(has, awaits) \ {<<t, s>>}
<1>0. Pool!nullptr \notin Pool!Items
  BY DEF Pool!Items, Pool!nullptr
<1>1. <<t, s>> \in LoansOf(has, awaits)
  BY <1>0, LoanMembers
<1>2. ASSUME NEW u \in Borrowers, NEW i \in Pool!Items \cup {Pool!nullptr}
      PROVE  <<u, i>> \in LoansOf(has2, awaits2) <=> <<u, i>> \in LoansOf(has, awaits) \ {<<t, s>>}
  <2>1. <<u, i>> \in LoansOf(has, awaits) <=> IF i = Pool!nullptr THEN awaits[u] ELSE i \in has[u]
    BY <1>0, LoanMembers
  <2>2. <<u, i>> \in LoansOf(has2, awaits2) <=> IF i = Pool!nullptr THEN awaits2[u] ELSE i \in has2[u]
    BY LoanMembers
  <2>3. <<u, i>> = <<t, s>> <=> u = t /\ i = s
    BY Pairs
  <2>4. CASE u = t /\ i = s
    BY <2>2, <2>4
  <2>5. CASE ~(u = t /\ i = s)
    <3>1. (IF i = Pool!nullptr THEN awaits2[u] ELSE i \in has2[u]) <=> (IF i = Pool!nullptr THEN awaits[u] ELSE i \in has[u])
      BY <1>0, <2>5
    <3> QED
      BY <2>1, <2>2, <2>3, <2>5, <3>1
  <2> QED
    BY <2>4, <2>5
<1>3. LoansOf(has2, awaits2) = LoansOf(has, awaits) \ {<<t, s>>}
  <2>1. LoansOf(has2, awaits2) \subseteq Borrowers \X (Pool!Items \cup {Pool!nullptr})
        /\ LoansOf(has, awaits) \ {<<t, s>>} \subseteq Borrowers \X (Pool!Items \cup {Pool!nullptr})
    BY DEF LoansOf
  <2> QED
    BY <1>2, <2>1, LoansExtend
<1> QED
  BY <1>1, <1>3

LEMMA PoolFacts ==
    ASSUME PoolInv
    PROVE  /\ held \in [Borrowers -> SUBSET Pool!Items] /\ word \in Words /\ lending \in Nat
           /\ free \in Pool!Items \cup {Pool!nullptr} /\ Pool!nullptr \notin Pool!Items
           /\ (Loans # {} => lending >= 1 /\ deleted = 0)
           /\ \A i \in Pool!Items : word[i] = Pool!pool => i # free
<1>1. held \in [Borrowers -> SUBSET Pool!Items] /\ word \in Words /\ lending \in Nat
      /\ free \in Pool!Items \cup {Pool!nullptr} /\ Pool!nullptr \notin Pool!Items
  BY DEF PoolInv, Pool!TypeOK, Words, Pool!Items, Pool!nullptr
<1>2. ASSUME Loans # {} PROVE lending >= 1 /\ deleted = 0
  <2>1. IsFiniteSet(Loans) /\ lending = Cardinality(Loans) /\ lending # 0
    BY <1>2, FS_EmptySet DEF PoolInv, Counted
  <2> QED
    BY <1>1, <1>2, <2>1 DEF PoolInv, Unused
<1>3. \A i \in Pool!Items : word[i] = Pool!pool => i # free
  BY DEF PoolInv, Links
<1> QED
  BY <1>1, <1>2, <1>3

\* An item is lent: by a call of get at once, or to one who waited.
LEMMA CallLends ==
    ASSUME Pool!MPoolAssumption, PoolInv, NEW t \in Borrowers, NEW s \in Pool!Items, NEW words \in Words,
           \A i \in Pool!Items : word[i] = Pool!pool => words[i] = Pool!pool /\ i # s,
           Links(words, s, chunks' * ChunkSize), chunks' \in 0 .. ChunkLimit,
           Pool!Lend(t, s, words), Pool!Calls(t), UNCHANGED <<Pool!cvVars, Pool!life, waits>>
    PROVE  PoolInv'
<1>1. /\ Lent' /\ held' \in [Borrowers -> SUBSET Pool!Items]
      /\ s \notin held[t] /\ held'[t] = held[t] \cup {s}
      /\ \A u \in Borrowers \ {t} : held'[u] = held[u]
  BY LendLent DEF PoolInv
<1>2. held \in [Borrowers -> SUBSET Pool!Items] /\ lending \in Nat /\ Pool!nullptr \notin Pool!Items
  BY PoolFacts
<1>3. chunks' * ChunkSize \in Nat
  <2>1. chunks' \in Nat /\ ChunkSize \in Nat
    BY DEF Pool!MPoolAssumption
  <2>2. chunks' <= chunks'
    BY <2>1
  <2> QED
    BY ONLY <2>1, <2>2, ProductGrows
<1>4. word' = [words EXCEPT ![s] = Pool!pool] /\ free' = words[s]
  BY DEF Pool!Lend
<1>5. word' \in Words /\ free' \in Pool!Items \cup {Pool!nullptr}
      /\ Links(word', free', chunks' * ChunkSize)
  BY <1>3, <1>4, LendLinks
<1>6. <<t, s>> \notin Loans /\ Loans' = Loans \cup {<<t, s>>}
  BY <1>1, <1>2, ItemIsAdded DEF Loans
<1>7. lending' = lending + 1 /\ gets' = gets + 1 /\ gets < MaxGets /\ deleted = 0
  BY DEF Pool!Calls, Pool!Lives
<1>8. Counted'
  BY <1>2, <1>6, <1>7, LoanAdded DEF PoolInv
<1>9. Pool!TypeOK'
  <2>1. lending' \in Nat /\ gets' \in 0 .. MaxGets
    BY <1>2, <1>7 DEF PoolInv, Pool!TypeOK, Pool!MPoolAssumption
  <2> QED
    BY <1>1, <1>5, <2>1 DEF PoolInv, Pool!TypeOK, Pool!CondVarTypeOK, Pool!cvVars, Pool!life, Words
<1>10. deleted' = IF Unused' THEN 1 ELSE 0
  BY <1>6, <1>7 DEF Unused, Pool!life
<1> QED
  BY <1>1, <1>5, <1>8, <1>9, <1>10 DEF PoolInv

LEMMA WaitLends ==
    ASSUME Pool!MPoolAssumption, PoolInv, NEW t \in Borrowers, Pool!get_return(t)
    PROVE  PoolInv'
<1>1. /\ free \in Pool!Items /\ waits[t] /\ waits' = [waits EXCEPT ![t] = FALSE] /\ Pool!Lend(t, free, word)
      /\ UNCHANGED <<Pool!cvVars, chunks, lending, Pool!life, gets>>
  BY PoolFacts DEF Pool!get_return
<1>2. /\ held \in [Borrowers -> SUBSET Pool!Items] /\ lending \in Nat /\ Pool!nullptr \notin Pool!Items
      /\ word \in Words
      /\ \A i \in Pool!Items : word[i] = Pool!pool => i # free
  BY PoolFacts
<1>3. Pool!TypeOK /\ Lent /\ Links(word, free, chunks * ChunkSize)
  BY DEF PoolInv
<1>4. /\ Lent' /\ held' \in [Borrowers -> SUBSET Pool!Items]
      /\ free \notin held[t] /\ held'[t] = held[t] \cup {free}
      /\ \A u \in Borrowers \ {t} : held'[u] = held[u]
  BY <1>1, <1>2, <1>3, LendLent
<1>5. chunks * ChunkSize \in Nat
  <2>1. chunks \in Nat /\ ChunkSize \in Nat /\ chunks <= chunks
    BY <1>3 DEF Pool!MPoolAssumption, Pool!TypeOK
  <2> QED
    BY ONLY <2>1, ProductGrows
<1>6. word' \in Words /\ free' \in Pool!Items \cup {Pool!nullptr} /\ Links(word', free', chunks * ChunkSize)
  <2>1. word' = [word EXCEPT ![free] = Pool!pool] /\ free' = word[free]
    BY <1>1 DEF Pool!Lend
  <2> QED
    BY <1>1, <1>2, <1>3, <1>5, <2>1, LendLinks
<1>7. waits' \in [Borrowers -> BOOLEAN] /\ ~waits'[t] /\ \A u \in Borrowers \ {t} : waits'[u] = waits[u]
  BY <1>1, <1>3, Zenon DEF Pool!TypeOK
<1>8. <<t, Pool!nullptr>> \in Loans /\ LoansOf(held, waits') = Loans \ {<<t, Pool!nullptr>>}
  <2>1. Pool!nullptr \in Pool!Items \cup {Pool!nullptr}
        /\ \A u \in Borrowers \ {t} : held[u] = held[u] /\ (waits'[u] <=> waits[u])
    BY <1>7
  <2>2. IF Pool!nullptr = Pool!nullptr
        THEN waits[t] /\ ~waits'[t] /\ held[t] = held[t]
        ELSE Pool!nullptr \in held[t] /\ held[t] = held[t] \ {Pool!nullptr} /\ (waits'[t] <=> waits[t])
    BY <1>1, <1>7
  <2>3. t \in Borrowers
    OBVIOUS
  <2> QED
    BY ONLY <1>2, <2>1, <2>2, <2>3, LoanIsRemoved DEF Loans
<1>9. <<t, free>> \notin LoansOf(held, waits') /\ Loans' = LoansOf(held, waits') \cup {<<t, free>>}
  <2>1. /\ <<t, free>> \notin LoansOf(held, waits')
        /\ LoansOf(held', waits') = LoansOf(held, waits') \cup {<<t, free>>}
    <3>1. t \in Borrowers /\ free \in Pool!Items /\ held \in [Borrowers -> SUBSET Pool!Items]
      BY <1>1, <1>2
    <3> QED
      BY ONLY <1>4, <3>1, ItemIsAdded
  <2> QED
    BY <2>1 DEF Loans
<1>10. <<t, free>> \notin Loans
  <2>1. <<t, free>> # <<t, Pool!nullptr>>
    BY <1>1, <1>2, Pairs
  <2> QED
    BY <1>8, <1>9, <2>1
<1>11. Counted'
  <2>1. Counted /\ Loans' = (Loans \ {<<t, Pool!nullptr>>}) \cup {<<t, free>>} /\ lending' = lending
    BY <1>1, <1>8, <1>9 DEF PoolInv
  <2> QED
    BY ONLY <1>2, <1>8, <1>10, <2>1, LoanMoved
<1>12. Pool!TypeOK'
  BY <1>1, <1>3, <1>4, <1>6, <1>7 DEF Pool!TypeOK, Pool!CondVarTypeOK, Pool!cvVars, Pool!life, Words
<1>13. deleted' = IF Unused' THEN 1 ELSE 0
  <2>1. Loans # {} /\ Loans' # {}
    BY <1>8, <1>9
  <2> QED
    BY <1>1, <2>1 DEF PoolInv, Unused, Pool!life
<1> QED
  BY <1>1, <1>4, <1>6, <1>11, <1>12, <1>13 DEF PoolInv

LEMMA WaitCounts ==
    ASSUME Pool!MPoolAssumption, PoolInv, NEW t \in Borrowers, Pool!get_wait(t)
    PROVE  PoolInv'
<1>1. /\ ~waits[t] /\ waits' = [waits EXCEPT ![t] = TRUE] /\ parked' = parked \cup {t}
      /\ expired' = expired /\ lending' = lending + 1 /\ gets' \in 0 .. MaxGets /\ deleted = 0
      /\ UNCHANGED <<chunks, word, free, attached, deleted, held>>
  BY DEF Pool!get_wait, Pool!Calls, Pool!Lives, Pool!wait, Pool!life, PoolInv, Pool!TypeOK,
      Pool!MPoolAssumption
<1>2. held \in [Borrowers -> SUBSET Pool!Items] /\ lending \in Nat /\ Pool!nullptr \notin Pool!Items
  BY PoolFacts
<1>3. waits' \in [Borrowers -> BOOLEAN] /\ waits'[t] /\ \A u \in Borrowers \ {t} : waits'[u] = waits[u]
  BY <1>1, Zenon DEF PoolInv, Pool!TypeOK
<1>4. expired = {}
  BY DEF Pool!MPoolAssumption, PoolInv, Pool!TypeOK, Pool!CondVarTypeOK
<1>5. <<t, Pool!nullptr>> \notin Loans /\ Loans' = Loans \cup {<<t, Pool!nullptr>>}
  <2>1. /\ Pool!nullptr \in Pool!Items \cup {Pool!nullptr} /\ held' \in [Borrowers -> SUBSET Pool!Items]
        /\ \A u \in Borrowers \ {t} : held'[u] = held[u] /\ (waits'[u] <=> waits[u])
    BY <1>1, <1>2, <1>3
  <2>2. IF Pool!nullptr = Pool!nullptr
        THEN ~waits[t] /\ waits'[t] /\ held'[t] = held[t]
        ELSE Pool!nullptr \notin held[t] /\ held'[t] = held[t] \cup {Pool!nullptr} /\ (waits'[t] <=> waits[t])
    BY <1>1, <1>3
  <2>3. t \in Borrowers
    OBVIOUS
  <2> QED
    BY ONLY <1>2, <2>1, <2>2, <2>3, LoanIsAdded DEF Loans
<1>6. Counted'
  BY <1>1, <1>2, <1>5, LoanAdded DEF PoolInv
<1>7. Pool!TypeOK'
  BY <1>1, <1>2, <1>3, <1>4 DEF PoolInv, Pool!TypeOK, Pool!CondVarTypeOK
<1>8. Links(word, free, chunks * ChunkSize)' /\ Lent'
  BY <1>1 DEF PoolInv, Links, Lent
<1>9. deleted' = IF Unused' THEN 1 ELSE 0
  BY <1>1, <1>5 DEF Unused
<1> QED
  BY <1>6, <1>7, <1>8, <1>9 DEF PoolInv

LEMMA BackKeepsPool ==
    ASSUME Pool!MPoolAssumption, PoolInv, NEW t \in Borrowers, NEW s \in held[t], Pool!back(t, s)
    PROVE  PoolInv'
<1>1. /\ held' = [held EXCEPT ![t] = held[t] \ {s}] /\ word' = [word EXCEPT ![s] = free] /\ free' = s
      /\ lending' = lending - 1 /\ parked' \subseteq parked /\ expired' = expired
      /\ deleted' = IF lending' = 0 /\ ~attached THEN deleted + 1 ELSE deleted
      /\ UNCHANGED <<chunks, attached, waits, gets>>
  BY DEF Pool!back, Pool!DeletedIf, Pool!notify_all, Pool!cvVars
<1>2. /\ held \in [Borrowers -> SUBSET Pool!Items] /\ word \in Words /\ lending \in Nat
      /\ free \in Pool!Items \cup {Pool!nullptr} /\ Pool!nullptr \notin Pool!Items /\ s \in Pool!Items
  BY PoolFacts
<1>3. Pool!TypeOK /\ Lent /\ Links(word, free, chunks * ChunkSize) /\ word[s] = Pool!pool
  BY DEF PoolInv, Lent
<1>4. chunks * ChunkSize \in Nat
  <2>1. chunks \in Nat /\ ChunkSize \in Nat /\ chunks <= chunks
    BY <1>3 DEF Pool!MPoolAssumption, Pool!TypeOK
  <2> QED
    BY ONLY <2>1, ProductGrows
<1>5. word' \in Words /\ Links(word', free', chunks * ChunkSize)
  BY <1>1, <1>2, <1>3, <1>4, BackLinks
<1>6. /\ held' \in [Borrowers -> SUBSET Pool!Items] /\ held'[t] = held[t] \ {s}
      /\ \A u \in Borrowers \ {t} : held'[u] = held[u]
  BY <1>1, <1>2
<1>7. Lent'
  <2>1. ASSUME NEW u \in Borrowers, NEW i \in held'[u] PROVE word'[i] = Pool!pool
    <3>1. i \in held[u] /\ i # s /\ i \in Pool!Items
      BY <1>2, <1>3, <1>6, <2>1 DEF Lent
    <3> QED
      BY <1>1, <1>2, <1>3, <3>1 DEF Lent, Words
  <2>2. ASSUME NEW u \in Borrowers, NEW v \in Borrowers, held'[u] \cap held'[v] # {} PROVE u = v
    BY <1>3, <1>6, <2>2 DEF Lent
  <2> QED
    BY <2>1, <2>2 DEF Lent
<1>8. <<t, s>> \in Loans /\ Loans' = Loans \ {<<t, s>>}
  <2>1. s \in Pool!Items \cup {Pool!nullptr}
        /\ \A u \in Borrowers \ {t} : held'[u] = held[u] /\ (waits'[u] <=> waits[u])
    BY <1>1, <1>2, <1>6
  <2>2. IF s = Pool!nullptr
        THEN waits[t] /\ ~waits'[t] /\ held'[t] = held[t]
        ELSE s \in held[t] /\ held'[t] = held[t] \ {s} /\ (waits'[t] <=> waits[t])
    BY <1>1, <1>2, <1>6
  <2>3. t \in Borrowers
    OBVIOUS
  <2> QED
    BY ONLY <1>2, <1>6, <2>1, <2>2, <2>3, LoanIsRemoved DEF Loans
<1>9. Counted' /\ lending >= 1 /\ deleted = 0
  BY <1>1, <1>2, <1>8, LoanRemoved, PoolFacts DEF PoolInv
<1>10. Pool!TypeOK'
  <2>1. lending' \in Nat /\ deleted' \in Nat
    BY <1>1, <1>2, <1>9
  <2>2. free' \in Pool!Items \cup {Pool!nullptr}
    BY <1>1, <1>2
  <2> QED
    BY <1>1, <1>3, <1>5, <1>6, <2>1, <2>2 DEF Pool!TypeOK, Pool!CondVarTypeOK, Words
<1>11. deleted' = IF Unused' THEN 1 ELSE 0
  <2>1. lending' = 0 <=> Loans' = {}
    BY <1>9, FS_EmptySet DEF Counted
  <2> QED
    BY <1>1, <1>9, <2>1 DEF Unused
<1> QED
  BY <1>1, <1>5, <1>7, <1>9, <1>10, <1>11 DEF PoolInv

LEMMA MoveKeepsPool ==
    ASSUME PoolInv, NEW t \in Borrowers, NEW u \in Borrowers \ {t}, NEW s \in Pool!Items, Pool!move(t, u, s)
    PROVE  PoolInv'
<1>1. /\ s \in held[t] /\ held' = [held EXCEPT ![t] = held[t] \ {s}, ![u] = held[u] \cup {s}]
      /\ UNCHANGED <<Pool!cvVars, Pool!poolVars, Pool!life, waits, gets>>
  BY DEF Pool!move
<1>2. /\ held \in [Borrowers -> SUBSET Pool!Items] /\ Pool!nullptr \notin Pool!Items
  BY PoolFacts
<1> DEFINE mid == [held EXCEPT ![t] = held[t] \ {s}]
<1>3. /\ mid \in [Borrowers -> SUBSET Pool!Items] /\ mid[t] = held[t] \ {s}
      /\ \A v \in Borrowers \ {t} : mid[v] = held[v]
  BY <1>2
<1>4. /\ held' \in [Borrowers -> SUBSET Pool!Items] /\ held'[u] = mid[u] \cup {s}
      /\ \A v \in Borrowers \ {u} : held'[v] = mid[v]
  BY <1>1, <1>2, <1>3
<1>5. s \notin held[u]
  BY <1>1 DEF PoolInv, Lent
<1> HIDE DEF mid
<1>6. <<u, s>> \notin LoansOf(mid, waits) /\ LoansOf(held', waits) = LoansOf(mid, waits) \cup {<<u, s>>}
  BY <1>3, <1>4, <1>5, ItemIsAdded
<1>7. <<t, s>> \in Loans /\ LoansOf(mid, waits) = Loans \ {<<t, s>>}
  <2>1. /\ \A v \in Borrowers \ {t} : held[v] = mid[v]
        /\ s \notin mid[t] /\ held[t] = mid[t] \cup {s}
    BY <1>1, <1>3
  <2>2. <<t, s>> \notin LoansOf(mid, waits) /\ LoansOf(held, waits) = LoansOf(mid, waits) \cup {<<t, s>>}
    <3>1. t \in Borrowers /\ s \in Pool!Items
      OBVIOUS
    <3>2. mid \in [Borrowers -> SUBSET Pool!Items] /\ held \in [Borrowers -> SUBSET Pool!Items]
      BY <1>2, <1>3
    <3> QED
      BY ONLY <2>1, <3>1, <3>2, ItemIsAdded
  <2> QED
    BY <2>2 DEF Loans
<1>8. Loans' = (Loans \ {<<t, s>>}) \cup {<<u, s>>} /\ <<u, s>> \notin Loans
  <2>1. Loans' = LoansOf(held', waits)
    BY <1>1 DEF Loans
  <2>2. <<u, s>> # <<t, s>>
    BY Pairs
  <2> QED
    BY <1>6, <1>7, <2>1, <2>2
<1>9. Counted'
  <2>1. lending \in Nat /\ lending' = lending /\ Counted
    BY <1>1 DEF Pool!poolVars, PoolInv, Pool!TypeOK
  <2> QED
    BY ONLY <1>7, <1>8, <2>1, LoanMoved
<1>10. Pool!TypeOK'
  BY <1>1, <1>4 DEF PoolInv, Pool!TypeOK, Pool!CondVarTypeOK, Pool!cvVars, Pool!poolVars, Pool!life
<1>11. Lent'
  <2>1. \A v \in Borrowers : \A i \in held'[v] : (i \in held[v] /\ ~(v = t /\ i = s)) \/ (v = u /\ i = s)
    BY <1>3, <1>4
  <2>2. UNCHANGED word
    BY <1>1 DEF Pool!poolVars
  <2>3. ASSUME NEW v \in Borrowers, NEW i \in held'[v] PROVE word'[i] = Pool!pool
    <3>1. \A x \in Borrowers : \A j \in held[x] : word[j] = Pool!pool
      BY DEF PoolInv, Lent
    <3> QED
      BY ONLY <1>1, <2>1, <2>2, <2>3, <3>1
  <2>4. ASSUME NEW v \in Borrowers, NEW x \in Borrowers, held'[v] \cap held'[x] # {} PROVE v = x
    <3>1. PICK i : i \in held'[v] /\ i \in held'[x]
      BY <2>4
    <3>2. \A y, z \in Borrowers : i \in held[y] /\ i \in held[z] => y = z
      BY DEF PoolInv, Lent
    <3>3. t \in Borrowers /\ u \in Borrowers
      OBVIOUS
    <3> QED
      BY ONLY <1>1, <2>1, <2>4, <3>1, <3>2, <3>3
  <2> QED
    BY <2>3, <2>4 DEF Lent
<1>12. Links(word, free, chunks * ChunkSize)'
  BY <1>1 DEF Pool!poolVars, PoolInv, Links
<1>13. deleted' = IF Unused' THEN 1 ELSE 0
  BY <1>1, <1>7, <1>8 DEF Pool!life, PoolInv, Unused
<1> QED
  BY <1>9, <1>10, <1>11, <1>12, <1>13 DEF PoolInv

\* Who waits for an item is in get, and the chunks have all been made.
Parked == parked # {} \/ (\E t \in Borrowers : waits[t]) => Waitable /\ chunks = ChunkLimit

LEMMA StepPoolInv == Pool!MPoolAssumption /\ PoolInv /\ [Pool!Next]_Pool!vars => PoolInv'
<1> SUFFICES ASSUME Pool!MPoolAssumption, PoolInv, [Pool!Next]_Pool!vars PROVE PoolInv'
  OBVIOUS
<1>1. ASSUME NEW t \in Borrowers, Pool!get_free(t) PROVE PoolInv'
  <2>1. /\ word \in Words /\ free \in Pool!Items
        /\ \A i \in Pool!Items : word[i] = Pool!pool => word[i] = Pool!pool /\ i # free
    BY <1>1, PoolFacts DEF Pool!get_free
  <2>2. /\ chunks' = chunks /\ Links(word, free, chunks' * ChunkSize) /\ chunks' \in 0 .. ChunkLimit
        /\ Pool!Lend(t, free, word) /\ Pool!Calls(t) /\ UNCHANGED <<Pool!cvVars, Pool!life, waits>>
    BY <1>1 DEF Pool!get_free, PoolInv, Pool!TypeOK
  <2> QED
    BY <2>1, <2>2, CallLends
<1>2. ASSUME NEW t \in Borrowers, Pool!get_alloc(t) PROVE PoolInv'
  <2>1. /\ free = Pool!nullptr /\ chunks < ChunkLimit /\ chunks' = chunks + 1
        /\ Pool!Lend(t, chunks * ChunkSize + 1, Pool!alloc) /\ Pool!Calls(t)
        /\ UNCHANGED <<Pool!cvVars, Pool!life, waits>>
    BY <1>2 DEF Pool!get_alloc
  <2>2. word \in Words /\ chunks \in 0 .. ChunkLimit /\ Links(word, Pool!nullptr, chunks * ChunkSize)
    BY <2>1, PoolFacts DEF PoolInv, Pool!TypeOK
  <2>3. /\ Pool!alloc \in Words /\ chunks * ChunkSize + 1 \in Pool!Items
        /\ Links(Pool!alloc, chunks * ChunkSize + 1, (chunks + 1) * ChunkSize)
        /\ \A i \in Pool!Items :
               word[i] = Pool!pool => Pool!alloc[i] = Pool!pool /\ i # chunks * ChunkSize + 1
    BY <2>1, <2>2, AllocLinks
  <2>4. chunks' \in 0 .. ChunkLimit
    BY <2>1, <2>2 DEF Pool!MPoolAssumption
  <2> QED
    BY <2>1, <2>3, <2>4, CallLends
<1>3. ASSUME NEW t \in Borrowers, Pool!get_wait(t) PROVE PoolInv'
  BY <1>3, WaitCounts
<1>4. ASSUME NEW t \in Borrowers, Pool!get_return(t) PROVE PoolInv'
  BY <1>4, WaitLends
<1>5. ASSUME NEW t \in Borrowers, NEW s \in held[t], Pool!back(t, s) PROVE PoolInv'
  BY <1>5, BackKeepsPool
<1>6. ASSUME NEW t \in Borrowers, NEW u \in Borrowers \ {t}, NEW s \in Pool!Items, Pool!move(t, u, s)
      PROVE  PoolInv'
  BY <1>6, MoveKeepsPool
<1>7. ASSUME Pool!detached PROVE PoolInv'
  <2>1. /\ attached /\ ~attached' /\ attached' \in BOOLEAN
    BY <1>7, Zenon DEF Pool!detached
  <2>2. /\ deleted' = IF lending = 0 THEN deleted + 1 ELSE deleted
        /\ UNCHANGED <<Pool!cvVars, chunks, word, free, lending, held, waits, gets>>
    BY <1>7 DEF Pool!detached, Pool!DeletedIf, Pool!poolVars
  <2>3. deleted = 0 /\ lending \in Nat /\ (lending = 0 <=> Loans = {})
    BY <2>1, PoolFacts, FS_EmptySet DEF PoolInv, Unused, Counted
  <2>4. Loans' = Loans /\ deleted' = IF Unused' THEN 1 ELSE 0
    BY <2>1, <2>2, <2>3 DEF Unused, Loans
  <2>5. Links(word, free, chunks * ChunkSize)' /\ Lent' /\ Counted'
    BY <2>2, <2>4 DEF PoolInv, Links, Lent, Counted
  <2>6. Pool!TypeOK'
    BY <2>1, <2>2, <2>4 DEF PoolInv, Pool!TypeOK, Pool!CondVarTypeOK, Pool!cvVars
  <2> QED
    BY <2>4, <2>5, <2>6 DEF PoolInv
<1>8. ASSUME UNCHANGED <<Pool!poolVars, Pool!life, held, waits, gets>>, parked' \subseteq Borrowers, expired' = expired
      PROVE  PoolInv'
  <2>1. expired = {}
    BY DEF Pool!MPoolAssumption, PoolInv, Pool!TypeOK, Pool!CondVarTypeOK
  <2>2. Pool!TypeOK'
    BY <1>8, <2>1 DEF PoolInv, Pool!TypeOK, Pool!CondVarTypeOK, Pool!poolVars, Pool!life
  <2>3. Links(word, free, chunks * ChunkSize)' /\ Lent'
    BY <1>8 DEF PoolInv, Links, Lent, Pool!poolVars
  <2>4. Loans' = Loans
    BY <1>8 DEF Loans
  <2>5. Counted' /\ (deleted' = IF Unused' THEN 1 ELSE 0)
    BY <1>8, <2>4 DEF PoolInv, Counted, Unused, Pool!poolVars, Pool!life
  <2> QED
    BY <2>2, <2>3, <2>5 DEF PoolInv
<1>9. ASSUME NEW t \in Borrowers, Pool!get_again(t) PROVE PoolInv'
  BY <1>8, <1>9 DEF Pool!get_again, Pool!wait, PoolInv, Pool!TypeOK, Pool!CondVarTypeOK
<1>10. ASSUME NEW t \in Borrowers, Pool!WakeUp(t) /\ UNCHANGED <<Pool!poolVars, Pool!life, held, waits, gets>>
       PROVE  PoolInv'
  BY <1>8, <1>10 DEF Pool!WakeUp, PoolInv, Pool!TypeOK, Pool!CondVarTypeOK
<1>11. CASE UNCHANGED Pool!vars
  BY <1>8, <1>11 DEF Pool!vars, Pool!cvVars, PoolInv, Pool!TypeOK, Pool!CondVarTypeOK
<1> QED
  BY <1>1, <1>2, <1>3, <1>4, <1>5, <1>6, <1>7, <1>9, <1>10, <1>11 DEF Pool!Next, Pool!Runs, Pool!Back

LEMMA InitPoolInv == Pool!MPoolAssumption /\ Pool!Init => PoolInv /\ Parked /\ Pool!NoLostWakeup
<1> SUFFICES ASSUME Pool!MPoolAssumption, Pool!Init PROVE PoolInv /\ Parked /\ Pool!NoLostWakeup
  OBVIOUS
<1>1. Pool!TypeOK
  <2>1. attached \in BOOLEAN /\ waits \in [Borrowers -> BOOLEAN]
    BY Zenon DEF Pool!Init
  <2> QED
    BY <2>1 DEF Pool!MPoolAssumption, Pool!Init, Pool!CondVarInit, Pool!CondVarTypeOK, Pool!TypeOK
<1>2. Links(word, free, chunks * ChunkSize)
  <2>1. Pool!nullptr \notin Pool!Items /\ Pool!nullptr # Pool!pool
    BY DEF Pool!Items, Pool!nullptr, Pool!pool
  <2>2. free = Pool!nullptr /\ \A i \in Pool!Items : word[i] = Pool!nullptr
    BY DEF Pool!Init
  <2> QED
    BY <2>1, <2>2 DEF Links
<1>3. Lent
  BY DEF Pool!Init, Lent
<1>4. Loans = {}
  BY DEF Pool!Init, Loans, LoansOf
<1>5. Counted /\ deleted = IF Unused THEN 1 ELSE 0
  BY <1>4, FS_EmptySet DEF Pool!Init, Counted, Unused
<1> QED
  BY <1>1, <1>2, <1>3, <1>5 DEF Pool!Init, Pool!CondVarInit, PoolInv, Parked, Pool!NoLostWakeup

\* While items can still be made nobody is parked, and back notifies.
LEMMA StepPoolWakes ==
    Pool!TypeOK /\ Parked /\ Pool!NoLostWakeup /\ [Pool!Next]_Pool!vars => Parked' /\ Pool!NoLostWakeup'
<1> SUFFICES ASSUME Pool!TypeOK, Parked, Pool!NoLostWakeup, [Pool!Next]_Pool!vars
             PROVE  Parked' /\ Pool!NoLostWakeup'
  OBVIOUS
<1> USE DEF Parked, Pool!NoLostWakeup
<1>1. ASSUME NEW t \in Borrowers, Pool!get_free(t) PROVE Parked' /\ Pool!NoLostWakeup'
  BY <1>1 DEF Pool!get_free, Pool!cvVars
<1>2. ASSUME NEW t \in Borrowers, Pool!get_alloc(t) PROVE Parked' /\ Pool!NoLostWakeup'
  BY <1>2 DEF Pool!get_alloc, Pool!cvVars, Pool!TypeOK
<1>3. ASSUME NEW t \in Borrowers, Pool!get_wait(t) PROVE Parked' /\ Pool!NoLostWakeup'
  BY <1>3 DEF Pool!get_wait, Pool!wait
<1>4. ASSUME NEW t \in Borrowers, Pool!get_return(t) PROVE Parked' /\ Pool!NoLostWakeup'
  <2>1. waits[t] /\ free # Pool!nullptr
    BY <1>4 DEF Pool!get_return
  <2> QED
    BY <1>4, <2>1 DEF Pool!get_return, Pool!cvVars
<1>5. ASSUME NEW t \in Borrowers, NEW s \in held[t], Pool!back(t, s) PROVE Parked' /\ Pool!NoLostWakeup'
  BY <1>5 DEF Pool!back, Pool!notify_all, Pool!cvVars
<1>6. ASSUME NEW t \in Borrowers, NEW u \in Borrowers, NEW s \in Pool!Items, Pool!move(t, u, s)
      PROVE  Parked' /\ Pool!NoLostWakeup'
  BY <1>6 DEF Pool!move, Pool!cvVars, Pool!poolVars
<1>7. ASSUME Pool!detached PROVE Parked' /\ Pool!NoLostWakeup'
  BY <1>7 DEF Pool!detached, Pool!cvVars, Pool!poolVars
<1>8. ASSUME NEW t \in Borrowers, Pool!WakeUp(t)
      /\ UNCHANGED <<Pool!poolVars, Pool!life, held, waits, gets>>
      PROVE  Parked' /\ Pool!NoLostWakeup'
  BY <1>8 DEF Pool!WakeUp, Pool!poolVars
<1>9. CASE UNCHANGED Pool!vars
  BY <1>9 DEF Pool!vars, Pool!cvVars, Pool!poolVars
<1>10. ASSUME NEW t \in Borrowers, Pool!get_again(t) PROVE Parked' /\ Pool!NoLostWakeup'
  BY <1>10 DEF Pool!get_again, Pool!wait, Pool!poolVars
<1> QED
  BY <1>1, <1>2, <1>3, <1>4, <1>5, <1>6, <1>7, <1>8, <1>9, <1>10 DEF Pool!Next, Pool!Runs, Pool!Back

\* The strategy is gone when it is detached and has no loan left.
LEMMA PoolOutlives == PoolInv => Pool!PoolOutlivesItsItems
<1> SUFFICES ASSUME PoolInv PROVE Pool!PoolOutlivesItsItems
  OBVIOUS
<1>1. held \in [Borrowers -> SUBSET Pool!Items]
  BY PoolFacts
<1>2. ASSUME NEW t \in Borrowers, waits[t] \/ held[t] # {} PROVE Loans # {}
  <2>1. CASE waits[t]
    <3>1. <<t, Pool!nullptr>> \in LoansOf(held, waits)
      BY <1>1, <2>1, LoanMembers
    <3> QED
      BY <3>1 DEF Loans
  <2>2. CASE held[t] # {}
    <3>1. PICK i \in held[t] : i \in Pool!Items
      BY <1>1, <2>2
    <3>2. <<t, i>> \in LoansOf(held, waits)
      <4>1. i # Pool!nullptr /\ i \in Pool!Items \cup {Pool!nullptr}
        BY <3>1 DEF Pool!Items, Pool!nullptr
      <4> QED
        BY <1>1, <3>1, <4>1, LoanMembers
    <3> QED
      BY <3>2 DEF Loans
  <2> QED
    BY <1>2, <2>1, <2>2
<1>3. ASSUME Loans # {} PROVE \E t \in Borrowers : waits[t] \/ held[t] # {}
  <2>1. PICK p \in Borrowers \X (Pool!Items \cup {Pool!nullptr}) :
            (p[2] = Pool!nullptr /\ waits[p[1]]) \/ p[2] \in held[p[1]]
    BY <1>3 DEF Loans, LoansOf
  <2> QED
    BY <2>1
<1> QED
  BY <1>2, <1>3 DEF PoolInv, Unused, Pool!PoolOutlivesItsItems

-----------------------------------------------------------------------------
(* The free list reaches every item of the chunks that is not lent: each   *)
(* but the first is the next of one nearer to free_.                       *)

Ranked(w, f, m) ==
    \E r \in [Pool!Items -> Nat] :
        \A i \in Pool!Items : i <= m /\ w[i] # Pool!pool /\ i # f
            => \E j \in Pool!Items : w[j] = i /\ r[j] < r[i]

\* What follows is closed under next.
Closed(w, S) == S \subseteq Pool!Items /\ \A j \in S : w[j] \in Pool!Items => w[j] \in S

LEMMA RankedIsReached ==
    ASSUME NEW w \in Words, NEW f \in Pool!Items \cup {Pool!nullptr}, NEW m \in Nat,
           Ranked(w, f, m), Links(w, f, m),
           NEW S, Closed(w, S), f \in Pool!Items => f \in S,
           NEW i \in Pool!Items, i <= m, w[i] # Pool!pool
    PROVE  i \in S
<1> DEFINE Bad == {x \in Pool!Items : x <= m /\ w[x] # Pool!pool /\ x \notin S}
<1> SUFFICES ASSUME Bad # {} PROVE FALSE
  OBVIOUS
<1>1. PICK r \in [Pool!Items -> Nat] :
        \A x \in Pool!Items :
            x <= m /\ w[x] # Pool!pool /\ x # f => \E j \in Pool!Items : w[j] = x /\ r[j] < r[x]
  BY DEF Ranked
<1>2. PICK n \in {r[x] : x \in Bad} : \A k \in {r[x] : x \in Bad} : n <= k
  <2>1. {r[x] : x \in Bad} \subseteq Nat /\ {r[x] : x \in Bad} # {}
    BY <1>1
  <2> QED
    BY <2>1, Smallest
<1>3. PICK x \in Bad : r[x] = n
  BY <1>2
<1>4. PICK j \in Pool!Items : w[j] = x /\ r[j] < r[x]
  <2>1. x # f
    OBVIOUS
  <2> QED
    BY <1>1, <2>1
<1>5. j \notin Bad
  BY <1>1, <1>2, <1>3, <1>4
<1>6. j <= m /\ w[j] # Pool!pool
  <2>1. Pool!nullptr \notin Pool!Items /\ Pool!pool \notin Pool!Items /\ Pool!Items \subseteq Nat
    BY DEF Pool!Items, Pool!nullptr, Pool!pool
  <2> QED
    BY <1>4, <2>1 DEF Links
<1>7. j \in S
  BY <1>5, <1>6
<1> QED
  BY <1>4, <1>7 DEF Closed

LEMMA LendRanks ==
    ASSUME NEW w \in Words, NEW s \in Pool!Items, NEW m \in Nat, Ranked(w, s, m)
    PROVE  Ranked([w EXCEPT ![s] = Pool!pool], w[s], m)
<1> DEFINE v == [w EXCEPT ![s] = Pool!pool]
<1>1. v[s] = Pool!pool /\ \A i \in Pool!Items \ {s} : v[i] = w[i]
  BY DEF Words
<1>2. PICK r \in [Pool!Items -> Nat] :
        \A i \in Pool!Items :
            i <= m /\ w[i] # Pool!pool /\ i # s => \E j \in Pool!Items : w[j] = i /\ r[j] < r[i]
  BY DEF Ranked
<1> HIDE DEF v
<1>3. ASSUME NEW i \in Pool!Items, i <= m, v[i] # Pool!pool, i # w[s]
      PROVE  \E j \in Pool!Items : v[j] = i /\ r[j] < r[i]
  <2>1. i # s /\ w[i] # Pool!pool
    BY <1>1, <1>3
  <2>2. PICK j \in Pool!Items : w[j] = i /\ r[j] < r[i]
    BY <1>2, <1>3, <2>1
  <2> QED
    BY <1>1, <1>3, <2>2
<1>4. Ranked(v, w[s], m)
  BY <1>3 DEF Ranked
<1> QED
  BY <1>4 DEF v

LEMMA BackRanks ==
    ASSUME NEW w \in Words, NEW f \in Pool!Items \cup {Pool!nullptr}, NEW s \in Pool!Items, NEW m \in Nat,
           Ranked(w, f, m), w[s] = Pool!pool
    PROVE  Ranked([w EXCEPT ![s] = f], s, m)
<1> DEFINE v == [w EXCEPT ![s] = f]
<1>1. v[s] = f /\ \A i \in Pool!Items \ {s} : v[i] = w[i]
  BY DEF Words
<1>2. PICK r \in [Pool!Items -> Nat] :
        \A i \in Pool!Items :
            i <= m /\ w[i] # Pool!pool /\ i # f => \E j \in Pool!Items : w[j] = i /\ r[j] < r[i]
  BY DEF Ranked
<1> DEFINE q == [i \in Pool!Items |-> IF i = s THEN 0 ELSE r[i] + 1]
<1>3. q \in [Pool!Items -> Nat] /\ q[s] = 0 /\ \A i \in Pool!Items \ {s} : q[i] = r[i] + 1
  BY <1>2
<1> HIDE DEF v, q
<1>4. ASSUME NEW i \in Pool!Items, i <= m, v[i] # Pool!pool, i # s
      PROVE  \E j \in Pool!Items : v[j] = i /\ q[j] < q[i]
  <2>1. CASE i = f
    BY <1>1, <1>2, <1>3, <1>4, <2>1
  <2>2. CASE i # f
    <3>1. PICK j \in Pool!Items : w[j] = i /\ r[j] < r[i]
      BY <1>1, <1>2, <1>4, <2>2
    <3>2. j # s
      BY <3>1 DEF Pool!Items, Pool!pool
    <3> QED
      BY <1>1, <1>2, <1>3, <1>4, <3>1, <3>2
  <2> QED
    BY <2>1, <2>2
<1>5. Ranked(v, s, m)
  BY <1>3, <1>4 DEF Ranked
<1> QED
  BY <1>5 DEF v

\* When the list is empty everything is lent, and a new chunk is one list.
LEMMA AllocRanks ==
    ASSUME Pool!MPoolAssumption, word \in Words, chunks \in 0 .. ChunkLimit, chunks < ChunkLimit,
           Links(word, Pool!nullptr, chunks * ChunkSize), Ranked(word, Pool!nullptr, chunks * ChunkSize)
    PROVE  /\ Ranked(Pool!alloc, chunks * ChunkSize + 1, (chunks + 1) * ChunkSize)
           /\ \A i \in Pool!Items : Pool!alloc[i] = Pool!pool => word[i] = Pool!pool
<1>0. ChunkSize \in Nat \ {0} /\ ChunkLimit \in Nat /\ chunks \in Nat
  BY DEF Pool!MPoolAssumption
<1>1. PICK m \in Nat, n \in Nat :
          m = chunks * ChunkSize /\ n = (chunks + 1) * ChunkSize /\ n = m + ChunkSize
  BY <1>0, ProductGrows
<1>2. Pool!nullptr \notin Pool!Items /\ Pool!pool \notin Pool!Items /\ Pool!Items \subseteq Nat
      /\ Pool!nullptr # Pool!pool
  BY DEF Pool!Items, Pool!nullptr, Pool!pool
<1>3. \A i \in Pool!Items : i <= m => word[i] = Pool!pool
  <2>1. Links(word, Pool!nullptr, m) /\ Ranked(word, Pool!nullptr, m) /\ Closed(word, {})
    BY <1>1 DEF Closed
  <2>2. ASSUME NEW i \in Pool!Items, i <= m, word[i] # Pool!pool PROVE FALSE
    <3>1. Pool!nullptr \in Pool!Items \cup {Pool!nullptr}
          /\ (Pool!nullptr \in Pool!Items => Pool!nullptr \in {})
      BY <1>2
    <3>2. i \in {}
      BY <1>1, <2>1, <2>2, <3>1, RankedIsReached
    <3> QED
      BY <3>2
  <2> QED
    BY <2>2
<1>4. Pool!Chunk(chunks) = m + 1 .. n
  BY <1>1 DEF Pool!Chunk
<1>5. \A i \in Pool!Items :
          Pool!alloc[i] = IF i \in m + 1 .. n THEN IF i < n THEN i + 1 ELSE Pool!nullptr ELSE word[i]
  BY <1>1, <1>4 DEF Pool!alloc
<1>6. \A i \in Pool!Items : Pool!alloc[i] = Pool!pool => word[i] = Pool!pool
  BY <1>2, <1>5 DEF Pool!pool
<1> DEFINE r == [i \in Pool!Items |-> i]
<1>7. r \in [Pool!Items -> Nat]
  BY <1>2
<1>8. ASSUME NEW i \in Pool!Items, i <= n, Pool!alloc[i] # Pool!pool, i # m + 1
      PROVE  \E j \in Pool!Items : Pool!alloc[j] = i /\ r[j] < r[i]
  <2>1. i \in Nat /\ i > m + 1
    BY <1>2, <1>3, <1>5, <1>8
  <2>2. i - 1 \in Pool!Items /\ i - 1 \in m + 1 .. n /\ i - 1 < n
    BY <1>0, <1>8, <2>1 DEF Pool!Items
  <2>3. Pool!alloc[i - 1] = i
    BY <1>5, <2>1, <2>2
  <2> QED
    BY <2>1, <2>2, <2>3
<1>9. Ranked(Pool!alloc, m + 1, n)
  BY <1>7, <1>8 DEF Ranked
<1> QED
  BY <1>1, <1>6, <1>9

\* What is neither free nor held does not exist.
ListInv ==
    /\ Ranked(word, free, chunks * ChunkSize)
    /\ \A i \in Pool!Items : word[i] = Pool!pool => \E t \in Borrowers : i \in held[t]

LEMMA LendKeepsList ==
    ASSUME PoolInv, ListInv, NEW t \in Borrowers, NEW s \in Pool!Items, NEW words \in Words, Pool!Lend(t, s, words),
           NEW m \in Nat, m = chunks' * ChunkSize, Ranked(words, s, m),
           \A i \in Pool!Items : words[i] = Pool!pool => word[i] = Pool!pool
    PROVE  ListInv'
<1>1. word' = [words EXCEPT ![s] = Pool!pool] /\ free' = words[s]
      /\ held' = [held EXCEPT ![t] = held[t] \cup {s}]
  BY DEF Pool!Lend
<1>2. Ranked(word', free', m)
  BY <1>1, LendRanks
<1>3. ASSUME NEW i \in Pool!Items, word'[i] = Pool!pool PROVE \E u \in Borrowers : i \in held'[u]
  <2>1. held \in [Borrowers -> SUBSET Pool!Items]
    BY PoolFacts
  <2>2. CASE i = s
    BY <1>1, <2>1, <2>2
  <2>3. CASE i # s
    <3>1. words[i] = Pool!pool
      BY <1>1, <1>3, <2>3 DEF Words
    <3>2. PICK u \in Borrowers : i \in held[u]
      BY <3>1 DEF ListInv
    <3> QED
      BY <1>1, <2>1, <3>2
  <2> QED
    BY <2>2, <2>3
<1> QED
  BY <1>2, <1>3 DEF ListInv

LEMMA ChunksGrow ==
    ASSUME Pool!MPoolAssumption, PoolInv
    PROVE  chunks * ChunkSize \in Nat /\ (chunks + 1) * ChunkSize \in Nat
<1>1. chunks \in Nat /\ ChunkSize \in Nat
  BY DEF Pool!MPoolAssumption, PoolInv, Pool!TypeOK
<1> QED
  BY ONLY <1>1, ProductGrows

LEMMA InitListInv == Pool!MPoolAssumption /\ Pool!Init => ListInv
<1> SUFFICES ASSUME Pool!MPoolAssumption, Pool!Init PROVE ListInv
  OBVIOUS
<1>1. chunks * ChunkSize = 0 /\ \A i \in Pool!Items : ~(i <= 0) /\ i \in Nat
  BY DEF Pool!Init, Pool!MPoolAssumption, Pool!Items
<1>2. PICK r : r = [i \in Pool!Items |-> 0]
  OBVIOUS
<1>3. r \in [Pool!Items -> Nat]
  BY <1>2
<1>4. Ranked(word, free, chunks * ChunkSize)
  BY <1>1, <1>3 DEF Ranked
<1>5. \A i \in Pool!Items : word[i] # Pool!pool
  BY DEF Pool!Init, Pool!nullptr, Pool!pool
<1> QED
  BY <1>4, <1>5 DEF ListInv

LEMMA StepListInv ==
    Pool!MPoolAssumption /\ PoolInv /\ ListInv /\ [Pool!Next]_Pool!vars => ListInv'
<1> SUFFICES ASSUME Pool!MPoolAssumption, PoolInv, ListInv, [Pool!Next]_Pool!vars PROVE ListInv'
  OBVIOUS
<1>0. chunks * ChunkSize \in Nat /\ Ranked(word, free, chunks * ChunkSize)
      /\ \A i \in Pool!Items : word[i] = Pool!pool => \E t \in Borrowers : i \in held[t]
  BY ChunksGrow DEF ListInv
<1>1. ASSUME NEW t \in Borrowers, Pool!get_free(t) PROVE ListInv'
  <2>1. free \in Pool!Items /\ Pool!Lend(t, free, word) /\ chunks' = chunks /\ word \in Words
    BY <1>1, PoolFacts DEF Pool!get_free
  <2> QED
    BY <1>0, <2>1, LendKeepsList
<1>2. ASSUME NEW t \in Borrowers, Pool!get_return(t) PROVE ListInv'
  <2>1. free \in Pool!Items /\ Pool!Lend(t, free, word) /\ chunks' = chunks /\ word \in Words
    BY <1>2, PoolFacts DEF Pool!get_return
  <2> QED
    BY <1>0, <2>1, LendKeepsList
<1>3. ASSUME NEW t \in Borrowers, Pool!get_alloc(t) PROVE ListInv'
  <2>1. /\ free = Pool!nullptr /\ chunks < ChunkLimit /\ chunks' = chunks + 1
        /\ Pool!Lend(t, chunks * ChunkSize + 1, Pool!alloc)
    BY <1>3 DEF Pool!get_alloc
  <2>2. word \in Words /\ chunks \in 0 .. ChunkLimit /\ Links(word, Pool!nullptr, chunks * ChunkSize)
    BY <2>1, PoolFacts DEF PoolInv, Pool!TypeOK
  <2>3. Pool!alloc \in Words /\ chunks * ChunkSize + 1 \in Pool!Items
    BY <2>1, <2>2, AllocLinks
  <2>4. /\ Ranked(Pool!alloc, chunks * ChunkSize + 1, (chunks + 1) * ChunkSize)
        /\ \A i \in Pool!Items : Pool!alloc[i] = Pool!pool => word[i] = Pool!pool
    BY <1>0, <2>1, <2>2, AllocRanks
  <2>5. (chunks + 1) * ChunkSize \in Nat
    BY ChunksGrow
  <2> QED
    BY <2>1, <2>3, <2>4, <2>5, LendKeepsList
<1>4. ASSUME NEW t \in Borrowers, NEW s \in held[t], Pool!back(t, s) PROVE ListInv'
  <2>1. /\ held' = [held EXCEPT ![t] = held[t] \ {s}] /\ word' = [word EXCEPT ![s] = free] /\ free' = s
        /\ chunks' = chunks
    BY <1>4 DEF Pool!back
  <2>2. s \in Pool!Items /\ word[s] = Pool!pool /\ held \in [Borrowers -> SUBSET Pool!Items]
        /\ word \in Words
        /\ free \in Pool!Items \cup {Pool!nullptr}
    BY <1>4, PoolFacts DEF PoolInv, Lent
  <2>3. Ranked(word', free', chunks' * ChunkSize)
    BY <1>0, <2>1, <2>2, BackRanks
  <2>4. ASSUME NEW i \in Pool!Items, word'[i] = Pool!pool PROVE \E u \in Borrowers : i \in held'[u]
    <3>1. i # s
      <4>1. free # Pool!pool
        BY <2>2 DEF Pool!Items, Pool!nullptr, Pool!pool
      <4> QED
        BY <2>1, <2>2, <2>4, <4>1 DEF Words
    <3>2. PICK u \in Borrowers : i \in held[u]
      BY <1>0, <2>1, <2>2, <2>4, <3>1 DEF Words
    <3> QED
      BY <2>1, <2>2, <3>1, <3>2
  <2> QED
    BY <2>3, <2>4 DEF ListInv
<1>5. ASSUME NEW t \in Borrowers, NEW u \in Borrowers \ {t}, NEW s \in Pool!Items, Pool!move(t, u, s)
      PROVE  ListInv'
  <2>1. /\ held' = [held EXCEPT ![t] = held[t] \ {s}, ![u] = held[u] \cup {s}]
        /\ word' = word /\ free' = free /\ chunks' = chunks
    BY <1>5 DEF Pool!move, Pool!poolVars
  <2>2. held \in [Borrowers -> SUBSET Pool!Items]
    BY PoolFacts
  <2>3. held'[u] = held[u] \cup {s} /\ \A v \in Borrowers : held[v] \subseteq held'[v] \cup {s}
    BY <2>1, <2>2
  <2>4. ASSUME NEW i \in Pool!Items, word'[i] = Pool!pool PROVE \E v \in Borrowers : i \in held'[v]
    <3>1. PICK v \in Borrowers : i \in held[v]
      BY <1>0, <2>1, <2>4
    <3> QED
      BY <2>3, <3>1
  <2> QED
    BY <1>0, <2>1, <2>4 DEF ListInv
<1>6. ASSUME UNCHANGED <<chunks, word, free, held>> PROVE ListInv'
  BY <1>0, <1>6 DEF ListInv
<1> USE DEF Pool!poolVars
<1>7. ASSUME Pool!detached PROVE ListInv'
  BY <1>6, <1>7 DEF Pool!detached
<1>8. ASSUME NEW t \in Borrowers,
             \/ Pool!get_wait(t) \/ Pool!get_again(t)
             \/ Pool!WakeUp(t) /\ UNCHANGED <<Pool!poolVars, Pool!life, held, waits, gets>>
      PROVE  ListInv'
  BY <1>6, <1>8 DEF Pool!get_wait, Pool!get_again
<1>9. CASE UNCHANGED Pool!vars
  BY <1>6, <1>9 DEF Pool!vars
<1> QED
  BY <1>1, <1>2, <1>3, <1>4, <1>5, <1>7, <1>8, <1>9 DEF Pool!Next, Pool!Runs, Pool!Back

LEMMA PoolInvMeans == 
    Pool!MPoolAssumption /\ PoolInv /\ ListInv => Pool!ItemIsInOnePlace
<1> SUFFICES ASSUME Pool!MPoolAssumption, PoolInv, ListInv PROVE Pool!ItemIsInOnePlace
  OBVIOUS
<1>0. /\ word \in Words /\ free \in Pool!Items \cup {Pool!nullptr}
      /\ held \in [Borrowers -> SUBSET Pool!Items]
      /\ chunks * ChunkSize \in Nat /\ Links(word, free, chunks * ChunkSize)
      /\ Ranked(word, free, chunks * ChunkSize) /\ Lent
      /\ Pool!nullptr \notin Pool!Items /\ Pool!pool \notin Pool!Items
  BY PoolFacts, ChunksGrow DEF PoolInv, ListInv, Pool!Items, Pool!pool
<1>1. ASSUME NEW i \in Pool!Items, i <= chunks * ChunkSize
      PROVE  i \in Pool!FreeList <=> word[i] # Pool!pool
  <2>1. ASSUME word[i] # Pool!pool PROVE i \in Pool!FreeList
    <3>1. ASSUME NEW S \in SUBSET Pool!Items, free \in Pool!Items => free \in S,
                 \A j \in S : word[j] \in Pool!Items => word[j] \in S
          PROVE  i \in S
      <4>1. Closed(word, S)
        BY <3>1 DEF Closed
      <4> QED
        BY <1>0, <1>1, <2>1, <3>1, <4>1, RankedIsReached
    <3> QED
      BY <3>1 DEF Pool!FreeList
  <2>2. ASSUME i \in Pool!FreeList PROVE word[i] # Pool!pool
    <3> DEFINE S == {j \in Pool!Items : word[j] # Pool!pool}
    <3>1. S \in SUBSET Pool!Items /\ (free \in Pool!Items => free \in S)
          /\ \A j \in S : word[j] \in Pool!Items => word[j] \in S
      BY <1>0 DEF Links
    <3> HIDE DEF S
    <3>2. i \in S
      BY <2>2, <3>1 DEF Pool!FreeList
    <3> QED
      BY <3>2 DEF S
  <2> QED
    BY <2>1, <2>2
<1>2. ASSUME NEW i \in Pool!Items
      PROVE  Cardinality({t \in Borrowers : i \in held[t]}) = IF word[i] = Pool!pool THEN 1 ELSE 0
  <2>1. CASE word[i] = Pool!pool
    <3>1. PICK t \in Borrowers : i \in held[t]
      BY <2>1 DEF ListInv
    <3>2. {u \in Borrowers : i \in held[u]} = {t}
      BY <1>0, <3>1 DEF Lent
    <3> QED
      BY <2>1, <3>2, FS_Singleton
  <2>2. CASE word[i] # Pool!pool
    <3>1. {u \in Borrowers : i \in held[u]} = {}
      BY <1>0, <2>2 DEF Lent
    <3> QED
      BY <2>2, <3>1, FS_EmptySet
  <2> QED
    BY <2>1, <2>2
<1>3. \A S : Pool!Cardinality(S) = Cardinality(S)
  BY DEF Pool!Cardinality, Cardinality
<1>4. ASSUME NEW i \in Pool!Items, i <= chunks * ChunkSize
      PROVE  Pool!Cardinality({t \in Borrowers : i \in held[t]}) = IF i \in Pool!FreeList THEN 0 ELSE 1
  BY <1>1, <1>2, <1>3, <1>4
<1> QED
  BY <1>0, <1>4 DEF Pool!ItemIsInOnePlace, Lent

LEMMA PoolInvariant == Pool!MPoolAssumption => (Pool!Spec => [](PoolInv /\ Parked /\ Pool!NoLostWakeup))
<1>1. PoolInv => Pool!TypeOK
  BY DEF PoolInv
<1>2. ASSUME Pool!MPoolAssumption PROVE Pool!Spec => [](PoolInv /\ Parked /\ Pool!NoLostWakeup)
  BY <1>1, <1>2, InitPoolInv, StepPoolInv, StepPoolWakes, PTL DEF Pool!Spec
<1> QED
  BY <1>2

\* The strategy deletes itself once, when it is detached and nothing is lent: not before the
\* last pointer or waiting thread is gone, in whatever order they and the mpool go.
THEOREM PoolLivesAsLongAsUsed == Pool!MPoolAssumption => (Pool!Spec => []Pool!PoolOutlivesItsItems)
<1>1. ASSUME Pool!MPoolAssumption PROVE Pool!Spec => []Pool!PoolOutlivesItsItems
  BY <1>1, PoolOutlives, PoolInvariant, PTL
<1> QED
  BY <1>1

\* No item is in the hands of two threads, and none that is free is in the hands of any.
THEOREM ItemIsLentOnce == Pool!MPoolAssumption => (Pool!Spec => []Lent)
<1>1. PoolInv => Lent
  BY DEF PoolInv
<1>2. ASSUME Pool!MPoolAssumption PROVE Pool!Spec => []Lent
  BY <1>1, <1>2, PoolInvariant, PTL
<1> QED
  BY <1>2

\* Nobody sleeps in get while an item is free.
THEOREM PoolWakes == Pool!MPoolAssumption => (Pool!Spec => []Pool!NoLostWakeup)
<1>1. ASSUME Pool!MPoolAssumption PROVE Pool!Spec => []Pool!NoLostWakeup
  BY <1>1, PoolInvariant, PTL
<1> QED
  BY <1>1

-----------------------------------------------------------------------------
(* Theorems about the pipe1: whoever waits at it waits for the state it is *)
(* in, and only the element in it is on its way.                           *)

PipeAssumption == Pipe!Pipe1Assumption /\ Pipe!Pipe1UseAssumption

PipeInv ==
    /\ state1 \in [{"pipe"} -> Pipe!States]
    /\ data1 \in [{"pipe"} -> (1 .. MaxElems) \cup {0}]
    /\ at1 \in [Putters \cup Getters -> {{}, {"pipe"}}]
    /\ expired \subseteq PipeTimed /\ \A t \in expired : at1[t] = {}
    /\ puts1 \in 0 .. MaxElems /\ Counts(got1)
    /\ \/ puts1 - Len(got1) = (IF state1["pipe"] \in {"EXIST", "CLOSING"} THEN 1 ELSE 0)
       \/ state1["pipe"] = "ABORTED" /\ puts1 - Len(got1) <= 1
    /\ state1["pipe"] \in {"EXIST", "CLOSING"} => data1["pipe"] = puts1
    /\ \A t \in Putters \cup Getters :
          at1[t] = {"pipe"} => state1["pipe"] = IF t \in Putters THEN "EXIST" ELSE "EMPTY"
    /\ ended1 => state1["pipe"] \in {"CLOSED", "ABORTED"} /\ Len(got1) = puts1

LEMMA OnePipe == Pipe!p1 = "pipe"
  BY DEF Pipe!p1

LEMMA InitPipeInv == PipeAssumption /\ Pipe!Init => PipeInv
<1> SUFFICES ASSUME PipeAssumption, Pipe!Init PROVE PipeInv
  OBVIOUS
<1>1. /\ state1 = [p \in {"pipe"} |-> "EMPTY"] /\ data1 = [p \in {"pipe"} |-> 0]
      /\ at1 = [t \in Putters \cup Getters |-> {}] /\ expired = {} /\ puts1 = 0 /\ got1 = <<>>
      /\ ended1 = FALSE
  BY DEF Pipe!Init, Pipe!PipeInit
<1>2. MaxElems \in Nat
  BY DEF PipeAssumption, Pipe!Pipe1UseAssumption
<1>3. state1["pipe"] = "EMPTY" /\ Len(got1) = 0 /\ \A t \in Putters \cup Getters : at1[t] = {}
  BY <1>1
<1>4. state1 \in [{"pipe"} -> Pipe!States] /\ data1 \in [{"pipe"} -> (1 .. MaxElems) \cup {0}]
      /\ at1 \in [Putters \cup Getters -> {{}, {"pipe"}}]
  BY <1>1 DEF Pipe!States
<1>5. puts1 \in 0 .. MaxElems /\ Counts(got1)
  BY <1>1, <1>2, CountsNothing
<1>6. puts1 = 0 /\ expired = {} /\ ~ended1
  BY <1>1, Zenon
<1> QED
  BY <1>3, <1>4, <1>5, <1>6 DEF PipeInv

LEMMA StepPipeInv == PipeAssumption /\ PipeInv /\ [Pipe!Next]_Pipe!vars => PipeInv'
<1> SUFFICES ASSUME PipeAssumption, PipeInv, [Pipe!Next]_Pipe!vars PROVE PipeInv'
  OBVIOUS
<1> DEFINE T == Putters \cup Getters
           s == state1["pipe"]
<1>0. /\ state1 \in [{"pipe"} -> Pipe!States]
      /\ data1 \in [{"pipe"} -> (1 .. MaxElems) \cup {0}]
      /\ at1 \in [T -> {{}, {"pipe"}}]
      /\ expired \subseteq PipeTimed /\ \A t \in expired : at1[t] = {}
      /\ puts1 \in 0 .. MaxElems /\ Counts(got1) /\ Len(got1) \in Nat
      /\ \/ puts1 - Len(got1) = (IF s \in {"EXIST", "CLOSING"} THEN 1 ELSE 0)
         \/ s = "ABORTED" /\ puts1 - Len(got1) <= 1
      /\ s \in {"EXIST", "CLOSING"} => data1["pipe"] = puts1
      /\ \A t \in T : at1[t] = {"pipe"} => s = IF t \in Putters THEN "EXIST" ELSE "EMPTY"
      /\ ended1 => s \in {"CLOSED", "ABORTED"} /\ Len(got1) = puts1
  BY CountsOn DEF PipeInv
<1>a. MaxElems \in Nat /\ PipeTimed \subseteq T /\ Putters \cap Getters = {}
  BY DEF PipeAssumption, Pipe!Pipe1Assumption, Pipe!Pipe1UseAssumption
\* The state changes, and all at the pipe are woken.
<1>1. ASSUME NEW n \in Pipe!States, state1' = [state1 EXCEPT !["pipe"] = n],
             \A t \in T : at1'[t] = at1[t] \ {"pipe"}, DOMAIN at1' = T, at1' = [t \in T |-> at1'[t]], expired' = expired,
             data1' \in [{"pipe"} -> (1 .. MaxElems) \cup {0}],
             puts1' \in 0 .. MaxElems, Counts(got1'),
             \/ puts1' - Len(got1') = (IF n \in {"EXIST", "CLOSING"} THEN 1 ELSE 0)
             \/ n = "ABORTED" /\ puts1' - Len(got1') <= 1,
             n \in {"EXIST", "CLOSING"} => data1'["pipe"] = puts1',
             ended1' => n \in {"CLOSED", "ABORTED"} /\ Len(got1') = puts1'
      PROVE  PipeInv'
  <2>1. state1' \in [{"pipe"} -> Pipe!States] /\ state1'["pipe"] = n
    BY <1>0, <1>1
  <2>2. \A t \in T : at1'[t] = {}
    BY <1>0, <1>1
  <2>3. at1' \in [T -> {{}, {"pipe"}}]
    BY <1>1, <2>2
  <2> QED
    BY <1>0, <1>a, <1>1, <2>1, <2>2, <2>3 DEF PipeInv
\* A thread comes or goes.
<1>2. ASSUME UNCHANGED <<state1, data1, puts1, got1>>,
             expired' \subseteq PipeTimed, \A t \in expired' : at1'[t] = {}, at1' \in [T -> {{}, {"pipe"}}],
             \A t \in T : at1'[t] = {"pipe"} => s = IF t \in Putters THEN "EXIST" ELSE "EMPTY",
             ended1' => s \in {"CLOSED", "ABORTED"} /\ Len(got1) = puts1
      PROVE  PipeInv'
  BY <1>0, <1>2 DEF PipeInv
<1> USE OnePipe DEF Pipe!notify_all, Pipe!Becomes, Pipe!wait, Pipe!pipeVars
<1>3. ASSUME NEW t \in Putters, Pipe!put_framework(t) PROVE PipeInv'
  <2>1. CASE Pipe!put_wait(t, "pipe") /\ UNCHANGED <<op1, puts1>>
    <3>1. /\ s = "EXIST" /\ at1' = [at1 EXCEPT ![t] = {"pipe"}]
          /\ UNCHANGED <<state1, data1, expired, puts1, got1, ended1>>
          /\ t \notin expired
      BY <1>3, <2>1 DEF Pipe!put_wait, Pipe!put_framework, Pipe!Runs, Pipe!Awake
    <3>2. at1' \in [T -> {{}, {"pipe"}}] /\ \A u \in T : u # t => at1'[u] = at1[u]
      BY <1>0, <3>1
    <3> QED
      BY <1>0, <1>a, <1>2, <3>1, <3>2
  <2>2. CASE puts1 < MaxElems /\ Pipe!put_ok("pipe", puts1 + 1) /\ puts1' = puts1 + 1
    <3>1. /\ s = "EMPTY" /\ state1' = [state1 EXCEPT !["pipe"] = "EXIST"]
          /\ data1' = [data1 EXCEPT !["pipe"] = puts1 + 1]
          /\ at1' = [u \in T |-> at1[u] \ {"pipe"}] /\ UNCHANGED <<expired, got1, ended1>>
      BY <1>3, <2>2 DEF Pipe!put_ok, Pipe!put_framework
    <3>2. puts1 + 1 \in 1 .. MaxElems /\ data1' \in [{"pipe"} -> (1 .. MaxElems) \cup {0}]
          /\ data1'["pipe"] = puts1 + 1
      BY <1>0, <1>a, <2>2, <3>1
    <3>3. Len(got1) = puts1 /\ ~ended1
      BY <1>0, <3>1
    <3> QED
      BY <1>0, <1>1, <1>a, <2>2, <3>1, <3>2, <3>3 DEF Pipe!States
  <2>3. CASE Pipe!put_refused("pipe") /\ UNCHANGED puts1
    BY <1>0, <1>2, <1>3, <2>3 DEF Pipe!put_refused, Pipe!put_framework
  <2> QED
    BY <1>3, <2>1, <2>2, <2>3 DEF Pipe!put_framework
<1>4. ASSUME NEW t \in Getters, Pipe!get(t) PROVE PipeInv'
  <2>1. CASE Pipe!get_wait(t, "pipe") /\ UNCHANGED <<op1, got1, ended1>>
    <3>1. /\ s = "EMPTY" /\ at1' = [at1 EXCEPT ![t] = {"pipe"}]
          /\ UNCHANGED <<state1, data1, expired, puts1, got1, ended1>>
          /\ t \notin expired
      BY <1>4, <2>1 DEF Pipe!get_wait, Pipe!get, Pipe!Runs, Pipe!Awake
    <3>2. at1' \in [T -> {{}, {"pipe"}}] /\ \A u \in T : u # t => at1'[u] = at1[u]
      BY <1>0, <3>1
    <3> QED
      BY <1>0, <1>a, <1>2, <3>1, <3>2
  <2>2. CASE Pipe!get_ok("pipe") /\ got1' = Append(got1, data1["pipe"]) /\ UNCHANGED ended1
    <3>1. PICK n : n = IF s = "EXIST" THEN "EMPTY" ELSE "CLOSED"
      OBVIOUS
    <3>2. /\ s \in {"EXIST", "CLOSING"} /\ state1' = [state1 EXCEPT !["pipe"] = n]
          /\ data1' = [data1 EXCEPT !["pipe"] = 0] /\ at1' = [u \in T |-> at1[u] \ {"pipe"}]
          /\ UNCHANGED <<expired, puts1, ended1>>
      BY <1>4, <2>2, <3>1 DEF Pipe!get_ok, Pipe!get
    <3>3. data1["pipe"] = Len(got1) + 1 /\ puts1 = Len(got1) + 1 /\ ~ended1
      BY <1>0, <3>2
    <3>4. Counts(got1') /\ Len(got1') = puts1
      BY <1>0, <2>2, <3>3, CountsOn
    <3>5. data1' \in [{"pipe"} -> (1 .. MaxElems) \cup {0}] /\ puts1' = puts1
      BY <1>0, <3>2
    <3>6. n \in {"EMPTY", "CLOSED"}
      BY <3>1
    <3>7. /\ n \in Pipe!States /\ n \notin {"EXIST", "CLOSING"} /\ puts1' - Len(got1') = 0
          /\ ~ended1'
      BY <1>0, <3>2, <3>3, <3>4, <3>5, <3>6 DEF Pipe!States
    <3>8. /\ \A u \in T : at1'[u] = at1[u] \ {"pipe"}
          /\ DOMAIN at1' = T /\ at1' = [u \in T |-> at1'[u]]
      BY <3>2
    <3> QED
      BY <1>0, <1>1, <3>2, <3>4, <3>5, <3>7, <3>8
  <2>3. CASE Pipe!get_refused("pipe") /\ ended1' = (ended1 \/ s = "CLOSED") /\ UNCHANGED got1
    <3>1. ended1' => ended1 \/ s = "CLOSED"
      BY <2>3, Zenon
    <3>2. ended1' => s \in {"CLOSED", "ABORTED"} /\ Len(got1) = puts1
      BY <1>0, <3>1
    <3> QED
      BY <1>0, <1>2, <1>4, <2>3, <3>2 DEF Pipe!get_refused, Pipe!get
  <2> QED
    BY <1>4, <2>1, <2>2, <2>3 DEF Pipe!get
<1>5. ASSUME NEW t \in T, Pipe!timeout(t) PROVE PipeInv'
  BY <1>0, <1>2, <1>5 DEF Pipe!timeout, Pipe!TimedOut
<1>6. ASSUME Pipe!control PROVE PipeInv'
  <2>0. UNCHANGED <<data1, puts1, got1, ended1>>
    BY <1>6 DEF Pipe!control, Pipe!close, Pipe!abort
  <2>1. CASE Pipe!close("pipe")
    <3>1. PICK n : n = CASE s = "EMPTY" -> "CLOSED" [] s = "EXIST" -> "CLOSING" [] OTHER -> s
      OBVIOUS
    <3>2. state1' = [state1 EXCEPT !["pipe"] = n] /\ at1' = [u \in T |-> at1[u] \ {"pipe"}]
          /\ expired' = expired
      BY <2>1, <3>1 DEF Pipe!close
    <3>3. n \in Pipe!States /\ (n \in {"EXIST", "CLOSING"} <=> s \in {"EXIST", "CLOSING"})
          /\ (n = "ABORTED" <=> s = "ABORTED") /\ (s \in {"CLOSED", "ABORTED"} => n = s)
      BY <1>0, <3>1 DEF Pipe!States
    <3> QED
      BY <1>0, <1>1, <2>0, <3>2, <3>3
  <2>2. CASE Pipe!abort("pipe") /\ s # "ABORTED"
    BY <1>0, <1>1, <2>0, <2>2 DEF Pipe!abort, Pipe!States
  <2>3. CASE Pipe!abort("pipe") /\ s = "ABORTED"
    <3>1. state1' = state1 /\ UNCHANGED <<at1, expired>>
      BY <1>0, <2>3 DEF Pipe!abort
    <3> QED
      BY <1>0, <1>2, <2>0, <3>1
  <2> QED
    BY <1>6, <2>1, <2>2, <2>3 DEF Pipe!control
<1>7. ASSUME NEW t \in T, Pipe!WakeUp(t) \/ Pipe!Expire(t), UNCHANGED <<op1, puts1, got1, ended1>>
      PROVE  PipeInv'
  <2>1. /\ at1' = [at1 EXCEPT ![t] = {}] /\ UNCHANGED <<state1, data1, puts1, got1, ended1>>
        /\ expired' = expired \/ (expired' = expired \cup {t} /\ t \in PipeTimed)
    BY <1>7 DEF Pipe!WakeUp, Pipe!Expire
  <2>2. at1' \in [T -> {{}, {"pipe"}}] /\ at1'[t] = {} /\ \A u \in T : u # t => at1'[u] = at1[u]
    BY <1>0, <2>1
  <2> QED
    BY <1>0, <1>a, <1>2, <2>1, <2>2
<1>8. ASSUME UNCHANGED Pipe!pipeVars, UNCHANGED <<puts1, got1, ended1>> PROVE PipeInv'
  BY <1>0, <1>2, <1>8
<1> QED
  BY <1>3, <1>4, <1>5, <1>6, <1>7, <1>8 DEF Pipe!Next, Pipe!Moves, Pipe!call, Pipe!vars

LEMMA PipeInvMeans ==
    PipeAssumption /\ PipeInv => Pipe!NoLostWakeup /\ Pipe!InOrder /\ Pipe!ClosedIsDrained
<1> SUFFICES ASSUME PipeInv PROVE Pipe!NoLostWakeup /\ Pipe!InOrder /\ Pipe!ClosedIsDrained
  OBVIOUS
<1>1. got1 = [k \in 1 .. Len(got1) |-> k]
  BY DEF PipeInv, Counts
<1>2. Pipe!NoLostWakeup
  BY OnePipe DEF PipeInv, Pipe!NoLostWakeup
<1> QED
  BY <1>1, <1>2, OnePipe DEF PipeInv, Pipe!InOrder, Pipe!ClosedIsDrained

-----------------------------------------------------------------------------
(* Theorems about the fpipe: where its two buffers are, and which elements *)
(* are in them.  In the order they will be got, the elements are in the    *)
(* buffer of the getter, in the one on its way, and in the putter's.       *)

Calls(p) == state[p] \in {"EXIST", "CLOSING"}   \* a buffer is in the pipe1 p

FPipeTypes ==
    /\ state \in [{"put2get", "get2put"} -> FPipe!States]
    /\ data \in [{"put2get", "get2put"} -> {0, 1, 2}]
    /\ at \in [{"putter", "getter"} -> SUBSET {"put2get", "get2put"}]
    /\ expired \subseteq {"putter", "getter"} /\ \A t \in expired : at[t] = {}
    /\ put_ \in {0, 1, 2} /\ get_ \in {0, 1, 2}
    /\ call \in {"none", "put", "flush", "close"}
    /\ ppc \in {"idle", "send", "recv", "store", "close", "reset", "closed"}
    /\ gpc \in {"idle", "give", "take", "load"}
    /\ ended \in BOOLEAN /\ cut \in BOOLEAN

\* Who waits is in a call that waits; the putter sends what it has and fetches what it has not,
\* and so does the getter; and the pipe is closed by close alone.
FPipeControl ==
    /\ at["putter"] # {} \/ "putter" \in expired => ppc \in {"send", "recv"}
    /\ at["getter"] # {} \/ "getter" \in expired => gpc \in {"give", "take"}
    /\ (ppc \in {"send", "store"} => put_ # 0) /\ (ppc = "recv" => put_ = 0)
    /\ (gpc \in {"give", "load"} => get_ # 0) /\ (gpc = "take" => get_ = 0)
    /\ (ppc = "store" => call = "put") /\ (ppc \in {"close", "reset", "closed"} => call = "close")
    /\ state["put2get"] \in {"CLOSING", "CLOSED"} => ppc \in {"reset", "closed"}
    /\ ended = TRUE => /\ get_ = 0 /\ ppc \in {"reset", "closed"}
                       /\ state["put2get"] \in {"CLOSED", "ABORTED"}

FPipeOwned ==
    /\ put_ # 0 => put_ # get_
    /\ Calls("put2get") => data["put2get"] \notin {0, put_, get_}
    /\ Calls("get2put") => data["get2put"] \notin {0, put_, get_}
    /\ Calls("put2get") /\ Calls("get2put") => data["put2get"] # data["get2put"]

FPipeInv1 == FPipeTypes /\ FPipeControl /\ FPipeOwned

Cell == [idx : Int, cnt : Int, top : [0 .. NElm - 1 -> Int]]

Left   == IF get_ = 0 THEN 0 ELSE bufs[get_].cnt - bufs[get_].idx          \* of the getter's buffer
OnWay  == IF Calls("put2get") THEN bufs[data["put2get"]].cnt ELSE 0        \* in the one on its way
Stored == IF put_ = 0 THEN 0 ELSE bufs[put_].idx                           \* in the putter's

\* A buffer that is sent is full, or was flushed and is not empty; one that is given back has
\* been read.
FPipeFilled ==
    /\ bufs \in [{1, 2} -> Cell]
    /\ \A b \in {1, 2} : /\ 0 <= bufs[b].idx /\ bufs[b].idx <= bufs[b].cnt
                         /\ 1 <= bufs[b].cnt /\ bufs[b].cnt <= NElm
    /\ ppc = "send" => bufs[put_].idx = bufs[put_].cnt
    /\ ppc = "store" => bufs[put_].idx < bufs[put_].cnt
    /\ gpc = "give" => bufs[get_].idx = bufs[get_].cnt
    /\ gpc = "load" => bufs[get_].idx < bufs[get_].cnt

\* The elements in the buffers go on where the buffer before stops.
FPipeElements ==
    /\ puts \in Nat /\ Counts(got) /\ Len(got) \in Nat
    /\ put_ # 0 => \A j \in 0 .. bufs[put_].idx - 1 : bufs[put_].top[j] = puts - bufs[put_].idx + 1 + j
    /\ get_ # 0 => \A j \in bufs[get_].idx .. bufs[get_].cnt - 1 :
                      bufs[get_].top[j] = Len(got) + 1 + j - bufs[get_].idx
    /\ Calls("put2get") => \A j \in 0 .. bufs[data["put2get"]].cnt - 1 :
                              bufs[data["put2get"]].top[j] = Len(got) + Left + 1 + j

\* Until an abort, what was put and not got is in the three of them; and when the pipe is
\* closed after a flush, the putter has nothing.
FPipeSums ==
    /\ state["put2get"] # "ABORTED" => Len(got) + Left + OnWay + Stored = puts
    /\ ended = TRUE /\ cut = FALSE => Len(got) = puts
    /\ ppc \in {"close", "reset", "closed"} /\ cut = FALSE => Stored = 0

FPipeInv2 == FPipeFilled /\ FPipeElements /\ FPipeSums
FPipeInv == FPipeInv1 /\ FPipeInv2

LEMMA InitFPipeInv == FPipe!FPipeAssumption /\ FPipe!Init => FPipeInv
<1> SUFFICES ASSUME FPipe!FPipeAssumption, FPipe!Init PROVE FPipeInv
  OBVIOUS
<1>1. /\ state = [p \in {"put2get", "get2put"} |-> "EMPTY"] /\ data = [p \in {"put2get", "get2put"} |-> 0]
      /\ at = [t \in {"putter", "getter"} |-> {}] /\ expired = {}
      /\ put_ = 1 /\ get_ = 2 /\ call = "none" /\ ppc = "idle" /\ gpc = "idle"
      /\ puts = 0 /\ got = <<>> /\ ended = FALSE /\ cut = FALSE
  BY DEF FPipe!Init, FPipe!PipeInit
<1>2. FPipeTypes
  <2>1. /\ state \in [{"put2get", "get2put"} -> FPipe!States]
        /\ data \in [{"put2get", "get2put"} -> {0, 1, 2}]
        /\ at \in [{"putter", "getter"} -> SUBSET {"put2get", "get2put"}]
    BY <1>1 DEF FPipe!States
  <2>2. ended \in BOOLEAN /\ cut \in BOOLEAN
    BY <1>1, Zenon
  <2> QED
    BY <1>1, <2>1, <2>2 DEF FPipeTypes
<1>3. ~Calls("put2get") /\ ~Calls("get2put") /\ state["put2get"] = "EMPTY" /\ at["putter"] = {}
      /\ at["getter"] = {}
  BY <1>1 DEF Calls
<1>4. FPipeControl /\ FPipeOwned
  BY <1>1, <1>3 DEF FPipeControl, FPipeOwned
<1>5. NElm \in Nat \ {0}
  BY DEF FPipe!FPipeAssumption
<1>6. /\ bufs \in [{1, 2} -> Cell]
      /\ bufs[1].idx = 0 /\ bufs[2].idx = NElm /\ bufs[1].cnt = NElm /\ bufs[2].cnt = NElm
  <2>1. PICK f : f = [i \in 0 .. NElm - 1 |-> 0]
    OBVIOUS
  <2>2. f \in [0 .. NElm - 1 -> Int]
    BY <2>1
  <2>3. bufs = [b \in {1, 2} |-> [idx |-> IF b = 1 THEN 0 ELSE NElm, cnt |-> NElm, top |-> f]]
    BY <2>1 DEF FPipe!Init, FPipe!Bufs
  <2> QED
    BY <1>5, <2>2, <2>3 DEF Cell
<1>7. FPipeFilled
  BY <1>1, <1>5, <1>6 DEF FPipeFilled
<1>8. Len(got) = 0 /\ Counts(got) /\ puts = 0
  BY <1>1, CountsNothing
<1>9. FPipeElements
  BY <1>1, <1>3, <1>5, <1>6, <1>8 DEF FPipeElements
<1>10. Left = 0 /\ OnWay = 0 /\ Stored = 0
  BY <1>1, <1>3, <1>5, <1>6 DEF Left, OnWay, Stored
<1>11. FPipeSums
  BY <1>1, <1>8, <1>10 DEF FPipeSums
<1> QED
  BY <1>2, <1>4, <1>7, <1>9, <1>11 DEF FPipeInv, FPipeInv1, FPipeInv2

\* A step of a wait, and one that changes nothing: the rest is as it was.
LEMMA ParkKeepsFPipe ==
    ASSUME FPipeInv, UNCHANGED <<state, data, FPipe!bufVars, call, ppc, gpc, FPipe!hist>>,
           at' \in [{"putter", "getter"} -> SUBSET {"put2get", "get2put"}],
           expired' \subseteq {"putter", "getter"}, \A t \in expired' : at'[t] = {},
           at'["putter"] # {} \/ "putter" \in expired' => ppc \in {"send", "recv"},
           at'["getter"] # {} \/ "getter" \in expired' => gpc \in {"give", "take"}
    PROVE  FPipeInv'
<1> USE DEF FPipeInv, FPipeInv1, FPipeInv2, FPipe!bufVars, FPipe!hist
<1>1. FPipeTypes'
  BY DEF FPipeTypes
<1>2. FPipeControl'
  BY DEF FPipeControl
<1>3. FPipeOwned'
  BY DEF FPipeOwned, Calls
<1>4. FPipeFilled'
  BY DEF FPipeFilled
<1>5. Left' = Left /\ OnWay' = OnWay /\ Stored' = Stored
  BY DEF Left, OnWay, Stored, Calls
<1>6. FPipeElements'
  BY <1>5 DEF FPipeElements, Calls
<1>7. FPipeSums'
  BY <1>5 DEF FPipeSums
<1> QED
  BY <1>1, <1>2, <1>3, <1>4, <1>6, <1>7

\* The pipe1s, and who waits at them, after a call that all at the pipe1 p are notified of.
LEMMA CallKeepsTypes ==
    ASSUME FPipeInv, NEW p \in {"put2get", "get2put"}, NEW n \in FPipe!States, NEW d \in {0, 1, 2},
           state' = [state EXCEPT ![p] = n], data' = [data EXCEPT ![p] = d],
           FPipe!notify_all(p)
    PROVE  /\ state' \in [{"put2get", "get2put"} -> FPipe!States]
           /\ data' \in [{"put2get", "get2put"} -> {0, 1, 2}]
           /\ at' \in [{"putter", "getter"} -> SUBSET {"put2get", "get2put"}]
           /\ expired' \subseteq {"putter", "getter"} /\ expired' = expired
           /\ \A t \in expired' : at'[t] = {}
           /\ \A q \in {"put2get", "get2put"} : state'[q] = (IF q = p THEN n ELSE state[q])
                                                /\ data'[q] = (IF q = p THEN d ELSE data[q])
           /\ \A t \in {"putter", "getter"} : at'[t] # {} => at[t] # {}
<1> USE DEF FPipeInv, FPipeInv1, FPipeTypes, FPipe!notify_all
<1>1. state' \in [{"put2get", "get2put"} -> FPipe!States] /\ data' \in [{"put2get", "get2put"} -> {0, 1, 2}]
  OBVIOUS
<1>2. \A q \in {"put2get", "get2put"} : state'[q] = (IF q = p THEN n ELSE state[q])
                                        /\ data'[q] = (IF q = p THEN d ELSE data[q])
  OBVIOUS
<1>3. at' = [t \in {"putter", "getter"} |-> at[t] \ {p}] /\ expired' = expired
  OBVIOUS
<1>4. \A t \in {"putter", "getter"} : at'[t] = at[t] \ {p} /\ at[t] \subseteq {"put2get", "get2put"}
  BY <1>3
<1>5. at' \in [{"putter", "getter"} -> SUBSET {"put2get", "get2put"}]
  BY <1>3, <1>4
<1>6. \A t \in {"putter", "getter"} : at'[t] # {} => at[t] # {}
  BY <1>4
<1>7. expired' \subseteq {"putter", "getter"} /\ expired' = expired /\ \A t \in expired' : at'[t] = {}
  BY <1>3, <1>4
<1> QED
  BY <1>1, <1>2, <1>5, <1>6, <1>7

LEMMA PutKeepsFPipe == ASSUME FPipeInv, FPipe!put PROVE FPipeInv'
<1> USE DEF FPipeInv, FPipeInv1, FPipeInv2, FPipe!bufVars, FPipe!hist, FPipe!pipeVars
<1>1. /\ ppc = "idle" /\ call' = "put"
      /\ UNCHANGED <<state, data, at, expired, bufs, put_, get_, gpc, puts, got, ended, cut>>
      /\ \/ put_ = 0 /\ ppc' = "recv"
         \/ put_ # 0 /\ bufs[put_].idx = bufs[put_].cnt /\ ppc' = "send"
         \/ put_ # 0 /\ bufs[put_].idx # bufs[put_].cnt /\ ppc' = "store"
  BY DEF FPipe!put, FPipe!Ready
<1>2. FPipeTypes'
  BY <1>1 DEF FPipeTypes
<1>3. FPipeControl' /\ FPipeOwned'
  BY <1>1 DEF FPipeControl, FPipeOwned, Calls
<1>4. FPipeFilled'
  BY <1>1 DEF FPipeFilled, FPipeTypes, Cell
<1>5. Left' = Left /\ OnWay' = OnWay /\ Stored' = Stored
  BY <1>1 DEF Left, OnWay, Stored, Calls
<1>6. FPipeElements' /\ FPipeSums'
  BY <1>1, <1>5 DEF FPipeElements, FPipeSums, Calls
<1> QED
  BY <1>2, <1>3, <1>4, <1>6

LEMMA FlushKeepsFPipe ==
    ASSUME FPipe!FPipeAssumption, FPipeInv, NEW what \in {"flush", "close"}, FPipe!flush(what)
    PROVE  FPipeInv'
<1> USE DEF FPipeInv, FPipeInv1, FPipeInv2, FPipe!bufVars, FPipe!hist, FPipe!pipeVars
<1>1. /\ ppc = "idle" /\ call' = what
      /\ UNCHANGED <<state, data, at, expired, put_, get_, gpc, puts, got, ended, cut>>
  BY DEF FPipe!flush
<1>2. CASE FPipe!Empty
  <2>1. Stored = 0 /\ bufs' = bufs /\ ppc' = IF what = "close" THEN "close" ELSE "idle"
    BY <1>2 DEF FPipe!flush, FPipe!Empty, Stored
  <2>2. FPipeTypes'
    BY <1>1, <2>1 DEF FPipeTypes
  <2>3. FPipeControl' /\ FPipeOwned'
    BY <1>1, <2>1 DEF FPipeControl, FPipeOwned, Calls
  <2>4. FPipeFilled'
    BY <1>1, <2>1 DEF FPipeFilled
  <2>5. Left' = Left /\ OnWay' = OnWay /\ Stored' = Stored
    BY <1>1, <2>1 DEF Left, OnWay, Stored, Calls
  <2>6. FPipeElements' /\ FPipeSums'
    BY <1>1, <2>1, <2>5 DEF FPipeElements, FPipeSums, Calls
  <2> QED
    BY <2>2, <2>3, <2>4, <2>6
<1>3. CASE ~FPipe!Empty
  <2>0. PICK b \in {1, 2} : b = put_
    BY <1>3 DEF FPipe!Empty, FPipeTypes
  <2>1. ppc' = "send" /\ bufs' = [bufs EXCEPT ![b].cnt = bufs[b].idx] /\ bufs[b].idx # 0
    BY <1>3, <2>0 DEF FPipe!flush, FPipe!Empty
  <2>2. /\ bufs' \in [{1, 2} -> Cell]
        /\ \A c \in {1, 2} : /\ bufs'[c].idx = bufs[c].idx /\ bufs'[c].top = bufs[c].top
                             /\ bufs'[c].cnt = IF c = b THEN bufs[b].idx ELSE bufs[c].cnt
    BY <2>1 DEF FPipeFilled, Cell
  <2>3. FPipeTypes'
    BY <1>1, <2>1 DEF FPipeTypes
  <2>4. FPipeControl' /\ FPipeOwned'
    BY <1>1, <2>0, <2>1 DEF FPipeControl, FPipeOwned, Calls
  <2>5. FPipeFilled'
    <3>1. \A c \in {1, 2} : /\ 0 <= bufs'[c].idx /\ bufs'[c].idx <= bufs'[c].cnt
                            /\ 1 <= bufs'[c].cnt /\ bufs'[c].cnt <= NElm
      <4>1. \A c \in {1, 2} : bufs[c].idx \in Int /\ bufs[c].cnt \in Int
        BY DEF FPipeFilled, Cell
      <4>2. bufs[b].idx # 0
        BY <2>1
      <4>3. /\ \A c \in {1, 2} : /\ 0 <= bufs[c].idx /\ bufs[c].idx <= bufs[c].cnt
                                 /\ 1 <= bufs[c].cnt /\ bufs[c].cnt <= NElm
            /\ NElm \in Nat
        BY DEF FPipeFilled, FPipe!FPipeAssumption
      <4>4. ASSUME NEW c \in {1, 2}
            PROVE  /\ 0 <= bufs'[c].idx /\ bufs'[c].idx <= bufs'[c].cnt
                   /\ 1 <= bufs'[c].cnt /\ bufs'[c].cnt <= NElm
        <5>1. /\ bufs'[c].idx = bufs[c].idx
              /\ bufs'[c].cnt = IF c = b THEN bufs[b].idx ELSE bufs[c].cnt
          BY <2>2
        <5> QED
          BY <4>1, <4>2, <4>3, <5>1
      <4> QED
        BY <4>4
    <3>2. get_ # b /\ (gpc \in {"give", "load"} => get_ \in {1, 2})
      BY <2>0 DEF FPipeOwned, FPipeControl, FPipeTypes
    <3>3. gpc \in {"give", "load"} => bufs'[get_].idx = bufs[get_].idx /\ bufs'[get_].cnt = bufs[get_].cnt
      BY <2>2, <3>2
    <3> QED
      BY <1>1, <2>0, <2>1, <2>2, <3>1, <3>3 DEF FPipeFilled
  <2>6. Left' = Left /\ OnWay' = OnWay /\ Stored' = Stored
    BY <1>1, <2>0, <2>2 DEF Left, OnWay, Stored, Calls, FPipeOwned, FPipeTypes
  <2>7. FPipeElements' /\ FPipeSums'
    BY <1>1, <2>0, <2>1, <2>2, <2>6 DEF FPipeElements, FPipeSums, Calls, FPipeOwned, FPipeTypes
  <2> QED
    BY <2>3, <2>4, <2>5, <2>7
<1> QED
  BY <1>2, <1>3

\* What a step changes of the putter when its call is over without having been OK.
LEMMA FailsKeepsFPipe ==
    ASSUME FPipeInv, FPipe!Fails, ppc \in {"send", "recv"},
           UNCHANGED <<state, data, FPipe!bufVars, call, gpc, puts, got, ended>>,
           at' = at, expired' \subseteq expired, "putter" \notin expired', at["putter"] = {}
    PROVE  FPipeInv'
<1> USE DEF FPipeInv, FPipeInv1, FPipeInv2, FPipe!bufVars, FPipe!hist
<1>1. ppc' = (IF call = "close" THEN "close" ELSE "idle") /\ cut' \in BOOLEAN
  BY Zenon DEF FPipe!Fails
<1>2. (cut = TRUE \/ call = "close") => cut' = TRUE
  BY DEF FPipe!Fails
<1>3. FPipeTypes'
  BY <1>1 DEF FPipeTypes
<1>4. FPipeControl' /\ FPipeOwned'
  BY <1>1 DEF FPipeControl, FPipeOwned, Calls
<1>5. FPipeFilled'
  BY <1>1 DEF FPipeFilled
<1>6. Left' = Left /\ OnWay' = OnWay /\ Stored' = Stored
  BY DEF Left, OnWay, Stored, Calls
<1>7. FPipeElements'
  BY <1>6 DEF FPipeElements, Calls
<1>8. cut' = FALSE => cut = FALSE /\ call # "close"
  BY <1>2 DEF FPipeTypes
<1>9. FPipeSums'
  BY <1>1, <1>6, <1>8 DEF FPipeSums
<1> QED
  BY <1>3, <1>4, <1>5, <1>7, <1>9

LEMMA SendKeepsFPipe == ASSUME FPipeInv, FPipe!send PROVE FPipeInv'
<1> USE DEF FPipeInv, FPipeInv1, FPipeInv2, FPipe!bufVars, FPipe!hist, FPipe!pipeVars
<1>0. /\ ppc = "send" /\ at["putter"] = {} /\ "putter" \notin expired
      /\ UNCHANGED <<bufs, get_, call, gpc, puts, got, ended>>
  BY DEF FPipe!send, FPipe!Awake, FPipe!P
<1>1. CASE FPipe!put_wait("putter", "put2get") /\ UNCHANGED <<put_, ppc, cut>>
  <2>1. at' = [at EXCEPT !["putter"] = {"put2get"}] /\ UNCHANGED <<state, data, expired>>
    BY <1>1 DEF FPipe!put_wait, FPipe!wait
  <2>2. /\ at' \in [{"putter", "getter"} -> SUBSET {"put2get", "get2put"}]
        /\ at'["getter"] = at["getter"] /\ \A t \in expired' : at'[t] = {}
    BY <1>0, <2>1 DEF FPipeTypes
  <2> QED
    BY <1>0, <1>1, <2>1, <2>2, ParkKeepsFPipe DEF FPipeTypes, FPipeControl
<1>2. CASE FPipe!put_ok("put2get", put_) /\ put_' = 0 /\ ppc' = "recv" /\ UNCHANGED cut
  <2>0. PICK b \in {1, 2} : b = put_
    BY <1>0 DEF FPipeControl, FPipeTypes
  <2>1. /\ state["put2get"] = "EMPTY" /\ state' = [state EXCEPT !["put2get"] = "EXIST"]
        /\ data' = [data EXCEPT !["put2get"] = b] /\ FPipe!notify_all("put2get")
    BY <1>2, <2>0 DEF FPipe!put_ok, FPipe!Becomes
  <2>2. /\ state' \in [{"put2get", "get2put"} -> FPipe!States]
        /\ data' \in [{"put2get", "get2put"} -> {0, 1, 2}]
        /\ at' \in [{"putter", "getter"} -> SUBSET {"put2get", "get2put"}]
        /\ expired' \subseteq {"putter", "getter"} /\ expired' = expired /\ \A t \in expired' : at'[t] = {}
        /\ state'["put2get"] = "EXIST" /\ state'["get2put"] = state["get2put"]
        /\ data'["put2get"] = b /\ data'["get2put"] = data["get2put"]
        /\ at'["putter"] = {} /\ (at'["getter"] # {} => at["getter"] # {})
    <3>1. "EXIST" \in FPipe!States /\ b \in {0, 1, 2}
      BY DEF FPipe!States
    <3> QED
      BY <1>0, <2>1, <3>1, CallKeepsTypes
  <2>3. FPipeTypes'
    BY <1>0, <1>2, <2>2 DEF FPipeTypes
  <2>4. FPipeControl'
    BY <1>0, <1>2, <2>1, <2>2 DEF FPipeControl, FPipeTypes
  <2>5. FPipeOwned'
    BY <1>0, <1>2, <2>0, <2>1, <2>2 DEF FPipeOwned, Calls
  <2>6. FPipeFilled'
    BY <1>0, <1>2 DEF FPipeFilled
  <2>7. /\ Left' = Left /\ OnWay = 0 /\ OnWay' = bufs[b].cnt /\ Stored = bufs[b].idx /\ Stored' = 0
        /\ bufs[b].idx = bufs[b].cnt
    BY <1>0, <1>2, <2>0, <2>1, <2>2 DEF Left, OnWay, Stored, Calls, FPipeFilled
  <2>8. Left \in Int /\ Len(got) \in Int /\ bufs[b].idx \in Int /\ Len(got) + Left + bufs[b].idx = puts
    <3>1. Left \in Int /\ Len(got) \in Int /\ bufs[b].idx \in Int
      BY DEF FPipeElements, FPipeFilled, Cell, FPipeTypes, Left
    <3> QED
      BY <2>1, <2>7, <3>1 DEF FPipeSums
  <2>9. FPipeSums'
    <3>1. ended # TRUE
      BY <1>0 DEF FPipeControl
    <3> QED
      BY <1>0, <1>2, <2>7, <2>8, <3>1 DEF FPipeSums
  <2>10. FPipeElements'
    <3>1. \A j \in 0 .. bufs[b].cnt - 1 : bufs[b].top[j] = puts - bufs[b].idx + 1 + j
      BY <2>0, <2>7 DEF FPipeElements
    <3>2. \A j \in 0 .. bufs[b].cnt - 1 : bufs[b].top[j] = Len(got) + Left + 1 + j
      <4> HIDE DEF FPipeInv, FPipeInv1, FPipeInv2
      <4> QED
        BY <2>8, <3>1
    <3>3. /\ puts \in Nat /\ Counts(got) /\ Len(got) \in Nat
          /\ get_ # 0 => \A j \in bufs[get_].idx .. bufs[get_].cnt - 1 :
                            bufs[get_].top[j] = Len(got) + 1 + j - bufs[get_].idx
      BY DEF FPipeElements
    <3>4. bufs' = bufs /\ put_' = 0 /\ get_' = get_ /\ puts' = puts /\ got' = got /\ data'["put2get"] = b
      BY <1>0, <1>2, <2>2
    <3> QED
      BY <2>7, <3>2, <3>3, <3>4 DEF FPipeElements
  <2> QED
    BY <2>3, <2>4, <2>5, <2>6, <2>9, <2>10
<1>3. CASE FPipe!put_refused("put2get") /\ FPipe!Fails /\ UNCHANGED put_
  BY <1>0, <1>3, FailsKeepsFPipe DEF FPipe!put_refused
<1> QED
  BY <1>1, <1>2, <1>3 DEF FPipe!send, FPipe!P, FPipe!put2get

LEMMA CellEmptied ==
    ASSUME NEW f \in [{1, 2} -> Cell], NEW b \in {1, 2}, NEW n \in Int, NEW g,
           g = [f EXCEPT ![b].cnt = n, ![b].idx = 0]
    PROVE  /\ g \in [{1, 2} -> Cell]
           /\ \A c \in {1, 2} : /\ g[c].idx = IF c = b THEN 0 ELSE f[c].idx
                                /\ g[c].cnt = IF c = b THEN n ELSE f[c].cnt
                                /\ g[c].top = f[c].top
           /\ \A c \in {1, 2} : c # b => g[c] = f[c]
<1> DEFINE q == [f[b] EXCEPT !.cnt = n]
           r == [q EXCEPT !.idx = 0]
<1>1. g = [f EXCEPT ![b] = r]
  OBVIOUS
<1>2. f[b] \in Cell
  OBVIOUS
<1>3. q \in Cell /\ q.cnt = n /\ q.idx = f[b].idx /\ q.top = f[b].top
  BY <1>2 DEF Cell
<1> HIDE DEF q
<1>4. r \in Cell /\ r.cnt = n /\ r.idx = 0 /\ r.top = f[b].top
  BY <1>3 DEF Cell
<1> HIDE DEF r
<1>5. g[b] = r /\ \A c \in {1, 2} : c # b => g[c] = f[c]
  BY <1>1
<1>6. g \in [{1, 2} -> Cell]
  BY <1>1, <1>4
<1> QED
  BY <1>4, <1>5, <1>6

LEMMA RecvKeepsFPipe == ASSUME FPipe!FPipeAssumption, FPipeInv, FPipe!recv PROVE FPipeInv'
<1> USE DEF FPipeInv, FPipeInv1, FPipeInv2, FPipe!bufVars, FPipe!hist, FPipe!pipeVars
<1>0. /\ ppc = "recv" /\ at["putter"] = {} /\ "putter" \notin expired /\ put_ = 0
      /\ UNCHANGED <<get_, call, gpc, puts, got, ended>>
  BY DEF FPipe!recv, FPipe!Awake, FPipe!P, FPipeControl
<1>1. CASE FPipe!get_wait("putter", "get2put") /\ UNCHANGED <<bufs, put_, ppc, cut>>
  <2>1. at' = [at EXCEPT !["putter"] = {"get2put"}] /\ UNCHANGED <<state, data, expired>>
    BY <1>1 DEF FPipe!get_wait, FPipe!wait
  <2>2. /\ at' \in [{"putter", "getter"} -> SUBSET {"put2get", "get2put"}]
        /\ at'["getter"] = at["getter"] /\ \A t \in expired' : at'[t] = {}
    BY <1>0, <2>1 DEF FPipeTypes
  <2> QED
    BY <1>0, <1>1, <2>1, <2>2, ParkKeepsFPipe DEF FPipeTypes, FPipeControl
<1>2. CASE /\ FPipe!get_ok("get2put") /\ put_' = data["get2put"] /\ ppc' = FPipe!After /\ UNCHANGED cut
           /\ bufs' = [bufs EXCEPT ![put_'].cnt = NElm, ![put_'].idx = 0]
  <2>0. PICK b \in {1, 2} : b = data["get2put"]
    BY <1>2 DEF FPipe!get_ok, FPipeOwned, FPipeTypes, Calls
  <2>1. PICK n : n = IF state["get2put"] = "EXIST" THEN "EMPTY" ELSE "CLOSED"
    OBVIOUS
  <2>2. /\ Calls("get2put") /\ state' = [state EXCEPT !["get2put"] = n]
        /\ data' = [data EXCEPT !["get2put"] = 0] /\ FPipe!notify_all("get2put")
        /\ put_' = b /\ bufs' = [bufs EXCEPT ![b].cnt = NElm, ![b].idx = 0]
    BY <1>2, <2>0, <2>1 DEF FPipe!get_ok, FPipe!Becomes, Calls
  <2>3. /\ state' \in [{"put2get", "get2put"} -> FPipe!States]
        /\ data' \in [{"put2get", "get2put"} -> {0, 1, 2}]
        /\ at' \in [{"putter", "getter"} -> SUBSET {"put2get", "get2put"}]
        /\ expired' \subseteq {"putter", "getter"} /\ expired' = expired /\ \A t \in expired' : at'[t] = {}
        /\ state'["put2get"] = state["put2get"] /\ state'["get2put"] = n
        /\ data'["put2get"] = data["put2get"] /\ data'["get2put"] = 0
        /\ at'["putter"] = {} /\ (at'["getter"] # {} => at["getter"] # {})
    <3>1. n \in FPipe!States
      BY <2>1 DEF FPipe!States
    <3> QED
      BY <1>0, <2>2, <3>1, CallKeepsTypes
  <2>4. n \notin {"EXIST", "CLOSING"}
    BY <2>1
  <2>5. /\ NElm \in Nat /\ NElm >= 1 /\ bufs' \in [{1, 2} -> Cell]
        /\ \A c \in {1, 2} : /\ bufs'[c].idx = IF c = b THEN 0 ELSE bufs[c].idx
                             /\ bufs'[c].cnt = IF c = b THEN NElm ELSE bufs[c].cnt
                             /\ bufs'[c].top = bufs[c].top
    BY <2>2, CellEmptied DEF FPipe!FPipeAssumption, FPipeFilled
  <2>6. /\ ppc' \in {"idle", "store", "close"}
        /\ (ppc' = "store" => call = "put") /\ (ppc' = "close" => call = "close")
    BY <1>2 DEF FPipe!After
  <2>7. b # get_ /\ (Calls("put2get") => data["put2get"] \in {1, 2} /\ data["put2get"] # b)
    BY <2>0, <2>2 DEF FPipeOwned, FPipeTypes
  <2>8. FPipeTypes'
    BY <1>0, <1>2, <2>2, <2>3, <2>6 DEF FPipeTypes
  <2>9. FPipeControl' /\ FPipeOwned'
    BY <1>0, <1>2, <2>0, <2>2, <2>3, <2>4, <2>6, <2>7 DEF FPipeControl, FPipeOwned, Calls
  <2>10. get_ # 0 => get_ \in {1, 2} /\ bufs'[get_] = bufs[get_]
    BY <2>2, <2>7 DEF FPipeTypes, FPipeFilled
  <2>11. FPipeFilled'
    <3>1. \A c \in {1, 2} : /\ 0 <= bufs'[c].idx /\ bufs'[c].idx <= bufs'[c].cnt
                            /\ 1 <= bufs'[c].cnt /\ bufs'[c].cnt <= NElm
      BY <2>5 DEF FPipeFilled
    <3>2. bufs'[put_'].idx = 0 /\ bufs'[put_'].cnt = NElm
      BY <2>2, <2>5
    <3>3. gpc \in {"give", "load"} => get_ # 0
      BY DEF FPipeControl
    <3> QED
      BY <1>0, <2>5, <2>6, <2>10, <3>1, <3>2, <3>3 DEF FPipeFilled
  <2>12. Left' = Left /\ OnWay' = OnWay /\ Stored = 0 /\ Stored' = 0
    BY <1>0, <2>2, <2>3, <2>5, <2>7, <2>10 DEF Left, OnWay, Stored, Calls
  <2>13. FPipeSums'
    BY <1>0, <1>2, <2>3, <2>6, <2>12 DEF FPipeSums, FPipeControl
  <2>14. FPipeElements'
    <3>1. Calls("put2get") => bufs'[data["put2get"]] = bufs[data["put2get"]]
      BY <2>2, <2>7 DEF FPipeFilled
    <3>2. bufs'[put_'].idx = 0
      BY <2>2, <2>5
    <3>3. Calls("put2get")' = Calls("put2get") /\ data'["put2get"] = data["put2get"]
      BY <2>3 DEF Calls
    <3>4. puts \in Int /\ 0 .. 0 - 1 = {}
      BY DEF FPipeElements
    <3> QED
      BY <1>0, <2>10, <2>12, <3>1, <3>2, <3>3, <3>4 DEF FPipeElements
  <2> QED
    BY <2>8, <2>9, <2>11, <2>13, <2>14
<1>3. CASE FPipe!get_refused("get2put") /\ FPipe!Fails /\ UNCHANGED <<bufs, put_>>
  BY <1>0, <1>3, FailsKeepsFPipe DEF FPipe!get_refused
<1> QED
  BY <1>1, <1>2, <1>3 DEF FPipe!recv, FPipe!P, FPipe!get2put

Written(f, b, i, x, n) == [f EXCEPT ![b].top[i] = x, ![b].idx = n]

LEMMA CellWritten ==
    ASSUME NEW f \in [{1, 2} -> Cell], NEW b \in {1, 2}, NEW i \in 0 .. NElm - 1, NEW x \in Int, NEW n \in Int,
           NEW g, g = Written(f, b, i, x, n)
    PROVE  /\ g \in [{1, 2} -> Cell]
           /\ g[b].idx = n /\ g[b].cnt = f[b].cnt
           /\ \A j \in 0 .. NElm - 1 : g[b].top[j] = IF j = i THEN x ELSE f[b].top[j]
           /\ \A c \in {1, 2} : c # b => g[c] = f[c]
<1> DEFINE p == [f[b].top EXCEPT ![i] = x]
           q == [f[b] EXCEPT !.top = p]
           r == [q EXCEPT !.idx = n]
<1>1. g = [f EXCEPT ![b] = r]
  BY DEF Written
<1>2. f[b] \in Cell /\ f[b].top \in [0 .. NElm - 1 -> Int]
  BY DEF Cell
<1>3. p \in [0 .. NElm - 1 -> Int] /\ \A j \in 0 .. NElm - 1 : p[j] = IF j = i THEN x ELSE f[b].top[j]
  BY <1>2
<1> HIDE DEF p
<1>4. q \in Cell /\ q.cnt = f[b].cnt /\ q.idx = f[b].idx /\ q.top = p
  BY <1>2, <1>3 DEF Cell
<1> HIDE DEF q
<1>5. r \in Cell /\ r.cnt = f[b].cnt /\ r.idx = n /\ r.top = p
  BY <1>4 DEF Cell
<1> HIDE DEF r
<1>6. g[b] = r /\ \A c \in {1, 2} : c # b => g[c] = f[c]
  BY <1>1
<1>7. g \in [{1, 2} -> Cell]
  BY <1>1, <1>5
<1> QED
  BY <1>3, <1>5, <1>6, <1>7

LEMMA StoreKeepsFPipe == ASSUME FPipe!FPipeAssumption, FPipeInv, FPipe!store PROVE FPipeInv'
<1> USE DEF FPipeInv, FPipeInv1, FPipeInv2, FPipe!bufVars, FPipe!hist, FPipe!pipeVars
<1>0. PICK b \in {1, 2} : b = put_
  BY DEF FPipe!store, FPipeControl, FPipeTypes
<1>1. /\ ppc = "store" /\ ppc' = "idle" /\ puts' = puts + 1
      /\ UNCHANGED <<state, data, at, expired, put_, get_, call, gpc, got, ended, cut>>
  BY DEF FPipe!store
<1>2. PICK i : i = bufs[b].idx
  OBVIOUS
<1>3. bufs' = [bufs EXCEPT ![b].top[i] = puts + 1, ![b].idx = i + 1]
  BY <1>0, <1>2 DEF FPipe!store
<1>4. i \in 0 .. NElm - 1 /\ i < bufs[b].cnt /\ bufs[b].cnt \in Int /\ puts \in Nat /\ NElm \in Nat
  <2>1. bufs[b].idx \in Int /\ bufs[b].cnt \in Int /\ NElm \in Nat /\ puts \in Nat
    BY DEF FPipeFilled, FPipeElements, Cell, FPipe!FPipeAssumption
  <2>2. 0 <= bufs[b].idx /\ bufs[b].idx < bufs[b].cnt /\ bufs[b].cnt <= NElm
    BY <1>0, <1>1 DEF FPipeFilled
  <2> QED
    BY <1>2, <2>1, <2>2
<1>5. /\ bufs' \in [{1, 2} -> Cell]
      /\ bufs'[b].idx = i + 1 /\ bufs'[b].cnt = bufs[b].cnt
      /\ \A j \in 0 .. NElm - 1 : bufs'[b].top[j] = IF j = i THEN puts + 1 ELSE bufs[b].top[j]
      /\ \A c \in {1, 2} : c # b => bufs'[c] = bufs[c]
  <2>1. PICK x \in Int, n \in Int : x = puts + 1 /\ n = i + 1
    BY <1>4
  <2>2. bufs \in [{1, 2} -> Cell] /\ bufs' = Written(bufs, b, i, x, n)
    BY <1>3, <2>1 DEF FPipeFilled, Written
  <2> QED
    <3>1. i \in 0 .. NElm - 1
      BY <1>4
    <3>2. /\ bufs' \in [{1, 2} -> Cell]
          /\ bufs'[b].idx = n /\ bufs'[b].cnt = bufs[b].cnt
          /\ \A j \in 0 .. NElm - 1 : bufs'[b].top[j] = IF j = i THEN x ELSE bufs[b].top[j]
          /\ \A c \in {1, 2} : c # b => bufs'[c] = bufs[c]
      BY <2>2, <3>1, CellWritten
    <3> QED
      BY <2>1, <3>2
<1>6. FPipeTypes'
  BY <1>1 DEF FPipeTypes
<1>7. FPipeControl' /\ FPipeOwned'
  BY <1>1 DEF FPipeControl, FPipeOwned, Calls
<1>8. /\ get_ # 0 => get_ \in {1, 2} /\ bufs'[get_] = bufs[get_]
      /\ Calls("put2get") => bufs'[data["put2get"]] = bufs[data["put2get"]]
  <2>1. get_ # 0 => get_ \in {1, 2} /\ get_ # b
    BY <1>0 DEF FPipeTypes, FPipeOwned
  <2>2. Calls("put2get") => data["put2get"] \in {1, 2} /\ data["put2get"] # b
    BY <1>0 DEF FPipeTypes, FPipeOwned
  <2> QED
    BY <1>5, <2>1, <2>2
<1>9. FPipeFilled'
  <2>1. \A c \in {1, 2} : /\ 0 <= bufs'[c].idx /\ bufs'[c].idx <= bufs'[c].cnt
                          /\ 1 <= bufs'[c].cnt /\ bufs'[c].cnt <= NElm
    BY <1>4, <1>5 DEF FPipeFilled
  <2>2. gpc \in {"give", "load"} => get_ # 0
    BY DEF FPipeControl
  <2> QED
    BY <1>1, <1>5, <1>8, <2>1, <2>2 DEF FPipeFilled
<1>10. Calls("put2get")' = Calls("put2get")
  BY <1>1 DEF Calls
<1>11. Left' = Left /\ OnWay' = OnWay /\ Stored = i /\ Stored' = i + 1
  BY <1>0, <1>1, <1>2, <1>5, <1>8, <1>10 DEF Left, OnWay, Stored
<1>12. FPipeSums'
  <2>1. ended # TRUE
    BY <1>1 DEF FPipeControl
  <2>2. Left \in Int /\ OnWay \in Int /\ Len(got) \in Int /\ i \in Int /\ puts \in Int
    <3>1. \A c \in {1, 2} : bufs[c].cnt \in Int /\ bufs[c].idx \in Int
      BY DEF FPipeFilled, Cell
    <3>2. Calls("put2get") => data["put2get"] \in {1, 2}
      BY DEF FPipeTypes, FPipeOwned
    <3> QED
      BY <1>4, <3>1, <3>2 DEF FPipeElements, FPipeTypes, Left, OnWay
  <2> QED
    <3>1. state["put2get"] # "ABORTED" => Len(got) + Left + OnWay + i = puts
      BY <1>11 DEF FPipeSums
    <3>2. state["put2get"] # "ABORTED" => Len(got) + Left + OnWay + (i + 1) = puts + 1
      BY <2>2, <3>1
    <3> QED
      BY <1>1, <1>11, <2>1, <3>2 DEF FPipeSums
<1>13. FPipeElements'
  <2>1. \A j \in 0 .. i : bufs'[b].top[j] = puts + 1 - (i + 1) + 1 + j
    <3>1. \A j \in 0 .. i - 1 : bufs[b].top[j] = puts - i + 1 + j
      BY <1>0, <1>2 DEF FPipeElements
    <3> QED
      BY <1>4, <1>5, <3>1
  <2>2. put_' = b /\ bufs'[put_'].idx - 1 = i
    BY <1>0, <1>1, <1>4, <1>5
  <2>3. \A j \in 0 .. bufs'[put_'].idx - 1 : bufs'[put_'].top[j] = puts' - bufs'[put_'].idx + 1 + j
    BY <1>1, <1>4, <1>5, <2>1, <2>2
  <2>4. puts' \in Nat
    BY <1>1, <1>4
  <2> QED
    BY <1>1, <1>8, <1>10, <1>11, <2>3, <2>4 DEF FPipeElements
<1> QED
  BY <1>6, <1>7, <1>9, <1>12, <1>13

LEMMA CloseKeepsFPipe == ASSUME FPipeInv, FPipe!close_pipe \/ FPipe!close_reset PROVE FPipeInv'
<1> USE DEF FPipeInv, FPipeInv1, FPipeInv2, FPipe!bufVars, FPipe!hist, FPipe!pipeVars
<1>1. CASE FPipe!close_pipe
  <2>0. PICK n : n = CASE state["put2get"] = "EMPTY" -> "CLOSED" [] state["put2get"] = "EXIST" -> "CLOSING"
                       [] OTHER -> state["put2get"]
    OBVIOUS
  <2>1. /\ ppc = "close" /\ ppc' = "reset" /\ FPipe!notify_all("put2get")
        /\ state' = [state EXCEPT !["put2get"] = n]
        /\ UNCHANGED <<data, bufs, put_, get_, call, gpc, puts, got, ended, cut>>
    BY <1>1, <2>0 DEF FPipe!close_pipe, FPipe!close, FPipe!Becomes, FPipe!put2get
  <2>2. n \in FPipe!States /\ (n \in {"EXIST", "CLOSING"} <=> Calls("put2get"))
        /\ (n = "ABORTED" <=> state["put2get"] = "ABORTED")
    BY <2>0 DEF FPipeTypes, FPipe!States, Calls
  <2>3. /\ state' \in [{"put2get", "get2put"} -> FPipe!States]
        /\ at' \in [{"putter", "getter"} -> SUBSET {"put2get", "get2put"}]
        /\ expired' \subseteq {"putter", "getter"} /\ expired' = expired /\ \A t \in expired' : at'[t] = {}
        /\ state'["put2get"] = n /\ state'["get2put"] = state["get2put"]
        /\ \A t \in {"putter", "getter"} : at'[t] # {} => at[t] # {}
    <3>1. PICK d : d = data["put2get"]
      OBVIOUS
    <3>2. d \in {0, 1, 2} /\ data' = [data EXCEPT !["put2get"] = d]
      BY <2>1, <3>1 DEF FPipeTypes
    <3> QED
      BY <2>1, <2>2, <3>2, CallKeepsTypes
  <2>4. ended # TRUE
    BY <2>1 DEF FPipeControl
  <2>5. Calls("put2get")' = Calls("put2get") /\ Calls("get2put")' = Calls("get2put")
    BY <2>2, <2>3 DEF Calls
  <2>6. FPipeTypes'
    BY <2>1, <2>3 DEF FPipeTypes
  <2>7. FPipeControl' /\ FPipeOwned'
    BY <2>1, <2>2, <2>3, <2>4, <2>5 DEF FPipeControl, FPipeOwned
  <2>8. FPipeFilled'
    BY <2>1 DEF FPipeFilled
  <2>9. Left' = Left /\ OnWay' = OnWay /\ Stored' = Stored
    BY <2>1, <2>5 DEF Left, OnWay, Stored
  <2>10. FPipeElements' /\ FPipeSums'
    BY <2>1, <2>2, <2>3, <2>4, <2>5, <2>9 DEF FPipeElements, FPipeSums
  <2> QED
    BY <2>6, <2>7, <2>8, <2>10
<1>2. CASE FPipe!close_reset
  <2>1. /\ ppc = "reset" /\ ppc' = "closed" /\ state' = [state EXCEPT !["get2put"] = "EMPTY"]
        /\ data' \in {data, [data EXCEPT !["get2put"] = 0]}
        /\ UNCHANGED <<at, expired, bufs, put_, get_, call, gpc, puts, got, ended, cut>>
    BY <1>2 DEF FPipe!close_reset, FPipe!reset, FPipe!Becomes, FPipe!get2put
  <2>2. /\ state' \in [{"put2get", "get2put"} -> FPipe!States]
        /\ data' \in [{"put2get", "get2put"} -> {0, 1, 2}]
        /\ state'["put2get"] = state["put2get"] /\ state'["get2put"] = "EMPTY"
        /\ data'["put2get"] = data["put2get"]
    BY <2>1 DEF FPipeTypes, FPipe!States
  <2>3. Calls("put2get")' = Calls("put2get") /\ ~Calls("get2put")'
    BY <2>2 DEF Calls
  <2>4. FPipeTypes'
    BY <2>1, <2>2 DEF FPipeTypes
  <2>5. FPipeControl' /\ FPipeOwned'
    BY <2>1, <2>2, <2>3 DEF FPipeControl, FPipeOwned
  <2>6. FPipeFilled'
    BY <2>1 DEF FPipeFilled
  <2>7. Left' = Left /\ OnWay' = OnWay /\ Stored' = Stored
    BY <2>1, <2>2, <2>3 DEF Left, OnWay, Stored
  <2>8. FPipeElements' /\ FPipeSums'
    BY <2>1, <2>2, <2>3, <2>7 DEF FPipeElements, FPipeSums
  <2> QED
    BY <2>4, <2>5, <2>6, <2>8
<1> QED
  BY <1>1, <1>2

LEMMA GetKeepsFPipe == ASSUME FPipeInv, FPipe!get PROVE FPipeInv'
<1> USE DEF FPipeInv, FPipeInv1, FPipeInv2, FPipe!bufVars, FPipe!hist, FPipe!pipeVars
<1>1. /\ gpc = "idle"
      /\ UNCHANGED <<state, data, at, expired, bufs, put_, get_, call, ppc, puts, got, ended, cut>>
      /\ \/ get_ = 0 /\ gpc' = "take"
         \/ get_ # 0 /\ bufs[get_].idx = bufs[get_].cnt /\ gpc' = "give"
         \/ get_ # 0 /\ bufs[get_].idx # bufs[get_].cnt /\ gpc' = "load"
  BY DEF FPipe!get
<1>2. FPipeTypes'
  BY <1>1 DEF FPipeTypes
<1>3. FPipeControl' /\ FPipeOwned'
  BY <1>1 DEF FPipeControl, FPipeOwned, Calls
<1>4. FPipeFilled'
  BY <1>1 DEF FPipeFilled, FPipeTypes, Cell
<1>5. Left' = Left /\ OnWay' = OnWay /\ Stored' = Stored
  BY <1>1 DEF Left, OnWay, Stored, Calls
<1>6. FPipeElements' /\ FPipeSums'
  BY <1>1, <1>5 DEF FPipeElements, FPipeSums, Calls
<1> QED
  BY <1>2, <1>3, <1>4, <1>6

\* The getter's call is over, or it goes on; nothing else is changed.
LEMMA GetterKeepsFPipe ==
    ASSUME FPipeInv, gpc' = "idle", ended' \in BOOLEAN,
           UNCHANGED <<state, data, FPipe!bufVars, call, ppc, puts, got, cut>>,
           at' = at, expired' \subseteq expired, "getter" \notin expired', at["getter"] = {},
           ended' = TRUE => ended = TRUE \/ (get_ = 0 /\ state["put2get"] = "CLOSED")
    PROVE  FPipeInv'
<1> USE DEF FPipeInv, FPipeInv1, FPipeInv2, FPipe!bufVars, FPipe!hist
<1>1. FPipeTypes'
  BY DEF FPipeTypes
<1>2. FPipeControl' /\ FPipeOwned'
  BY DEF FPipeControl, FPipeOwned, Calls
<1>3. FPipeFilled'
  BY DEF FPipeFilled
<1>4. Left' = Left /\ OnWay' = OnWay /\ Stored' = Stored
  BY DEF Left, OnWay, Stored, Calls
<1>5. FPipeElements'
  BY <1>4 DEF FPipeElements, Calls
<1>6. ASSUME ended' = TRUE, cut = FALSE PROVE Len(got) = puts
  <2>1. CASE ended = TRUE
    BY <1>6, <2>1 DEF FPipeSums
  <2>2. CASE get_ = 0 /\ state["put2get"] = "CLOSED"
    <3>1. Left = 0 /\ OnWay = 0 /\ Stored = 0
      BY <1>6, <2>2 DEF Left, OnWay, Calls, FPipeSums, FPipeControl
    <3> QED
      BY <2>2, <3>1 DEF FPipeSums, FPipeElements
  <2> QED
    BY <1>6, <2>1, <2>2
<1>7. FPipeSums'
  BY <1>4, <1>6 DEF FPipeSums
<1> QED
  BY <1>1, <1>2, <1>3, <1>5, <1>7

LEMMA GiveKeepsFPipe == ASSUME FPipeInv, FPipe!give PROVE FPipeInv'
<1> USE DEF FPipeInv, FPipeInv1, FPipeInv2, FPipe!bufVars, FPipe!hist, FPipe!pipeVars
<1>0. /\ gpc = "give" /\ at["getter"] = {} /\ "getter" \notin expired
      /\ UNCHANGED <<bufs, put_, call, ppc, puts, got, ended, cut>>
  BY DEF FPipe!give, FPipe!Awake, FPipe!G
<1>1. CASE FPipe!put_wait("getter", "get2put") /\ UNCHANGED <<get_, gpc>>
  <2>1. at' = [at EXCEPT !["getter"] = {"get2put"}] /\ UNCHANGED <<state, data, expired>>
    BY <1>1 DEF FPipe!put_wait, FPipe!wait
  <2>2. /\ at' \in [{"putter", "getter"} -> SUBSET {"put2get", "get2put"}]
        /\ at'["putter"] = at["putter"] /\ \A t \in expired' : at'[t] = {}
    BY <1>0, <2>1 DEF FPipeTypes
  <2> QED
    BY <1>0, <1>1, <2>1, <2>2, ParkKeepsFPipe DEF FPipeTypes, FPipeControl
<1>2. CASE FPipe!put_ok("get2put", get_) /\ get_' = 0 /\ gpc' = "take"
  <2>0. PICK b \in {1, 2} : b = get_
    BY <1>0 DEF FPipeControl, FPipeTypes
  <2>1. /\ state["get2put"] = "EMPTY" /\ state' = [state EXCEPT !["get2put"] = "EXIST"]
        /\ data' = [data EXCEPT !["get2put"] = b] /\ FPipe!notify_all("get2put")
    BY <1>2, <2>0 DEF FPipe!put_ok, FPipe!Becomes
  <2>2. /\ state' \in [{"put2get", "get2put"} -> FPipe!States]
        /\ data' \in [{"put2get", "get2put"} -> {0, 1, 2}]
        /\ at' \in [{"putter", "getter"} -> SUBSET {"put2get", "get2put"}]
        /\ expired' \subseteq {"putter", "getter"} /\ expired' = expired /\ \A t \in expired' : at'[t] = {}
        /\ state'["get2put"] = "EXIST" /\ state'["put2get"] = state["put2get"]
        /\ data'["get2put"] = b /\ data'["put2get"] = data["put2get"]
        /\ at'["getter"] = {} /\ (at'["putter"] # {} => at["putter"] # {})
    <3>1. "EXIST" \in FPipe!States /\ b \in {0, 1, 2}
      BY DEF FPipe!States
    <3> QED
      BY <1>0, <2>1, <3>1, CallKeepsTypes
  <2>3. Calls("put2get")' = Calls("put2get")
    BY <2>2 DEF Calls
  <2>4. FPipeTypes'
    BY <1>0, <1>2, <2>2 DEF FPipeTypes
  <2>5. FPipeControl'
    BY <1>0, <1>2, <2>0, <2>2 DEF FPipeControl, FPipeTypes
  <2>6. FPipeOwned'
    BY <1>0, <1>2, <2>0, <2>2, <2>3 DEF FPipeOwned
  <2>7. FPipeFilled'
    BY <1>0, <1>2 DEF FPipeFilled
  <2>8. Left' = Left /\ Left = 0 /\ OnWay' = OnWay /\ Stored' = Stored
    <3>1. bufs[b].idx = bufs[b].cnt /\ bufs[b].idx \in Int
      BY <1>0, <2>0 DEF FPipeFilled, Cell
    <3> QED
      BY <1>0, <1>2, <2>0, <2>2, <2>3, <3>1 DEF Left, OnWay, Stored
  <2>9. FPipeElements' /\ FPipeSums'
    BY <1>0, <1>2, <2>2, <2>3, <2>8 DEF FPipeElements, FPipeSums
  <2> QED
    BY <2>4, <2>5, <2>6, <2>7, <2>9
<1>3. CASE FPipe!put_refused("get2put") /\ gpc' = "idle" /\ UNCHANGED get_
  BY <1>0, <1>3, GetterKeepsFPipe DEF FPipe!put_refused, FPipeTypes
<1> QED
  BY <1>1, <1>2, <1>3 DEF FPipe!give, FPipe!G, FPipe!get2put

LEMMA CellRewound ==
    ASSUME NEW f \in [{1, 2} -> Cell], NEW b \in {1, 2}, NEW g, g = [f EXCEPT ![b].idx = 0]
    PROVE  /\ g \in [{1, 2} -> Cell]
           /\ g[b].idx = 0 /\ g[b].cnt = f[b].cnt /\ g[b].top = f[b].top
           /\ \A c \in {1, 2} : c # b => g[c] = f[c]
<1> DEFINE r == [f[b] EXCEPT !.idx = 0]
<1>1. g = [f EXCEPT ![b] = r]
  OBVIOUS
<1>2. r \in Cell /\ r.cnt = f[b].cnt /\ r.idx = 0 /\ r.top = f[b].top
  BY DEF Cell
<1> HIDE DEF r
<1>3. g[b] = r /\ \A c \in {1, 2} : c # b => g[c] = f[c]
  BY <1>1
<1>4. g \in [{1, 2} -> Cell]
  BY <1>1, <1>2
<1> QED
  BY <1>2, <1>3, <1>4

LEMMA TakeKeepsFPipe == ASSUME FPipeInv, FPipe!take PROVE FPipeInv'
<1> USE DEF FPipeInv, FPipeInv1, FPipeInv2, FPipe!bufVars, FPipe!hist, FPipe!pipeVars
<1>0. /\ gpc = "take" /\ get_ = 0 /\ at["getter"] = {} /\ "getter" \notin expired
      /\ UNCHANGED <<put_, call, ppc, puts, got, cut>>
  BY DEF FPipe!take, FPipe!Awake, FPipe!G, FPipeControl
<1>1. CASE FPipe!get_wait("getter", "put2get") /\ UNCHANGED <<get_, bufs, gpc, ended>>
  <2>1. at' = [at EXCEPT !["getter"] = {"put2get"}] /\ UNCHANGED <<state, data, expired>>
    BY <1>1 DEF FPipe!get_wait, FPipe!wait
  <2>2. /\ at' \in [{"putter", "getter"} -> SUBSET {"put2get", "get2put"}]
        /\ at'["putter"] = at["putter"] /\ \A t \in expired' : at'[t] = {}
    BY <1>0, <2>1 DEF FPipeTypes
  <2> QED
    BY <1>0, <1>1, <2>1, <2>2, ParkKeepsFPipe DEF FPipeTypes, FPipeControl
<1>2. CASE /\ FPipe!get_ok("put2get") /\ get_' = data["put2get"] /\ gpc' = "load" /\ UNCHANGED ended
           /\ bufs' = [bufs EXCEPT ![get_'].idx = 0]
  <2>0. PICK b \in {1, 2} : b = data["put2get"]
    BY <1>2 DEF FPipe!get_ok, FPipeOwned, FPipeTypes, Calls
  <2>1. PICK n : n = IF state["put2get"] = "EXIST" THEN "EMPTY" ELSE "CLOSED"
    OBVIOUS
  <2>2. /\ Calls("put2get") /\ state' = [state EXCEPT !["put2get"] = n]
        /\ data' = [data EXCEPT !["put2get"] = 0] /\ FPipe!notify_all("put2get")
        /\ get_' = b /\ bufs' = [bufs EXCEPT ![b].idx = 0]
    BY <1>2, <2>0, <2>1 DEF FPipe!get_ok, FPipe!Becomes, Calls
  <2>3. /\ state' \in [{"put2get", "get2put"} -> FPipe!States]
        /\ data' \in [{"put2get", "get2put"} -> {0, 1, 2}]
        /\ at' \in [{"putter", "getter"} -> SUBSET {"put2get", "get2put"}]
        /\ expired' \subseteq {"putter", "getter"} /\ expired' = expired /\ \A t \in expired' : at'[t] = {}
        /\ state'["get2put"] = state["get2put"] /\ state'["put2get"] = n
        /\ data'["get2put"] = data["get2put"] /\ data'["put2get"] = 0
        /\ at'["getter"] = {} /\ (at'["putter"] # {} => at["putter"] # {})
    <3>1. n \in FPipe!States
      BY <2>1 DEF FPipe!States
    <3> QED
      BY <1>0, <2>2, <3>1, CallKeepsTypes
  <2>4. /\ n \notin {"EXIST", "CLOSING"} /\ state["put2get"] # "ABORTED"
        /\ (n = "CLOSED" => state["put2get"] = "CLOSING")
    BY <2>1, <2>2 DEF Calls
  <2>5. /\ bufs' \in [{1, 2} -> Cell]
        /\ bufs'[b].idx = 0 /\ bufs'[b].cnt = bufs[b].cnt /\ bufs'[b].top = bufs[b].top
        /\ \A c \in {1, 2} : c # b => bufs'[c] = bufs[c]
    BY <2>2, CellRewound DEF FPipeFilled
  <2>6. put_ # b /\ (put_ # 0 => put_ \in {1, 2}) /\ (Calls("get2put") => data["get2put"] # b)
    BY <2>0, <2>2 DEF FPipeOwned, FPipeTypes
  <2>7. ended # TRUE
    BY <2>2 DEF FPipeControl, Calls
  <2>8. ~Calls("put2get")' /\ Calls("get2put")' = Calls("get2put")
    BY <2>3, <2>4 DEF Calls
  <2>9. FPipeTypes'
    BY <1>0, <1>2, <2>2, <2>3 DEF FPipeTypes
  <2>10. FPipeControl'
    <3>1. /\ get_' = b /\ gpc' = "load" /\ ended' # TRUE
          /\ n \in {"CLOSING", "CLOSED"} => ppc \in {"reset", "closed"}
      BY <1>2, <2>2, <2>4, <2>7 DEF FPipeControl
    <3>2. /\ at'["putter"] # {} \/ "putter" \in expired' => ppc \in {"send", "recv"}
          /\ ~(at'["getter"] # {} \/ "getter" \in expired')
      BY <1>0, <2>3 DEF FPipeControl
    <3>3. get_' # 0 /\ state'["put2get"] = n
      BY <2>3, <3>1
    <3> QED
      BY <1>0, <3>1, <3>2, <3>3 DEF FPipeControl
  <2>11. FPipeOwned'
    BY <1>0, <2>2, <2>3, <2>6, <2>8 DEF FPipeOwned
  <2>12. put_ # 0 => bufs'[put_] = bufs[put_]
    BY <2>5, <2>6
  <2>13. bufs[b].cnt \in Int /\ 1 <= bufs[b].cnt
    BY DEF FPipeFilled, Cell
  <2>14. FPipeFilled'
    <3>1. \A c \in {1, 2} : /\ 0 <= bufs'[c].idx /\ bufs'[c].idx <= bufs'[c].cnt
                            /\ 1 <= bufs'[c].cnt /\ bufs'[c].cnt <= NElm
      BY <2>5, <2>13 DEF FPipeFilled
    <3>2. ppc \in {"send", "store"} => put_ # 0
      BY DEF FPipeControl
    <3>3. bufs'[get_'].idx = 0 /\ bufs'[get_'].cnt = bufs[b].cnt /\ gpc' = "load"
      BY <1>2, <2>2, <2>5
    <3> QED
      BY <1>0, <2>5, <2>12, <2>13, <3>1, <3>2, <3>3 DEF FPipeFilled
  <2>15. Left = 0 /\ OnWay = bufs[b].cnt /\ Left' = bufs[b].cnt /\ OnWay' = 0 /\ Stored' = Stored
    <3>1. get_' = b /\ Calls("put2get")
      BY <2>2
    <3> QED
      BY <1>0, <2>0, <2>5, <2>8, <2>12, <2>13, <3>1 DEF Left, OnWay, Stored
  <2>16. FPipeSums'
    <3>1. Len(got) \in Int /\ Stored \in Int
      BY <2>6 DEF FPipeElements, FPipeFilled, Cell, Stored
    <3>2. Len(got) + bufs[b].cnt + Stored = puts
      BY <2>4, <2>13, <2>15, <3>1 DEF FPipeSums
    <3>3. Len(got') + Left' + OnWay' + Stored' = puts'
      BY <1>0, <2>13, <2>15, <3>1, <3>2
    <3> QED
      BY <1>0, <1>2, <2>7, <2>15, <3>3 DEF FPipeSums
  <2>17. FPipeElements'
    <3>1. \A j \in 0 .. bufs[b].cnt - 1 : bufs'[b].top[j] = Len(got) + 1 + j - 0
      BY <2>0, <2>2, <2>5, <2>13, <2>15 DEF FPipeElements
    <3>2. \A j \in bufs'[get_'].idx .. bufs'[get_'].cnt - 1 :
             bufs'[get_'].top[j] = Len(got) + 1 + j - bufs'[get_'].idx
      BY <2>2, <2>5, <3>1
    <3> QED
      BY <1>0, <2>8, <2>12, <3>2 DEF FPipeElements
  <2> QED
    BY <2>9, <2>10, <2>11, <2>14, <2>16, <2>17
<1>3. CASE /\ FPipe!get_refused("put2get") /\ gpc' = "idle" /\ UNCHANGED <<bufs, get_>>
           /\ ended' = (ended \/ state["put2get"] = "CLOSED")
  <2>1. ended' \in BOOLEAN
    BY <1>3, Zenon
  <2>2. ended' = TRUE => ended = TRUE \/ state["put2get"] = "CLOSED"
    BY <1>3 DEF FPipeTypes
  <2> QED
    BY <1>0, <1>3, <2>1, <2>2, GetterKeepsFPipe DEF FPipe!get_refused
<1> QED
  BY <1>1, <1>2, <1>3 DEF FPipe!take, FPipe!G, FPipe!put2get

LEMMA LoadKeepsFPipe == ASSUME FPipe!FPipeAssumption, FPipeInv, FPipe!load PROVE FPipeInv'
<1> USE DEF FPipeInv, FPipeInv1, FPipeInv2, FPipe!bufVars, FPipe!hist, FPipe!pipeVars
<1>0. PICK b \in {1, 2} : b = get_
  BY DEF FPipe!load, FPipeControl, FPipeTypes
<1>1. /\ gpc = "load" /\ gpc' = "idle"
      /\ UNCHANGED <<state, data, at, expired, put_, get_, call, ppc, puts, ended, cut>>
  BY DEF FPipe!load
<1>2. PICK i : i = bufs[b].idx
  OBVIOUS
<1>3. bufs' = [bufs EXCEPT ![b].top[i] = 0, ![b].idx = i + 1] /\ got' = Append(got, bufs[b].top[i])
  BY <1>0, <1>2 DEF FPipe!load
<1>4. i \in 0 .. NElm - 1 /\ i < bufs[b].cnt /\ bufs[b].cnt \in Int /\ NElm \in Nat
  <2>1. bufs[b].idx \in Int /\ bufs[b].cnt \in Int /\ NElm \in Nat
    BY DEF FPipeFilled, Cell, FPipe!FPipeAssumption
  <2>2. 0 <= bufs[b].idx /\ bufs[b].idx < bufs[b].cnt /\ bufs[b].cnt <= NElm
    BY <1>0, <1>1 DEF FPipeFilled
  <2> QED
    BY <1>2, <2>1, <2>2
<1>5. /\ bufs' \in [{1, 2} -> Cell]
      /\ bufs'[b].idx = i + 1 /\ bufs'[b].cnt = bufs[b].cnt
      /\ \A j \in 0 .. NElm - 1 : bufs'[b].top[j] = IF j = i THEN 0 ELSE bufs[b].top[j]
      /\ \A c \in {1, 2} : c # b => bufs'[c] = bufs[c]
  <2>1. PICK x \in Int, n \in Int : x = 0 /\ n = i + 1
    BY <1>4
  <2>2. bufs \in [{1, 2} -> Cell] /\ bufs' = Written(bufs, b, i, x, n)
    BY <1>3, <2>1 DEF FPipeFilled, Written
  <2>3. i \in 0 .. NElm - 1
    BY <1>4
  <2>4. /\ bufs' \in [{1, 2} -> Cell]
        /\ bufs'[b].idx = n /\ bufs'[b].cnt = bufs[b].cnt
        /\ \A j \in 0 .. NElm - 1 : bufs'[b].top[j] = IF j = i THEN x ELSE bufs[b].top[j]
        /\ \A c \in {1, 2} : c # b => bufs'[c] = bufs[c]
    BY <2>2, <2>3, CellWritten
  <2> QED
    BY <2>1, <2>4
<1>6. /\ Len(got) \in Nat /\ bufs[b].top[i] = Len(got) + 1
      /\ Counts(got') /\ Len(got') = Len(got) + 1
  <2>1. Len(got) \in Nat /\ Counts(got)
    BY DEF FPipeElements
  <2>2. \A j \in i .. bufs[b].cnt - 1 : bufs[b].top[j] = Len(got) + 1 + j - i
    BY <1>0, <1>2 DEF FPipeElements
  <2>3. bufs[b].top[i] = Len(got) + 1
    BY <1>4, <2>1, <2>2
  <2> QED
    BY <1>3, <2>1, <2>3, CountsOn
<1>7. FPipeTypes'
  BY <1>1 DEF FPipeTypes
<1>8. FPipeControl' /\ FPipeOwned'
  BY <1>1 DEF FPipeControl, FPipeOwned, Calls
<1>9. /\ put_ # 0 => put_ \in {1, 2} /\ bufs'[put_] = bufs[put_]
      /\ Calls("put2get") => bufs'[data["put2get"]] = bufs[data["put2get"]]
  <2>1. put_ # 0 => put_ \in {1, 2} /\ put_ # b
    BY <1>0 DEF FPipeTypes, FPipeOwned
  <2>2. Calls("put2get") => data["put2get"] \in {1, 2} /\ data["put2get"] # b
    BY <1>0 DEF FPipeTypes, FPipeOwned
  <2> QED
    BY <1>5, <2>1, <2>2
<1>10. FPipeFilled'
  <2>1. \A c \in {1, 2} : /\ 0 <= bufs'[c].idx /\ bufs'[c].idx <= bufs'[c].cnt
                          /\ 1 <= bufs'[c].cnt /\ bufs'[c].cnt <= NElm
    BY <1>4, <1>5 DEF FPipeFilled
  <2>2. ppc \in {"send", "store"} => put_ # 0
    BY DEF FPipeControl
  <2> QED
    BY <1>1, <1>5, <1>9, <2>1, <2>2 DEF FPipeFilled
<1>11. Calls("put2get")' = Calls("put2get") /\ data'["put2get"] = data["put2get"]
  BY <1>1 DEF Calls
<1>12. /\ OnWay' = OnWay /\ Stored' = Stored
       /\ Left = bufs[b].cnt - i /\ Left' = bufs[b].cnt - (i + 1)
  BY <1>0, <1>1, <1>2, <1>5, <1>9, <1>11 DEF Left, OnWay, Stored
<1>13. FPipeSums'
  <2>1. ended # TRUE
    BY <1>0, <1>1 DEF FPipeControl
  <2>2. OnWay \in Int /\ Stored \in Int
    <3>1. \A c \in {1, 2} : bufs[c].cnt \in Int /\ bufs[c].idx \in Int
      BY DEF FPipeFilled, Cell
    <3>2. Calls("put2get") => data["put2get"] \in {1, 2}
      BY DEF FPipeTypes, FPipeOwned
    <3> QED
      BY <3>1, <3>2 DEF FPipeTypes, OnWay, Stored
  <2>3. state["put2get"] # "ABORTED" => Len(got) + (bufs[b].cnt - i) + OnWay + Stored = puts
    BY <1>12 DEF FPipeSums
  <2>4. state["put2get"] # "ABORTED" => Len(got) + 1 + (bufs[b].cnt - (i + 1)) + OnWay + Stored = puts
    <3>1. i \in Int /\ bufs[b].cnt \in Int /\ Len(got) \in Int
      BY <1>4, <1>6
    <3>2. Len(got) + 1 + (bufs[b].cnt - (i + 1)) = Len(got) + (bufs[b].cnt - i)
      BY ONLY <3>1
    <3> QED
      BY <2>3, <3>2
  <2> QED
    BY <1>1, <1>6, <1>12, <2>1, <2>4 DEF FPipeSums
<1>14. FPipeElements'
  <2>1. \A j \in i + 1 .. bufs[b].cnt - 1 : bufs'[b].top[j] = Len(got) + 1 + 1 + j - (i + 1)
    <3>1. \A j \in i .. bufs[b].cnt - 1 : bufs[b].top[j] = Len(got) + 1 + j - i
      BY <1>0, <1>2 DEF FPipeElements
    <3>2. bufs[b].cnt <= NElm
      BY DEF FPipeFilled
    <3>3. i \in Int /\ i >= 0 /\ bufs[b].cnt \in Int /\ Len(got) \in Int /\ NElm \in Int
      BY <1>4, <1>6
    <3> TAKE j \in i + 1 .. bufs[b].cnt - 1
    <3>4. j \in Int /\ j \in i .. bufs[b].cnt - 1 /\ j \in 0 .. NElm - 1 /\ j # i
      BY <3>2, <3>3
    <3>5. bufs'[b].top[j] = Len(got) + 1 + j - i
      BY <1>5, <3>1, <3>4
    <3> QED
      BY <3>3, <3>4, <3>5
  <2>2. \A j \in bufs'[get_'].idx .. bufs'[get_'].cnt - 1 :
           bufs'[get_'].top[j] = Len(got') + 1 + j - bufs'[get_'].idx
    BY <1>0, <1>1, <1>5, <1>6, <2>1
  <2>3. Calls("put2get") => \A j \in 0 .. bufs[data["put2get"]].cnt - 1 :
            bufs[data["put2get"]].top[j] = Len(got) + 1 + (bufs[b].cnt - (i + 1)) + 1 + j
    <3>1. Calls("put2get") => bufs[data["put2get"]].cnt \in Int
      BY DEF FPipeTypes, FPipeOwned, FPipeFilled, Cell
    <3>2. Calls("put2get") => \A j \in 0 .. bufs[data["put2get"]].cnt - 1 :
            bufs[data["put2get"]].top[j] = Len(got) + (bufs[b].cnt - i) + 1 + j
      BY <1>12 DEF FPipeElements
    <3>3. i \in Int /\ bufs[b].cnt \in Int /\ Len(got) \in Int
      BY <1>4, <1>6
    <3>4. Len(got) + 1 + (bufs[b].cnt - (i + 1)) = Len(got) + (bufs[b].cnt - i)
      BY ONLY <3>3
    <3>5. ASSUME Calls("put2get"), NEW j \in 0 .. bufs[data["put2get"]].cnt - 1
          PROVE  bufs[data["put2get"]].top[j] = Len(got) + 1 + (bufs[b].cnt - (i + 1)) + 1 + j
      <4>1. j \in Int
        BY <3>1, <3>5
      <4>2. bufs[data["put2get"]].top[j] = Len(got) + (bufs[b].cnt - i) + 1 + j
        BY <3>2, <3>5
      <4> HIDE DEF FPipeInv, FPipeInv1, FPipeInv2
      <4>3. Len(got) + 1 + (bufs[b].cnt - (i + 1)) + 1 + j = Len(got) + (bufs[b].cnt - i) + 1 + j
        BY <3>4, Zenon
      <4> QED
        BY <4>2, <4>3, Zenon
    <3> QED
      BY <3>5
  <2>4. puts \in Nat /\ Len(got') \in Nat
    BY <1>6 DEF FPipeElements
  <2> QED
    BY <1>1, <1>6, <1>9, <1>11, <1>12, <2>2, <2>3, <2>4 DEF FPipeElements
<1> QED
  BY <1>7, <1>8, <1>10, <1>13, <1>14

LEMMA AbortKeepsFPipe ==
    ASSUME FPipeInv, NEW p \in {"put2get", "get2put"}, FPipe!abort(p),
           UNCHANGED <<FPipe!bufVars, call, ppc, gpc, FPipe!hist>>
    PROVE  FPipeInv'
<1> USE DEF FPipeInv, FPipeInv1, FPipeInv2, FPipe!bufVars, FPipe!hist
<1>1. /\ state' \in [{"put2get", "get2put"} -> FPipe!States]
      /\ at' \in [{"putter", "getter"} -> SUBSET {"put2get", "get2put"}]
      /\ expired' \subseteq {"putter", "getter"} /\ expired' = expired /\ \A t \in expired' : at'[t] = {}
      /\ \A q \in {"put2get", "get2put"} : state'[q] = (IF q = p THEN "ABORTED" ELSE state[q])
      /\ \A t \in {"putter", "getter"} : at'[t] # {} => at[t] # {}
  <2>1. "ABORTED" \in FPipe!States /\ state' = [state EXCEPT ![p] = "ABORTED"]
    BY DEF FPipe!States, FPipe!abort, FPipe!Becomes
  <2>2. CASE UNCHANGED <<at, expired>>
    BY <2>1, <2>2 DEF FPipeTypes
  <2>3. CASE FPipe!notify_all(p)
    <3>1. PICK d : d = data[p]
      OBVIOUS
    <3>2. d \in {0, 1, 2} /\ data' = [data EXCEPT ![p] = d]
      BY <3>1 DEF FPipeTypes, FPipe!abort
    <3> QED
      BY <2>1, <2>3, <3>2, CallKeepsTypes
  <2> QED
    BY <2>2, <2>3 DEF FPipe!abort
<1>2. data' = data
  BY DEF FPipe!abort
<1>3. /\ Calls("put2get")' => Calls("put2get") /\ state'["put2get"] = state["put2get"]
      /\ Calls("get2put")' => Calls("get2put")
      /\ state'["put2get"] # "ABORTED" => state'["put2get"] = state["put2get"]
      /\ state'["put2get"] \in {state["put2get"], "ABORTED"}
  BY <1>1 DEF Calls
<1>4. FPipeTypes'
  BY <1>1, <1>2 DEF FPipeTypes
<1>5. FPipeControl' /\ FPipeOwned'
  BY <1>1, <1>2, <1>3 DEF FPipeControl, FPipeOwned
<1>6. FPipeFilled'
  BY DEF FPipeFilled
<1>7. Left' = Left /\ Stored' = Stored
  BY DEF Left, Stored
<1>8. FPipeElements'
  BY <1>2, <1>3, <1>7 DEF FPipeElements
<1>9. state'["put2get"] # "ABORTED" => OnWay' = OnWay
  BY <1>2, <1>3 DEF OnWay, Calls
<1>10. FPipeSums'
  BY <1>3, <1>7, <1>9 DEF FPipeSums
<1> QED
  BY <1>4, <1>5, <1>6, <1>8, <1>10

LEMMA StepFPipeInv ==
    FPipe!Pipe1Assumption /\ FPipe!FPipeAssumption /\ FPipeInv /\ [FPipe!Next]_FPipe!vars => FPipeInv'
<1> SUFFICES ASSUME FPipe!Pipe1Assumption, FPipe!FPipeAssumption, FPipeInv, [FPipe!Next]_FPipe!vars
             PROVE  FPipeInv'
  OBVIOUS
<1> USE DEF FPipe!P, FPipe!G
<1>1. ASSUME FPipe!put_timeout PROVE FPipeInv'
  <2>1. /\ "putter" \in expired /\ expired' = expired \ {"putter"} /\ FPipe!Fails
        /\ UNCHANGED <<state, data, at, FPipe!bufVars, call, gpc, puts, got, ended>>
    BY <1>1 DEF FPipe!put_timeout, FPipe!TimedOut
  <2>2. ppc \in {"send", "recv"} /\ at["putter"] = {}
    BY <2>1 DEF FPipeInv, FPipeInv1, FPipeControl, FPipeTypes
  <2> QED
    BY <2>1, <2>2, FailsKeepsFPipe
<1>2. ASSUME FPipe!get_timeout PROVE FPipeInv'
  <2>1. /\ "getter" \in expired /\ expired' = expired \ {"getter"} /\ gpc' = "idle"
        /\ UNCHANGED <<state, data, at, FPipe!bufVars, call, ppc, puts, got, ended, cut>>
    BY <1>2 DEF FPipe!get_timeout, FPipe!TimedOut, FPipe!hist
  <2>2. ended \in BOOLEAN /\ at["getter"] = {}
    BY <2>1 DEF FPipeInv, FPipeInv1, FPipeTypes
  <2> QED
    BY <2>1, <2>2, GetterKeepsFPipe
<1>3. ASSUME FPipe!abort_get2put \/ FPipe!abort_put2get PROVE FPipeInv'
  BY <1>3, AbortKeepsFPipe DEF FPipe!abort_get2put, FPipe!abort_put2get, FPipe!put2get, FPipe!get2put
<1>4. ASSUME NEW t \in {"putter", "getter"}, FPipe!WakeUp(t) \/ FPipe!Expire(t),
             UNCHANGED <<FPipe!bufVars, call, ppc, gpc, apc, FPipe!hist>>
      PROVE  FPipeInv'
  <2>1. /\ at[t] # {} /\ at' = [at EXCEPT ![t] = {}] /\ UNCHANGED <<state, data>>
        /\ expired' = expired \/ expired' = expired \cup {t}
    BY <1>4 DEF FPipe!WakeUp, FPipe!Expire
  <2>2. /\ at' \in [{"putter", "getter"} -> SUBSET {"put2get", "get2put"}]
        /\ at'[t] = {} /\ \A u \in {"putter", "getter"} : u # t => at'[u] = at[u]
    BY <2>1 DEF FPipeInv, FPipeInv1, FPipeTypes
  <2>3. \A u \in {"putter", "getter"} : at'[u] # {} \/ u \in expired' => at[u] # {} \/ u \in expired
    BY <2>1, <2>2
  <2>4. /\ at'["putter"] # {} \/ "putter" \in expired' => ppc \in {"send", "recv"}
        /\ at'["getter"] # {} \/ "getter" \in expired' => gpc \in {"give", "take"}
    BY <2>3 DEF FPipeInv, FPipeInv1, FPipeControl
  <2>5. expired' \subseteq {"putter", "getter"} /\ \A u \in expired' : at'[u] = {}
    BY <2>1, <2>2 DEF FPipeInv, FPipeInv1, FPipeTypes
  <2> QED
    BY <1>4, <2>1, <2>2, <2>4, <2>5, ParkKeepsFPipe
<1>5. ASSUME UNCHANGED FPipe!vars PROVE FPipeInv'
  <2>1. UNCHANGED <<state, data, at, expired, FPipe!bufVars, call, ppc, gpc, FPipe!hist>>
    BY <1>5 DEF FPipe!vars, FPipe!pipeVars
  <2> QED
    BY <2>1, ParkKeepsFPipe DEF FPipeInv, FPipeInv1, FPipeTypes, FPipeControl
<1> QED
  BY <1>1, <1>2, <1>3, <1>4, <1>5, PutKeepsFPipe, FlushKeepsFPipe, SendKeepsFPipe, RecvKeepsFPipe,
     StoreKeepsFPipe, CloseKeepsFPipe, GetKeepsFPipe, GiveKeepsFPipe, TakeKeepsFPipe, LoadKeepsFPipe
  DEF FPipe!Next, FPipe!PutterRuns, FPipe!GetterRuns

LEMMA FPipeInvMeans == FPipeInv => FPipe!BuffersOwned /\ FPipe!InOrder /\ FPipe!ClosedIsDrained
<1> SUFFICES ASSUME FPipeInv PROVE FPipe!BuffersOwned /\ FPipe!InOrder /\ FPipe!ClosedIsDrained
  OBVIOUS
<1> USE DEF FPipeInv, FPipeInv1, FPipeInv2
<1>1. FPipe!BuffersOwned
  <2> DEFINE h == <<{put_} \ {0}, {get_} \ {0}, FPipe!InPipe("put2get"), FPipe!InPipe("get2put")>>
  <2>1. /\ FPipe!InPipe("put2get") = IF Calls("put2get") THEN {data["put2get"]} ELSE {}
        /\ FPipe!InPipe("get2put") = IF Calls("get2put") THEN {data["get2put"]} ELSE {}
    BY DEF FPipe!InPipe, Calls
  <2>2. /\ h[1] \cap h[2] = {} /\ h[1] \cap h[3] = {} /\ h[1] \cap h[4] = {}
        /\ h[2] \cap h[3] = {} /\ h[2] \cap h[4] = {} /\ h[3] \cap h[4] = {}
    BY <2>1 DEF FPipeOwned
  <2> HIDE DEF h
  <2>3. \A i, j \in 1 .. 4 : i # j => h[i] \cap h[j] = {}
    BY <2>2
  <2> QED
    BY <2>3 DEF h, FPipe!BuffersOwned, FPipe!put2get, FPipe!get2put
<1>2. FPipe!InOrder
  BY DEF FPipeElements, Counts, FPipe!InOrder
<1>3. FPipe!ClosedIsDrained
  BY DEF FPipeSums, FPipeTypes, FPipe!ClosedIsDrained
<1> QED
  BY <1>1, <1>2, <1>3

-----------------------------------------------------------------------------
(* Theorems about the sequence of a thread: where the two buffers are, and *)
(* how the items in them follow each other.                                *)

Buffer == [items : Seq(Int), capacity : {0, BufSize}]

OutputTypes ==
    /\ nfree \in Seq(Buffer) /\ filled \in Seq(Buffer)
    /\ v_th \in Buffer /\ vec \in Buffer /\ idx \in Nat
    /\ prpc \in {"run", "full", "put", "exit", "flush", "finalize", "done"}
    /\ copc \in {"init", "read", "next", "get", "join", "over", "drop", "gone"}
    /\ made \in Nat /\ read \in Seq(Int) /\ threw \in BOOLEAN

\* What each side has in hand where it is.
OutputHands ==
    /\ prpc \in {"run", "full", "flush"} => v_th.capacity = BufSize
    /\ (prpc = "run" => Len(v_th.items) < BufSize) /\ (prpc = "full" => Len(v_th.items) = BufSize)
    /\ (prpc \in {"put", "exit"} => v_th.items = <<>>) /\ (prpc = "put" => v_th.capacity = 0)
    /\ prpc \in {"finalize", "done"} /\ threw = FALSE => v_th.items = <<>>
    /\ copc \in {"init", "get"} => vec.items = <<>> /\ vec.capacity = 0
    /\ copc \in {"join", "over"} => vec.items = <<>>
    /\ copc = "read" /\ vec.items # <<>> => idx < Len(vec.items)

\* The buffers with memory in a list.
Real(bs) == {k \in DOMAIN bs : bs[k].capacity = BufSize}
One(b)   == IF b.capacity = BufSize THEN 1 ELSE 0
TwoBuffers == Cardinality(Real(nfree)) + Cardinality(Real(filled)) + One(v_th) + One(vec) = 2

\* s has the numbers after a up to b, in order.
Run(s, a, b) == a <= b /\ s = [k \in 1 .. b - a |-> a + k]

\* And so have the buffers of bs together.
Chained(bs, a, b) ==
    \E e \in [0 .. Len(bs) -> Nat] :
        e[0] = a /\ e[Len(bs)] = b /\ \A k \in 1 .. Len(bs) : Run(bs[k].items, e[k - 1], e[k])

ToRead == IF copc = "next" \/ Len(vec.items) <= idx THEN 0 ELSE Len(vec.items) - idx

OutputRuns ==
    /\ Run(read, 0, Len(read)) /\ Len(v_th.items) <= made
    /\ copc # "next" => \A k \in idx + 1 .. Len(vec.items) : vec.items[k] = Len(read) + k - idx
    /\ Chained(filled, Len(read) + ToRead, made - Len(v_th.items))
    /\ Run(v_th.items, made - Len(v_th.items), made)

\* The farewell of the thread is its last buffer.
OutputEnds ==
    /\ \A k \in 1 .. Len(filled) : filled[k].items = <<>> => k = Len(filled) /\ prpc = "done"
    /\ (copc = "read" /\ vec.items = <<>>) \/ copc \in {"join", "over"} => prpc = "done" /\ filled = <<>>
    /\ copc = "gone" => prpc = "done"

OutputInv == OutputTypes /\ OutputHands /\ TwoBuffers /\ OutputRuns /\ OutputEnds /\ Output!NoLostWakeup

LEMMA RealFinite == ASSUME NEW s \in Seq(Buffer) PROVE IsFiniteSet(Real(s)) /\ Cardinality(Real(s)) \in Nat
<1>1. IsFiniteSet(1 .. Len(s))
  BY FS_Interval
<1>2. Real(s) \subseteq 1 .. Len(s)
  BY DEF Real
<1> QED
  BY <1>1, <1>2, FS_Subset, FS_CardinalityType

LEMMA RealAppend ==
    ASSUME NEW s \in Seq(Buffer), NEW b \in Buffer
    PROVE  Append(s, b) \in Seq(Buffer) /\ Cardinality(Real(Append(s, b))) = Cardinality(Real(s)) + One(b)
<1>1. /\ Append(s, b) \in Seq(Buffer) /\ Len(s) \in Nat /\ Len(Append(s, b)) = Len(s) + 1
      /\ Append(s, b)[Len(s) + 1] = b /\ \A k \in 1 .. Len(s) : Append(s, b)[k] = s[k]
  OBVIOUS
<1>2. DOMAIN s = 1 .. Len(s) /\ DOMAIN Append(s, b) = 1 .. Len(s) + 1
  OBVIOUS
<1>3. CASE b.capacity = BufSize
  <2>1. Real(Append(s, b)) = Real(s) \cup {Len(s) + 1} /\ Len(s) + 1 \notin Real(s)
    BY <1>1, <1>2, <1>3 DEF Real
  <2>2. Cardinality(Real(s) \cup {Len(s) + 1}) = Cardinality(Real(s)) + 1
    BY <2>1, RealFinite, FS_AddElement
  <2> QED
    BY <1>3, <2>1, <2>2 DEF One
<1>4. CASE b.capacity # BufSize
  <2>1. Real(Append(s, b)) = Real(s)
    BY <1>1, <1>2, <1>4 DEF Real
  <2> QED
    BY <1>4, <2>1, RealFinite DEF One
<1> QED
  BY <1>1, <1>3, <1>4

LEMMA RealTail ==
    ASSUME NEW s \in Seq(Buffer), s # <<>>
    PROVE  /\ Tail(s) \in Seq(Buffer) /\ Head(s) \in Buffer
           /\ Cardinality(Real(s)) = Cardinality(Real(Tail(s))) + One(Head(s))
<1>1. /\ Tail(s) \in Seq(Buffer) /\ Head(s) \in Buffer /\ Head(s) = s[1] /\ Len(s) \in Nat \ {0}
      /\ Len(Tail(s)) = Len(s) - 1 /\ \A k \in 1 .. Len(s) - 1 : Tail(s)[k] = s[k + 1]
  OBVIOUS
<1>2. DOMAIN s = 1 .. Len(s) /\ DOMAIN Tail(s) = 1 .. Len(s) - 1
  BY <1>1
<1> DEFINE R == Real(s) \ {1}
           f == [k \in Real(Tail(s)) |-> k + 1]
<1>3. f \in Bijection(Real(Tail(s)), R)
  <2>1. \A k \in Real(Tail(s)) : f[k] = k + 1 /\ k \in Int /\ k + 1 \in R
    BY <1>1, <1>2 DEF Real
  <2>2. \A j \in R : j - 1 \in Real(Tail(s)) /\ f[j - 1] = j
    BY <1>1, <1>2 DEF Real
  <2>3. f \in [Real(Tail(s)) -> R]
    BY <2>1
  <2> HIDE DEF f, R
  <2>4. f \in Injection(Real(Tail(s)), R)
    BY <2>1, <2>3 DEF Injection, IsInjective
  <2>5. f \in Surjection(Real(Tail(s)), R)
    BY <2>2, <2>3 DEF Surjection
  <2> QED
    BY <2>4, <2>5 DEF Bijection
<1>4. Cardinality(R) = Cardinality(Real(Tail(s)))
  <2>1. ExistsBijection(Real(Tail(s)), R)
    BY <1>3 DEF ExistsBijection
  <2>2. IsFiniteSet(Real(Tail(s)))
    BY <1>1, RealFinite
  <2> HIDE DEF R
  <2> QED
    BY <2>1, <2>2, FS_Bijection
<1>5. CASE Head(s).capacity = BufSize
  <2>1. 1 \in Real(s)
    BY <1>1, <1>2, <1>5 DEF Real
  <2>2. Cardinality(R) = Cardinality(Real(s)) - 1
    BY <2>1, RealFinite, FS_RemoveElement
  <2> QED
    BY <1>1, <1>4, <1>5, <2>2, RealFinite DEF One
<1>6. CASE Head(s).capacity # BufSize
  <2>1. R = Real(s)
    BY <1>1, <1>2, <1>6 DEF Real
  <2>2. Cardinality(Real(s)) = Cardinality(Real(Tail(s))) /\ Cardinality(Real(s)) \in Nat
    BY <1>4, <2>1, RealFinite
  <2> QED
    BY <1>6, <2>2 DEF One
<1> QED
  BY <1>5, <1>6

LEMMA RunAppend ==
    ASSUME NEW a \in Int, NEW b \in Int, NEW s, Run(s, a, b), NEW x, x = b + 1
    PROVE  Run(Append(s, x), a, b + 1) /\ Len(Append(s, x)) = Len(s) + 1 /\ Len(s) = b - a /\ s \in Seq(Int)
<1>1. s \in Seq(Int) /\ Len(s) = b - a /\ a <= b /\ \A k \in 1 .. b - a : s[k] = a + k
  <2>1. s = [k \in 1 .. b - a |-> a + k] /\ a <= b
    BY DEF Run
  <2>2. b - a \in Nat /\ \A k \in 1 .. b - a : a + k \in Int
    BY <2>1
  <2> QED
    BY <2>1, <2>2
<1>2. /\ DOMAIN Append(s, x) = 1 .. b + 1 - a /\ Len(Append(s, x)) = Len(s) + 1
      /\ \A k \in 1 .. b + 1 - a : Append(s, x)[k] = a + k
  BY <1>1
<1>3. Append(s, x) = [k \in 1 .. b + 1 - a |-> a + k]
  <2>1. Append(s, x) = [k \in DOMAIN Append(s, x) |-> Append(s, x)[k]]
    BY <1>1
  <2> QED
    BY <1>2, <2>1
<1> QED
  BY <1>1, <1>2, <1>3 DEF Run

LEMMA RunConcat ==
    ASSUME NEW a \in Int, NEW b \in Int, NEW c \in Int, NEW s, Run(s, a, b), NEW t, Run(t, b, c)
    PROVE  Run(s \o t, a, c)
<1>1. s \in Seq(Int) /\ Len(s) = b - a /\ a <= b /\ \A k \in 1 .. b - a : s[k] = a + k
  BY RunAppend DEF Run
<1>2. t \in Seq(Int) /\ Len(t) = c - b /\ b <= c /\ \A k \in 1 .. c - b : t[k] = b + k
  BY RunAppend DEF Run
<1>3. s \o t \in Seq(Int) /\ Len(s \o t) = c - a /\ DOMAIN (s \o t) = 1 .. c - a
  BY <1>1, <1>2
<1>4. ASSUME NEW k \in 1 .. c - a PROVE (s \o t)[k] = a + k
  <2>1. CASE k \in 1 .. b - a
    BY <1>1, <1>2, <2>1
  <2>2. CASE k \notin 1 .. b - a
    <3>1. k - (b - a) \in 1 .. c - b /\ k \in Len(s) + 1 .. Len(s) + Len(t)
      BY <1>1, <1>2, <2>2
    <3>2. (s \o t)[k] = t[k - Len(s)]
      <4>1. \A u, v \in Seq(Int) : \A j \in Len(u) + 1 .. Len(u) + Len(v) : (u \o v)[j] = v[j - Len(u)]
        OBVIOUS
      <4> QED
        BY ONLY <1>1, <1>2, <3>1, <4>1
    <3>3. t[k - Len(s)] = b + (k - (b - a))
      BY <1>1, <1>2, <3>1
    <3> QED
      BY <3>2, <3>3
  <2> QED
    BY <2>1, <2>2
<1>5. s \o t = [k \in 1 .. c - a |-> a + k]
  <2>1. PICK u \in Seq(Int) : u = s \o t
    BY <1>3
  <2>2. Len(u) = c - a /\ \A k \in 1 .. c - a : u[k] = a + k
    BY <1>3, <1>4, <2>1
  <2>3. u = [k \in 1 .. c - a |-> a + k]
    BY <2>2
  <2> QED
    BY <2>1, <2>3
<1> QED
  BY <1>1, <1>2, <1>5 DEF Run

LEMMA ChainedAppend ==
    ASSUME NEW s \in Seq(Buffer), NEW x \in Buffer, NEW a, NEW b, NEW c \in Nat,
           Chained(s, a, b), Run(x.items, b, c)
    PROVE  Chained(Append(s, x), a, c)
<1>0. PICK n \in Nat : n = Len(s)
  OBVIOUS
<1>1. PICK e \in [0 .. n -> Nat] :
        e[0] = a /\ e[n] = b /\ \A k \in 1 .. n : Run(s[k].items, e[k - 1], e[k])
  BY <1>0 DEF Chained
<1>2. PICK f : f = [k \in 0 .. n + 1 |-> IF k = n + 1 THEN c ELSE e[k]]
  OBVIOUS
<1>3. f \in [0 .. n + 1 -> Nat] /\ f[n + 1] = c /\ \A k \in 0 .. n : f[k] = e[k]
  BY <1>2
<1>4. Len(Append(s, x)) = n + 1 /\ Append(s, x)[n + 1] = x /\ \A k \in 1 .. n : Append(s, x)[k] = s[k]
  BY <1>0
<1>5. ASSUME NEW k \in 1 .. n + 1 PROVE Run(Append(s, x)[k].items, f[k - 1], f[k])
  <2>1. CASE k = n + 1
    BY <1>1, <1>3, <1>4, <2>1
  <2>2. CASE k # n + 1
    <3>1. k \in 1 .. n /\ k - 1 \in 0 .. n /\ k \in 0 .. n
      BY <2>2
    <3> QED
      BY <1>1, <1>3, <1>4, <3>1
  <2> QED
    BY <2>1, <2>2
<1>6. f[0] = a
  BY <1>1, <1>3
<1> QED
  BY <1>3, <1>4, <1>5, <1>6 DEF Chained

LEMMA ChainedTail ==
    ASSUME NEW s \in Seq(Buffer), s # <<>>, NEW a, NEW c, Chained(s, a, c)
    PROVE  /\ a \in Nat /\ c \in Nat
           /\ \E m \in Nat : Run(Head(s).items, a, m) /\ Chained(Tail(s), m, c)
<1>0. PICK n \in Nat \ {0} : n = Len(s)
  OBVIOUS
<1>1. PICK e \in [0 .. n -> Nat] :
        e[0] = a /\ e[n] = c /\ \A k \in 1 .. n : Run(s[k].items, e[k - 1], e[k])
  BY <1>0 DEF Chained
<1>2. PICK f : f = [k \in 0 .. n - 1 |-> e[k + 1]]
  OBVIOUS
<1>3. f \in [0 .. n - 1 -> Nat] /\ \A k \in 0 .. n - 1 : f[k] = e[k + 1]
  BY <1>2
<1>4. Len(Tail(s)) = n - 1 /\ Head(s) = s[1] /\ \A k \in 1 .. n - 1 : Tail(s)[k] = s[k + 1]
  BY <1>0
<1>5. ASSUME NEW k \in 1 .. n - 1 PROVE Run(Tail(s)[k].items, f[k - 1], f[k])
  <2>1. k + 1 \in 1 .. n /\ k - 1 \in 0 .. n - 1 /\ k \in 0 .. n - 1 /\ k - 1 + 1 = k /\ k + 1 - 1 = k
    OBVIOUS
  <2>2. Run(s[k + 1].items, e[k], e[k + 1])
    BY <1>1, <2>1
  <2> QED
    BY <1>3, <1>4, <2>1, <2>2
<1>6. f[0] = e[1] /\ f[n - 1] = c /\ e[1] \in Nat
  BY <1>1, <1>3
<1>7. Run(s[1].items, a, e[1])
  BY <1>1
<1>8. Chained(Tail(s), e[1], c)
  BY <1>3, <1>4, <1>5, <1>6 DEF Chained
<1>9. a \in Nat /\ c \in Nat
  BY <1>1
<1> QED
  BY <1>4, <1>6, <1>7, <1>8, <1>9

\* What the items of chained buffers are together.
LEMMA ChainedFlat ==
    ASSUME NEW s \in Seq(Buffer), NEW a, NEW b, Chained(s, a, b)
    PROVE  Run(Output!All(s), a, b) /\ a \in Nat /\ b \in Nat
<1>0. PICK n \in Nat : n = Len(s)
  OBVIOUS
<1>1. PICK e \in [0 .. n -> Nat] :
        e[0] = a /\ e[n] = b /\ \A k \in 1 .. n : Run(s[k].items, e[k - 1], e[k])
  BY <1>0 DEF Chained
<1>2. PICK q : q = [k \in 1 .. n |-> s[k].items]
  OBVIOUS
<1>3. /\ Len(q) = n /\ DOMAIN q = 1 .. n /\ \A k \in 1 .. n : Run(q[k], e[k - 1], e[k])
      /\ n = 0 => q = <<>>
  BY <1>1, <1>2
<1>4. a \in Nat /\ b \in Nat
  BY <1>1
<1>5. Output!All(s) = Output!FlattenSeq(q)
  <2>1. [k \in DOMAIN s |-> s[k].items] = q
    BY <1>0, <1>2
  <2> QED
    BY <2>1 DEF Output!All
<1>6. CASE n = 0
  <2>1. Output!All(s) = <<>>
    BY <1>3, <1>5, <1>6 DEF Output!FlattenSeq
  <2> QED
    BY <1>1, <1>4, <1>6, <2>1 DEF Run
<1>7. CASE n # 0
  <2> DEFINE F(f) == f = [i \in 1 .. n |-> IF i = 1 THEN q[i] ELSE f[i - 1] \o q[i]]
             flat == CHOOSE f : F(f)
  <2>1. Output!FlattenSeq(q) = flat[n]
    BY <1>3, <1>7 DEF Output!FlattenSeq
  <2>2. ASSUME NEW i \in 2 .. n, NEW t, Run(t, a, e[i - 1]) PROVE Run(t \o q[i], a, e[i])
    <3>1. Run(q[i], e[i - 1], e[i]) /\ e[i - 1] \in Int /\ e[i] \in Int /\ a \in Int
      BY <1>3, <1>4
    <3> QED
      BY ONLY <2>2, <3>1, RunConcat
  <2>3. ASSUME NEW i \in 1 .. n PROVE a <= e[i]
    <3> DEFINE Bad == {j \in 1 .. n : ~(a <= e[j])}
    <3> SUFFICES ASSUME Bad # {} PROVE FALSE
      BY DEF Bad
    <3>1. Bad \subseteq Nat
      OBVIOUS
    <3>2. PICK j \in Bad : \A k \in Bad : j <= k
      BY <3>1, Smallest
    <3>3. j \in 1 .. n /\ ~(a <= e[j]) /\ e[j - 1] <= e[j]
      BY <1>3 DEF Run
    <3>4. j # 1
      BY <1>1, <3>3
    <3>5. j - 1 \in 1 .. n /\ j - 1 \notin Bad
      BY <3>2, <3>3, <3>4
    <3>6. a <= e[j - 1]
      BY <3>5
    <3>7. e[j] \in Nat /\ e[j - 1] \in Nat
      BY <1>1, <3>3, <3>5
    <3> QED
      BY <1>4, <3>3, <3>6, <3>7
  <2>4. \E f : F(f)
    <3>1. PICK g : g = [i \in 1 .. n |-> [k \in 1 .. e[i] - a |-> a + k]]
      OBVIOUS
    <3>2. \A i \in 1 .. n : Run(g[i], a, e[i])
      BY <2>3, <3>1 DEF Run
    <3>3. ASSUME NEW i \in 1 .. n PROVE g[i] = IF i = 1 THEN q[i] ELSE g[i - 1] \o q[i]
      <4>1. CASE i = 1
        <5>1. Run(q[i], a, e[i])
          BY <1>1, <1>3, <4>1
        <5> QED
          BY <3>2, <4>1, <5>1 DEF Run
      <4>2. CASE i # 1
        <5>1. i \in 2 .. n /\ i - 1 \in 1 .. n
          BY <4>2
        <5>2. Run(g[i - 1] \o q[i], a, e[i])
          BY <2>2, <3>2, <5>1
        <5> QED
          BY <3>2, <4>2, <5>2 DEF Run
      <4> QED
        BY <4>1, <4>2
    <3>4. g = [i \in 1 .. n |-> g[i]]
      BY <3>1
    <3> QED
      BY <3>3, <3>4
  <2>5. flat = [i \in 1 .. n |-> IF i = 1 THEN q[i] ELSE flat[i - 1] \o q[i]]
    BY <2>4
  <2> HIDE DEF flat, F
  <2>6. flat[1] = q[1] /\ \A i \in 2 .. n : flat[i] = flat[i - 1] \o q[i]
    <3>1. \A i \in 1 .. n : flat[i] = IF i = 1 THEN q[i] ELSE flat[i - 1] \o q[i]
      BY <2>5, Zenon
    <3>2. 1 \in 1 .. n /\ \A i \in 2 .. n : i \in 1 .. n /\ i # 1
      BY <1>7
    <3> QED
      BY <3>1, <3>2, Zenon
  <2>7. ASSUME NEW i \in 1 .. n PROVE Run(flat[i], a, e[i])
    <3> DEFINE Bad == {j \in 1 .. n : ~Run(flat[j], a, e[j])}
    <3> SUFFICES ASSUME Bad # {} PROVE FALSE
      BY DEF Bad
    <3>1. Bad \subseteq Nat
      OBVIOUS
    <3>2. PICK j \in Bad : \A k \in Bad : j <= k
      BY <3>1, Smallest
    <3>3. j # 1
      BY <1>1, <1>3, <2>6
    <3>4. j \in 2 .. n /\ j - 1 \in 1 .. n /\ j - 1 \notin Bad
      BY <3>2, <3>3
    <3>5. Run(flat[j - 1], a, e[j - 1])
      BY <3>4
    <3> QED
      BY <2>2, <2>6, <3>4, <3>5
  <2> QED
    BY <1>1, <1>4, <1>5, <1>7, <2>1, <2>7
<1> QED
  BY <1>4, <1>6, <1>7

LEMMA RunNothing == \A a \in Int : Run(<<>>, a, a)
<1> SUFFICES ASSUME NEW a \in Int PROVE Run(<<>>, a, a)
  OBVIOUS
<1>1. 1 .. a - a = {} /\ a <= a
  OBVIOUS
<1> QED
  BY <1>1 DEF Run

LEMMA BufferFacts ==
    ASSUME NEW b \in Buffer
    PROVE  /\ b.items \in Seq(Int) /\ Len(b.items) \in Nat /\ b.capacity \in {0, BufSize}
           /\ b.items = <<>> <=> Len(b.items) = 0
BY DEF Buffer

LEMMA InitOutputInv == Output!DoubleBufferAssumption /\ Output!Init => OutputInv
<1> SUFFICES ASSUME Output!DoubleBufferAssumption, Output!Init PROVE OutputInv
  OBVIOUS
<1>0. BufSize \in Nat \ {0}
  BY DEF Output!DoubleBufferAssumption
<1>1. PICK n \in Buffer : n.items = <<>> /\ n.capacity = BufSize /\ n = Output!New
  <2>1. Output!New \in Buffer /\ Output!New.items = <<>> /\ Output!New.capacity = BufSize
    BY DEF Output!New, Buffer
  <2> QED
    BY <2>1
<1>2. PICK z \in Buffer : z.items = <<>> /\ z.capacity = 0 /\ z = Output!Empty
  <2>1. Output!Empty \in Buffer /\ Output!Empty.items = <<>> /\ Output!Empty.capacity = 0
    BY DEF Output!Empty, Buffer
  <2> QED
    BY <2>1
<1>3. /\ nfree = <<n>> /\ filled = <<>> /\ v_th = n /\ vec = z /\ idx = 0
      /\ prpc = "run" /\ copc = "init" /\ made = 0 /\ read = <<>> /\ threw = FALSE /\ parked = {}
  BY <1>1, <1>2 DEF Output!Init, Output!CondVarInit
<1>4. OutputTypes
  <2>1. threw \in BOOLEAN
    BY <1>3, Zenon
  <2>2. nfree \in Seq(Buffer) /\ filled \in Seq(Buffer) /\ read \in Seq(Int)
    BY <1>3
  <2> QED
    BY <1>3, <2>1, <2>2 DEF OutputTypes
<1>5. Len(v_th.items) = 0 /\ Len(vec.items) = 0 /\ Len(read) = 0 /\ Len(filled) = 0
  BY <1>1, <1>2, <1>3
<1>6. OutputHands /\ OutputEnds /\ Output!NoLostWakeup
  BY <1>0, <1>1, <1>2, <1>3, <1>5 DEF OutputHands, OutputEnds, Output!NoLostWakeup
<1>7. TwoBuffers
  <2>1. Real(nfree) = {1} /\ Real(filled) = {}
    BY <1>1, <1>3 DEF Real
  <2>2. One(v_th) = 1 /\ One(vec) = 0
    BY <1>0, <1>1, <1>2, <1>3 DEF One
  <2> QED
    BY <2>1, <2>2, FS_Singleton, FS_EmptySet DEF TwoBuffers
<1>8. OutputRuns
  <2>1. ToRead = 0
    BY <1>3, <1>5 DEF ToRead
  <2>2. Chained(filled, 0, 0)
    <3>1. PICK e : e = [k \in 0 .. 0 |-> 0]
      OBVIOUS
    <3>2. e \in [0 .. 0 -> Nat] /\ e[0] = 0 /\ 1 .. 0 = {}
      BY <3>1
    <3> QED
      BY <1>5, <3>2 DEF Chained
  <2>3. Run(<<>>, 0, 0)
    BY RunNothing
  <2> QED
    BY <1>1, <1>3, <1>5, <2>1, <2>2, <2>3 DEF OutputRuns
<1> QED
  BY <1>4, <1>6, <1>7, <1>8 DEF OutputInv

LEMMA StepOutputWakes == Output!NoLostWakeup /\ [Output!Next]_Output!vars => Output!NoLostWakeup'
<1> SUFFICES ASSUME Output!NoLostWakeup, [Output!Next]_Output!vars PROVE Output!NoLostWakeup'
  OBVIOUS
<1> USE DEF Output!NoLostWakeup, Output!cvVars, Output!notify_all, Output!wait, Output!producerVars,
    Output!consumerVars
<1>1. CASE Output!put
  BY <1>1 DEF Output!put
<1>2. CASE Output!put_again
  BY <1>2 DEF Output!put_again, Output!Awake, Output!TakeFree
<1>3. CASE Output!flush
  BY <1>3 DEF Output!flush
<1>4. CASE Output!await_filled
  BY <1>4 DEF Output!await_filled, Output!Awake, Output!TakeFilled
<1>5. CASE Output!get
  BY <1>5 DEF Output!get
<1>6. CASE Output!output \/ Output!return \/ Output!throw \/ Output!exit
  BY <1>6 DEF Output!output, Output!return, Output!throw, Output!exit
<1>7. CASE Output!next \/ Output!at_end \/ Output!join
  BY <1>7 DEF Output!next, Output!at_end, Output!join
<1>8. CASE Output!shutdown_producer \/ Output!shutdown_consumer
  BY <1>8 DEF Output!shutdown_producer, Output!shutdown_consumer
<1>9. CASE Output!Wakes
  BY <1>9 DEF Output!Wakes, Output!WakeUp
<1>10. CASE UNCHANGED Output!vars
  BY <1>10 DEF Output!vars
<1> QED
  BY <1>1, <1>2, <1>3, <1>4, <1>5, <1>6, <1>7, <1>8, <1>9, <1>10
    DEF Output!Next, Output!Produces, Output!Consumes

\* The reader takes the next buffer.
LEMMA TakeFilledKeeps ==
    ASSUME OutputTypes, TwoBuffers, OutputRuns, OutputEnds,
           filled # <<>>, Output!TakeFilled, ToRead = 0,
           UNCHANGED <<v_th, prpc, made, threw, read>>
    PROVE  /\ filled' \in Seq(Buffer) /\ vec' \in Buffer /\ idx' = 0 /\ copc' = "read"
           /\ Cardinality(Real(filled)) = Cardinality(Real(filled')) + One(vec')
           /\ vec'.items # <<>> => 0 < Len(vec'.items)
           /\ OutputRuns' /\ OutputEnds'
<1>1. vec' = Head(filled) /\ idx' = 0 /\ filled' = Tail(filled) /\ copc' = "read"
  BY DEF Output!TakeFilled
<1>2. filled \in Seq(Buffer) /\ made \in Nat /\ v_th \in Buffer
  BY DEF OutputTypes
<1>3. /\ filled' \in Seq(Buffer) /\ vec' \in Buffer
      /\ Cardinality(Real(filled)) = Cardinality(Real(filled')) + One(vec')
  BY <1>1, <1>2, RealTail
<1>4. Len(read) \in Nat
  BY DEF OutputTypes
<1>5. PICK m \in Nat : Run(vec'.items, Len(read), m) /\ Chained(filled', m, made - Len(v_th.items))
  BY <1>1, <1>2, <1>4, ChainedTail DEF OutputRuns
<1>6. vec'.items \in Seq(Int) /\ Len(vec'.items) = m - Len(read) /\ Len(read) <= m
      /\ \A k \in 1 .. Len(vec'.items) : vec'.items[k] = Len(read) + k
  BY <1>4, <1>5, RunAppend DEF Run
<1>7. ToRead' = Len(vec'.items)
  BY <1>1, <1>6 DEF ToRead
<1>8. OutputRuns'
  <2>1. Chained(filled', Len(read) + ToRead', made - Len(v_th.items))
    BY <1>4, <1>5, <1>6, <1>7
  <2>2. \A k \in 1 .. Len(vec'.items) : vec'.items[k] = Len(read) + k - 0
    <3>1. \A a, k \in Int : a + k - 0 = a + k
      OBVIOUS
    <3>2. Len(read) \in Int /\ \A k \in 1 .. Len(vec'.items) : k \in Int
      BY <1>4, <1>6
    <3> QED
      BY <1>6, <3>1, <3>2
  <2> QED
    BY <1>1, <2>1, <2>2 DEF OutputRuns
<1>9. OutputEnds'
  <2>1. PICK n \in Nat \ {0} : n = Len(filled)
    BY <1>2
  <2>2. Len(filled') = n - 1 /\ vec' = filled[1] /\ (\A k \in 1 .. n - 1 : filled'[k] = filled[k + 1])
        /\ (n = 1 => filled' = <<>>)
    BY <1>1, <1>2, <2>1
  <2>3. \A k \in 1 .. n : filled[k].items = <<>> => k = n /\ prpc = "done"
    BY <2>1 DEF OutputEnds
  <2>4. \A k \in 1 .. n - 1 : filled'[k].items = <<>> => k = n - 1 /\ prpc = "done"
    BY <2>2, <2>3
  <2>5. vec'.items = <<>> => prpc = "done" /\ filled' = <<>>
    BY <2>2, <2>3
  <2> QED
    BY <1>1, <2>2, <2>4, <2>5 DEF OutputEnds
<1>10. vec'.items # <<>> => 0 < Len(vec'.items)
  BY <1>6
<1> QED
  BY <1>1, <1>3, <1>8, <1>9, <1>10

\* The function's buffer goes to the reader.
LEMMA PutFilledKeeps ==
    ASSUME OutputTypes, OutputRuns, OutputEnds,
           v_th.items # <<>>, prpc # "done", prpc' # "done",
           filled' = Append(filled, v_th), v_th' \in Buffer, v_th'.items = <<>>,
           UNCHANGED <<vec, idx, copc, made, read>>
    PROVE  /\ filled' \in Seq(Buffer)
           /\ Cardinality(Real(filled')) = Cardinality(Real(filled)) + One(v_th)
           /\ OutputRuns' /\ OutputEnds'
<1>1. filled \in Seq(Buffer) /\ v_th \in Buffer /\ made \in Nat /\ Len(v_th.items) \in Nat
      /\ Len(v_th.items) <= made
  BY BufferFacts DEF OutputTypes, OutputRuns
<1>2. filled' \in Seq(Buffer) /\ Cardinality(Real(filled')) = Cardinality(Real(filled)) + One(v_th)
  BY <1>1, RealAppend
<1>3. ToRead' = ToRead /\ Len(v_th'.items) = 0
  BY DEF ToRead
<1>4. OutputRuns'
  <2>1. Chained(filled', Len(read) + ToRead, made)
    BY <1>1, ChainedAppend DEF OutputRuns
  <2>2. Run(<<>>, made, made) /\ made - 0 = made
    BY <1>1, RunNothing
  <2> QED
    BY <1>1, <1>3, <2>1, <2>2 DEF OutputRuns
<1>5. OutputEnds'
  <2>1. PICK n \in Nat : n = Len(filled)
    BY <1>1
  <2>2. Len(filled') = n + 1 /\ filled'[n + 1] = v_th /\ \A k \in 1 .. n : filled'[k] = filled[k]
    BY <1>1, <2>1
  <2>3. \A k \in 1 .. n : filled[k].items # <<>>
    BY <2>1 DEF OutputEnds
  <2>4. \A k \in 1 .. n + 1 : filled'[k].items # <<>>
    BY <2>2, <2>3
  <2> QED
    BY <2>2, <2>4 DEF OutputEnds
<1> QED
  BY <1>2, <1>4, <1>5

\* The function gets a buffer of the reader's back.
LEMMA TakeFreeKeeps ==
    ASSUME OutputTypes, nfree # <<>>, Output!TakeFree
    PROVE  /\ nfree' \in Seq(Buffer) /\ v_th' \in Buffer /\ v_th'.items = <<>>
           /\ Cardinality(Real(nfree)) = Cardinality(Real(nfree')) + One(v_th')
           /\ prpc' = IF v_th'.capacity = BufSize THEN "run" ELSE "exit"
<1>1. nfree' = Tail(nfree) /\ prpc' = IF v_th'.capacity = BufSize THEN "run" ELSE "exit"
  BY DEF Output!TakeFree
<1>2. PICK h : h = Head(nfree)
  OBVIOUS
<1>3. v_th' = [h EXCEPT !.items = <<>>]
  BY <1>2 DEF Output!TakeFree
<1>4. /\ nfree' \in Seq(Buffer) /\ h \in Buffer
      /\ Cardinality(Real(nfree)) = Cardinality(Real(nfree')) + One(h)
  BY <1>1, <1>2, RealTail DEF OutputTypes
<1>5. v_th' \in Buffer /\ v_th'.items = <<>> /\ v_th'.capacity = h.capacity
  <2>0. <<>> \in Seq(Int)
    OBVIOUS
  <2>1. PICK q \in Seq(Int) : q = <<>>
    BY <2>0, Zenon
  <2>2. v_th' = [h EXCEPT !.items = q]
    BY <1>3, <2>1
  <2>3. v_th' \in Buffer /\ v_th'.items = q /\ v_th'.capacity = h.capacity
    BY <1>4, <2>2 DEF Buffer
  <2> QED
    BY <2>1, <2>3
<1> QED
  BY <1>1, <1>4, <1>5 DEF One

LEMMA EmptyBuffer ==
    ASSUME Output!DoubleBufferAssumption
    PROVE  Output!Empty \in Buffer /\ Output!Empty.items = <<>> /\ Output!Empty.capacity = 0
    /\ One(Output!Empty) = 0
BY DEF Output!Empty, Buffer, One, Output!DoubleBufferAssumption

LEMMA CountsAreInt ==
    OutputTypes => /\ Cardinality(Real(nfree)) \in Int /\ Cardinality(Real(filled)) \in Int
                   /\ One(v_th) \in Int /\ One(vec) \in Int
BY RealFinite DEF OutputTypes, One

Safe == OutputTypes /\ OutputHands /\ TwoBuffers /\ OutputRuns /\ OutputEnds

LEMMA OutputKeeps == ASSUME Output!DoubleBufferAssumption, Safe, Output!output PROVE Safe'
<1> USE DEF Safe, Output!consumerVars
<1>1. /\ prpc = "run" /\ made' = made + 1 /\ v_th' = [v_th EXCEPT !.items = Append(v_th.items, made + 1)]
      /\ prpc' = IF Len(v_th'.items) = v_th.capacity THEN "full" ELSE "run"
      /\ UNCHANGED <<nfree, filled, threw, vec, idx, copc, read>>
  BY DEF Output!output
<1>2. /\ v_th \in Buffer /\ made \in Nat /\ v_th.items \in Seq(Int) /\ Len(v_th.items) \in Nat
      /\ Len(v_th.items) <= made /\ BufSize \in Nat /\ v_th.capacity = BufSize /\ Len(v_th.items) < BufSize
  BY <1>1, BufferFacts DEF OutputTypes, OutputRuns, OutputHands, Output!DoubleBufferAssumption
<1>3. PICK q : q = Append(v_th.items, made + 1)
  OBVIOUS
<1>4. q \in Seq(Int) /\ Len(q) = Len(v_th.items) + 1 /\ q # <<>>
  BY <1>2, <1>3
<1>5. v_th' \in Buffer /\ v_th'.items = q /\ v_th'.capacity = BufSize
  BY <1>1, <1>2, <1>3, <1>4 DEF Buffer
<1>6. OutputTypes'
  BY <1>1, <1>2, <1>5 DEF OutputTypes
<1>7. OutputHands'
  BY <1>1, <1>2, <1>4, <1>5 DEF OutputHands
<1>8. TwoBuffers'
  BY <1>1, <1>2, <1>5 DEF TwoBuffers, One
<1>9. OutputRuns'
  <2>1. Run(q, made - Len(v_th.items), made + 1)
    <3>0. made - Len(v_th.items) \in Int
      BY <1>2
    <3>1. PICK a \in Int : a = made - Len(v_th.items)
      BY <3>0, Zenon
    <3>2. Run(v_th.items, a, made) /\ made \in Int
      BY <1>2, <3>1 DEF OutputRuns
    <3>3. Run(q, a, made + 1)
      BY <1>3, <3>2, RunAppend
    <3> QED
      BY <3>1, <3>3
  <2>2. (made + 1) - Len(q) = made - Len(v_th.items) /\ Len(q) <= made + 1
    BY <1>2, <1>4
  <2>3. ToRead' = ToRead
    BY <1>1 DEF ToRead
  <2>4. made' = made + 1 /\ v_th'.items = q
    BY <1>1, <1>5
  <2>5. UNCHANGED <<filled, vec, idx, copc, read>>
    BY <1>1
  <2>6. /\ made' - Len(v_th'.items) = made - Len(v_th.items) /\ Len(v_th'.items) <= made'
        /\ Run(v_th'.items, made' - Len(v_th'.items), made')
    <3> HIDE DEF Safe
    <3>1. made' - Len(v_th'.items) = made - Len(v_th.items)
      BY <2>2, <2>4, Zenon
    <3>3. Len(v_th'.items) <= made'
      BY <2>2, <2>4, Zenon
    <3>2. Run(v_th'.items, made - Len(v_th.items), made')
      BY <2>1, <2>4
    <3> QED
      BY <3>1, <3>2, <3>3
  <2> HIDE DEF Safe
  <2>7. OutputRuns
    BY DEF Safe
  <2> QED
    BY <2>3, <2>5, <2>6, <2>7 DEF OutputRuns
<1>10. OutputEnds'
  BY <1>1 DEF OutputEnds
<1> QED
  BY <1>6, <1>7, <1>8, <1>9, <1>10

LEMMA PutKeeps == ASSUME Output!DoubleBufferAssumption, Safe, Output!put PROVE Safe'
<1> USE DEF Safe, Output!consumerVars
<1>1. /\ prpc = "full" /\ filled' = Append(filled, v_th) /\ UNCHANGED <<made, threw, vec, idx, copc, read>>
  BY DEF Output!put
<1>2. v_th.capacity = BufSize /\ v_th.items # <<>> /\ v_th \in Buffer /\ One(v_th) = 1
  <2>1. v_th \in Buffer /\ Len(v_th.items) = BufSize /\ BufSize # 0 /\ v_th.capacity = BufSize
    BY <1>1 DEF OutputTypes, OutputHands, Output!DoubleBufferAssumption
  <2> QED
    BY <2>1, BufferFacts DEF One
<1>3. CASE nfree # <<>> /\ Output!TakeFree
  <2>1. /\ nfree' \in Seq(Buffer) /\ v_th' \in Buffer /\ v_th'.items = <<>>
        /\ Cardinality(Real(nfree)) = Cardinality(Real(nfree')) + One(v_th')
        /\ prpc' = IF v_th'.capacity = BufSize THEN "run" ELSE "exit"
    BY <1>3, TakeFreeKeeps
  <2>2. /\ filled' \in Seq(Buffer) /\ Cardinality(Real(filled')) = Cardinality(Real(filled)) + One(v_th)
        /\ OutputRuns' /\ OutputEnds'
    BY <1>1, <1>2, <2>1, PutFilledKeeps
  <2>3. OutputTypes'
    BY <1>1, <2>1, <2>2 DEF OutputTypes
  <2>4. OutputHands'
    BY <1>1, <2>1 DEF OutputHands, Output!DoubleBufferAssumption
  <2>5. TwoBuffers'
    <3>1. One(vec') = One(vec) /\ One(v_th') \in Int
      BY <1>1 DEF One
    <3>2. Cardinality(Real(nfree')) \in Int
      BY <2>1, RealFinite
    <3> QED
      BY <1>2, <2>1, <2>2, <3>1, <3>2, CountsAreInt DEF TwoBuffers
  <2> QED
    BY <2>2, <2>3, <2>4, <2>5
<1>4. CASE v_th' = Output!Empty /\ prpc' = "put" /\ UNCHANGED nfree
  <2>1. v_th' \in Buffer /\ v_th'.items = <<>> /\ v_th'.capacity = 0 /\ One(v_th') = 0
    BY <1>4, EmptyBuffer
  <2>2. /\ filled' \in Seq(Buffer) /\ Cardinality(Real(filled')) = Cardinality(Real(filled)) + One(v_th)
        /\ OutputRuns' /\ OutputEnds'
    BY <1>1, <1>2, <1>4, <2>1, PutFilledKeeps
  <2>3. OutputTypes'
    BY <1>1, <1>4, <2>1, <2>2 DEF OutputTypes
  <2>4. OutputHands'
    BY <1>1, <1>4, <2>1 DEF OutputHands
  <2>5. TwoBuffers'
    <3>1. One(vec') = One(vec) /\ nfree' = nfree
      BY <1>1, <1>4
    <3> QED
      BY <1>2, <2>1, <2>2, <3>1, CountsAreInt DEF TwoBuffers
  <2> QED
    BY <2>2, <2>3, <2>4, <2>5
<1> QED
  BY <1>3, <1>4 DEF Output!put

LEMMA PutAgainKeeps == ASSUME Output!DoubleBufferAssumption, Safe, Output!put_again PROVE Safe'
<1> USE DEF Safe, Output!consumerVars
<1>1. prpc = "put" /\ UNCHANGED <<filled, made, threw, vec, idx, copc, read>>
  BY DEF Output!put_again
<1>2. v_th.capacity # BufSize /\ v_th.items = <<>> /\ One(v_th) = 0
  BY <1>1 DEF OutputHands, Output!DoubleBufferAssumption, One
<1>3. CASE nfree # <<>> /\ Output!TakeFree
  <2>1. /\ nfree' \in Seq(Buffer) /\ v_th' \in Buffer /\ v_th'.items = <<>>
        /\ Cardinality(Real(nfree)) = Cardinality(Real(nfree')) + One(v_th')
        /\ prpc' = IF v_th'.capacity = BufSize THEN "run" ELSE "exit"
    BY <1>3, TakeFreeKeeps
  <2>2. OutputTypes'
    BY <1>1, <2>1 DEF OutputTypes
  <2>3. OutputHands'
    BY <1>1, <2>1 DEF OutputHands, Output!DoubleBufferAssumption
  <2>4. TwoBuffers'
    <3>1. One(vec') = One(vec) /\ filled' = filled /\ One(v_th') \in Int
      BY <1>1 DEF One
    <3>2. Cardinality(Real(nfree')) \in Int
      BY <2>1, RealFinite
    <3> QED
      BY <1>2, <2>1, <3>1, <3>2, CountsAreInt DEF TwoBuffers
  <2>5. OutputRuns'
    <3>1. ToRead' = ToRead
      BY <1>1 DEF ToRead
    <3> QED
      BY <1>1, <1>2, <2>1, <3>1 DEF OutputRuns
  <2>6. OutputEnds'
    BY <1>1, <2>1 DEF OutputEnds
  <2> QED
    BY <2>2, <2>3, <2>4, <2>5, <2>6
<1>4. CASE UNCHANGED <<nfree, v_th, prpc>>
  BY <1>1, <1>4 DEF OutputTypes, OutputHands, TwoBuffers, OutputRuns, OutputEnds, ToRead
<1> QED
  BY <1>3, <1>4 DEF Output!put_again

\* The function has ended, or its last buffer was refused.
LEMMA EndKeeps ==
    ASSUME Output!DoubleBufferAssumption, Safe, Output!return \/ Output!throw \/ Output!exit PROVE Safe'
<1> USE DEF Safe, Output!consumerVars
<1>1. UNCHANGED <<nfree, filled, v_th, made, vec, idx, copc, read>>
  BY DEF Output!return, Output!throw, Output!exit
<1>2. TwoBuffers' /\ OutputRuns'
  <2>1. ToRead' = ToRead
    BY <1>1 DEF ToRead
  <2> QED
    BY <1>1, <2>1 DEF TwoBuffers, OutputRuns
<1>3. prpc # "done" /\ prpc' # "done"
  BY DEF Output!return, Output!throw, Output!exit
<1>4. OutputEnds'
  BY <1>1, <1>3 DEF OutputEnds
<1>5. CASE Output!return
  BY <1>1, <1>2, <1>4, <1>5 DEF Output!return, OutputTypes, OutputHands
<1>6. CASE Output!throw
  <2>1. threw' \in BOOLEAN /\ threw' # FALSE
    BY <1>6, Zenon DEF Output!throw
  <2> QED
    BY <1>1, <1>2, <1>4, <1>6, <2>1 DEF Output!throw, OutputTypes, OutputHands
<1>7. CASE Output!exit
  BY <1>1, <1>2, <1>4, <1>7 DEF Output!exit, OutputTypes, OutputHands
<1> QED
  BY <1>5, <1>6, <1>7

LEMMA FlushKeeps == ASSUME Output!DoubleBufferAssumption, Safe, Output!flush PROVE Safe'
<1> USE DEF Safe, Output!consumerVars
<1>1. prpc = "flush" /\ prpc' = "finalize" /\ UNCHANGED <<nfree, made, threw, vec, idx, copc, read>>
  BY DEF Output!flush
<1>2. v_th.capacity = BufSize /\ v_th \in Buffer /\ One(v_th) = 1
  BY <1>1 DEF OutputTypes, OutputHands, One
<1>3. CASE v_th.items # <<>> /\ filled' = Append(filled, v_th) /\ v_th' = Output!Empty
  <2>1. v_th' \in Buffer /\ v_th'.items = <<>> /\ v_th'.capacity = 0 /\ One(v_th') = 0
    BY <1>3, EmptyBuffer
  <2>2. /\ filled' \in Seq(Buffer) /\ Cardinality(Real(filled')) = Cardinality(Real(filled)) + One(v_th)
        /\ OutputRuns' /\ OutputEnds'
    BY <1>1, <1>2, <1>3, <2>1, PutFilledKeeps
  <2>3. OutputTypes'
    BY <1>1, <2>1, <2>2 DEF OutputTypes
  <2>4. OutputHands'
    BY <1>1, <2>1 DEF OutputHands
  <2>5. TwoBuffers'
    <3>1. One(vec') = One(vec) /\ nfree' = nfree
      BY <1>1
    <3> QED
      BY <1>2, <2>1, <2>2, <3>1, CountsAreInt DEF TwoBuffers
  <2> QED
    BY <2>2, <2>3, <2>4, <2>5
<1>4. CASE v_th.items = <<>> /\ UNCHANGED <<filled, v_th>>
  <2>1. ToRead' = ToRead
    BY <1>1 DEF ToRead
  <2> QED
    BY <1>1, <1>4, <2>1 DEF OutputTypes, OutputHands, TwoBuffers, OutputRuns, OutputEnds
<1> QED
  BY <1>3, <1>4 DEF Output!flush

LEMMA ShutdownProducerKeeps ==
    ASSUME Output!DoubleBufferAssumption, Safe, Output!shutdown_producer
    PROVE  Safe'
<1> USE DEF Safe, Output!consumerVars
<1>0. PICK z \in Buffer : z.items = <<>> /\ z.capacity = 0 /\ One(z) = 0 /\ z = Output!Empty
  BY EmptyBuffer
<1>1. /\ prpc = "finalize" /\ prpc' = "done" /\ filled' = Append(filled, z)
      /\ UNCHANGED <<nfree, v_th, made, threw, vec, idx, copc, read>>
  BY <1>0 DEF Output!shutdown_producer
<1>2. filled \in Seq(Buffer) /\ v_th \in Buffer /\ made \in Nat /\ Len(v_th.items) \in Nat
      /\ Len(v_th.items) <= made
  BY BufferFacts DEF OutputTypes, OutputRuns
<1>3. filled' \in Seq(Buffer) /\ Cardinality(Real(filled')) = Cardinality(Real(filled)) + One(z)
  BY <1>0, <1>1, <1>2, RealAppend
<1>4. OutputTypes' /\ OutputHands'
  BY <1>1, <1>3 DEF OutputTypes, OutputHands
<1>5. TwoBuffers'
  BY <1>0, <1>1, <1>3, CountsAreInt DEF TwoBuffers
<1>6. OutputRuns'
  <2>0. made - Len(v_th.items) \in Nat
    BY <1>2
  <2>1. PICK m \in Nat : m = made - Len(v_th.items)
    BY <2>0, Zenon
  <2>2. Run(z.items, m, m)
    BY <1>0, RunNothing
  <2>3. Chained(filled', Len(read) + ToRead, m)
    BY <1>0, <1>1, <1>2, <2>1, <2>2, ChainedAppend DEF OutputRuns
  <2>4. ToRead' = ToRead
    BY <1>1 DEF ToRead
  <2> QED
    BY <1>1, <2>1, <2>3, <2>4 DEF OutputRuns
<1>7. OutputEnds'
  <2>1. PICK n \in Nat : n = Len(filled)
    BY <1>2
  <2>2. Len(filled') = n + 1 /\ \A k \in 1 .. n : filled'[k] = filled[k]
    BY <1>1, <1>2, <2>1
  <2>3. \A k \in 1 .. n : filled[k].items # <<>>
    BY <1>1, <2>1 DEF OutputEnds
  <2>4. \A k \in 1 .. n + 1 : filled'[k].items = <<>> => k = n + 1
    BY <2>2, <2>3
  <2> QED
    BY <1>1, <2>2, <2>4 DEF OutputEnds
<1> QED
  BY <1>4, <1>5, <1>6, <1>7

LEMMA AwaitKeeps == ASSUME Output!DoubleBufferAssumption, Safe, Output!await_filled PROVE Safe'
<1> USE DEF Safe, Output!producerVars
<1>1. copc \in {"init", "get"} /\ UNCHANGED <<nfree, read, v_th, prpc, made, threw>>
  BY DEF Output!await_filled
<1>2. CASE filled # <<>> /\ Output!TakeFilled
  <2>1. ToRead = 0 /\ One(vec) = 0
    <3>1. Len(vec.items) = 0 /\ vec.capacity = 0 /\ idx \in Nat /\ BufSize # 0
      BY <1>1, BufferFacts DEF OutputHands, OutputTypes, Output!DoubleBufferAssumption
    <3> QED
      BY <3>1 DEF ToRead, One
  <2>2. /\ filled' \in Seq(Buffer) /\ vec' \in Buffer /\ idx' = 0 /\ copc' = "read"
        /\ Cardinality(Real(filled)) = Cardinality(Real(filled')) + One(vec')
        /\ vec'.items # <<>> => 0 < Len(vec'.items)
        /\ OutputRuns' /\ OutputEnds'
    BY <1>1, <1>2, <2>1, TakeFilledKeeps
  <2>3. OutputTypes' /\ OutputHands'
    BY <1>1, <2>2 DEF OutputTypes, OutputHands
  <2>4. TwoBuffers'
    <3>1. One(v_th') = One(v_th) /\ nfree' = nfree /\ One(vec') \in Int
          /\ Cardinality(Real(filled')) \in Int
      BY <1>1, <2>2, RealFinite DEF One
    <3> QED
      BY <2>1, <2>2, <3>1, CountsAreInt DEF TwoBuffers
  <2> QED
    BY <2>2, <2>3, <2>4
<1>3. CASE UNCHANGED <<filled, vec, idx, copc>>
  <2>1. ToRead' = ToRead
    BY <1>3 DEF ToRead
  <2> QED
    BY <1>1, <1>3, <2>1 DEF OutputTypes, OutputHands, TwoBuffers, OutputRuns, OutputEnds
<1> QED
  BY <1>2, <1>3 DEF Output!await_filled

LEMMA NextKeeps == ASSUME Output!DoubleBufferAssumption, Safe, Output!next PROVE Safe'
<1> USE DEF Safe, Output!producerVars
<1>1. /\ copc = "read" /\ vec.items # <<>> /\ read' = Append(read, vec.items[idx + 1])
      /\ UNCHANGED <<nfree, filled, vec, v_th, prpc, made, threw>>
      /\ \/ idx = Len(vec.items) - 1 /\ copc' = "next" /\ idx' = idx
         \/ idx # Len(vec.items) - 1 /\ copc' = "read" /\ idx' = idx + 1
  BY DEF Output!next
<1>2. PICK n \in Nat : n = Len(vec.items)
  BY BufferFacts DEF OutputTypes
<1>3. /\ idx \in Nat /\ idx < n /\ read \in Seq(Int) /\ Len(read) \in Nat
      /\ vec.items \in Seq(Int) /\ vec \in Buffer
  BY <1>1, <1>2, BufferFacts DEF OutputTypes, OutputHands
<1>4. \A k \in idx + 1 .. n : vec.items[k] = Len(read) + k - idx
  BY <1>1, <1>2 DEF OutputRuns
<1>5. vec.items[idx + 1] = Len(read) + 1
  BY <1>3, <1>4
<1>6. read' \in Seq(Int) /\ Len(read') = Len(read) + 1 /\ Run(read', 0, Len(read'))
  <2>1. PICK l \in Int : l = Len(read) /\ Run(read, 0, l)
    BY <1>3 DEF OutputRuns
  <2>2. read' = Append(read, l + 1)
    BY <1>1, <1>5, <2>1
  <2>3. Run(read', 0, l + 1) /\ Len(read') = l + 1
    BY <2>1, <2>2, RunAppend
  <2>4. read' \in Seq(Int)
    BY <1>3, <2>2
  <2> QED
    BY <2>1, <2>3, <2>4
<1>7. OutputTypes' /\ OutputHands'
  <2>1. OutputTypes'
    BY <1>1, <1>3, <1>6 DEF OutputTypes
  <2>2. idx' < n \/ copc' = "next"
    BY <1>1, <1>2, <1>3
  <2> QED
    BY <1>1, <1>2, <2>1, <2>2 DEF OutputHands
<1>8. TwoBuffers' /\ OutputEnds'
  BY <1>1 DEF TwoBuffers, OutputEnds
<1>9. ToRead = n - idx /\ ToRead' = n - idx - 1
  <2>1. Len(vec.items) = n /\ Len(vec'.items) = n
    BY <1>1, <1>2
  <2>2. ToRead = n - idx
    BY <1>1, <1>3, <2>1 DEF ToRead
  <2>3. ASSUME idx = n - 1, copc' = "next" PROVE ToRead' = n - idx - 1
    BY <1>2, <1>3, <2>3 DEF ToRead
  <2>4. ASSUME idx # n - 1, copc' = "read", idx' = idx + 1 PROVE ToRead' = n - idx - 1
    BY <1>2, <1>3, <2>1, <2>4 DEF ToRead
  <2> QED
    BY <1>1, <2>1, <2>2, <2>3, <2>4
<1>10. Len(read') + ToRead' = Len(read) + ToRead
  BY <1>3, <1>6, <1>9
<1>11. copc' # "next" => \A k \in idx' + 1 .. n : vec.items[k] = Len(read') + k - idx'
  <2>1. ASSUME idx' = idx + 1, NEW k \in idx + 1 + 1 .. n PROVE vec.items[k] = Len(read') + k - idx'
    <3>1. k \in Int /\ vec.items[k] = Len(read) + k - idx
      BY <1>3, <1>4
    <3> QED
      BY <1>3, <1>6, <2>1, <3>1
  <2> QED
    BY <1>1, <2>1
<1>12. OutputRuns'
  BY <1>1, <1>2, <1>6, <1>10, <1>11 DEF OutputRuns
<1> QED
  BY <1>7, <1>8, <1>12

LEMMA GetKeeps == ASSUME Output!DoubleBufferAssumption, Safe, Output!get PROVE Safe'
<1> USE DEF Safe, Output!producerVars
<1>1. copc = "next" /\ nfree' = Append(nfree, vec) /\ UNCHANGED <<read, v_th, prpc, made, threw>>
  BY DEF Output!get
<1>2. /\ nfree' \in Seq(Buffer)
      /\ Cardinality(Real(nfree')) = Cardinality(Real(nfree)) + One(vec)
      /\ One(v_th') = One(v_th)
  BY <1>1, RealAppend DEF OutputTypes
<1>3. ToRead = 0
  BY <1>1 DEF ToRead
<1>4. CASE filled # <<>> /\ Output!TakeFilled
  <2>1. /\ filled' \in Seq(Buffer) /\ vec' \in Buffer /\ idx' = 0 /\ copc' = "read"
        /\ Cardinality(Real(filled)) = Cardinality(Real(filled')) + One(vec')
        /\ vec'.items # <<>> => 0 < Len(vec'.items)
        /\ OutputRuns' /\ OutputEnds'
    BY <1>1, <1>3, <1>4, TakeFilledKeeps
  <2>2. OutputTypes' /\ OutputHands'
    BY <1>1, <1>2, <2>1 DEF OutputTypes, OutputHands
  <2>3. TwoBuffers'
    <3>1. One(vec') \in Int /\ Cardinality(Real(filled')) \in Int
      BY <2>1, RealFinite DEF One
    <3> QED
      BY <1>2, <2>1, <3>1, CountsAreInt DEF TwoBuffers
  <2> QED
    BY <2>1, <2>2, <2>3
<1>5. CASE vec' = Output!Empty /\ copc' = "get" /\ UNCHANGED <<filled, idx>>
  <2>1. vec' \in Buffer /\ vec'.items = <<>> /\ vec'.capacity = 0 /\ One(vec') = 0
    BY <1>5, EmptyBuffer
  <2>2. Len(vec'.items) = 0 /\ idx' \in Nat
    BY <1>5, <2>1, BufferFacts DEF OutputTypes
  <2>3. ToRead' = 0
    BY <2>2 DEF ToRead
  <2>4. OutputTypes' /\ OutputHands'
    BY <1>1, <1>2, <1>5, <2>1 DEF OutputTypes, OutputHands
  <2>5. TwoBuffers'
    BY <1>2, <1>5, <2>1, CountsAreInt DEF TwoBuffers
  <2>6. \A k \in idx' + 1 .. Len(vec'.items) : vec'.items[k] = Len(read') + k - idx'
    BY <2>2
  <2>7. OutputRuns' /\ OutputEnds'
    BY <1>1, <1>3, <1>5, <2>3, <2>6 DEF OutputRuns, OutputEnds
  <2> QED
    BY <2>4, <2>5, <2>7
<1> QED
  BY <1>4, <1>5 DEF Output!get

\* The reader is at the end, or the thread is joined.
LEMMA JoinKeeps == ASSUME Output!DoubleBufferAssumption, Safe, Output!at_end \/ Output!join PROVE Safe'
<1> USE DEF Safe, Output!producerVars
<1>1. UNCHANGED <<nfree, filled, vec, idx, read, v_th, prpc, made, threw>> /\ copc # "next"
      /\ copc' # "next"
  BY DEF Output!at_end, Output!join
<1>2. ToRead' = ToRead
  BY <1>1 DEF ToRead
<1>3. OutputRuns' /\ TwoBuffers'
  BY <1>1, <1>2 DEF OutputRuns, TwoBuffers
<1>4. CASE Output!at_end
  <2>1. copc = "read" /\ vec.items = <<>> /\ copc' = "join"
    BY <1>4 DEF Output!at_end
  <2> QED
    BY <1>1, <1>3, <2>1 DEF OutputTypes, OutputHands, OutputEnds
<1>5. CASE Output!join
  <2>1. \/ copc = "join" /\ copc' = "over" /\ prpc = "done"
        \/ copc = "drop" /\ copc' = "gone" /\ prpc = "done"
    BY <1>5 DEF Output!join
  <2> QED
    BY <1>1, <1>3, <2>1 DEF OutputTypes, OutputHands, OutputEnds
<1> QED
  BY <1>4, <1>5

LEMMA ShutdownConsumerKeeps ==
    ASSUME Output!DoubleBufferAssumption, Safe, Output!shutdown_consumer
    PROVE  Safe'
<1> USE DEF Safe, Output!producerVars
<1>1. /\ copc \in {"over", "read"} /\ copc' = "drop" /\ nfree' = Append(nfree, Output!Empty)
      /\ UNCHANGED <<filled, vec, idx, read, v_th, prpc, made, threw>>
  BY DEF Output!shutdown_consumer
<1>2. nfree' \in Seq(Buffer) /\ Cardinality(Real(nfree')) = Cardinality(Real(nfree)) + 0
  BY <1>1, EmptyBuffer, RealAppend DEF OutputTypes
<1>3. ToRead' = ToRead
  BY <1>1 DEF ToRead
<1>4. TwoBuffers'
  BY <1>1, <1>2, CountsAreInt DEF TwoBuffers
<1> QED
  BY <1>1, <1>2, <1>3, <1>4 DEF OutputTypes, OutputHands, OutputRuns, OutputEnds

LEMMA StepOutputInv == Output!DoubleBufferAssumption /\ OutputInv /\ [Output!Next]_Output!vars => OutputInv'
<1> SUFFICES ASSUME Output!DoubleBufferAssumption, OutputInv, [Output!Next]_Output!vars PROVE OutputInv'
  OBVIOUS
<1>1. Safe /\ Output!NoLostWakeup
  BY DEF OutputInv, Safe
<1>2. ASSUME Output!Produces PROVE Safe'
  BY <1>1, <1>2, OutputKeeps, PutKeeps, PutAgainKeeps, EndKeeps, FlushKeeps, ShutdownProducerKeeps
    DEF Output!Produces
<1>3. ASSUME Output!Consumes PROVE Safe'
  BY <1>1, <1>3, AwaitKeeps, NextKeeps, GetKeeps, JoinKeeps, ShutdownConsumerKeeps DEF Output!Consumes
<1>4. ASSUME UNCHANGED <<nfree, filled, v_th, prpc, made, threw, vec, idx, copc, read>> PROVE Safe'
  <2>1. ToRead' = ToRead
    BY <1>4 DEF ToRead
  <2> QED
    BY <1>1, <1>4, <2>1 DEF Safe, OutputTypes, OutputHands, TwoBuffers, OutputRuns, OutputEnds
<1>5. Safe'
  BY <1>2, <1>3, <1>4 DEF Output!Next, Output!Wakes, Output!vars, Output!producerVars, Output!consumerVars
<1>6. Output!NoLostWakeup'
  BY <1>1, StepOutputWakes
<1> QED
  BY <1>5, <1>6 DEF OutputInv, Safe

\* The item at k + 1 of what is unread.
LEMMA UnreadRuns ==
    ASSUME OutputTypes, OutputRuns PROVE Run(Output!Unread, Len(read), Len(read) + ToRead)
<1>0. PICK l \in Nat, n \in Nat : l = Len(read) /\ n = Len(vec.items)
  <2>1. Len(read) \in Nat /\ Len(vec.items) \in Nat
    BY BufferFacts DEF OutputTypes
  <2> QED
    BY <2>1
<1>1. vec.items \in Seq(Int) /\ idx \in Nat
  BY BufferFacts DEF OutputTypes
<1>2. CASE copc = "next" \/ n <= idx
  <2>1. Output!Unread = <<>> /\ ToRead = 0
    BY <1>0, <1>1, <1>2 DEF Output!Unread, ToRead
  <2> QED
    BY <1>0, <2>1, RunNothing
<1>3. CASE copc # "next" /\ idx < n
  <2>0. n - idx \in Nat /\ ToRead = n - idx
    BY <1>0, <1>1, <1>3 DEF ToRead
  <2>1. PICK s : s = SubSeq(vec.items, idx + 1, n)
    OBVIOUS
  <2>2. s \in Seq(Int) /\ Len(s) = n - idx /\ \A k \in 1 .. n - idx : s[k] = vec.items[idx + k]
    <3>1. PICK v \in Seq(Int) : v = vec.items
      BY <1>1
    <3>2. n = Len(v) /\ s = SubSeq(v, idx + 1, n) /\ idx \in Nat /\ n \in Nat /\ idx < n
      BY <1>0, <1>1, <1>3, <2>1, <3>1
    <3>3. s \in Seq(Int) /\ Len(s) = n - idx
      BY ONLY <3>1, <3>2
    <3>4. \A k \in 1 .. n - idx : s[k] = v[idx + k]
      BY ONLY <3>1, <3>2
    <3> QED
      BY <3>1, <3>3, <3>4
  <2>3. \A k \in idx + 1 .. n : vec.items[k] = l + k - idx
    BY <1>0, <1>3 DEF OutputRuns
  <2>4. ASSUME NEW k \in 1 .. n - idx PROVE s[k] = l + k
    <3>1. idx + k \in idx + 1 .. n /\ l + (idx + k) - idx = l + k
      BY <1>0, <1>1
    <3> QED
      BY <2>2, <2>3, <3>1
  <2>5. s = [k \in 1 .. n - idx |-> l + k]
    BY <2>2, <2>4
  <2>6. Output!Unread = s
    BY <1>0, <1>3, <2>1 DEF Output!Unread
  <2>7. l + (n - idx) - l = n - idx /\ l <= l + (n - idx)
    BY <1>0, <2>0
  <2> QED
    BY <1>0, <2>0, <2>5, <2>6, <2>7 DEF Run
<1> QED
  BY <1>0, <1>1, <1>2, <1>3

LEMMA OutputInvMeans ==
    Output!DoubleBufferAssumption /\ OutputInv =>
        Output!NoLostWakeup /\ Output!BuffersOwned /\ Output!InOrder /\ Output!EndIsTheEnd
<1> SUFFICES ASSUME Output!DoubleBufferAssumption, OutputInv
             PROVE  Output!NoLostWakeup /\ Output!BuffersOwned /\ Output!InOrder /\ Output!EndIsTheEnd
  OBVIOUS
<1> USE DEF OutputInv
<1>0. /\ filled \in Seq(Buffer) /\ v_th \in Buffer /\ vec \in Buffer /\ read \in Seq(Int)
      /\ v_th.items \in Seq(Int) /\ vec.items \in Seq(Int)
  BY BufferFacts DEF OutputTypes
<1>1. PICK l \in Nat, r \in Nat, m \in Nat, n \in Nat :
        l = Len(read) /\ r = l + ToRead /\ n = made /\ m = made - Len(v_th.items)
  <2>1. Len(read) \in Nat /\ made \in Nat /\ Len(read) + ToRead \in Nat
    BY <1>0, BufferFacts DEF OutputTypes, ToRead
  <2>2. made - Len(v_th.items) \in Nat
    BY <1>0, BufferFacts DEF OutputTypes, OutputRuns
  <2> QED
    BY <2>1, <2>2
<1>2. Run(read, 0, l) /\ Chained(filled, r, m) /\ Run(v_th.items, m, n)
  BY <1>1 DEF OutputRuns
<1>3. Output!InOrder
  <2>1. Run(Output!Unread, l, r)
    BY <1>1, UnreadRuns
  <2>2. Run(Output!All(filled), r, m)
    BY <1>0, <1>1, <1>2, ChainedFlat
  <2>3. Run(read \o Output!Unread, 0, r)
    BY <1>1, <1>2, <2>1, RunConcat
  <2>4. Run((read \o Output!Unread) \o Output!All(filled), 0, m)
    BY <1>1, <2>2, <2>3, RunConcat
  <2>5. Run(((read \o Output!Unread) \o Output!All(filled)) \o v_th.items, 0, n)
    BY <1>1, <1>2, <2>4, RunConcat
  <2>6. n - 0 = made /\ \A k \in 1 .. made : 0 + k = k
    BY <1>1
  <2> QED
    BY <2>5, <2>6 DEF Run, Output!InOrder
<1>4. Output!EndIsTheEnd
  <2>1. copc \in {"over", "gone"} => prpc = "done"
    BY DEF OutputEnds
  <2>2. ASSUME copc = "over"
        PROVE  read \o v_th.items = [k \in 1 .. made |-> k] /\ (~ threw => v_th.items = <<>>)
    <3>1. prpc = "done" /\ filled = <<>> /\ vec.items = <<>>
      BY <2>2 DEF OutputEnds, OutputHands
    <3>2. ToRead = 0 /\ r = l
      BY <1>0, <1>1, <3>1, BufferFacts DEF ToRead, OutputTypes
    <3>3. l = m
      <4>1. Len(filled) = 0
        BY <3>1
      <4> QED
        BY <1>2, <3>2, <4>1 DEF Chained
    <3>4. Run(read \o v_th.items, 0, n)
      BY <1>1, <1>2, <3>3, RunConcat
    <3>5. n - 0 = made /\ \A k \in 1 .. made : 0 + k = k
      BY <1>1
    <3>6. read \o v_th.items = [k \in 1 .. made |-> k]
      BY <3>4, <3>5 DEF Run
    <3>7. ~ threw => v_th.items = <<>>
      <4>1. threw \in BOOLEAN
        BY DEF OutputTypes
      <4>2. ~ threw => threw = FALSE
        BY <4>1, Zenon
      <4> QED
        BY <3>1, <4>2 DEF OutputHands
    <3> QED
      BY <3>6, <3>7
  <2> QED
    BY <2>1, <2>2 DEF Output!EndIsTheEnd
<1>5. Output!BuffersOwned
  <2>1. ASSUME NEW b PROVE Cardinality({k \in DOMAIN <<b>> : <<b>>[k].capacity = BufSize}) = One(b)
    <3>1. CASE b.capacity = BufSize
      <4>1. {k \in DOMAIN <<b>> : <<b>>[k].capacity = BufSize} = {1}
        BY <3>1
      <4> QED
        BY <3>1, <4>1, FS_Singleton DEF One
    <3>2. CASE b.capacity # BufSize
      <4>1. {k \in DOMAIN <<b>> : <<b>>[k].capacity = BufSize} = {}
        BY <3>2
      <4> QED
        BY <3>2, <4>1, FS_EmptySet DEF One
    <3> QED
      BY <3>1, <3>2
  <2>2. \A S : Output!Cardinality(S) = Cardinality(S)
    BY DEF Output!Cardinality, Cardinality
  <2>3. TwoBuffers
    OBVIOUS
  <2> HIDE DEF OutputInv
  <2>4. /\ Output!Cardinality({k \in DOMAIN nfree : nfree[k].capacity = BufSize}) = Cardinality(Real(nfree))
        /\ Output!Cardinality({k \in DOMAIN filled : filled[k].capacity = BufSize}) = Cardinality(Real(filled))
    BY <2>2 DEF Real
  <2>5. /\ Output!Cardinality({k \in DOMAIN <<v_th>> : <<v_th>>[k].capacity = BufSize}) = One(v_th)
        /\ Output!Cardinality({k \in DOMAIN <<vec>> : <<vec>>[k].capacity = BufSize}) = One(vec)
    BY <2>1, <2>2, Zenon
  <2> QED
    BY <2>3, <2>4, <2>5 DEF TwoBuffers, Output!BuffersOwned
<1> QED
  BY <1>3, <1>4, <1>5

-----------------------------------------------------------------------------
(* Whatever object is used keeps its invariant, and with it its promises.  *)

ExchangesInv ==
    /\ object = "box" => BoxInv
    /\ object = "pool" => PoolInv /\ ListInv /\ Parked /\ Pool!NoLostWakeup
    /\ object = "pipe" => PipeInv
    /\ object = "fpipe" => FPipeInv
    /\ object = "seq" => OutputInv

LEMMA InitExchangesInv == ExchangesAssumption /\ Init => ExchangesInv
BY InitBoxInv, InitPoolInv, InitListInv, InitPipeInv, InitFPipeInv, InitOutputInv
   DEF ExchangesAssumption, Init, OthersInit, ExchangesInv, BoxAssumption, PipeAssumption

LEMMA StepExchangesInv == ExchangesAssumption /\ ExchangesInv /\ [Next]_vars => ExchangesInv'
<1> SUFFICES ASSUME ExchangesAssumption, ExchangesInv, [Next]_vars PROVE ExchangesInv'
  OBVIOUS
<1>0. object' = object
  BY DEF Next, vars
<1>1. ASSUME object = "box" PROVE BoxInv'
  <2>1. [Box!Next]_Box!vars
    BY <1>1 DEF Next, vars, boxVars, Box!vars, Box!cvVars, Box!boxVars, Box!history
  <2> QED
    BY <1>1, <2>1, StepBoxInv DEF ExchangesInv, ExchangesAssumption, BoxAssumption
<1>2. ASSUME object = "pool" PROVE (PoolInv /\ ListInv /\ Parked /\ Pool!NoLostWakeup)'
  <2>1. [Pool!Next]_Pool!vars
    BY <1>2 DEF Next, vars, poolVars, Pool!vars, Pool!cvVars, Pool!poolVars, Pool!life
  <2>2. PoolInv => Pool!TypeOK
    BY DEF PoolInv
  <2> QED
    BY <1>2, <2>1, <2>2, StepPoolInv, StepPoolWakes, StepListInv DEF ExchangesInv, ExchangesAssumption
<1>3. ASSUME object = "pipe" PROVE PipeInv'
  <2>1. [Pipe!Next]_Pipe!vars
    BY <1>3 DEF Next, vars, pipe1Vars, Pipe!vars, Pipe!pipeVars
  <2> QED
    BY <1>3, <2>1, StepPipeInv DEF ExchangesInv, ExchangesAssumption, PipeAssumption
<1>4. ASSUME object = "fpipe" PROVE FPipeInv'
  <2>1. [FPipe!Next]_FPipe!vars
    BY <1>4 DEF Next, vars, fpipeVars, FPipe!vars, FPipe!pipeVars, FPipe!bufVars, FPipe!hist
  <2> QED
    BY <1>4, <2>1, StepFPipeInv DEF ExchangesInv, ExchangesAssumption
<1>5. ASSUME object = "seq" PROVE OutputInv'
  <2>1. [Output!Next]_Output!vars
    BY <1>5 DEF Next, vars, seqVars, Output!vars, Output!cvVars, Output!producerVars, Output!consumerVars
  <2> QED
    BY <1>5, <2>1, StepOutputInv DEF ExchangesInv, ExchangesAssumption
<1> QED
  BY <1>0, <1>1, <1>2, <1>3, <1>4, <1>5 DEF ExchangesInv

LEMMA ExchangesInvMeans == ExchangesAssumption /\ ExchangesInv => NoLostWakeup /\ OneOwner /\ InOrder
<1> SUFFICES ASSUME ExchangesAssumption, ExchangesInv PROVE NoLostWakeup /\ OneOwner /\ InOrder
  OBVIOUS
<1>1. object = "box" => Box!NoLostWakeup /\ Box!TrayLivesWithItsKeys /\ Box!NoMessageLost
  BY BoxInvMeans DEF ExchangesInv, ExchangesAssumption, BoxAssumption
<1>2. object = "pool" => Pool!NoLostWakeup /\ Pool!PoolOutlivesItsItems /\ Pool!ItemIsInOnePlace
  BY PoolOutlives, PoolInvMeans DEF ExchangesInv, ExchangesAssumption
<1>3. object = "pipe" => Pipe!NoLostWakeup /\ Pipe!InOrder /\ Pipe!ClosedIsDrained
  BY PipeInvMeans DEF ExchangesInv, ExchangesAssumption, PipeAssumption
<1>4. object = "fpipe" => FPipe!BuffersOwned /\ FPipe!InOrder /\ FPipe!ClosedIsDrained
  BY FPipeInvMeans DEF ExchangesInv
<1>5. object = "seq" => Output!NoLostWakeup /\ Output!BuffersOwned /\ Output!InOrder /\ Output!EndIsTheEnd
  BY OutputInvMeans DEF ExchangesInv, ExchangesAssumption
<1> QED
  BY <1>1, <1>2, <1>3, <1>4, <1>5 DEF NoLostWakeup, OneOwner, InOrder

\* Nobody sleeps in a tray, a pool, a pipe1 or a sequence while what it waits for is there.
THEOREM NobodySleepsBeside == ExchangesAssumption => (Spec => []NoLostWakeup)
<1>1. ASSUME ExchangesAssumption PROVE Spec => []NoLostWakeup
  BY <1>1, InitExchangesInv, StepExchangesInv, ExchangesInvMeans, PTL DEF Spec
<1> QED
  BY <1>1

\* Trays live as long as their keys, the pool as long as its items, of which each is free or
\* lent to one thread; and each of the two buffers, of an fpipe or a sequence, is in one hand.
THEOREM OneOwnerEach == ExchangesAssumption => (Spec => []OneOwner)
<1>1. ASSUME ExchangesAssumption PROVE Spec => []OneOwner
  BY <1>1, InitExchangesInv, StepExchangesInv, ExchangesInvMeans, PTL DEF Spec
<1> QED
  BY <1>1

\* Messages, elements and items come out once, in the order they went in; who is told that
\* there are no more has been given all there were, but for those an exception left behind.
THEOREM NothingLostOnTheWay == ExchangesAssumption => (Spec => []InOrder)
<1>1. ASSUME ExchangesAssumption PROVE Spec => []InOrder
  BY <1>1, InitExchangesInv, StepExchangesInv, ExchangesInvMeans, PTL DEF Spec
<1> QED
  BY <1>1
=============================================================================
