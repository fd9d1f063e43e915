------------------------------ MODULE Monitors ------------------------------
(***************************************************************************)
(* The monitors of c7thread: mask, event, counter and rendezvous, and      *)
(* channel, which is made of two pipe1s and a counter.  The initial state  *)
(* picks the one that is used; the others stay as they are.                *)
(***************************************************************************)
EXTENDS Integers, Sequences, FiniteSets, FiniteSetTheorems, TLAPS

CONSTANTS
    Objects,                                   \* what may be used: some of AllObjects
    Threads, Timed,                            \* who uses it (a channel has threads of its own)
    Bits, Requests, Changes,                   \* of the mask
    Resets,                                    \* of the counter
    N, Controls,                               \* of the rendezvous
    Ahead, MayAbort,                           \* of the channel
    MaxSets,                                   \* bound: calls that set bits, or the event
    MaxUps,                                    \* bound: calls of up and reset of the counter
    MaxRounds, MaxControl, MaxWaiting,         \* bounds of the rendezvous
    MaxReq                                     \* bound: requests on a channel

VARIABLES
    object,           \* chosen once
    parked, expired,  \* of the object's condition variable
    mask, req, turned, maskTaken, maskSets,
    event, eventOp, eventSets, notices, eventTaken, waited,
    counter, counterOp, ups, given, downs,
    id, aborted, waiting, meetOp, cur, inside, met, controls,
    state, data, at, late, user, leaving, do, hand, asked, replies

maskVars    == <<mask, req, turned, maskTaken, maskSets>>
eventVars   == <<event, eventOp, eventSets, notices, eventTaken, waited>>
counterVars == <<counter, counterOp, ups, given, downs>>
meetVars    == <<id, aborted, waiting, meetOp, cur, inside, met, controls>>
monitorVars == <<maskVars, eventVars, counterVars, meetVars>>
chanVars    == <<state, data, at, late, user, leaving, do, hand, asked, replies>>
vars == <<object, parked, expired, monitorVars, chanVars>>

Mask    == INSTANCE ThreadMask WITH sets <- maskSets, taken <- maskTaken
Event   == INSTANCE ThreadEvent WITH op <- eventOp, sets <- eventSets, taken <- eventTaken
Counter == INSTANCE ThreadCounter WITH op <- counterOp
Meeting == INSTANCE Rendezvous WITH op <- meetOp
Ask     == INSTANCE Channel
             WITH Pipes <- {"request", "reply"}, Threads <- {"sender", "receiver"}, Timed <- {}, expired <- late

AllObjects == {"mask", "event", "counter", "rendezvous", "channel"}

MonitorsAssumption ==
    /\ Objects \subseteq AllObjects
    /\ Mask!CondVarAssumption /\ Mask!ThreadMaskAssumption
    /\ Event!ThreadEventAssumption /\ Counter!ThreadCounterAssumption
    /\ Meeting!RendezvousAssumption
    /\ Ask!Pipe1Assumption /\ Ask!ChannelAssumption

Init ==
    /\ object \in Objects
    /\ Mask!Init
    /\ Event!Init
    /\ Counter!Init
    /\ Meeting!Init
    /\ Ask!ChannelInit

UsesMask    == UNCHANGED <<eventVars, counterVars, meetVars, chanVars>>
UsesEvent   == UNCHANGED <<maskVars, counterVars, meetVars, chanVars>>
UsesCounter == UNCHANGED <<maskVars, eventVars, meetVars, chanVars>>
UsesMeeting == UNCHANGED <<maskVars, eventVars, counterVars, chanVars>>
UsesChannel == UNCHANGED <<parked, expired, monitorVars>>

Next ==
    /\ \/ object = "mask"       /\ Mask!Next    /\ UsesMask
       \/ object = "event"      /\ Event!Next   /\ UsesEvent
       \/ object = "counter"    /\ Counter!Next /\ UsesCounter
       \/ object = "rendezvous" /\ Meeting!Next /\ UsesMeeting
       \/ object = "channel"    /\ Ask!ChannelNext /\ UsesChannel
    /\ UNCHANGED object

Spec == Init /\ [][Next]_vars

\* Thread t has returned from pthread_cond_wait, or calls, and runs to its next wait or return;
\* at a channel thread 1 is its sender, 2 its receiver, and 3 aborts it.
Runs(t) ==
    /\ \/ object = "mask"       /\ Mask!Runs(t)    /\ UsesMask
       \/ object = "event"      /\ Event!Runs(t)   /\ UsesEvent
       \/ object = "counter"    /\ Counter!Runs(t) /\ UsesCounter
       \/ object = "rendezvous" /\ Meeting!Leaves(t) /\ UsesMeeting
       \/ object = "channel" /\ t = 1 /\ Ask!SenderRuns /\ UsesChannel
       \/ object = "channel" /\ t = 2 /\ Ask!ReceiverRuns /\ UsesChannel
       \/ object = "channel" /\ t = 3 /\ Ask!abort_reply /\ UsesChannel
    /\ UNCHANGED object
-----------------------------------------------------------------------------
(* The properties of the objects                                           *)

\* No thread sleeps while what it waits for is there: bits, the event, a unit or a value of
\* the counter, the end of its round or its abortion (reset of a rendezvous tells nobody), an
\* element of a channel or a place for it.
NoLostWakeup ==
    /\ object = "mask" => Mask!NoLostWakeup
    /\ object = "event" => Event!NoLostWakeup
    /\ object = "counter" => Counter!NoLostWakeup
    /\ object = "rendezvous" /\ "reset" \notin Controls => Meeting!NoLostWakeup
    /\ object = "channel" => Ask!NoLostWakeup

\* What was given once is taken once: an exclusive bit of the mask, an event that
\* wait_and_clear takes, a unit of the counter that down takes, the reply to a request.
TakenOnce ==
    /\ object = "mask" => Mask!TakenOnce
    /\ object = "event" => Event!TakenOnce
    /\ object = "counter" => Counter!NeverOverdrawn
    /\ object = "channel" => Ask!AnsweredInOrder

\* Where no wait times out: wait of the rendezvous returns true when N threads have met in its
\* round; waiting_ is the number of threads gathered in the round, reset or not.
AllMet ==
    object = "rendezvous" /\ Timed = {} =>
        /\ "reset" \notin Controls => Meeting!AllMet
        /\ ~aborted => Meeting!CountsInside

\* Thread t waits for what is there, or is still at a channel.
KeptWaiting(t) ==
    \/ object = "mask" /\ Mask!KeptWaiting(t)
    \/ object = "event" /\ Event!KeptWaiting(t)
    \/ object = "counter" /\ Counter!UnitsLeft
    \/ object = "rendezvous" /\ "reset" \notin Controls /\ Meeting!KeptWaiting(t)
    \/ object = "channel" /\ ~Ask!AllLeft
-----------------------------------------------------------------------------
(* Theorems about the mask, for any threads, requests and bits             *)

\* A bit that is on has been turned on once more than it was taken.
BitsTaken == \A b \in Bits : maskTaken[b] + (IF b \in mask THEN 1 ELSE 0) <= turned[b]

\* Who is parked, or leaves an expired wait, has a request.
HasRequest == \A t \in parked \cup expired : req[t] # {}

MaskInv == Mask!TypeOK /\ BitsTaken /\ HasRequest

LEMMA CountAdds ==
    ASSUME NEW counts \in [Bits -> Nat], NEW bits
    PROVE  /\ Mask!Count(counts, bits) \in [Bits -> Nat]
           /\ \A b \in Bits : Mask!Count(counts, bits)[b] = counts[b] + (IF b \in bits THEN 1 ELSE 0)
  BY DEF Mask!Count

\* A call that turns on the bits of m and turns off others.
LEMMA ChangeStep ==
    ASSUME Mask!TypeOK, BitsTaken, NEW m, m \subseteq Bits, mask' = m,
           turned' = Mask!Count(turned, m \ mask), maskTaken' = maskTaken
    PROVE  mask' \subseteq Bits /\ turned' \in [Bits -> Nat] /\ BitsTaken'
<1>1. /\ turned \in [Bits -> Nat] /\ maskTaken \in [Bits -> Nat]
  BY DEF Mask!TypeOK
<1>2. /\ turned' \in [Bits -> Nat]
      /\ \A b \in Bits : turned'[b] = turned[b] + (IF b \in m \ mask THEN 1 ELSE 0)
  BY <1>1, CountAdds
<1> QED
  BY <1>1, <1>2 DEF BitsTaken

LEMMA StepMaskInv ==
    Mask!ThreadMaskAssumption /\ MaskInv /\ Mask!NoLostWakeup /\ [Mask!Next]_Mask!vars => MaskInv' /\ Mask!NoLostWakeup'
<1> SUFFICES ASSUME Mask!ThreadMaskAssumption, MaskInv, Mask!NoLostWakeup, [Mask!Next]_Mask!vars
             PROVE  MaskInv' /\ Mask!NoLostWakeup'
  OBVIOUS
<1> USE DEF Mask!ThreadMaskAssumption, MaskInv, Mask!CondVarTypeOK
<1>0. /\ mask \subseteq Bits /\ turned \in [Bits -> Nat] /\ maskTaken \in [Bits -> Nat]
      /\ req \in [Threads -> {{}} \cup {{r} : r \in Requests}]
  BY DEF Mask!TypeOK
<1>1. ASSUME NEW m \in SUBSET Bits, Mask!on(m) PROVE MaskInv' /\ Mask!NoLostWakeup'
  <2>1. (mask \cup m) \ mask = m \ mask
    OBVIOUS
  <2>2. mask' \subseteq Bits /\ turned' \in [Bits -> Nat] /\ BitsTaken'
    BY <1>0, <1>1, <2>1, ChangeStep DEF Mask!on
  <2>3. UNCHANGED <<req, maskTaken>> /\ parked' = {} /\ expired' = expired /\ maskSets' \in 0 .. MaxSets
    BY <1>1 DEF Mask!on, Mask!notify_all, Mask!TypeOK
  <2>4. Mask!TypeOK'
    BY <2>2, <2>3 DEF Mask!TypeOK
  <2> QED
    BY <2>2, <2>3, <2>4 DEF HasRequest, Mask!NoLostWakeup
<1>2. ASSUME NEW m \in SUBSET Bits, Mask!off(m) PROVE MaskInv' /\ Mask!NoLostWakeup'
  <2>1. BitsTaken'
    BY <1>0, <1>2 DEF Mask!off, BitsTaken
  <2> QED
    BY <1>2, <2>1 DEF Mask!off, Mask!notify_all, Mask!TypeOK, HasRequest, Mask!NoLostWakeup
<1>3. ASSUME Mask!clear PROVE MaskInv' /\ Mask!NoLostWakeup'
  BY <1>2, <1>3 DEF Mask!clear
<1>4. ASSUME NEW c \in Changes, Mask!change(c[1], c[2]) PROVE MaskInv' /\ Mask!NoLostWakeup'
  <2>1. mask' = (mask \cup c[1]) \ c[2] /\ c[1] \subseteq Bits
    BY <1>4 DEF Mask!change
  <2>2. mask' \subseteq Bits /\ turned' \in [Bits -> Nat] /\ BitsTaken'
    BY <1>0, <1>4, <2>1, ChangeStep DEF Mask!change
  <2>3. parked' \subseteq parked /\ expired' = expired /\ (parked' = {} \/ mask' = mask)
    BY <1>4 DEF Mask!change, Mask!notify_all, Mask!cvVars
  <2>4. UNCHANGED <<req, maskTaken>> /\ maskSets' \in 0 .. MaxSets
    BY <1>4 DEF Mask!change, Mask!TypeOK
  <2>5. Mask!TypeOK'
    BY <2>2, <2>3, <2>4 DEF Mask!TypeOK
  <2> QED
    BY <2>2, <2>3, <2>4, <2>5 DEF HasRequest, Mask!NoLostWakeup
<1>5. ASSUME NEW t \in Threads, NEW r \in Requests, Mask!wait_call(t, r) PROVE MaskInv' /\ Mask!NoLostWakeup'
  <2>1. t \notin parked \cup expired
    BY <1>5 DEF Mask!wait_call, HasRequest
  <2>2. \A u \in parked \cup expired : req'[u] = req[u]
    BY <1>0, <1>5, <2>1 DEF Mask!wait_call, Mask!TypeOK
  <2>3. req' \in [Threads -> {{}} \cup {{q} : q \in Requests}]
    BY <1>0, <1>5 DEF Mask!wait_call
  <2> QED
    BY <1>5, <2>2, <2>3 DEF Mask!wait_call, Mask!cvVars, Mask!TypeOK, BitsTaken, HasRequest, Mask!NoLostWakeup
<1>6. ASSUME NEW t \in Threads, Mask!wait_return(t) PROVE MaskInv' /\ Mask!NoLostWakeup'
  <2>1. PICK r \in req[t] : mask' = mask \ r.clear /\ maskTaken' = Mask!Count(maskTaken, mask \cap r.clear)
    BY <1>6 DEF Mask!wait_return
  <2>2. /\ maskTaken' \in [Bits -> Nat]
        /\ \A b \in Bits : maskTaken'[b] = maskTaken[b] + (IF b \in mask \cap r.clear THEN 1 ELSE 0)
    BY <1>0, <2>1, CountAdds
  <2>3. BitsTaken'
    <3> SUFFICES ASSUME NEW b \in Bits
                 PROVE  maskTaken'[b] + (IF b \in mask' THEN 1 ELSE 0) <= turned'[b]
      BY DEF BitsTaken
    <3>1. maskTaken'[b] = maskTaken[b] + (IF b \in mask \cap r.clear THEN 1 ELSE 0)
      BY <2>2
    <3>2. turned'[b] = turned[b] /\ (b \in mask' <=> b \in mask /\ b \notin r.clear)
      BY <1>6, <2>1 DEF Mask!wait_return
    <3>3. maskTaken[b] \in Nat /\ turned[b] \in Nat /\ maskTaken[b] + (IF b \in mask THEN 1 ELSE 0) <= turned[b]
      BY <1>0 DEF BitsTaken
    <3> QED
      BY <3>1, <3>2, <3>3
  <2>4. parked' \subseteq parked /\ expired' = expired /\ (parked' = {} \/ mask' = mask)
    BY <1>6 DEF Mask!wait_return, Mask!notify_all, Mask!cvVars
  <2>5. t \notin parked \cup expired
    BY <1>6 DEF Mask!wait_return, Mask!Awake
  <2>6. \A u \in parked \cup expired : req'[u] = req[u]
    BY <1>0, <1>6, <2>5 DEF Mask!wait_return, Mask!TypeOK
  <2>7. req' \in [Threads -> {{}} \cup {{q} : q \in Requests}]
    BY <1>0, <1>6 DEF Mask!wait_return
  <2>8. Mask!TypeOK'
    BY <1>0, <1>6, <2>1, <2>2, <2>4, <2>7 DEF Mask!wait_return, Mask!TypeOK
  <2> QED
    BY <2>3, <2>4, <2>6, <2>8 DEF HasRequest, Mask!NoLostWakeup
<1>7. ASSUME NEW t \in Threads, Mask!wait_park(t) PROVE MaskInv' /\ Mask!NoLostWakeup'
  <2>1. req[t] # {} /\ \A r \in req[t] : Mask!func(r, mask) = {}
    BY <1>0, <1>7 DEF Mask!wait_park
  <2> QED
    BY <1>7, <2>1 DEF Mask!wait_park, Mask!wait, Mask!Awake, Mask!TypeOK, BitsTaken, HasRequest, Mask!NoLostWakeup
<1>8. ASSUME NEW t \in Threads, Mask!wait_timeout(t) PROVE MaskInv' /\ Mask!NoLostWakeup'
  <2>1. t \notin parked /\ t \notin expired'
    BY <1>8 DEF Mask!wait_timeout, Mask!TimedOut, Mask!TypeOK
  <2>2. \A u \in parked \cup expired' : req'[u] = req[u]
    BY <1>0, <1>8, <2>1 DEF Mask!wait_timeout, Mask!TimedOut, Mask!TypeOK
  <2>3. req' \in [Threads -> {{}} \cup {{q} : q \in Requests}]
    BY <1>0, <1>8 DEF Mask!wait_timeout
  <2> QED
    BY <1>8, <2>2, <2>3 DEF Mask!wait_timeout, Mask!TimedOut, Mask!TypeOK, BitsTaken, HasRequest, Mask!NoLostWakeup
<1>9. ASSUME NEW t \in Threads, Mask!Wakes(t) PROVE MaskInv' /\ Mask!NoLostWakeup'
  BY <1>9 DEF Mask!Wakes, Mask!WakeUp, Mask!Expire, Mask!TypeOK, BitsTaken, HasRequest, Mask!NoLostWakeup
<1>10. CASE UNCHANGED Mask!vars
  BY <1>10 DEF Mask!vars, Mask!cvVars, Mask!TypeOK, BitsTaken, HasRequest, Mask!NoLostWakeup
<1> QED
  BY <1>1, <1>2, <1>3, <1>4, <1>5, <1>6, <1>7, <1>8, <1>9, <1>10 DEF Mask!Next, Mask!Runs

LEMMA InitMaskInv == Mask!ThreadMaskAssumption /\ Mask!Init => MaskInv /\ Mask!NoLostWakeup
<1> SUFFICES ASSUME Mask!ThreadMaskAssumption, Mask!Init PROVE MaskInv /\ Mask!NoLostWakeup
  OBVIOUS
<1>1. Mask!TypeOK
  BY DEF Mask!ThreadMaskAssumption, Mask!Init, Mask!CondVarInit, Mask!CondVarTypeOK, Mask!TypeOK
<1> QED
  BY <1>1 DEF Mask!Init, Mask!CondVarInit, MaskInv, BitsTaken, HasRequest, Mask!NoLostWakeup

LEMMA MaskInvariant == Mask!ThreadMaskAssumption => (Mask!Spec => [](MaskInv /\ Mask!NoLostWakeup))
<1>1. ASSUME Mask!ThreadMaskAssumption PROVE Mask!Spec => [](MaskInv /\ Mask!NoLostWakeup)
  BY <1>1, InitMaskInv, StepMaskInv, PTL DEF Mask!Spec
<1> QED
  BY <1>1

\* Nobody sleeps on bits that would let it go, whatever is waited for: on and off notify
\* always, change and a wait that clears bits when they have changed the word.
THEOREM MaskWakes == Mask!ThreadMaskAssumption => (Mask!Spec => []Mask!NoLostWakeup)
<1>1. ASSUME Mask!ThreadMaskAssumption PROVE Mask!Spec => []Mask!NoLostWakeup
  BY <1>1, MaskInvariant, PTL
<1> QED
  BY <1>1

\* However many threads wake for one bit, it is taken at most as often as it was turned on.
THEOREM BitIsTakenOnce == Mask!ThreadMaskAssumption => (Mask!Spec => []Mask!TakenOnce)
<1>1. MaskInv => Mask!TakenOnce
  BY DEF MaskInv, Mask!TypeOK, BitsTaken, Mask!TakenOnce
<1>2. ASSUME Mask!ThreadMaskAssumption PROVE Mask!Spec => []Mask!TakenOnce
  BY <1>1, <1>2, MaskInvariant, PTL
<1> QED
  BY <1>2
-----------------------------------------------------------------------------
(* Theorems about the counter, for any threads, timeouts and values        *)

\* Who is parked, or leaves an expired wait, is in a call.
InCall == \A t \in parked \cup expired : counterOp[t] # <<"idle", 0>>

CounterInv == Counter!TypeOK /\ Counter!NeverOverdrawn /\ InCall

LEMMA InitCounterInv == Counter!ThreadCounterAssumption /\ Counter!Init => CounterInv /\ Counter!NoLostWakeup
  BY DEF Counter!ThreadCounterAssumption, Counter!Init, Counter!CondVarInit, CounterInv, Counter!TypeOK, Counter!CondVarTypeOK, Counter!Ops,
         Counter!NeverOverdrawn, InCall, Counter!NoLostWakeup

LEMMA StepCounterInv ==
    Counter!ThreadCounterAssumption /\ CounterInv /\ Counter!NoLostWakeup /\ [Counter!Next]_Counter!vars
        => CounterInv' /\ Counter!NoLostWakeup'
<1> SUFFICES ASSUME Counter!ThreadCounterAssumption, CounterInv, Counter!NoLostWakeup, [Counter!Next]_Counter!vars
             PROVE  CounterInv' /\ Counter!NoLostWakeup'
  OBVIOUS
<1> USE DEF Counter!ThreadCounterAssumption, CounterInv, Counter!TypeOK, Counter!CondVarTypeOK, Counter!NeverOverdrawn, InCall
<1>1. ASSUME NEW n \in Resets, Counter!reset(n) PROVE CounterInv' /\ Counter!NoLostWakeup'
  BY <1>1 DEF Counter!reset, Counter!notify_all, Counter!NoLostWakeup
<1>2. ASSUME NEW n \in 1 .. 2, Counter!up(n) PROVE CounterInv' /\ Counter!NoLostWakeup'
  BY <1>2 DEF Counter!up, Counter!notify_all, Counter!NoLostWakeup
<1>3. ASSUME NEW t \in Threads, Counter!call(t) PROVE CounterInv' /\ Counter!NoLostWakeup'
  <2>1. t \notin parked \cup expired
    BY <1>3 DEF Counter!call
  <2>2. \A u \in parked \cup expired : counterOp'[u] = counterOp[u]
    BY <1>3, <2>1 DEF Counter!call
  <2>3. counterOp' \in [Threads -> Counter!Ops]
    BY <1>3 DEF Counter!call
  <2> QED
    BY <1>3, <2>2, <2>3 DEF Counter!call, Counter!cvVars, Counter!NoLostWakeup, Counter!Ready
<1>4. ASSUME NEW t \in Threads, Counter!down(t) PROVE CounterInv' /\ Counter!NoLostWakeup'
  <2>1. counter >= 1
    BY <1>4 DEF Counter!down, Counter!Ready
  <2>2. t \notin expired
    BY <1>4 DEF Counter!down, Counter!Awake
  <2> QED
    BY <1>4, <2>1, <2>2 DEF Counter!down, Counter!notify_all, Counter!NoLostWakeup, Counter!Ops
<1>5. ASSUME NEW t \in Threads, Counter!park(t) PROVE CounterInv' /\ Counter!NoLostWakeup'
  <2>1. counterOp[t] # <<"idle", 0>> /\ t \notin expired
    BY <1>5 DEF Counter!park, Counter!Awake
  <2> QED
    BY <1>5, <2>1 DEF Counter!park, Counter!wait, Counter!NoLostWakeup, Counter!Ready
<1>6. ASSUME NEW t \in Threads, Counter!wait_return(t) PROVE CounterInv' /\ Counter!NoLostWakeup'
  BY <1>6 DEF Counter!wait_return, Counter!Awake, Counter!cvVars, Counter!NoLostWakeup, Counter!Ready, Counter!Ops
<1>7. ASSUME NEW t \in Threads, Counter!timeout(t) PROVE CounterInv' /\ Counter!NoLostWakeup'
  BY <1>7 DEF Counter!timeout, Counter!TimedOut, Counter!NoLostWakeup, Counter!Ready, Counter!Ops
<1>8. ASSUME NEW t \in Threads, Counter!Wakes(t) PROVE CounterInv' /\ Counter!NoLostWakeup'
  BY <1>8 DEF Counter!Wakes, Counter!WakeUp, Counter!Expire, Counter!NoLostWakeup, Counter!Ready
<1>9. CASE UNCHANGED Counter!vars
  BY <1>9 DEF Counter!vars, Counter!cvVars, Counter!NoLostWakeup, Counter!Ready
<1> QED
  BY <1>1, <1>2, <1>3, <1>4, <1>5, <1>6, <1>7, <1>8, <1>9 DEF Counter!Next, Counter!Runs

\* A counting semaphore gives no more than it was given, however many threads one up wakes:
\* each tests counter_ again under the lock (the while loop of down).
THEOREM CounterIsNotOverdrawn == Counter!ThreadCounterAssumption => (Counter!Spec => []Counter!NeverOverdrawn)
<1>1. CounterInv => Counter!NeverOverdrawn
  BY DEF CounterInv
<1>2. ASSUME Counter!ThreadCounterAssumption PROVE Counter!Spec => []Counter!NeverOverdrawn
  BY <1>1, <1>2, InitCounterInv, StepCounterInv, PTL DEF Counter!Spec
<1> QED
  BY <1>2

\* Nobody sleeps in down, wait_atleast or wait_just while the value it waits for is there:
\* all that change counter_ notify.
THEOREM CounterWakes == Counter!ThreadCounterAssumption => (Counter!Spec => []Counter!NoLostWakeup)
<1>2. ASSUME Counter!ThreadCounterAssumption PROVE Counter!Spec => []Counter!NoLostWakeup
  BY <1>2, InitCounterInv, StepCounterInv, PTL DEF Counter!Spec
<1> QED
  BY <1>2
-----------------------------------------------------------------------------
(* Theorems about the rendezvous, for any threads and any N                *)

\* The instance counts as this module does.
LEMMA SameCounting ==
    ASSUME NEW S
    PROVE  Meeting!Cardinality(S) = Cardinality(S)
  BY DEF Meeting!Cardinality, Cardinality

InWait == \A t \in parked \cup expired : meetOp[t] = "in"

\* No thread has come to a round that has not begun, and who was told "all" came to an
\* earlier one.
CameEarlier == \A t \in Threads : cur[t] <= id /\ (meetOp[t] = "true" => cur[t] < id)

\* inside is who waits in the present round; waiting_ is how many they are.
Gathered ==
    /\ inside = {t \in Threads : meetOp[t] = "in" /\ cur[t] = id}
    /\ IsFiniteSet(inside)
    /\ Meeting!CountsInside

\* An aborted round gathers nobody, and without reset there is none after it.
RoundInv ==
    /\ ~aborted => Gathered
    /\ "reset" \notin Controls => met = 0 .. id - 1 /\ CameEarlier

BaseInv == Meeting!TypeOK /\ InWait /\ \A t \in Threads : cur[t] <= id

LEMMA StepBaseInv == Meeting!RendezvousAssumption /\ BaseInv /\ [Meeting!Next]_Meeting!vars => BaseInv'
<1> SUFFICES ASSUME Meeting!RendezvousAssumption, BaseInv, [Meeting!Next]_Meeting!vars PROVE BaseInv'
  OBVIOUS
<1> USE DEF Meeting!RendezvousAssumption, BaseInv, Meeting!TypeOK, Meeting!CondVarTypeOK, InWait
<1>1. ASSUME NEW t \in Threads, Meeting!wait_last(t) PROVE BaseInv'
  BY <1>1 DEF Meeting!wait_last, Meeting!Calls, Meeting!Return, Meeting!notify_all
<1>2. ASSUME NEW t \in Threads, Meeting!wait_enter(t) PROVE BaseInv'
  BY <1>2 DEF Meeting!wait_enter, Meeting!Calls, Meeting!Return, Meeting!wait
<1>3. ASSUME NEW t \in Threads, Meeting!wait_refused(t) PROVE BaseInv'
  BY <1>3 DEF Meeting!wait_refused, Meeting!Calls, Meeting!Return, Meeting!cvVars
<1>4. ASSUME NEW t \in Threads, Meeting!wait_again(t) PROVE BaseInv'
  <2>1. CASE Meeting!wait(t) /\ UNCHANGED <<meetOp, inside>>
    BY <1>4, <2>1 DEF Meeting!wait_again, Meeting!wait, Meeting!Awake
  <2>2. CASE Meeting!Return(t, IF aborted THEN "false" ELSE "true") /\ inside' = inside \ {t} /\ UNCHANGED Meeting!cvVars
    BY <1>4, <2>2 DEF Meeting!wait_again, Meeting!Return, Meeting!Awake, Meeting!cvVars
  <2> QED
    BY <1>4, <2>1, <2>2 DEF Meeting!wait_again
<1>5. ASSUME NEW t \in Threads, Meeting!wait_timeout(t) PROVE BaseInv'
  BY <1>5 DEF Meeting!wait_timeout, Meeting!TimedOut, Meeting!Return
<1>6. ASSUME NEW t \in Threads, Meeting!wakeup(t) PROVE BaseInv'
  BY <1>6 DEF Meeting!wakeup, Meeting!WakeUp, Meeting!Expire
<1>7. ASSUME Meeting!abort PROVE BaseInv'
  BY <1>7 DEF Meeting!abort, Meeting!notify_all, Meeting!cvVars
<1>8. ASSUME Meeting!reset PROVE BaseInv'
  <2>1. /\ id' = id + 1 /\ waiting' = 0 /\ inside' = {}
        /\ controls' \in 0 .. MaxControl /\ UNCHANGED <<parked, expired, meetOp, cur, met>>
    BY <1>8 DEF Meeting!reset, Meeting!cvVars
  <2>2. \A t \in Threads : cur'[t] <= id'
    BY <2>1
  <2>3. aborted' \in BOOLEAN
    BY <1>8, Zenon DEF Meeting!reset
  <2> QED
    BY <2>1, <2>2, <2>3
<1>9. CASE UNCHANGED Meeting!vars
  BY <1>9 DEF Meeting!vars, Meeting!cvVars
<1> QED
  BY <1>1, <1>2, <1>3, <1>4, <1>5, <1>6, <1>7, <1>8, <1>9 DEF Meeting!Next, Meeting!Arrives, Meeting!Leaves

LEMMA InitBaseInv == Meeting!RendezvousAssumption /\ Meeting!Init => BaseInv
<1> SUFFICES ASSUME Meeting!RendezvousAssumption, Meeting!Init PROVE BaseInv
  OBVIOUS
<1>1. Meeting!CondVarTypeOK /\ InWait
  BY DEF Meeting!Init, Meeting!CondVarInit, Meeting!CondVarTypeOK, InWait
<1>2. id = 0 /\ cur = [t \in Threads |-> 0] /\ controls \in 0 .. MaxControl
  BY DEF Meeting!RendezvousAssumption, Meeting!Init
<1>3. meetOp \in [Threads -> {"in", "true", "false"}]
  BY DEF Meeting!Init
<1>4. \A t \in Threads : cur[t] <= id
  BY <1>2
<1>5. aborted \in BOOLEAN
  BY Zenon DEF Meeting!Init
<1>6. id \in Nat /\ waiting \in Nat /\ inside \subseteq Threads /\ met \subseteq Nat
      /\ cur \in [Threads -> Nat]
  BY DEF Meeting!Init
<1> QED
  BY <1>1, <1>2, <1>3, <1>4, <1>5, <1>6 DEF BaseInv, Meeting!TypeOK

LEMMA BaseInvariant == Meeting!RendezvousAssumption => (Meeting!Spec => []BaseInv)
<1>1. ASSUME Meeting!RendezvousAssumption PROVE Meeting!Spec => []BaseInv
  BY <1>1, InitBaseInv, StepBaseInv, PTL DEF Meeting!Spec
<1> QED
  BY <1>1

\* wait_last and abort notify, and nobody parks in a round that is over or aborted.
LEMMA StepWakes ==
    ASSUME "reset" \notin Controls
    PROVE  BaseInv /\ Meeting!NoLostWakeup /\ [Meeting!Next]_Meeting!vars => Meeting!NoLostWakeup'
<1> SUFFICES ASSUME BaseInv, Meeting!NoLostWakeup, [Meeting!Next]_Meeting!vars PROVE Meeting!NoLostWakeup'
  OBVIOUS
<1> USE DEF BaseInv, Meeting!TypeOK, Meeting!CondVarTypeOK, InWait, Meeting!NoLostWakeup
<1>1. ASSUME NEW t \in Threads, Meeting!wait_last(t) PROVE Meeting!NoLostWakeup'
  BY <1>1 DEF Meeting!wait_last, Meeting!notify_all
<1>2. ASSUME NEW t \in Threads, Meeting!wait_enter(t) PROVE Meeting!NoLostWakeup'
  BY <1>2 DEF Meeting!wait_enter, Meeting!Calls, Meeting!wait
<1>3. ASSUME NEW t \in Threads, Meeting!wait_refused(t) PROVE Meeting!NoLostWakeup'
  BY <1>3 DEF Meeting!wait_refused, Meeting!Calls, Meeting!cvVars
<1>4. ASSUME NEW t \in Threads, Meeting!wait_again(t) PROVE Meeting!NoLostWakeup'
  BY <1>4 DEF Meeting!wait_again, Meeting!wait, Meeting!cvVars
<1>5. ASSUME NEW t \in Threads, Meeting!wait_timeout(t) PROVE Meeting!NoLostWakeup'
  BY <1>5 DEF Meeting!wait_timeout, Meeting!TimedOut
<1>6. ASSUME NEW t \in Threads, Meeting!wakeup(t) PROVE Meeting!NoLostWakeup'
  BY <1>6 DEF Meeting!wakeup, Meeting!WakeUp, Meeting!Expire
<1>7. ASSUME Meeting!abort PROVE Meeting!NoLostWakeup'
  BY <1>7 DEF Meeting!abort, Meeting!notify_all, Meeting!cvVars
<1>8. ASSUME Meeting!reset PROVE FALSE
  BY <1>8 DEF Meeting!reset
<1>9. CASE UNCHANGED Meeting!vars
  BY <1>9 DEF Meeting!vars, Meeting!cvVars
<1> QED
  BY <1>1, <1>2, <1>3, <1>4, <1>5, <1>6, <1>7, <1>8, <1>9 DEF Meeting!Next, Meeting!Arrives, Meeting!Leaves

\* Without timeouts the threads inside are those that waiting_ counts.
LEMMA StepRoundInv ==
    ASSUME Timed = {}, Meeting!RendezvousAssumption
    PROVE  BaseInv /\ RoundInv /\ [Meeting!Next]_Meeting!vars => RoundInv'
<1> SUFFICES ASSUME BaseInv, RoundInv, [Meeting!Next]_Meeting!vars PROVE RoundInv'
  OBVIOUS
<1> USE DEF Meeting!RendezvousAssumption, BaseInv, Meeting!TypeOK, Meeting!CondVarTypeOK
<1>1. ASSUME NEW t \in Threads, Meeting!wait_last(t) PROVE RoundInv'
  <2>1. /\ ~aborted /\ Gathered /\ meetOp[t] # "in" /\ waiting + 1 = N
        /\ id' = id + 1 /\ waiting' = 0 /\ inside' = {} /\ cur' = [cur EXCEPT ![t] = id]
        /\ meetOp' = [meetOp EXCEPT ![t] = "true"]
    BY <1>1 DEF Meeting!wait_last, Meeting!Calls, Meeting!Return, RoundInv
  <2>2. t \notin inside /\ IsFiniteSet(inside) /\ Cardinality(inside) = waiting
    BY <2>1, SameCounting DEF Gathered, Meeting!CountsInside
  <2>3. Cardinality(inside \cup {t}) = N
    BY <2>1, <2>2, FS_AddElement
  <2>4. met' = met \cup {id}
    BY <1>1, <2>3, SameCounting DEF Meeting!wait_last
  <2>5. Gathered'
    BY <2>1, FS_EmptySet, SameCounting DEF Gathered, Meeting!CountsInside
  <2>6. CameEarlier => CameEarlier'
    BY <2>1 DEF CameEarlier
  <2>7. met = 0 .. id - 1 => met' = 0 .. id' - 1
    BY <2>1, <2>4
  <2> QED
    BY <2>5, <2>6, <2>7 DEF RoundInv
<1>2. ASSUME NEW t \in Threads, Meeting!wait_enter(t) PROVE RoundInv'
  <2>1. /\ ~aborted /\ Gathered /\ meetOp[t] # "in" /\ waiting + 1 # N /\ id' = id /\ met' = met
        /\ waiting' = waiting + 1 /\ inside' = inside \cup {t} /\ cur' = [cur EXCEPT ![t] = id]
        /\ meetOp' = [meetOp EXCEPT ![t] = "in"]
    BY <1>2 DEF Meeting!wait_enter, Meeting!Calls, Meeting!Return, RoundInv
  <2>2. t \notin inside /\ IsFiniteSet(inside) /\ Cardinality(inside) = waiting /\ waiting < N
    BY <2>1, SameCounting DEF Gathered, Meeting!CountsInside
  <2>3. IsFiniteSet(inside') /\ Cardinality(inside') = waiting'
    BY <2>1, <2>2, FS_AddElement
  <2>4. inside' = {u \in Threads : meetOp'[u] = "in" /\ cur'[u] = id'}
    BY <2>1 DEF Gathered
  <2>5. Gathered'
    BY <2>1, <2>2, <2>3, <2>4, SameCounting DEF Gathered, Meeting!CountsInside
  <2>6. CameEarlier => CameEarlier'
    BY <2>1 DEF CameEarlier
  <2> QED
    BY <2>1, <2>5, <2>6 DEF RoundInv
<1>3. ASSUME NEW t \in Threads, Meeting!wait_refused(t) PROVE RoundInv'
  <2>1. /\ aborted' /\ id' = id /\ met' = met /\ cur' = [cur EXCEPT ![t] = id]
        /\ meetOp' = [meetOp EXCEPT ![t] = "false"]
    BY <1>3 DEF Meeting!wait_refused, Meeting!Calls, Meeting!Return
  <2>2. CameEarlier => CameEarlier'
    BY <2>1 DEF CameEarlier
  <2> QED
    BY <2>1, <2>2 DEF RoundInv
<1>4. ASSUME NEW t \in Threads, Meeting!wait_again(t) PROVE RoundInv'
  <2>0. UNCHANGED <<id, aborted, waiting, cur, met>>
    BY <1>4 DEF Meeting!wait_again
  <2>1. CASE UNCHANGED <<meetOp, inside>>
    BY <2>0, <2>1 DEF RoundInv, Gathered, Meeting!CountsInside, CameEarlier
  <2>2. CASE /\ aborted \/ cur[t] # id
             /\ Meeting!Return(t, IF aborted THEN "false" ELSE "true")
             /\ inside' = inside \ {t}
    <3>1. meetOp' = [meetOp EXCEPT ![t] = IF aborted THEN "false" ELSE "true"]
      BY <2>2 DEF Meeting!Return
    <3>2. ASSUME ~aborted PROVE Gathered'
      <4>1. Gathered /\ t \notin inside
        BY <2>2, <3>2 DEF RoundInv, Gathered
      <4>2. inside' = inside
        BY <2>2, <4>1
      <4>3. inside' = {u \in Threads : meetOp'[u] = "in" /\ cur'[u] = id'}
        BY <2>0, <2>2, <3>1, <3>2, <4>1, <4>2 DEF Gathered
      <4> QED
        BY <2>0, <4>1, <4>2, <4>3 DEF Gathered, Meeting!CountsInside
    <3>3. CameEarlier => CameEarlier'
      BY <2>0, <2>2, <3>1 DEF CameEarlier
    <3> QED
      BY <2>0, <3>2, <3>3 DEF RoundInv
  <2> QED
    BY <1>4, <2>1, <2>2 DEF Meeting!wait_again
<1>5. ASSUME NEW t \in Threads, Meeting!wait_timeout(t) PROVE FALSE
  BY <1>5 DEF Meeting!wait_timeout, Meeting!TimedOut
<1>6. ASSUME NEW t \in Threads, Meeting!wakeup(t) PROVE RoundInv'
  BY <1>6 DEF Meeting!wakeup, RoundInv, Gathered, Meeting!CountsInside, CameEarlier
<1>7. ASSUME Meeting!abort PROVE RoundInv'
  BY <1>7 DEF Meeting!abort, RoundInv, CameEarlier
<1>8. ASSUME Meeting!reset PROVE RoundInv'
  <2>1. /\ "reset" \in Controls /\ id' = id + 1 /\ waiting' = 0 /\ inside' = {} /\ UNCHANGED <<meetOp, cur>>
    BY <1>8 DEF Meeting!reset
  <2>2. Gathered'
    BY <2>1, FS_EmptySet, SameCounting DEF Gathered, Meeting!CountsInside
  <2> QED
    BY <2>1, <2>2 DEF RoundInv
<1>9. CASE UNCHANGED Meeting!vars
  BY <1>9 DEF Meeting!vars, RoundInv, Gathered, Meeting!CountsInside, CameEarlier
<1> QED
  BY <1>1, <1>2, <1>3, <1>4, <1>5, <1>6, <1>7, <1>8, <1>9 DEF Meeting!Next, Meeting!Arrives, Meeting!Leaves

LEMMA InitRoundInv == Meeting!RendezvousAssumption /\ Meeting!Init => RoundInv /\ Meeting!NoLostWakeup
<1> SUFFICES ASSUME Meeting!RendezvousAssumption, Meeting!Init PROVE RoundInv /\ Meeting!NoLostWakeup
  OBVIOUS
<1>1. Gathered
  BY FS_EmptySet, SameCounting DEF Meeting!RendezvousAssumption, Meeting!Init, Gathered, Meeting!CountsInside
<1> QED
  BY <1>1 DEF Meeting!Init, Meeting!CondVarInit, RoundInv, CameEarlier, Meeting!NoLostWakeup

\* Whoever is told "all" came to a round in which N threads met, aborted ones left aside.
THEOREM AllThreadsMet ==
    ASSUME Timed = {}, "reset" \notin Controls, Meeting!RendezvousAssumption
    PROVE  Meeting!Spec => []Meeting!AllMet
<1>1. BaseInv /\ RoundInv => Meeting!AllMet
  BY DEF BaseInv, Meeting!TypeOK, RoundInv, CameEarlier, Meeting!AllMet
<1> QED
  BY <1>1, InitRoundInv, StepRoundInv, BaseInvariant, PTL DEF Meeting!Spec

\* As long as no wait times out waiting_ counts who waits in the present round, through any
\* abort and reset: a round is never full with one thread too few, or left unfinished.
THEOREM RoundCountsThreads ==
    ASSUME Timed = {}, Meeting!RendezvousAssumption
    PROVE  Meeting!Spec => [](~aborted => Meeting!CountsInside)
<1>1. RoundInv => (~aborted => Meeting!CountsInside)
  BY DEF RoundInv, Gathered
<1> QED
  BY <1>1, InitRoundInv, StepRoundInv, BaseInvariant, PTL DEF Meeting!Spec

\* Nobody sleeps in a round that is over or aborted, timeouts or not.
THEOREM RendezvousWakes ==
    ASSUME "reset" \notin Controls, Meeting!RendezvousAssumption
    PROVE  Meeting!Spec => []Meeting!NoLostWakeup
  BY InitRoundInv, StepWakes, BaseInvariant, PTL DEF Meeting!Spec
-----------------------------------------------------------------------------
(* Theorems about the event, for any threads and timeouts                  *)

\* An event that is set was set once more than it was taken, and told by on_set.
EventTaken ==
    /\ eventTaken + (IF event THEN 1 ELSE 0) <= eventSets
    /\ event \/ waited => notices > 0

\* Who is parked, or leaves an expired wait, is in a call.
InEventCall == \A t \in parked \cup expired : eventOp[t] # "idle"

EventInv == Event!TypeOK /\ EventTaken /\ InEventCall /\ Event!NoLostWakeup

LEMMA InitEventInv == Event!ThreadEventAssumption /\ Event!Init => EventInv
<1> SUFFICES ASSUME Event!ThreadEventAssumption, Event!Init PROVE EventInv
  OBVIOUS
<1>1. event = FALSE /\ waited = FALSE
  BY DEF Event!Init
<1>2. ~event /\ ~waited /\ event \in BOOLEAN /\ waited \in BOOLEAN
  BY <1>1, Zenon
<1>3. /\ Event!CondVarTypeOK /\ parked = {} /\ expired = {} /\ eventTaken = 0 /\ eventSets = 0 /\ notices = 0
      /\ eventSets \in 0 .. MaxSets /\ eventOp \in [Threads -> {"idle"} \cup Event!Waits]
  BY DEF Event!ThreadEventAssumption, Event!Init, Event!CondVarInit, Event!CondVarTypeOK
<1> QED
  BY <1>2, <1>3 DEF EventInv, Event!TypeOK, EventTaken, InEventCall, Event!NoLostWakeup

LEMMA StepEventInv == Event!ThreadEventAssumption /\ EventInv /\ [Event!Next]_Event!vars => EventInv'
<1> SUFFICES ASSUME Event!ThreadEventAssumption, EventInv, [Event!Next]_Event!vars PROVE EventInv'
  OBVIOUS
<1> USE DEF Event!ThreadEventAssumption, EventInv, Event!TypeOK, Event!CondVarTypeOK, EventTaken, InEventCall,
            Event!NoLostWakeup, Event!Waits
<1>1. CASE Event!set
  BY <1>1 DEF Event!set, Event!notify_all
<1>2. CASE Event!clear
  <2>1. event' = FALSE
    BY <1>2 DEF Event!clear
  <2>2. ~event' /\ event' \in BOOLEAN
    BY <2>1, Zenon
  <2> QED
    BY <1>2, <2>2 DEF Event!clear, Event!notify_all
<1>3. ASSUME NEW t \in Threads, Event!wait_call(t) PROVE EventInv'
  <2>1. PICK w \in {"wait", "wait_and_clear"} : eventOp' = [eventOp EXCEPT ![t] = w]
    BY <1>3 DEF Event!wait_call
  <2>2. \A u \in parked \cup expired : eventOp'[u] = eventOp[u]
    BY <1>3, <2>1 DEF Event!wait_call
  <2> QED
    BY <1>3, <2>1, <2>2 DEF Event!wait_call, Event!cvVars
<1>4. ASSUME NEW t \in Threads, Event!wait_park(t) PROVE EventInv'
  BY <1>4 DEF Event!wait_park, Event!wait, Event!Awake
<1>5. ASSUME NEW t \in Threads, Event!wait_return(t) PROVE EventInv'
  <2>1. /\ t \notin parked \cup expired /\ event /\ parked = {}
        /\ eventOp' = [eventOp EXCEPT ![t] = "idle"] /\ UNCHANGED <<parked, expired, eventSets, notices>>
    BY <1>5 DEF Event!wait_return, Event!Awake, Event!cvVars
  <2>2. \A u \in parked \cup expired : eventOp'[u] = eventOp[u]
    BY <2>1
  <2>3. CASE eventOp[t] = "wait"
    BY <1>5, <2>1, <2>2, <2>3 DEF Event!wait_return
  <2>4. CASE eventOp[t] = "wait_and_clear"
    <3>1. event' = FALSE
      BY <1>5, <2>4 DEF Event!wait_return
    <3>2. ~event' /\ event' \in BOOLEAN
      BY <3>1, Zenon
    <3>3. waited' = TRUE /\ eventTaken' = eventTaken + 1
      BY <1>5, <2>4 DEF Event!wait_return
    <3>4. waited' \in BOOLEAN
      BY <3>3, Zenon
    <3> QED
      BY <2>1, <2>2, <3>2, <3>3, <3>4
  <2> QED
    BY <1>5, <2>3, <2>4 DEF Event!wait_return
<1>6. ASSUME NEW t \in Threads, Event!wait_timeout(t) PROVE EventInv'
  BY <1>6 DEF Event!wait_timeout, Event!TimedOut
<1>7. ASSUME NEW t \in Threads, Event!Wakes(t) PROVE EventInv'
  BY <1>7 DEF Event!Wakes, Event!WakeUp, Event!Expire
<1>8. CASE UNCHANGED Event!vars
  BY <1>8 DEF Event!vars, Event!cvVars
<1> QED
  BY <1>1, <1>2, <1>3, <1>4, <1>5, <1>6, <1>7, <1>8 DEF Event!Next, Event!Runs

\* Nobody sleeps on an event that is set: set notifies all, and a thread that leaves the event
\* set leaves nobody behind.
THEOREM EventWakes == Event!ThreadEventAssumption => (Event!Spec => []Event!NoLostWakeup)
<1>1. EventInv => Event!NoLostWakeup
  BY DEF EventInv
<1>2. ASSUME Event!ThreadEventAssumption PROVE Event!Spec => []Event!NoLostWakeup
  BY <1>1, <1>2, InitEventInv, StepEventInv, PTL DEF Event!Spec
<1> QED
  BY <1>2

\* However many threads one set wakes, one wait_and_clear takes it; and no wait returns before
\* on_set was called.
THEOREM EventIsTakenOnce == Event!ThreadEventAssumption => (Event!Spec => []Event!TakenOnce)
<1>1. EventInv => Event!TakenOnce
  BY DEF EventInv, Event!TypeOK, EventTaken, Event!TakenOnce
<1>2. ASSUME Event!ThreadEventAssumption PROVE Event!Spec => []Event!TakenOnce
  BY <1>1, <1>2, InitEventInv, StepEventInv, PTL DEF Event!Spec
<1> QED
  BY <1>2
-----------------------------------------------------------------------------
(* Theorems about the channel, for any number of requests                  *)

rqState == state["request"]
rpState == state["reply"]
sDoes   == do["sender"]
rDoes   == do["receiver"]
sAt     == at["sender"]
rAt     == at["receiver"]

One(b)  == IF b THEN 1 ELSE 0

SenderDoes   == {"choose", "send_request", "recv_reply", "drain", "close_request", "detach", "leave", "left"}
ReceiverDoes == {"recv_request", "send_reply", "close_reply", "detach", "leave", "left"}
Parked       == {{}, {"request"}, {"reply"}}

ChannelTypes ==
    /\ state \in [{"request", "reply"} -> Ask!States]
    /\ data \in [{"request", "reply"} -> Nat]
    /\ at \in [{"sender", "receiver"} -> Parked] /\ late = {}
    /\ user \in Nat /\ leaving \subseteq {"sender", "receiver"}
    /\ do \in [{"sender", "receiver"} -> SenderDoes \cup ReceiverDoes]
    /\ sDoes \in SenderDoes /\ rDoes \in ReceiverDoes
    /\ hand \in Nat /\ asked \in Nat /\ replies \in Seq(Nat)

\* Who is parked at a pipe is in a call that has nothing to do there.
ParkedAtPipe ==
    /\ sAt = {"request"} => sDoes = "send_request" /\ rqState = "EXIST"
    /\ sAt = {"reply"} => sDoes \in {"recv_reply", "drain"} /\ rpState = "EMPTY"
    /\ rAt = {"request"} => rDoes = "recv_request" /\ rqState = "EMPTY"
    /\ rAt = {"reply"} => rDoes = "send_reply" /\ rpState = "EXIST"

\* user_ counts those who have not left, and they leave together.
UsersLeave ==
    /\ user = One(sDoes \notin {"leave", "left"}) + One(rDoes \notin {"leave", "left"})
    /\ leaving # {} => user > 0
    /\ "left" \in {sDoes, rDoes} => user = 0

\* Only the sender closes request_, and only the receiver reply_, after it has seen the end of
\* the requests.
WhoCloses ==
    /\ sDoes \in {"choose", "send_request", "recv_reply", "close_request"} => rqState \notin {"CLOSING", "CLOSED"}
    /\ sDoes \in {"detach", "leave", "left"} => asked = Len(replies) \/ rqState = "ABORTED"
    /\ rDoes \in {"recv_request", "send_reply", "close_reply"} => rpState \notin {"CLOSING", "CLOSED"}
    /\ rDoes \in {"close_reply", "detach", "leave", "left"} => rqState \in {"CLOSED", "ABORTED"}
    /\ rpState = "ABORTED" => rqState = "ABORTED"

\* The requests that were sent are, in order: those whose reply has come, the one whose reply is
\* in reply_, the one in the receiver's hand, the one in request_.
inReply   == IF rpState \in {"EXIST", "CLOSING"} THEN 1 ELSE 0
inHand    == IF rDoes = "send_reply" THEN 1 ELSE 0
inRequest == IF rqState \in {"EXIST", "CLOSING"} THEN 1 ELSE 0
replied == Len(replies) + inReply
handed  == replied + inHand
sent    == handed + inRequest

InTransit ==
    /\ \A k \in 1 .. Len(replies) : replies[k] = k
    /\ inReply = 1 => data["reply"] = Len(replies) + 1
    /\ inHand = 1 /\ rpState # "ABORTED" => hand = replied + 1
    /\ inRequest = 1 => data["request"] = handed + 1
    /\ sent <= asked
    /\ rqState # "ABORTED" => sent = asked

ChannelInv == ChannelTypes /\ ParkedAtPipe /\ UsersLeave /\ WhoCloses /\ InTransit

LEMMA InitChannelInv == Ask!ChannelInit => ChannelInv
<1> SUFFICES ASSUME Ask!ChannelInit PROVE ChannelInv
  OBVIOUS
<1>1. /\ state = [p \in {"request", "reply"} |-> "EMPTY"] /\ at = [t \in {"sender", "receiver"} |-> {}]
      /\ data = [p \in {"request", "reply"} |-> 0] /\ late = {}
      /\ user = 2 /\ leaving = {} /\ hand = 0 /\ asked = 0 /\ replies = <<>>
      /\ do = [sender |-> "choose", receiver |-> "recv_request"]
  BY DEF Ask!ChannelInit, Ask!PipeInit
<1>2. sDoes = "choose" /\ rDoes = "recv_request"
  BY <1>1 DEF sDoes, rDoes
<1>3. do \in [{"sender", "receiver"} -> SenderDoes \cup ReceiverDoes]
  <2>1. do \in [sender : {"choose"}, receiver : {"recv_request"}]
    BY <1>1
  <2>2. DOMAIN do = {"sender", "receiver"} /\ do = [t \in DOMAIN do |-> do[t]]
    BY <1>1
  <2>3. \A t \in {"sender", "receiver"} : do[t] \in SenderDoes \cup ReceiverDoes
    BY <1>2 DEF sDoes, rDoes, SenderDoes, ReceiverDoes
  <2> QED
    BY <2>2, <2>3
<1>4. Len(replies) = 0 /\ replies \in Seq(Nat)
  BY <1>1
<1>5. rqState = "EMPTY" /\ rpState = "EMPTY" /\ sAt = {} /\ rAt = {}
  BY <1>1 DEF rqState, rpState, sAt, rAt
<1>6. ChannelTypes
  BY <1>1, <1>2, <1>3, <1>4 DEF ChannelTypes, Ask!States, Parked, SenderDoes, ReceiverDoes
<1>7. ParkedAtPipe /\ UsersLeave /\ WhoCloses
  BY <1>1, <1>2, <1>5 DEF ParkedAtPipe, UsersLeave, WhoCloses, One
<1>8. InTransit
  BY <1>1, <1>2, <1>4, <1>5 DEF InTransit, replied, handed, sent, inReply, inHand, inRequest
<1> QED
  BY <1>6, <1>7, <1>8 DEF ChannelInv

\* What a turn of a thread, and a notify, change.
LEMMA TurnsOne ==
    ASSUME ChannelTypes
    PROVE  /\ \A d \in SenderDoes : Ask!Turns("sender", d) =>
                /\ sDoes' = d /\ rDoes' = rDoes
                /\ do' \in [{"sender", "receiver"} -> SenderDoes \cup ReceiverDoes]
           /\ \A d \in ReceiverDoes : Ask!Turns("receiver", d) =>
                /\ rDoes' = d /\ sDoes' = sDoes
                /\ do' \in [{"sender", "receiver"} -> SenderDoes \cup ReceiverDoes]
  BY DEF ChannelTypes, Ask!Turns, sDoes, rDoes

LEMMA Notifies ==
    ASSUME ChannelTypes, NEW p \in {"request", "reply"}, Ask!notify_all(p)
    PROVE  /\ at' \in [{"sender", "receiver"} -> Parked] /\ late' = {}
           /\ sAt' = (IF sAt = {p} THEN {} ELSE sAt) /\ rAt' = (IF rAt = {p} THEN {} ELSE rAt)
<1>1. \A a \in Parked : a \ {p} = IF a = {p} THEN {} ELSE a
  BY DEF Parked
<1>2. at' = [t \in {"sender", "receiver"} |-> at[t] \ {p}] /\ late' = late
  BY DEF Ask!notify_all
<1>3. \A t \in {"sender", "receiver"} : at[t] \in Parked /\ at'[t] = IF at[t] = {p} THEN {} ELSE at[t]
  BY <1>1, <1>2 DEF ChannelTypes
<1> QED
  BY <1>2, <1>3 DEF ChannelTypes, sAt, rAt, Parked

LEMMA Becoming ==
    ASSUME ChannelTypes, NEW x \in Ask!States
    PROVE  /\ Ask!Becomes("request", x) =>
                rqState' = x /\ rpState' = rpState /\ state' \in [{"request", "reply"} -> Ask!States]
           /\ Ask!Becomes("reply", x) =>
                rpState' = x /\ rqState' = rqState /\ state' \in [{"request", "reply"} -> Ask!States]
  BY DEF ChannelTypes, Ask!Becomes, rqState, rpState

\* The pipes, and who is parked at them, after each operation.
PipesKept == UNCHANGED <<state, data>>

LEMMA Waiting ==
    ASSUME ChannelTypes, NEW p \in {"request", "reply"}
    PROVE  /\ Ask!wait("sender", p) => PipesKept /\ sAt' = {p} /\ rAt' = rAt /\ late' = {}
                                       /\ at' \in [{"sender", "receiver"} -> Parked]
           /\ Ask!wait("receiver", p) => PipesKept /\ rAt' = {p} /\ sAt' = sAt /\ late' = {}
                                         /\ at' \in [{"sender", "receiver"} -> Parked]
  BY DEF ChannelTypes, Ask!wait, PipesKept, sAt, rAt, Parked

LEMMA Putting ==
    ASSUME ChannelTypes, NEW p \in {"request", "reply"}, NEW e \in Nat, Ask!put_ok(p, e)
    PROVE  /\ state[p] = "EMPTY" /\ Ask!Becomes(p, "EXIST") /\ Ask!notify_all(p)
           /\ data' \in [{"request", "reply"} -> Nat] /\ data'[p] = e
           /\ \A q \in {"request", "reply"} \ {p} : data'[q] = data[q]
  BY DEF ChannelTypes, Ask!put_ok

LEMMA Getting ==
    ASSUME ChannelTypes, NEW p \in {"request", "reply"}, Ask!get_ok(p)
    PROVE  /\ \/ state[p] = "EXIST" /\ Ask!Becomes(p, "EMPTY")
              \/ state[p] = "CLOSING" /\ Ask!Becomes(p, "CLOSED")
           /\ Ask!notify_all(p)
           /\ data' \in [{"request", "reply"} -> Nat] /\ data'[p] = 0
           /\ \A q \in {"request", "reply"} \ {p} : data'[q] = data[q]
  BY DEF ChannelTypes, Ask!get_ok

LEMMA Closing ==
    ASSUME ChannelTypes, NEW p \in {"request", "reply"}, Ask!close(p)
    PROVE  /\ \/ state[p] = "EMPTY" /\ Ask!Becomes(p, "CLOSED")
              \/ state[p] = "EXIST" /\ Ask!Becomes(p, "CLOSING")
              \/ state[p] \in {"CLOSING", "CLOSED", "ABORTED"} /\ Ask!Becomes(p, state[p])
           /\ Ask!notify_all(p) /\ data' = data
  BY DEF ChannelTypes, Ask!close, Ask!States

LEMMA SenderKeepsChannel == ChannelInv /\ Ask!SenderRuns => ChannelInv'
<1> SUFFICES ASSUME ChannelInv, Ask!SenderRuns PROVE ChannelInv'
  OBVIOUS
<1> USE DEF ChannelInv
<1>1. CASE Ask!choose
  <2>1. /\ sDoes = "choose" /\ sAt = {} /\ sDoes' \in {"send_request", "recv_reply", "close_request"}
        /\ rDoes' = rDoes /\ do' \in [{"sender", "receiver"} -> SenderDoes \cup ReceiverDoes]
    BY <1>1, TurnsOne DEF Ask!choose, Ask!Does, Ask!Awake, sDoes, sAt, SenderDoes
  <2>2. UNCHANGED <<state, data, at, late, user, leaving, hand, asked, replies, rqState, rpState, sAt, rAt>>
    BY <1>1 DEF Ask!choose, Ask!pipeVars, rqState, rpState, sAt, rAt
  <2>3. ChannelTypes' /\ ParkedAtPipe'
    BY <2>1, <2>2 DEF ChannelTypes, SenderDoes, ReceiverDoes, ParkedAtPipe
  <2>4. UsersLeave' /\ WhoCloses'
    BY <2>1, <2>2 DEF UsersLeave, WhoCloses
  <2>5. InTransit'
    BY <2>1, <2>2 DEF InTransit, replied, handed, sent, inReply, inHand, inRequest
  <2> QED
    BY <2>3, <2>4, <2>5
<1>2. CASE Ask!send_request
  <2>1. sDoes = "send_request" /\ sAt = {} /\ UNCHANGED <<user, leaving, hand, replies>>
    BY <1>2 DEF Ask!send_request, Ask!Does, Ask!Awake, sDoes, sAt
  <2>2. CASE Ask!put_wait("sender", "request") /\ UNCHANGED <<do, asked>>
    <3>1. /\ rqState = "EXIST" /\ PipesKept /\ sAt' = {"request"} /\ rAt' = rAt /\ late' = {}
          /\ at' \in [{"sender", "receiver"} -> Parked] /\ UNCHANGED <<do, asked, rqState, rpState, sDoes, rDoes>>
      BY <2>2, Waiting DEF Ask!put_wait, rqState, rpState, sDoes, rDoes, PipesKept
    <3>2. ChannelTypes' /\ ParkedAtPipe' /\ UsersLeave' /\ WhoCloses'
      BY <2>1, <3>1 DEF ChannelTypes, ParkedAtPipe, UsersLeave, WhoCloses, PipesKept
    <3>3. InTransit'
      BY <2>1, <3>1 DEF InTransit, replied, handed, sent, inReply, inHand, inRequest, PipesKept
    <3> QED
      BY <3>2, <3>3
  <2>3. CASE Ask!put_ok("request", asked + 1) /\ asked' = asked + 1 /\ Ask!Turns("sender", "choose")
    <3>1. /\ rqState = "EMPTY" /\ rqState' = "EXIST" /\ rpState' = rpState
          /\ state' \in [{"request", "reply"} -> Ask!States]
          /\ data' \in [{"request", "reply"} -> Nat] /\ data'["request"] = asked + 1
          /\ data'["reply"] = data["reply"]
          /\ at' \in [{"sender", "receiver"} -> Parked] /\ late' = {} /\ sAt' = {}
          /\ rAt' = (IF rAt = {"request"} THEN {} ELSE rAt)
      BY <2>1, <2>3, Putting, Becoming, Notifies DEF ChannelTypes, Ask!States, rqState
    <3>2. /\ sDoes' = "choose" /\ rDoes' = rDoes
          /\ do' \in [{"sender", "receiver"} -> SenderDoes \cup ReceiverDoes]
      BY <2>3, TurnsOne DEF SenderDoes
    <3>3. ChannelTypes' /\ ParkedAtPipe'
      BY <2>1, <2>3, <3>1, <3>2 DEF ChannelTypes, ParkedAtPipe, SenderDoes
    <3>4. UsersLeave' /\ WhoCloses'
      BY <2>1, <3>1, <3>2 DEF ChannelTypes, UsersLeave, WhoCloses
    <3>5. InTransit'
      <4>1. inRequest = 0 /\ inRequest' = 1 /\ inReply' = inReply /\ inHand' = inHand /\ inReply \in 0 .. 1 /\ inHand \in 0 .. 1
        BY <3>1, <3>2 DEF inRequest, inReply, inHand
      <4>2. /\ replied' = replied /\ handed' = handed /\ sent' = handed + 1 /\ sent = handed
            /\ Len(replies) \in Nat /\ replied \in Nat /\ handed \in Nat
        BY <2>1, <4>1 DEF ChannelTypes, replied, handed, sent
      <4>3. sent = asked /\ asked' = handed + 1 /\ data'["request"] = handed + 1
        BY <2>3, <3>1, <4>2 DEF InTransit
      <4>4. inReply = 1 => data'["reply"] = Len(replies) + 1
        BY <3>1 DEF InTransit
      <4>5. inHand = 1 /\ rpState # "ABORTED" => hand = replied + 1
        BY DEF InTransit
      <4>6. \A k \in 1 .. Len(replies) : replies[k] = k
        BY DEF InTransit
      <4>7. replies' = replies /\ hand' = hand /\ rpState' = rpState
        BY <2>1, <3>1
      <4>8. sent' = asked' /\ sent' <= asked'
        <5>1. sent' = asked'
          BY <4>2, <4>3
        <5>2. asked' \in Nat
          BY <2>3 DEF ChannelTypes
        <5> QED
          BY <5>1, <5>2
      <4> QED
        BY <4>1, <4>2, <4>3, <4>4, <4>5, <4>6, <4>7, <4>8 DEF InTransit
    <3> QED
      BY <3>3, <3>4, <3>5
  <2>4. CASE Ask!put_refused("request") /\ Ask!Turns("sender", "detach") /\ UNCHANGED asked
    <3>1. /\ rqState = "ABORTED" /\ UNCHANGED <<state, data, at, late, asked, rqState, rpState, sAt, rAt>>
      BY <2>1, <2>4 DEF WhoCloses, Ask!put_refused, Ask!pipeVars, rqState, rpState, sAt, rAt
    <3>2. /\ sDoes' = "detach" /\ rDoes' = rDoes
          /\ do' \in [{"sender", "receiver"} -> SenderDoes \cup ReceiverDoes]
      BY <2>4, TurnsOne DEF SenderDoes
    <3>3. ChannelTypes' /\ ParkedAtPipe'
      BY <2>1, <3>1, <3>2 DEF ChannelTypes, ParkedAtPipe, SenderDoes
    <3>4. UsersLeave' /\ WhoCloses'
      BY <2>1, <3>1, <3>2 DEF ChannelTypes, UsersLeave, WhoCloses
    <3>5. InTransit'
      BY <2>1, <3>1, <3>2 DEF InTransit, replied, handed, sent, inReply, inHand, inRequest
    <3> QED
      BY <3>3, <3>4, <3>5
  <2> QED
    BY <1>2, <2>2, <2>3, <2>4 DEF Ask!send_request
<1>3. ASSUME NEW d \in {"recv_reply", "drain"}, Ask!recv_reply(d) PROVE ChannelInv'
  <2>1. sDoes = d /\ sAt = {} /\ UNCHANGED <<user, leaving, hand, asked>>
    BY <1>3 DEF Ask!recv_reply, Ask!Does, Ask!Awake, sDoes, sAt
  <2>2. CASE Ask!get_wait("sender", "reply") /\ UNCHANGED <<do, replies>>
    <3>1. /\ rpState = "EMPTY" /\ PipesKept /\ sAt' = {"reply"} /\ rAt' = rAt /\ late' = {}
          /\ at' \in [{"sender", "receiver"} -> Parked] /\ UNCHANGED <<do, replies, rqState, rpState, sDoes, rDoes>>
      BY <2>2, Waiting DEF Ask!get_wait, rqState, rpState, sDoes, rDoes, PipesKept
    <3>2. ChannelTypes' /\ ParkedAtPipe' /\ UsersLeave' /\ WhoCloses'
      BY <2>1, <3>1 DEF ChannelTypes, ParkedAtPipe, UsersLeave, WhoCloses, PipesKept
    <3>3. InTransit'
      BY <2>1, <3>1 DEF InTransit, replied, handed, sent, inReply, inHand, inRequest, PipesKept
    <3> QED
      BY <3>2, <3>3
  <2>3. CASE /\ Ask!get_ok("reply") /\ replies' = Append(replies, data["reply"])
             /\ Ask!Turns("sender", IF d = "drain" THEN d ELSE "choose")
    <3>1. /\ \/ rpState = "EXIST" /\ rpState' = "EMPTY"
             \/ rpState = "CLOSING" /\ rpState' = "CLOSED"
          /\ rqState' = rqState
          /\ state' \in [{"request", "reply"} -> Ask!States]
          /\ data' \in [{"request", "reply"} -> Nat] /\ data'["request"] = data["request"]
          /\ at' \in [{"sender", "receiver"} -> Parked] /\ late' = {} /\ sAt' = {}
          /\ rAt' = (IF rAt = {"reply"} THEN {} ELSE rAt)
      <4>1. /\ \/ rpState = "EXIST" /\ Ask!Becomes("reply", "EMPTY")
               \/ rpState = "CLOSING" /\ Ask!Becomes("reply", "CLOSED")
            /\ Ask!notify_all("reply")
            /\ data' \in [{"request", "reply"} -> Nat] /\ data'["request"] = data["request"]
        BY <2>3, Getting DEF rpState
      <4>2. "EMPTY" \in Ask!States /\ "CLOSED" \in Ask!States
        BY DEF Ask!States
      <4>3. /\ \/ rpState = "EXIST" /\ rpState' = "EMPTY"
               \/ rpState = "CLOSING" /\ rpState' = "CLOSED"
            /\ rqState' = rqState /\ state' \in [{"request", "reply"} -> Ask!States]
        <5>1. CASE rpState = "EXIST" /\ Ask!Becomes("reply", "EMPTY")
          BY <5>1, <4>2, Becoming
        <5>2. CASE rpState = "CLOSING" /\ Ask!Becomes("reply", "CLOSED")
          BY <5>2, <4>2, Becoming
        <5> QED
          BY <4>1, <5>1, <5>2
      <4>4. /\ at' \in [{"sender", "receiver"} -> Parked] /\ late' = {} /\ sAt' = {}
            /\ rAt' = (IF rAt = {"reply"} THEN {} ELSE rAt)
        BY <2>1, <4>1, Notifies
      <4> QED
        BY <4>1, <4>3, <4>4
    <3>2. /\ sDoes' = (IF d = "drain" THEN d ELSE "choose") /\ rDoes' = rDoes
          /\ do' \in [{"sender", "receiver"} -> SenderDoes \cup ReceiverDoes]
      BY <2>3, TurnsOne DEF SenderDoes
    <3>3. /\ replies' \in Seq(Nat) /\ Len(replies') = Len(replies) + 1
          /\ replies'[Len(replies) + 1] = data["reply"]
          /\ \A k \in 1 .. Len(replies) : replies'[k] = replies[k]
      BY <2>3 DEF ChannelTypes
    <3>4. ChannelTypes' /\ ParkedAtPipe'
      BY <2>1, <3>1, <3>2, <3>3 DEF ChannelTypes, ParkedAtPipe, SenderDoes
    <3>5. UsersLeave' /\ WhoCloses'
      BY <2>1, <3>1, <3>2 DEF ChannelTypes, UsersLeave, WhoCloses
    <3>6. InTransit'
      <4>1. inReply = 1 /\ inReply' = 0 /\ inRequest' = inRequest /\ inHand' = inHand /\ inRequest \in 0 .. 1 /\ inHand \in 0 .. 1
        BY <3>1, <3>2 DEF inRequest, inReply, inHand
      <4>2. \A k \in 1 .. Len(replies') : replies'[k] = k
        <5>1. data["reply"] = Len(replies) + 1 /\ Len(replies) \in Nat /\ \A k \in 1 .. Len(replies) : replies[k] = k
          BY <4>1 DEF InTransit, ChannelTypes
        <5> QED
          BY <3>3, <5>1
      <4> QED
        BY <2>1, <3>1, <3>2, <3>3, <4>1, <4>2 DEF ChannelTypes, InTransit, replied, handed, sent
    <3> QED
      BY <3>4, <3>5, <3>6
  <2>4. CASE Ask!get_refused("reply") /\ Ask!Turns("sender", "detach") /\ UNCHANGED replies
    <3>1. /\ rpState \in {"CLOSED", "ABORTED"}
          /\ UNCHANGED <<state, data, at, late, replies, rqState, rpState, sAt, rAt>>
      BY <2>1, <2>4 DEF Ask!get_refused, Ask!pipeVars, rqState, rpState, sAt, rAt
    <3>2. /\ sDoes' = "detach" /\ rDoes' = rDoes
          /\ do' \in [{"sender", "receiver"} -> SenderDoes \cup ReceiverDoes]
      BY <2>4, TurnsOne DEF SenderDoes
    <3>3. ChannelTypes' /\ ParkedAtPipe'
      BY <2>1, <3>1, <3>2 DEF ChannelTypes, ParkedAtPipe, SenderDoes
    <3>4. asked = Len(replies) \/ rqState = "ABORTED"
      <4>1. CASE rpState = "CLOSED" /\ rqState # "ABORTED"
        <5>1. rDoes \in {"detach", "leave", "left"} /\ rqState = "CLOSED"
          BY <4>1 DEF ChannelTypes, WhoCloses, ReceiverDoes
        <5>2. inReply = 0 /\ inRequest = 0 /\ inHand = 0
          BY <4>1, <5>1 DEF inRequest, inReply, inHand
        <5> QED
          BY <4>1, <5>2 DEF ChannelTypes, InTransit, replied, handed, sent
      <4> QED
        BY <3>1, <4>1 DEF WhoCloses
    <3>5. UsersLeave' /\ WhoCloses'
      BY <2>1, <3>1, <3>2, <3>4 DEF ChannelTypes, UsersLeave, WhoCloses
    <3>6. InTransit'
      BY <2>1, <3>1, <3>2 DEF InTransit, replied, handed, sent, inReply, inHand, inRequest
    <3> QED
      BY <3>3, <3>5, <3>6
  <2> QED
    BY <1>3, <2>2, <2>3, <2>4 DEF Ask!recv_reply
<1>4. CASE Ask!close_request
  <2>1. sDoes = "close_request" /\ sAt = {} /\ UNCHANGED <<user, leaving, hand, asked, replies>>
    BY <1>4 DEF Ask!close_request, Ask!Does, Ask!Awake, sDoes, sAt
  <2>2. /\ \/ rqState = "EMPTY" /\ rqState' = "CLOSED"
           \/ rqState = "EXIST" /\ rqState' = "CLOSING"
           \/ rqState = "ABORTED" /\ rqState' = "ABORTED"
        /\ rpState' = rpState /\ data' = data
        /\ state' \in [{"request", "reply"} -> Ask!States]
        /\ at' \in [{"sender", "receiver"} -> Parked] /\ late' = {} /\ sAt' = {}
        /\ rAt' = (IF rAt = {"request"} THEN {} ELSE rAt)
    <3>1. Ask!close("request") /\ rqState \in {"EMPTY", "EXIST", "ABORTED"}
      BY <1>4, <2>1 DEF Ask!close_request, WhoCloses, ChannelTypes, Ask!States, rqState
    <3> QED
      BY <2>1, <3>1, Closing, Becoming, Notifies DEF ChannelTypes, Ask!States, rqState
  <2>3. /\ sDoes' = "drain" /\ rDoes' = rDoes
        /\ do' \in [{"sender", "receiver"} -> SenderDoes \cup ReceiverDoes]
    BY <1>4, TurnsOne DEF Ask!close_request, SenderDoes
  <2>4. ChannelTypes' /\ ParkedAtPipe'
    BY <2>1, <2>2, <2>3 DEF ChannelTypes, ParkedAtPipe, SenderDoes
  <2>5. UsersLeave' /\ WhoCloses'
    BY <2>1, <2>2, <2>3 DEF ChannelTypes, UsersLeave, WhoCloses
  <2>6. InTransit'
    <3>1. inRequest' = inRequest /\ inReply' = inReply /\ inHand' = inHand
      BY <2>2, <2>3 DEF inRequest, inReply, inHand
    <3> QED
      BY <2>1, <2>2, <2>3, <3>1 DEF InTransit, replied, handed, sent
  <2> QED
    BY <2>4, <2>5, <2>6
<1>5. CASE Ask!detach("sender")
  <2>1. /\ sDoes = "detach" /\ sAt = {} /\ user > 0 /\ user' = user - 1 /\ leaving' = {}
        /\ sDoes' = "leave" /\ rDoes' = rDoes
        /\ do' \in [{"sender", "receiver"} -> SenderDoes \cup ReceiverDoes]
        /\ UNCHANGED <<state, data, at, late, hand, asked, replies, rqState, rpState, sAt, rAt>>
    BY <1>5, TurnsOne DEF Ask!detach, Ask!Does, Ask!Awake, Ask!pipeVars, sDoes, rqState, rpState, sAt, rAt, SenderDoes
  <2>2. ChannelTypes' /\ ParkedAtPipe'
    BY <2>1 DEF ChannelTypes, ParkedAtPipe, SenderDoes
  <2>3. UsersLeave' /\ WhoCloses'
    BY <2>1 DEF ChannelTypes, UsersLeave, WhoCloses, One
  <2>4. InTransit'
    BY <2>1 DEF InTransit, replied, handed, sent, inReply, inHand, inRequest
  <2> QED
    BY <2>2, <2>3, <2>4
<1>6. CASE Ask!wait_just("sender")
  <2>1. /\ sDoes = "leave" /\ sAt = {} /\ user' = user
        /\ \/ user = 0 /\ sDoes' = "left" /\ leaving' = leaving
           \/ user # 0 /\ leaving' = leaving \cup {"sender"} /\ sDoes' = sDoes
        /\ rDoes' = rDoes /\ do' \in [{"sender", "receiver"} -> SenderDoes \cup ReceiverDoes]
        /\ UNCHANGED <<state, data, at, late, hand, asked, replies, rqState, rpState, sAt, rAt>>
    BY <1>6, TurnsOne
       DEF ChannelTypes, Ask!wait_just, Ask!Does, Ask!Awake, Ask!pipeVars, sDoes, rDoes, rqState, rpState, sAt, rAt,
           SenderDoes
  <2>2. ChannelTypes' /\ ParkedAtPipe'
    BY <2>1 DEF ChannelTypes, ParkedAtPipe, SenderDoes
  <2>3. UsersLeave' /\ WhoCloses'
    BY <2>1 DEF ChannelTypes, UsersLeave, WhoCloses, One
  <2>4. InTransit'
    BY <2>1 DEF InTransit, replied, handed, sent, inReply, inHand, inRequest
  <2> QED
    BY <2>2, <2>3, <2>4
<1> QED
  BY <1>1, <1>2, <1>3, <1>4, <1>5, <1>6 DEF Ask!SenderRuns

LEMMA ReceiverKeepsChannel == ChannelInv /\ Ask!ReceiverRuns => ChannelInv'
<1> SUFFICES ASSUME ChannelInv, Ask!ReceiverRuns PROVE ChannelInv'
  OBVIOUS
<1> USE DEF ChannelInv
<1>1. CASE Ask!recv_request
  <2>1. rDoes = "recv_request" /\ rAt = {} /\ UNCHANGED <<user, leaving, asked, replies>>
    BY <1>1 DEF Ask!recv_request, Ask!Does, Ask!Awake, rDoes, rAt
  <2>2. CASE Ask!get_wait("receiver", "request") /\ UNCHANGED <<do, hand>>
    <3>1. /\ rqState = "EMPTY" /\ PipesKept /\ rAt' = {"request"} /\ sAt' = sAt /\ late' = {}
          /\ at' \in [{"sender", "receiver"} -> Parked] /\ UNCHANGED <<do, hand, rqState, rpState, sDoes, rDoes>>
      BY <2>2, Waiting DEF Ask!get_wait, rqState, rpState, sDoes, rDoes, PipesKept
    <3>2. ChannelTypes' /\ ParkedAtPipe' /\ UsersLeave' /\ WhoCloses'
      BY <2>1, <3>1 DEF ChannelTypes, ParkedAtPipe, UsersLeave, WhoCloses, PipesKept
    <3>3. InTransit'
      BY <2>1, <3>1 DEF InTransit, replied, handed, sent, inReply, inHand, inRequest, PipesKept
    <3> QED
      BY <3>2, <3>3
  <2>3. CASE Ask!get_ok("request") /\ hand' = data["request"] /\ Ask!Turns("receiver", "send_reply")
    <3>1. /\ \/ rqState = "EXIST" /\ Ask!Becomes("request", "EMPTY")
             \/ rqState = "CLOSING" /\ Ask!Becomes("request", "CLOSED")
          /\ Ask!notify_all("request")
          /\ data' \in [{"request", "reply"} -> Nat] /\ data'["reply"] = data["reply"]
      BY <2>3, Getting DEF rqState
    <3>2. "EMPTY" \in Ask!States /\ "CLOSED" \in Ask!States
      BY DEF Ask!States
    <3>3. /\ \/ rqState = "EXIST" /\ rqState' = "EMPTY"
             \/ rqState = "CLOSING" /\ rqState' = "CLOSED"
          /\ rpState' = rpState /\ state' \in [{"request", "reply"} -> Ask!States]
      <4>1. CASE rqState = "EXIST" /\ Ask!Becomes("request", "EMPTY")
        BY <4>1, <3>2, Becoming
      <4>2. CASE rqState = "CLOSING" /\ Ask!Becomes("request", "CLOSED")
        BY <4>2, <3>2, Becoming
      <4> QED
        BY <3>1, <4>1, <4>2
    <3>4. /\ at' \in [{"sender", "receiver"} -> Parked] /\ late' = {} /\ rAt' = {}
          /\ sAt' = (IF sAt = {"request"} THEN {} ELSE sAt)
      BY <2>1, <3>1, Notifies
    <3>5. /\ rDoes' = "send_reply" /\ sDoes' = sDoes
          /\ do' \in [{"sender", "receiver"} -> SenderDoes \cup ReceiverDoes]
      BY <2>3, TurnsOne DEF ReceiverDoes
    <3>6. hand' \in Nat
      BY <2>3 DEF ChannelTypes
    <3>7. ChannelTypes' /\ ParkedAtPipe'
      BY <2>1, <3>1, <3>3, <3>4, <3>5, <3>6 DEF ChannelTypes, ParkedAtPipe, ReceiverDoes
    <3>8. UsersLeave' /\ WhoCloses'
      BY <2>1, <3>3, <3>5 DEF ChannelTypes, UsersLeave, WhoCloses
    <3>9. InTransit'
      <4>1. /\ inRequest = 1 /\ inRequest' = 0 /\ inHand = 0 /\ inHand' = 1 /\ inReply' = inReply /\ inReply \in 0 .. 1
        BY <2>1, <3>3, <3>5 DEF inRequest, inReply, inHand
      <4>2. hand' = replied + 1
        BY <2>3, <4>1 DEF ChannelTypes, InTransit, handed, replied
      <4>3. replied' = replied /\ handed' = handed + 1 /\ sent' = sent
        BY <2>1, <4>1 DEF ChannelTypes, replied, handed, sent
      <4> QED
        BY <2>1, <3>1, <3>3, <4>1, <4>2, <4>3 DEF InTransit
    <3> QED
      BY <3>7, <3>8, <3>9
  <2>4. CASE Ask!get_refused("request") /\ Ask!Turns("receiver", "close_reply") /\ UNCHANGED hand
    <3>1. /\ rqState \in {"CLOSED", "ABORTED"}
          /\ UNCHANGED <<state, data, at, late, hand, rqState, rpState, sAt, rAt>>
      BY <2>4 DEF Ask!get_refused, Ask!pipeVars, rqState, rpState, sAt, rAt
    <3>2. /\ rDoes' = "close_reply" /\ sDoes' = sDoes
          /\ do' \in [{"sender", "receiver"} -> SenderDoes \cup ReceiverDoes]
      BY <2>4, TurnsOne DEF ReceiverDoes
    <3>3. ChannelTypes' /\ ParkedAtPipe'
      BY <2>1, <3>1, <3>2 DEF ChannelTypes, ParkedAtPipe, ReceiverDoes
    <3>4. UsersLeave' /\ WhoCloses'
      BY <2>1, <3>1, <3>2 DEF ChannelTypes, UsersLeave, WhoCloses
    <3>5. InTransit'
      BY <2>1, <3>1, <3>2 DEF InTransit, replied, handed, sent, inReply, inHand, inRequest
    <3> QED
      BY <3>3, <3>4, <3>5
  <2> QED
    BY <1>1, <2>2, <2>3, <2>4 DEF Ask!recv_request
<1>2. CASE Ask!send_reply
  <2>1. rDoes = "send_reply" /\ rAt = {} /\ UNCHANGED <<user, leaving, asked, replies>>
    BY <1>2 DEF Ask!send_reply, Ask!Does, Ask!Awake, rDoes, rAt
  <2>2. CASE Ask!put_wait("receiver", "reply") /\ UNCHANGED <<do, hand>>
    <3>1. /\ rpState = "EXIST" /\ PipesKept /\ rAt' = {"reply"} /\ sAt' = sAt /\ late' = {}
          /\ at' \in [{"sender", "receiver"} -> Parked] /\ UNCHANGED <<do, hand, rqState, rpState, sDoes, rDoes>>
      BY <2>2, Waiting DEF Ask!put_wait, rqState, rpState, sDoes, rDoes, PipesKept
    <3>2. ChannelTypes' /\ ParkedAtPipe' /\ UsersLeave' /\ WhoCloses'
      BY <2>1, <3>1 DEF ChannelTypes, ParkedAtPipe, UsersLeave, WhoCloses, PipesKept
    <3>3. InTransit'
      BY <2>1, <3>1 DEF InTransit, replied, handed, sent, inReply, inHand, inRequest, PipesKept
    <3> QED
      BY <3>2, <3>3
  <2>3. CASE Ask!put_ok("reply", hand) /\ hand' = 0 /\ Ask!Turns("receiver", "recv_request")
    <3>0. hand \in Nat
      BY DEF ChannelTypes
    <3>1. /\ rpState = "EMPTY" /\ Ask!Becomes("reply", "EXIST") /\ Ask!notify_all("reply")
          /\ data' \in [{"request", "reply"} -> Nat] /\ data'["reply"] = hand /\ data'["request"] = data["request"]
      BY <2>3, <3>0, Putting DEF rpState
    <3>2. /\ rpState' = "EXIST" /\ rqState' = rqState /\ state' \in [{"request", "reply"} -> Ask!States]
      BY <3>1, Becoming DEF Ask!States
    <3>3. /\ at' \in [{"sender", "receiver"} -> Parked] /\ late' = {} /\ rAt' = {}
          /\ sAt' = (IF sAt = {"reply"} THEN {} ELSE sAt)
      BY <2>1, <3>1, Notifies
    <3>4. /\ rDoes' = "recv_request" /\ sDoes' = sDoes
          /\ do' \in [{"sender", "receiver"} -> SenderDoes \cup ReceiverDoes]
      BY <2>3, TurnsOne DEF ReceiverDoes
    <3>5. ChannelTypes' /\ ParkedAtPipe'
      BY <2>1, <2>3, <3>1, <3>2, <3>3, <3>4 DEF ChannelTypes, ParkedAtPipe, ReceiverDoes
    <3>6. UsersLeave' /\ WhoCloses'
      BY <2>1, <3>1, <3>2, <3>4 DEF ChannelTypes, UsersLeave, WhoCloses
    <3>7. InTransit'
      <4>1. /\ inReply = 0 /\ inReply' = 1 /\ inHand = 1 /\ inHand' = 0 /\ inRequest' = inRequest
            /\ inRequest \in 0 .. 1
        BY <2>1, <3>1, <3>2, <3>4 DEF inRequest, inReply, inHand
      <4>2. hand = Len(replies) + 1
        BY <3>1, <4>1 DEF ChannelTypes, InTransit, replied
      <4>3. replied' = replied + 1 /\ handed' = handed /\ sent' = sent
        BY <2>1, <4>1 DEF ChannelTypes, replied, handed, sent
      <4> QED
        BY <2>1, <3>1, <3>2, <4>1, <4>2, <4>3 DEF InTransit
    <3> QED
      BY <3>5, <3>6, <3>7
  <2>4. CASE Ask!put_refused("reply") /\ hand' = 0 /\ Ask!Turns("receiver", "close_reply")
    <3>1. /\ rpState = "ABORTED" /\ rqState = "ABORTED"
          /\ UNCHANGED <<state, data, at, late, rqState, rpState, sAt, rAt>>
      BY <2>1, <2>4 DEF WhoCloses, Ask!put_refused, Ask!pipeVars, rqState, rpState, sAt, rAt
    <3>2. /\ rDoes' = "close_reply" /\ sDoes' = sDoes
          /\ do' \in [{"sender", "receiver"} -> SenderDoes \cup ReceiverDoes]
      BY <2>4, TurnsOne DEF ReceiverDoes
    <3>3. ChannelTypes' /\ ParkedAtPipe'
      BY <2>1, <2>4, <3>1, <3>2 DEF ChannelTypes, ParkedAtPipe, ReceiverDoes
    <3>4. UsersLeave' /\ WhoCloses'
      BY <2>1, <3>1, <3>2 DEF ChannelTypes, UsersLeave, WhoCloses
    <3>5. InTransit'
      <4>1. inReply' = 0 /\ inReply = 0 /\ inRequest = 0 /\ inRequest' = 0 /\ inHand = 1 /\ inHand' = 0
        BY <2>1, <3>1, <3>2 DEF inReply, inHand, inRequest
      <4> QED
        BY <2>1, <3>1, <4>1 DEF ChannelTypes, InTransit, replied, handed, sent
    <3> QED
      BY <3>3, <3>4, <3>5
  <2> QED
    BY <1>2, <2>2, <2>3, <2>4 DEF Ask!send_reply
<1>3. CASE Ask!close_reply
  <2>1. rDoes = "close_reply" /\ rAt = {} /\ UNCHANGED <<user, leaving, hand, asked, replies>>
    BY <1>3 DEF Ask!close_reply, Ask!Does, Ask!Awake, rDoes, rAt
  <2>2. /\ \/ rpState = "EMPTY" /\ rpState' = "CLOSED"
           \/ rpState = "EXIST" /\ rpState' = "CLOSING"
           \/ rpState = "ABORTED" /\ rpState' = "ABORTED"
        /\ rqState' = rqState /\ data' = data
        /\ state' \in [{"request", "reply"} -> Ask!States]
        /\ at' \in [{"sender", "receiver"} -> Parked] /\ late' = {} /\ rAt' = {}
        /\ sAt' = (IF sAt = {"reply"} THEN {} ELSE sAt)
    <3>1. Ask!close("reply") /\ rpState \in {"EMPTY", "EXIST", "ABORTED"}
      BY <1>3, <2>1 DEF Ask!close_reply, WhoCloses, ChannelTypes, Ask!States, rpState
    <3> QED
      BY <2>1, <3>1, Closing, Becoming, Notifies DEF ChannelTypes, Ask!States, rpState
  <2>3. /\ rDoes' = "detach" /\ sDoes' = sDoes
        /\ do' \in [{"sender", "receiver"} -> SenderDoes \cup ReceiverDoes]
    BY <1>3, TurnsOne DEF Ask!close_reply, ReceiverDoes
  <2>4. ChannelTypes' /\ ParkedAtPipe'
    BY <2>1, <2>2, <2>3 DEF ChannelTypes, ParkedAtPipe, ReceiverDoes
  <2>5. UsersLeave' /\ WhoCloses'
    BY <2>1, <2>2, <2>3 DEF ChannelTypes, UsersLeave, WhoCloses
  <2>6. InTransit'
    <3>1. inRequest' = inRequest /\ inReply' = inReply /\ inHand = 0 /\ inHand' = 0
      BY <2>1, <2>2, <2>3 DEF inRequest, inReply, inHand
    <3> QED
      BY <2>1, <2>2, <3>1 DEF InTransit, replied, handed, sent
  <2> QED
    BY <2>4, <2>5, <2>6
<1>4. CASE Ask!detach("receiver")
  <2>1. /\ rDoes = "detach" /\ rAt = {} /\ user > 0 /\ user' = user - 1 /\ leaving' = {}
        /\ rDoes' = "leave" /\ sDoes' = sDoes
        /\ do' \in [{"sender", "receiver"} -> SenderDoes \cup ReceiverDoes]
        /\ UNCHANGED <<state, data, at, late, hand, asked, replies, rqState, rpState, sAt, rAt>>
    BY <1>4, TurnsOne DEF Ask!detach, Ask!Does, Ask!Awake, Ask!pipeVars, rDoes, rqState, rpState, sAt, rAt, ReceiverDoes
  <2>2. ChannelTypes' /\ ParkedAtPipe'
    BY <2>1 DEF ChannelTypes, ParkedAtPipe, ReceiverDoes
  <2>3. UsersLeave' /\ WhoCloses'
    BY <2>1 DEF ChannelTypes, UsersLeave, WhoCloses, One
  <2>4. InTransit'
    BY <2>1 DEF InTransit, replied, handed, sent, inReply, inHand, inRequest
  <2> QED
    BY <2>2, <2>3, <2>4
<1>5. CASE Ask!wait_just("receiver")
  <2>1. /\ rDoes = "leave" /\ rAt = {} /\ user' = user
        /\ \/ user = 0 /\ rDoes' = "left" /\ leaving' = leaving
           \/ user # 0 /\ leaving' = leaving \cup {"receiver"} /\ rDoes' = rDoes
        /\ sDoes' = sDoes /\ do' \in [{"sender", "receiver"} -> SenderDoes \cup ReceiverDoes]
        /\ UNCHANGED <<state, data, at, late, hand, asked, replies, rqState, rpState, sAt, rAt>>
    BY <1>5, TurnsOne
       DEF ChannelTypes, Ask!wait_just, Ask!Does, Ask!Awake, Ask!pipeVars, sDoes, rDoes, rqState, rpState, sAt, rAt,
           ReceiverDoes
  <2>2. ChannelTypes' /\ ParkedAtPipe'
    BY <2>1 DEF ChannelTypes, ParkedAtPipe, ReceiverDoes
  <2>3. UsersLeave' /\ WhoCloses'
    BY <2>1 DEF ChannelTypes, UsersLeave, WhoCloses, One
  <2>4. InTransit'
    BY <2>1 DEF InTransit, replied, handed, sent, inReply, inHand, inRequest
  <2> QED
    BY <2>2, <2>3, <2>4
<1> QED
  BY <1>1, <1>2, <1>3, <1>4, <1>5 DEF Ask!ReceiverRuns

LEMMA StepChannelInv == ChannelInv /\ [Ask!ChannelNext]_Ask!chanVars => ChannelInv'
<1> SUFFICES ASSUME ChannelInv, [Ask!ChannelNext]_Ask!chanVars PROVE ChannelInv'
  OBVIOUS
<1> USE DEF ChannelInv
<1>1. CASE Ask!SenderRuns
  BY <1>1, SenderKeepsChannel
<1>2. CASE Ask!ReceiverRuns
  BY <1>2, ReceiverKeepsChannel
<1>3. ASSUME UNCHANGED <<sDoes, rDoes, do, user, leaving, hand, asked, replies, data>>,
             rqState' = "ABORTED", rpState' \in {rpState, "ABORTED"},
             state' \in [{"request", "reply"} -> Ask!States], ChannelTypes', ParkedAtPipe'
      PROVE  ChannelInv'
  <2>1. UsersLeave' /\ WhoCloses'
    BY <1>3 DEF UsersLeave, WhoCloses
  <2>2. InTransit'
    <3>1. /\ inHand' = inHand /\ inHand \in 0 .. 1 /\ inRequest \in 0 .. 1 /\ inReply \in 0 .. 1
          /\ inRequest' = 0
          /\ \/ inReply' = inReply /\ rpState' = rpState
             \/ inReply' = 0 /\ rpState' = "ABORTED"
      BY <1>3 DEF inRequest, inReply, inHand
    <3>2. Len(replies) \in Nat /\ asked \in Nat
      BY DEF ChannelTypes
    <3>3. sent' <= asked' /\ (rqState' # "ABORTED" => sent' = asked')
      BY <1>3, <3>1, <3>2 DEF InTransit, replied, handed, sent
    <3>4. inHand = 1 /\ rpState' # "ABORTED" => hand' = replied' + 1
      BY <1>3, <3>1, <3>2 DEF InTransit, replied
    <3>5. inRequest' = 1 => data'["request"] = handed' + 1
      BY <3>1
    <3> QED
      BY <1>3, <3>1, <3>3, <3>4, <3>5 DEF InTransit
  <2> QED
    BY <1>3, <2>1, <2>2
<1>4. CASE Ask!abort_request
  <2>1. /\ Ask!Becomes("request", "ABORTED") /\ Ask!notify_all("request")
        /\ UNCHANGED <<sDoes, rDoes, do, user, leaving, hand, asked, replies, data>>
    BY <1>4 DEF Ask!abort_request, Ask!abort, Ask!linkVars, sDoes, rDoes
  <2>2. /\ rqState' = "ABORTED" /\ rpState' = rpState /\ state' \in [{"request", "reply"} -> Ask!States]
    BY <2>1, Becoming DEF Ask!States
  <2>3. /\ at' \in [{"sender", "receiver"} -> Parked] /\ late' = {}
        /\ sAt' = (IF sAt = {"request"} THEN {} ELSE sAt) /\ rAt' = (IF rAt = {"request"} THEN {} ELSE rAt)
    BY <2>1, Notifies
  <2>4. ChannelTypes' /\ ParkedAtPipe'
    BY <2>1, <2>2, <2>3 DEF ChannelTypes, ParkedAtPipe
  <2> QED
    BY <1>3, <2>1, <2>2, <2>4
<1>5. CASE Ask!abort_reply
  <2>1. /\ rqState = "ABORTED" /\ Ask!Becomes("reply", "ABORTED") /\ Ask!notify_all("reply")
        /\ UNCHANGED <<sDoes, rDoes, do, user, leaving, hand, asked, replies, data>>
    BY <1>5 DEF Ask!abort_reply, Ask!abort, Ask!linkVars, sDoes, rDoes, rqState
  <2>2. /\ rpState' = "ABORTED" /\ rqState' = rqState /\ state' \in [{"request", "reply"} -> Ask!States]
    BY <2>1, Becoming DEF Ask!States
  <2>3. /\ at' \in [{"sender", "receiver"} -> Parked] /\ late' = {}
        /\ sAt' = (IF sAt = {"reply"} THEN {} ELSE sAt) /\ rAt' = (IF rAt = {"reply"} THEN {} ELSE rAt)
    BY <2>1, Notifies
  <2>4. ChannelTypes' /\ ParkedAtPipe'
    BY <2>1, <2>2, <2>3 DEF ChannelTypes, ParkedAtPipe
  <2> QED
    BY <1>3, <2>1, <2>2, <2>4
<1>6. ASSUME UNCHANGED <<state, data, do, user, hand, asked, replies, late>>,
             at' \in [{"sender", "receiver"} -> Parked],
             sAt' \in {sAt, {}}, rAt' \in {rAt, {}}, leaving' \subseteq leaving
      PROVE  ChannelInv'
  <2>1. UNCHANGED <<rqState, rpState, sDoes, rDoes>>
    BY <1>6 DEF rqState, rpState, sDoes, rDoes
  <2>2. ChannelTypes' /\ ParkedAtPipe'
    BY <1>6, <2>1 DEF ChannelTypes, ParkedAtPipe
  <2>3. UsersLeave' /\ WhoCloses'
    BY <1>6, <2>1 DEF UsersLeave, WhoCloses
  <2>4. InTransit'
    BY <1>6, <2>1 DEF InTransit, replied, handed, sent, inReply, inHand, inRequest
  <2> QED
    BY <2>2, <2>3, <2>4
<1>7. ASSUME NEW t \in {"sender", "receiver"}, Ask!WakeUp(t), UNCHANGED Ask!linkVars PROVE ChannelInv'
  <2>1. /\ UNCHANGED <<state, data, do, user, hand, asked, replies, late>>
        /\ at' = [at EXCEPT ![t] = {}] /\ leaving' = leaving
    BY <1>7 DEF Ask!WakeUp, Ask!linkVars
  <2>2. at' \in [{"sender", "receiver"} -> Parked] /\ sAt' \in {sAt, {}} /\ rAt' \in {rAt, {}}
    BY <2>1 DEF ChannelTypes, Parked, sAt, rAt
  <2> QED
    BY <1>6, <2>1, <2>2
<1>8. ASSUME NEW t \in {"sender", "receiver"}, leaving' = leaving \ {t},
             UNCHANGED <<Ask!pipeVars, user, do, hand, asked, replies>>
      PROVE  ChannelInv'
  <2>1. at' \in [{"sender", "receiver"} -> Parked] /\ sAt' = sAt /\ rAt' = rAt
    BY <1>8 DEF ChannelTypes, Ask!pipeVars, sAt, rAt
  <2> QED
    BY <1>6, <1>8, <2>1 DEF Ask!pipeVars
<1>9. CASE UNCHANGED Ask!chanVars
  <2>1. at' \in [{"sender", "receiver"} -> Parked] /\ sAt' = sAt /\ rAt' = rAt
    BY <1>9 DEF ChannelTypes, Ask!chanVars, Ask!pipeVars, sAt, rAt
  <2> QED
    BY <1>6, <1>9, <2>1 DEF Ask!chanVars, Ask!pipeVars, Ask!linkVars
<1> QED
  BY <1>1, <1>2, <1>4, <1>5, <1>7, <1>8, <1>9 DEF Ask!ChannelNext, Ask!Spurious

LEMMA ChannelInvMeans == ChannelInv => Ask!NoLostWakeup /\ Ask!AnsweredInOrder
<1> SUFFICES ASSUME ChannelInv PROVE Ask!NoLostWakeup /\ Ask!AnsweredInOrder
  OBVIOUS
<1> USE DEF ChannelInv
<1>1. Ask!NoLostWakeup
  BY DEF ChannelTypes, ParkedAtPipe, UsersLeave, Ask!NoLostWakeup, sAt, rAt, sDoes, rDoes, rqState, rpState
<1>2. replies = [k \in 1 .. Len(replies) |-> k] /\ Len(replies) <= asked
  <2>1. inReply \in 0 .. 1 /\ inHand \in 0 .. 1 /\ inRequest \in 0 .. 1 /\ Len(replies) \in Nat
    BY DEF ChannelTypes, inReply, inHand, inRequest
  <2>2. (\A k \in 1 .. Len(replies) : replies[k] = k) /\ Len(replies) <= asked
    BY <2>1 DEF ChannelTypes, InTransit, replied, handed, sent
  <2>3. replies = [k \in 1 .. Len(replies) |-> replies[k]]
    BY DEF ChannelTypes
  <2> QED
    BY <2>2, <2>3
<1>3. do["sender"] \in {"detach", "leave", "left"} =>
        ~Ask!has_unconfirmed \/ "ABORTED" \in {state[p] : p \in {"request", "reply"}}
  BY DEF WhoCloses, Ask!has_unconfirmed, sDoes, rqState
<1>4. \A t \in {"sender", "receiver"} : do[t] = "left" => \A c \in {"sender", "receiver"} : do[c] \in {"leave", "left"}
  BY DEF UsersLeave, One, sDoes, rDoes
<1> QED
  BY <1>1, <1>2, <1>3, <1>4 DEF Ask!AnsweredInOrder

\* Nobody sleeps beside the element, or the place, it waits for, nor in detach of a channel that
\* all have left.
THEOREM ChannelWakes == Ask!ChannelInit /\ [][Ask!ChannelNext]_Ask!chanVars => []Ask!NoLostWakeup
  BY InitChannelInv, StepChannelInv, ChannelInvMeans, PTL

\* Replies come in the order of the requests, one for each; the sender of a channel that was not
\* aborted leaves nothing unconfirmed.
THEOREM ChannelAnswers == Ask!ChannelInit /\ [][Ask!ChannelNext]_Ask!chanVars => []Ask!AnsweredInOrder
  BY InitChannelInv, StepChannelInv, ChannelInvMeans, PTL
-----------------------------------------------------------------------------
(* The object that is used, whichever it is                                *)

MeetingInv ==
    /\ BaseInv
    /\ Timed = {} => RoundInv
    /\ "reset" \notin Controls => Meeting!NoLostWakeup

MonitorInv ==
    /\ object = "mask" => MaskInv /\ Mask!NoLostWakeup
    /\ object = "event" => EventInv
    /\ object = "counter" => CounterInv /\ Counter!NoLostWakeup
    /\ object = "rendezvous" => MeetingInv
    /\ object = "channel" => ChannelInv

LEMMA InitMonitorInv == MonitorsAssumption /\ Init => MonitorInv
  BY InitMaskInv, InitEventInv, InitCounterInv, InitBaseInv, InitRoundInv, InitChannelInv
     DEF MonitorsAssumption, Init, MonitorInv, MeetingInv

\* A step of the object keeps its own invariant; no step changes the object.
LEMMA StepMonitorInv == MonitorsAssumption /\ MonitorInv /\ [Next]_vars => MonitorInv'
<1> SUFFICES ASSUME MonitorsAssumption, MonitorInv, [Next]_vars PROVE MonitorInv'
  OBVIOUS
<1>1. object' = object
  BY DEF Next, vars
<1>2. ASSUME object = "mask" PROVE MaskInv' /\ Mask!NoLostWakeup'
  <2>1. [Mask!Next]_Mask!vars
    BY <1>2 DEF Next, vars, monitorVars, maskVars, Mask!vars, Mask!cvVars
  <2> QED
    BY <1>2, <2>1, StepMaskInv DEF MonitorsAssumption, MonitorInv
<1>3. ASSUME object = "event" PROVE EventInv'
  <2>1. [Event!Next]_Event!vars
    BY <1>3 DEF Next, vars, monitorVars, eventVars, Event!vars, Event!cvVars
  <2> QED
    BY <1>3, <2>1, StepEventInv DEF MonitorsAssumption, MonitorInv
<1>4. ASSUME object = "counter" PROVE CounterInv' /\ Counter!NoLostWakeup'
  <2>1. [Counter!Next]_Counter!vars
    BY <1>4 DEF Next, vars, monitorVars, counterVars, Counter!vars, Counter!cvVars
  <2> QED
    BY <1>4, <2>1, StepCounterInv DEF MonitorsAssumption, MonitorInv
<1>5. ASSUME object = "rendezvous" PROVE MeetingInv'
  <2>1. [Meeting!Next]_Meeting!vars
    BY <1>5 DEF Next, vars, monitorVars, meetVars, Meeting!vars, Meeting!cvVars
  <2>2. BaseInv'
    BY <1>5, <2>1, StepBaseInv DEF MonitorsAssumption, MonitorInv, MeetingInv
  <2>3. ASSUME Timed = {} PROVE RoundInv'
    BY <1>5, <2>1, <2>3, StepRoundInv DEF MonitorsAssumption, MonitorInv, MeetingInv
  <2>4. ASSUME "reset" \notin Controls PROVE Meeting!NoLostWakeup'
    BY <1>5, <2>1, <2>4, StepWakes DEF MonitorInv, MeetingInv
  <2> QED
    BY <2>2, <2>3, <2>4 DEF MeetingInv
<1>6. ASSUME object = "channel" PROVE ChannelInv'
  <2>1. [Ask!ChannelNext]_Ask!chanVars
    BY <1>6 DEF Next, vars, chanVars, Ask!chanVars, Ask!pipeVars, Ask!linkVars
  <2> QED
    BY <1>6, <2>1, StepChannelInv DEF MonitorInv
<1> QED
  BY <1>1, <1>2, <1>3, <1>4, <1>5, <1>6 DEF MonitorInv

LEMMA MonitorInvMeans == MonitorInv => NoLostWakeup /\ TakenOnce /\ AllMet
<1> SUFFICES ASSUME MonitorInv PROVE NoLostWakeup /\ TakenOnce /\ AllMet
  OBVIOUS
<1>1. NoLostWakeup
  BY ChannelInvMeans DEF MonitorInv, MeetingInv, EventInv, NoLostWakeup
<1>2. TakenOnce
  <2>1. MaskInv => Mask!TakenOnce
    BY DEF MaskInv, Mask!TypeOK, BitsTaken, Mask!TakenOnce
  <2>2. EventInv => Event!TakenOnce
    BY DEF EventInv, Event!TypeOK, EventTaken, Event!TakenOnce
  <2>3. CounterInv => Counter!NeverOverdrawn
    BY DEF CounterInv
  <2> QED
    BY <2>1, <2>2, <2>3, ChannelInvMeans DEF MonitorInv, TakenOnce
<1>3. AllMet
  <2>1. BaseInv /\ RoundInv => /\ "reset" \notin Controls => Meeting!AllMet
                               /\ ~aborted => Meeting!CountsInside
    BY DEF BaseInv, Meeting!TypeOK, RoundInv, CameEarlier, Gathered, Meeting!AllMet
  <2> QED
    BY <2>1 DEF MonitorInv, MeetingInv, AllMet
<1> QED
  BY <1>1, <1>2, <1>3

\* Whatever monitor is used, by whatever threads and requests: nobody sleeps while what it waits
\* for is there, what was given once is taken once, and rounds are of N threads.
THEOREM MonitorsKeep == MonitorsAssumption => (Spec => [](NoLostWakeup /\ TakenOnce /\ AllMet))
<1>1. ASSUME MonitorsAssumption PROVE Spec => [](NoLostWakeup /\ TakenOnce /\ AllMet)
  BY <1>1, InitMonitorInv, StepMonitorInv, MonitorInvMeans, PTL DEF Spec
<1> QED
  BY <1>1
=============================================================================
