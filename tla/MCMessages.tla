----------------------------- MODULE MCMessages -----------------------------
(***************************************************************************)
(* What threads and processes pass to each other, for TLC: what Exchanges  *)
(* has, in the general case and in one in which less goes wrong (calm), a  *)
(* pool whose items come back, the records of a log, messages on sockets.  *)
(* The initial state picks which of them is used, and how; the others stay *)
(* as they are.                                                            *)
(***************************************************************************)
EXTENDS Exchanges

CONSTANT
    MaxLog    \* bound: records put into the log

VARIABLES
    calm,     \* chosen once, as object is
    nextaddr, ring, cnt, log_beg, clock, w, clears, reserved, total, overlap, disturbed,
    next, snd, io_mutex, net, open, group, errs, rcv, buf, heap, sent, received, kept, wrote, told

logVars   == <<nextaddr, ring, cnt, log_beg, clock, w, clears, reserved, total, overlap, disturbed>>
msgVars   == <<next, snd, io_mutex, net, open, group, errs, rcv, buf, heap, sent, received, kept,
               wrote, told>>
mcVars    == <<vars, calm, logVars, msgVars>>

\* No abort, no exception, the reader goes to the end, the putter waits; a pool that does not.
Calm    == INSTANCE Exchanges
             WITH Waitable <- FALSE, FPipeTimed <- {"getter"}, MayAbort <- FALSE,
                  MayThrow <- FALSE, MayStop <- FALSE
Live    == INSTANCE MPool
             WITH Threads <- Borrowers, Timed <- {}, MayMove <- FALSE, ChunkLimit <- 1, MaxHeld <- 1
Log     == INSTANCE MLog
             WITH Writers <- {1, 2}, Parts <- {1}, Size <- 11, Lengths <- {4, 5},
                  MayCrash <- TRUE, MaxClear <- 0, MaxPut <- MaxLog
Levels  == INSTANCE MLog
             WITH Writers <- {1}, Parts <- {1, 2}, Size <- 11, Lengths <- {4, 5},
                  MayCrash <- FALSE, MaxClear <- 2, MaxPut <- MaxLog

Stream  == INSTANCE MsgStream
             WITH Ports <- {1}, Senders <- {1, 2}, Casters <- {}, Sizes <- <<<<1, 2>>, <<0, 3>>, <<3, 1>>>>,
                  HeadLen <- 2, Room <- 3, PartAlign <- 2, WholeAlign <- 4,
                  MayTimeOut <- TRUE, MayClose <- {1}, got <- received
Cast    == INSTANCE MsgStream
             WITH Ports <- {1, 2}, Senders <- {1, 2}, Casters <- {1}, Sizes <- <<<<0, 0>>, <<1, 0>>>>,
                  HeadLen <- 2, Room <- 2, PartAlign <- 2, WholeAlign <- 4,
                  MayTimeOut <- TRUE, MayClose <- {2}, got <- received
Arrive  == INSTANCE MsgStream
             WITH Ports <- {1}, Senders <- {1, 2}, Casters <- {}, Sizes <- <<<<1, 2>>, <<0, 3>>, <<3, 1>>>>,
                  HeadLen <- 2, Room <- 2, PartAlign <- 2, WholeAlign <- 4,
                  MayTimeOut <- FALSE, MayClose <- {}, got <- received

ASSUME ExchangesAssumption /\ Calm!ExchangesAssumption /\ Live!MPoolAssumption
ASSUME Log!MLogAssumption /\ Levels!MLogAssumption
ASSUME Stream!MsgStreamAssumption /\ Cast!MsgStreamAssumption /\ Arrive!MsgStreamAssumption

MCInit ==
    /\ \/ object \in {"box", "pool", "pipe", "fpipe", "seq"} /\ calm = FALSE
       \/ object \in {"pool", "fpipe", "seq"} /\ calm = TRUE
       \/ object \in {"live", "log", "levels", "stream", "cast", "arrive"} /\ calm = FALSE
    /\ OthersInit
    /\ IF object = "live" THEN Live!Init ELSE Pool!Init
    /\ IF object = "levels" THEN Levels!Init ELSE Log!Init
    /\ IF object = "cast" THEN Cast!MsgInit ELSE Stream!MsgInit

OutOfMemory == UNCHANGED <<logVars, msgVars>>
UsesLog     == UNCHANGED <<parked, expired, boxVars, poolVars, pipe1Vars, fpipeVars, seqVars, msgVars>>
UsesMsg     == UNCHANGED <<parked, expired, boxVars, poolVars, pipe1Vars, fpipeVars, seqVars, logVars>>

MCNext ==
    /\ \/ ~calm /\ Next /\ OutOfMemory
       \/ calm /\ Calm!Next /\ OutOfMemory
       \/ object = "live"   /\ Live!Next /\ UsesPool /\ OutOfMemory
       \/ object = "log"    /\ Log!Next /\ UsesLog
       \/ object = "levels" /\ Levels!Next /\ UsesLog
       \/ object = "stream" /\ Stream!MsgNext /\ UsesMsg
       \/ object = "cast"   /\ Cast!MsgNext /\ UsesMsg
       \/ object = "arrive" /\ Arrive!MsgNext /\ UsesMsg
    /\ UNCHANGED <<object, calm>>

\* Thread t runs, and gives back the item it has; of the messages, 3 is the receiver.  Fairness
\* is not asked of an fpipe with an abort.
MCRuns(t) ==
    /\ \/ ~calm /\ object # "fpipe" /\ Runs(t) /\ OutOfMemory
       \/ calm /\ Calm!Runs(t) /\ OutOfMemory
       \/ object = "live" /\ t \in Borrowers /\ (Live!Runs(t) \/ Live!Back(t)) /\ UsesPool /\ OutOfMemory
       \/ object = "arrive" /\ t \in 1 .. 2 /\ Arrive!SenderRuns(t) /\ UsesMsg
       \/ object = "arrive" /\ t = 3 /\ Arrive!ReceiverRuns(1) /\ UsesMsg
    /\ UNCHANGED <<object, calm>>

MCFairSpec ==
    /\ MCInit /\ [][MCNext]_mcVars
    /\ \A t \in BoxUsers \cup Borrowers \cup Putters \cup Getters \cup 1 .. 3 : WF_mcVars(MCRuns(t))
    /\ \A t \in Getters : WF_mcVars(GetsAgain(t) /\ UNCHANGED calm /\ OutOfMemory)
-----------------------------------------------------------------------------
(* The properties of logs and messages, and of what returns in the end     *)

\* What is read comes as it was written. A record of a log is of one put; the newest records are
\* read, all of them, and the parts merged by time. A message on a socket comes whole, and in
\* order, to all ports of a group that is not told an error; and one that a service has kept
\* stays as it came.
ReadAsWritten ==
    /\ object = "log" => Log!RecordsAreWhole /\ Log!NewestAreRead /\ Log!MergedByTime
    /\ object = "levels" => Levels!RecordsAreWhole /\ Levels!NewestAreRead /\ Levels!MergedByTime
    /\ object = "stream" => Stream!WholeInOrder /\ Stream!KeptIsIntact
    /\ object = "cast" => Cast!WholeInOrder /\ Cast!ErrorsAreTold

\* A wait on a tray that is closed or has messages returns, and so does the get of an item
\* when items come back; puts into a pipe return as long as somebody gets, and gets when it is
\* closed; what was put into an fpipe is got in the end, once it is closed; and who reads the
\* sequence of a thread comes to its end, or drops it, with the thread joined; and messages on
\* sockets arrive.
WaitReturns ==
    /\ object # "fpipe" \/ calm => CallsReturn
    /\ object = "live" => Live!GetReturns
    /\ object = "arrive" => Arrive!AllArrive
=============================================================================
