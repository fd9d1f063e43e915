------------------------------ MODULE MCProcs ------------------------------
(***************************************************************************)
(* Signal, Proc and Pipeline for TLC.  The initial state picks what the    *)
(* program does: it masks and handles several signals; it starts procs of  *)
(* which each may fail; it starts some and manages another, and masks      *)
(* SIGCHLD at times; or does so without masks, and threads wait for all;   *)
(* or it runs a pipeline of programs.                                      *)
(***************************************************************************)
EXTENDS Proc, Integers, Sequences

CONSTANTS
    Given,         \* the procs that are managed
    N, Ways, MaxFd, CloseLimit, MaxItems, BufSize, Room, ForkFails,  \* of the pipeline
    Failing        \* the programs of the pipeline that may fail

VARIABLES
    scenario,  \* chosen once
    way, table, var, at, chan, prog, sender, reader, own

Pipes == INSTANCE Pipeline WITH MayFail <- Failing

ASSUME ProcsAssumption == ProcAssumption /\ Given \subseteq Procs /\ Pipes!PipelineAssumption

\* The programs that start procs
Starts ==
    [starts  |-> [managed |-> {},    fail |-> Procs,         mask |-> FALSE],
     manages |-> [managed |-> Given, fail |-> {},            mask |-> TRUE],
     waits   |-> [managed |-> Given, fail |-> Procs \ Given, mask |-> FALSE]]

pipeVars == <<way, table, var, at, chan, prog, sender, reader, own>>
startVars == <<program, procVars, scan, waits, hist>>
mcVars   == <<scenario, vars, pipeVars>>

MCInit ==
    /\ scenario \in DOMAIN Starts \cup {"signals", "pipes"}
    /\ Init /\ program = Starts[IF scenario \in DOMAIN Starts THEN scenario ELSE "waits"]
    /\ Pipes!PipeInit /\ (scenario # "pipes" => way = "command")

MCNext ==
    /\ \/ scenario = "signals" /\ SignalNext /\ UNCHANGED <<startVars, pipeVars>>
       \/ scenario \in DOMAIN Starts /\ Next /\ UNCHANGED pipeVars
       \/ scenario = "pipes" /\ Pipes!PipeNext /\ UNCHANGED vars
    /\ UNCHANGED scenario

MCSpec == MCInit /\ [][MCNext]_mcVars

InSignals(step) == scenario = "signals" /\ step /\ UNCHANGED <<scenario, startVars, pipeVars>>
InWaits(step)   == scenario = "waits" /\ Alive /\ step /\ UNCHANGED <<scenario, program, pipeVars>>
InPipes(step)   == scenario = "pipes" /\ step /\ UNCHANGED <<scenario, vars>>

\* The signal thread runs and handlers return; the threads that start procs, and those that
\* wait, run; and a child does what it was forked for, if only to fail.  The programs of a
\* pipeline, the thread that sends to them and the one that reads run.
MCFairSpec ==
    /\ MCSpec
    /\ WF_mcVars(InSignals(SignalThread))
    /\ \A p \in Procs :
         /\ WF_mcVars(InWaits(StartThread(p)))
         /\ WF_mcVars(InWaits(wait(p)))
         /\ WF_mcVars(InWaits(child_execs(p) \/ child_fails(p)))
    /\ WF_mcVars(InWaits(Handler))
    /\ WF_mcVars(InWaits(Loop))
    /\ WF_mcVars(InPipes(Pipes!ParentRuns)) /\ WF_mcVars(InPipes(Pipes!SenderRuns))
    /\ \A i \in 1 .. N : WF_mcVars(InPipes(Pipes!ProgRuns(i)))
-----------------------------------------------------------------------------
(* The properties of the modules, in the scenarios they are about          *)

\* A signal that was sent is pending, kept by the mask, or about to be handled, and no
\* handler is called twice for it, masked in between or not.
SignalOnce == SignalNotLost /\ SignalNotRepeated

\* The end of a proc is told to everybody: on_finish is called once, after on_start, when
\* the child was reaped, and nobody sleeps in wait() for a proc that is over.
FinishAfterStart == FinishOnce /\ WaitersAreWoken

\* What a number stands for is still what it stood for: kill never reaches a process that got the
\* number of a child that was reaped; a pipeline closes the descriptors it has opened or was given,
\* each one once; and what is read from it is what was sent, whole and in order, or an exception.
OnlyItsOwn == KillHitsOwnChild /\ Pipes!FdsAreClosed /\ Pipes!PipedInOrder

\* A signal that is due is handled, or masked again, unless the program changes the mask for
\* ever: what is sent again each time may then go before it.
SignalHandled ==
    \A s \in Sigs :
        \/ []<><<user_mask' # user_mask>>_mcVars
        \/ ~<>[](scenario = "signals" /\ tally[s].due /\ s \notin user_mask)

\* Signals that are due are handled, and a child that died does not leave its proc RUNNING, nor
\* those who wait for it asleep; and the end of file goes through a pipeline to its end.
HandledInTheEnd ==
    /\ SignalHandled
    /\ scenario = "waits" => ExitIsSeen /\ WaitReturns
    /\ scenario = "pipes" => Pipes!PipeEnds
=============================================================================
