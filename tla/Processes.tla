------------------------------ MODULE Processes ------------------------------
(***************************************************************************)
(* Two parts that share no state, side by side: the daemons behind the     *)
(* control socket (Control), and the processes of one run (Executor).      *)
(* A behaviour is one of a single part, from its own initial states; the   *)
(* other has finished (Idle* are states in which a part can do nothing any *)
(* more), so that their interleavings, which cannot matter, are left out.  *)
(***************************************************************************)
EXTENDS Control

CONSTANT MaxKills  \* of Executor

VARIABLES
    call, timedOut, cancelled, wrapper, command, child, status, reaped,
    sentinel, traits, termed, kills

X == INSTANCE Executor WITH asked <- termed

ASSUME ProcessesAssumption == X!MaxKillsAssumption

xVars == <<call, timedOut, cancelled, wrapper, command, child, status, reaped,
           sentinel, traits, termed, kills>>
allVars == <<vars, xVars>>

-----------------------------------------------------------------------------

\* The daemons have gone, and punctual stop has found nobody to talk to.
IdleControl ==
    /\ life = [d \in Daemon |-> "gone"]
    /\ stopping = [d \in Daemon |-> TRUE]
    /\ flight = [d \in Daemon |-> 0]
    /\ scraping = {} /\ path = None
    /\ client = "no daemon" /\ asked = None /\ target = None
    /\ taken = {} /\ sending = {} /\ awaited = {} /\ cutoff = {}
    /\ launched = [d \in Daemon |-> 0] /\ scrapes = 0

\* execute() has returned from a run that ended well.
IdleExecutor ==
    /\ call = "returned" /\ timedOut = FALSE /\ cancelled = FALSE
    /\ wrapper = "gone" /\ command = "ok" /\ child = "none"
    /\ status = "ok" /\ sentinel = "ok" /\ reaped = TRUE
    /\ termed = FALSE /\ kills = 0
    /\ traits = [timeout |-> FALSE, exists |-> TRUE, detached |-> FALSE,
                 holds |-> FALSE, stubborn |-> {}]

ProcessesInit == \/ Init /\ IdleExecutor
                 \/ IdleControl /\ X!Init

ProcessesNext == \/ Next /\ UNCHANGED xVars
                 \/ X!Next /\ UNCHANGED vars

ProcessesSpec == ProcessesInit /\ [][ProcessesNext]_allVars /\ Fairness /\ X!Fairness

-----------------------------------------------------------------------------

\* The type invariants of the two modules.
TypesOK == TypeOK /\ X!TypeOK

\* What Executor states of one call of execute().
OutcomeIsReal == X!OutcomeIsReal
NobodyWrites == X!NobodyWrites
SurvivorsIgnoreTerm == X!SurvivorsIgnoreTerm
ReturnsInTheEnd == X!ReturnsInTheEnd
=============================================================================
