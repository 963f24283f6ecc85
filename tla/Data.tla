-------------------------------- MODULE Data --------------------------------
(***************************************************************************)
(* Four parts that share no state, side by side: the durable steps of a    *)
(* fire (Steps), the job table (Config), the job_clock row of a job        *)
(* (Breaker), and the opening of a database (Schema).  A behaviour is one  *)
(* of a single part, from its own initial states; the others have finished *)
(* (Idle* are states in which a part can do nothing any more), so that     *)
(* their interleavings, which cannot matter, are left out.                 *)
(***************************************************************************)
EXTENDS Steps

CONSTANTS
    JobName, Module, Around, Toml, Disks, MaxEdits,       \* of Config
    Daemon, Threshold, MaxRuns, MaxResumes, MaxFaults,    \* of Breaker
    Opener, SchemaTable, Added, Version                   \* of Schema

VARIABLES
    disk, loading, registry, imported, graph, colour, stack, jobs, stale, edits,
    clock, cooldown, leader, running, doing, cli, seen, stomped,
    asked, pending, launched, resumes, faults,
    postgres, tables, columns, version, opening, found, have, todo, rival

G == INSTANCE Config WITH Name <- JobName, pc <- loading
B == INSTANCE Breaker
D == INSTANCE Schema WITH pc <- opening

\* An empty file that does not parse.
IdleDisk == [jobs |-> G!NoJobs, modules |-> {},
             code |-> [m \in Module |-> G!NoJobs], valid |-> FALSE]

ASSUME DataAssumption ==
    /\ G!ConfigAssumption /\ IdleDisk \in Disks
    /\ B!BreakerAssumption
    /\ D!SchemaAssumption

gVars == <<disk, loading, registry, imported, graph, colour, stack, jobs, stale, edits>>
bVars == <<clock, cooldown, leader, running, doing, cli, seen, stomped,
           asked, pending, launched, resumes, faults>>
dVars == <<postgres, tables, columns, version, opening, found, have, todo, rival>>
allVars == <<vars, gVars, bVars, dVars>>

-----------------------------------------------------------------------------

\* The first attempt succeeded, and the daemon has died as often as it may.
Saved == [by |-> 1, shape |-> "plain"]
IdleSteps ==
    /\ table = [n \in Name |-> Saved]
    /\ row = [k \in Attempt |-> IF k = 1 THEN "succeeded" ELSE "absent"]
    /\ pid = {1}
    /\ policy = [idempotent |-> FALSE, retried |-> FALSE]
    /\ up = TRUE
    /\ at = [k \in Attempt |-> IF k = 1 THEN "done" ELSE "none"]
    /\ pos = [k \in Attempt |-> IF k = 1 THEN Len(Body) + 1 ELSE 1]
    /\ result = [k \in Attempt |-> Nothing]
    /\ got = [k \in Attempt |-> [i \in 1 .. Len(Body) |-> IF k = 1 THEN Saved ELSE Nothing]]
    /\ ran = [n \in Name |-> {1}]
    /\ together = {}
    /\ crashes = MaxCrashes

\* No daemon, and a config that stays as it is.
IdleConfig ==
    /\ disk = IdleDisk
    /\ loading = "down" /\ registry = G!NoJobs /\ imported = {}
    /\ graph = G!NoJobs /\ colour = G!NoJobs /\ stack = <<>>
    /\ jobs = G!NoJobs /\ stale = {} /\ edits = MaxEdits

\* All the runs are over and went well.
IdleBreaker ==
    /\ clock = B!Blank /\ cooldown = FALSE /\ leader = (CHOOSE d \in Daemon : TRUE)
    /\ running = [d \in Daemon |-> 0]
    /\ doing = [d \in Daemon |-> B!Idle]
    /\ cli = "idle"
    /\ seen = [p \in B!Process |-> B!Blank]
    /\ stomped = FALSE /\ asked = FALSE /\ pending = FALSE
    /\ launched = MaxRuns /\ resumes = MaxResumes /\ faults = MaxFaults

\* Nobody is left to open a database.
IdleSchema ==
    /\ postgres = FALSE /\ tables = {} /\ columns = {} /\ version = 0
    /\ opening = [p \in Opener |-> "dead"]
    /\ found = [p \in Opener |-> {}]
    /\ have = [p \in Opener |-> {}]
    /\ todo = [p \in Opener |-> {}]
    /\ rival = {}

DataInit == \/ Init /\ IdleConfig /\ IdleBreaker /\ IdleSchema
            \/ IdleSteps /\ G!Init /\ IdleBreaker /\ IdleSchema
            \/ IdleSteps /\ IdleConfig /\ B!Init /\ IdleSchema
            \/ IdleSteps /\ IdleConfig /\ IdleBreaker /\ D!Init

DataNext == \/ Next /\ UNCHANGED <<gVars, bVars, dVars>>
            \/ G!Next /\ UNCHANGED <<vars, bVars, dVars>>
            \/ B!Next /\ UNCHANGED <<vars, gVars, dVars>>
            \/ D!Next /\ UNCHANGED <<vars, gVars, bVars>>

DataSpec == DataInit /\ [][DataNext]_allVars

-----------------------------------------------------------------------------

\* The type invariants of the four modules.
TypesOK == TypeOK /\ G!TypeOK /\ B!TypeOK /\ D!TypeOK

\* What Config states of the search for cycles, of reloads and of imports.
VerdictIsRight == G!VerdictIsRight
MergedIsSound == G!MergedIsSound
NoHalfModules == G!NoHalfModules

\* load_config and reload judge a table of jobs as a whole ("raise on the first
\* cycle found", config.py), though they search it step by step, and leave the
\* jobs in force alone when they refuse it.
J == INSTANCE JobTable WITH Name <- JobName, Definition <- G!Definition,
                            candidate <- graph
ImplementsJobTable == J!Spec

\* What Breaker states of `punctual resume`.
ResumeIsHeard == B!ResumeIsHeard
ResumeIsFresh == B!ResumeIsFresh

\* What Schema states of openings: one that succeeds leaves the whole schema, and
\* one fails only in a race, never over what a crashed one has left.
OpeningsAreSafe == D!OpenedIsComplete /\ D!FailsOnlyInRaces
=============================================================================
