------------------------------ MODULE Breaker ------------------------------
(***************************************************************************)
(* The quarantine of one job as the processes that share its job_clock row *)
(* see it.  A daemon reads the row, decides, and writes all of it back     *)
(* (job_state and save_job_state of store.py): nothing of that daemon runs *)
(* in between, but `punctual resume` and another daemon of the cluster do. *)
(*                                                                         *)
(* Which fires exist, the retries before a fire counts as failed, and the  *)
(* lease are the parts of Scheduler and Cluster; there the row is read and *)
(* written in one step.                                                    *)
(***************************************************************************)
EXTENDS Naturals, FiniteSets

CONSTANTS Daemon,
          Threshold,    \* quarantine_after
          MaxRuns,      \* bound: runs launched
          MaxResumes,   \* bound: calls of `punctual resume`
          MaxFaults     \* bound: crashes, and changes of the leader

BreakerAssumption ==
    /\ Daemon # {} /\ "cli" \notin Daemon
    /\ Threshold \in Nat \ {0}
    /\ MaxRuns \in Nat /\ MaxResumes \in Nat /\ MaxFaults \in Nat

VARIABLES
    clock,    \* the job_clock row
    cooldown, \* quarantine_cooldown is set
    leader,   \* the daemon that dispatches
    running,  \* the runs of the job in flight in each daemon
    doing,    \* what a daemon has read and is about to write
    cli,      \* where `punctual resume` stands
    \* history
    seen,     \* what the row was when it was last read by each process
    stomped,  \* a write went over a row that had changed since it was read
    asked,    \* a resume was written since the quarantine was opened
    pending,  \* a resume was written and no clearing has been since
    launched, resumes, faults

history == <<seen, stomped, asked, pending>>
bounds  == <<launched, resumes, faults>>
vars    == <<clock, cooldown, leader, running, doing, cli, seen,
             stomped, asked, pending, launched, resumes, faults>>

-----------------------------------------------------------------------------

\* since: quarantined_at, as far as the cooldown tells; skipped:
\* skipped_quarantined > 0.
Clock == [fails : Nat, since : {"no", "fresh", "cooled"},
          skipped : BOOLEAN, resume : BOOLEAN]
Blank == [fails |-> 0, since |-> "no", skipped |-> FALSE, resume |-> FALSE]
Quarantined(s) == s.since # "no"

Idle == [to |-> Blank, then |-> "idle"]
Process == Daemon \cup {"cli"}

TypeOK ==
    /\ clock \in Clock
    /\ cooldown \in BOOLEAN
    /\ leader \in Daemon
    /\ running \in [Daemon -> Nat]
    /\ doing \in [Daemon -> [to : Clock, then : {"idle", "launch", "done"}]]
    /\ cli \in {"idle", "write"}
    /\ seen \in [Process -> Clock]
    /\ stomped \in BOOLEAN /\ asked \in BOOLEAN /\ pending \in BOOLEAN
    /\ launched \in Nat /\ resumes \in Nat /\ faults \in Nat

Init ==
    /\ clock = Blank
    /\ cooldown \in BOOLEAN
    /\ leader \in Daemon
    /\ running = [d \in Daemon |-> 0]
    /\ doing = [d \in Daemon |-> Idle]
    /\ cli = "idle"
    /\ seen = [p \in Process |-> Blank]
    /\ stomped = FALSE /\ asked = FALSE /\ pending = FALSE
    /\ launched = 0 /\ resumes = 0 /\ faults = 0

-----------------------------------------------------------------------------
(* Reading and writing the row.                                            *)

Read(p) == seen' = [seen EXCEPT ![p] = clock]
Forget(p) == seen' = [seen EXCEPT ![p] = Blank]

\* Daemon d has read the row and is about to write s.
Decide(d, s, then) ==
    /\ Read(d)
    /\ doing' = [doing EXCEPT ![d] = [to |-> s, then |-> then]]
    /\ UNCHANGED <<clock, cooldown, leader, cli, stomped, asked,
                   pending, resumes, faults>>

\* save_job_state() writes every field it was given.
Save(d) ==
    LET s == doing[d].to
        opens == ~Quarantined(seen[d]) /\ Quarantined(s)
        clears == Quarantined(seen[d]) /\ ~Quarantined(s)
    IN
    /\ doing[d].then # "idle"
    /\ clock' = s
    /\ stomped' = (stomped \/ clock # seen[d])
    /\ asked' = (asked /\ ~opens)
    /\ pending' = (pending /\ ~clears)
    /\ running' = [running EXCEPT ![d] = IF doing[d].then = "launch" THEN @ + 1 ELSE @]
    /\ doing' = [doing EXCEPT ![d] = Idle]
    /\ Forget(d)
    /\ UNCHANGED <<cooldown, leader, cli, bounds>>

-----------------------------------------------------------------------------
(* The fires of the job, in the leader.                                    *)

Free(d) == doing[d].then = "idle"

\* A fire, a retry or a trigger of the job has come due.
Due(d) == d = leader /\ Free(d) /\ launched < MaxRuns

Launch(d) ==
    /\ running' = [running EXCEPT ![d] = @ + 1]
    /\ launched' = launched + 1
    /\ UNCHANGED <<clock, cooldown, leader, doing, cli, history,
                   resumes, faults>>

ClearKeepsFlag(s) == [Blank EXCEPT !.resume = s.resume]  \* mutant
\* _clear_quarantine.
ClearQuarantine(s) == Blank

\* The job has concurrency 1.
Healthy(d) ==
    /\ Due(d) /\ ~Quarantined(clock) /\ running[d] = 0
    /\ Launch(d)

\* _quarantine_lets_fire_through: the operator asked for it (the fire itself is
\* dropped if one is in flight), ...
Resumed(d) ==
    /\ Due(d) /\ Quarantined(clock) /\ clock.resume
    /\ IF running[d] = 0
         THEN /\ Decide(d, ClearQuarantine(clock), "launch")
              /\ launched' = launched + 1
         ELSE /\ Decide(d, ClearQuarantine(clock), "done")
              /\ UNCHANGED launched
    /\ UNCHANGED running

\* ... or the cooldown is over and nothing is in flight: a probe.
MayProbe(d) == cooldown /\ clock.since = "cooled" /\ running[d] = 0

Probe(d) ==
    /\ Due(d) /\ Quarantined(clock) /\ ~clock.resume /\ MayProbe(d)
    /\ Launch(d)

\* A fire of the schedule is counted; a retry or a trigger just waits.
Skip(d) ==
    /\ d = leader /\ Free(d)
    /\ Quarantined(clock) /\ ~clock.resume /\ ~MayProbe(d)
    /\ Decide(d, [clock EXCEPT !.skipped = TRUE], "done")
    /\ UNCHANGED <<running, launched>>

\* `punctual trigger` looks neither at the quarantine nor at what is running.
Trigger(d) == Due(d) /\ Launch(d)

-----------------------------------------------------------------------------
(* The end of a fire, in the daemon that ran it: _update_health.           *)

End(d) ==
    /\ Free(d) /\ running[d] > 0
    /\ running' = [running EXCEPT ![d] = @ - 1]
    /\ UNCHANGED launched

\* A probe that failed starts the cooldown again.
FailForgetsResume(s) ==                          \* mutant
    [s EXCEPT !.fails = @ + 1, !.resume = FALSE,
              !.since = IF Quarantined(s) \/ s.fails + 1 >= Threshold THEN "fresh" ELSE @]
FailedOnce(s) ==
    [s EXCEPT !.fails = @ + 1,
              !.since = IF Quarantined(s) \/ s.fails + 1 >= Threshold THEN "fresh" ELSE @]

Fails(d) == End(d) /\ Decide(d, FailedOnce(clock), "done")

Succeeds(d) ==
    /\ End(d) /\ (Quarantined(clock) \/ clock.fails > 0)
    /\ Decide(d, IF Quarantined(clock) THEN ClearQuarantine(clock)
                 ELSE [clock EXCEPT !.fails = 0], "done")

\* Nothing to recover from: nothing is written.
StaysWell(d) ==
    /\ End(d) /\ ~Quarantined(clock) /\ clock.fails = 0
    /\ UNCHANGED <<clock, cooldown, leader, doing, cli, history,
                   resumes, faults>>

-----------------------------------------------------------------------------
(* `punctual resume`, another process.                                     *)

ResumeReads ==
    /\ cli = "idle" /\ resumes < MaxResumes
    /\ resumes' = resumes + 1
    /\ IF Quarantined(clock) THEN cli' = "write" /\ Read("cli")
       ELSE UNCHANGED <<cli, seen>>
    /\ UNCHANGED <<clock, cooldown, leader, running, doing, stomped,
                   asked, pending, launched, faults>>

\* request_resume() writes the flag, and no more.
ResumeWrites ==
    /\ cli = "write"
    /\ cli' = "idle"
    /\ clock' = [clock EXCEPT !.resume = TRUE]
    /\ stomped' = (stomped \/ Quarantined(clock) # Quarantined(seen["cli"]))
    /\ asked' = TRUE /\ pending' = TRUE
    /\ Forget("cli")
    /\ UNCHANGED <<cooldown, leader, running, doing, bounds>>

-----------------------------------------------------------------------------

\* quarantine_cooldown has passed since quarantined_at.
Older(s) == IF s.since = "fresh" THEN [s EXCEPT !.since = "cooled"] ELSE s
Cool ==
    /\ clock.since = "fresh"
    /\ clock' = Older(clock)
    /\ seen' = [p \in Process |-> Older(seen[p])]
    /\ doing' = [d \in Daemon |-> [doing[d] EXCEPT !.to = Older(@)]]
    /\ UNCHANGED <<cooldown, leader, running, cli, stomped, asked,
                   pending, bounds>>

\* Another daemon takes the lease; the runs of the old leader go on there.
Handover(d) ==
    /\ faults < MaxFaults /\ d # leader
    /\ faults' = faults + 1
    /\ leader' = d
    /\ UNCHANGED <<clock, cooldown, running, doing, cli, history,
                   launched, resumes>>

\* A daemon dies and is started again; its open rows end when it recovers them.
Crash(d) ==
    /\ faults < MaxFaults
    /\ faults' = faults + 1
    /\ doing' = [doing EXCEPT ![d] = Idle]
    /\ Forget(d)
    /\ UNCHANGED <<clock, cooldown, leader, running, cli, stomped, asked,
                   pending, launched, resumes>>

Fire(d) == Healthy(d) \/ Resumed(d) \/ Probe(d) \/ Skip(d)

Next == \/ \E d \in Daemon : \/ Fire(d) \/ Trigger(d) \/ Save(d)
                             \/ Fails(d) \/ Succeeds(d) \/ StaysWell(d)
                             \/ Handover(d) \/ Crash(d)
        \/ ResumeReads \/ ResumeWrites \/ Cool

Spec == Init /\ [][Next]_vars

-----------------------------------------------------------------------------

\* `punctual resume` is heard: its flag stays in the row, through failing
\* probes, skipped fires, crashes and a change of the leader, until the
\* quarantine is cleared - unless somebody wrote over a row that had changed
\* since it was read.
ResumeIsHeard == ~stomped => clock.resume = pending

\* A resume is for the quarantine it was asked in: a job that has just been
\* quarantined is not let out by an older request.
ResumeIsFresh == ~stomped /\ clock.resume => Quarantined(clock) /\ asked
=============================================================================
