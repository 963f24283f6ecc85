------------------------------- MODULE Store -------------------------------
(***************************************************************************)
(* The two tables of store.py the scheduler lives on, as pure operators:   *)
(* `runs`, one row per (job, scheduled_for, attempt), and `job_clock`, one *)
(* row per job.  Every statement autocommits, so each operator below is    *)
(* one indivisible change of a table.                                      *)
(*                                                                         *)
(* A table is a total function; a row that is not there is NoRow / NoClock.*)
(* Timestamps are whole seconds (_utc truncates), counted from 0.          *)
(***************************************************************************)
EXTENDS RunStates, Integers, FiniteSets

CONSTANTS Job,         \* the names that may appear in punctual.toml
          Horizon,     \* bound: the last instant the model looks at
          MaxAttempt   \* bound: the highest attempt number of a fire

ASSUME HorizonAssumption == Horizon \in Nat
ASSUME MaxAttemptAssumption == MaxAttempt \in Nat \ {0}

Time == 0..Horizon
NoTime == -1

\* UNIQUE (job, scheduled_for, attempt)
Key == [job : Job, fire : Time, attempt : 1..MaxAttempt]
First(j, t) == [job |-> j, fire |-> t, attempt |-> 1]
NextAttempt(k) == [k EXCEPT !.attempt = @ + 1]

Row == [state : RunState \cup {"absent"},
        finished : BOOLEAN,          \* finished_at IS NOT NULL
        pid : BOOLEAN,               \* pid IS NOT NULL
        notBefore : Int]
NoRow == [state |-> "absent", finished |-> FALSE, pid |-> FALSE,
          notBefore |-> NoTime]

JobState == [last : Time \cup {NoTime}, fails : Nat,
             quarantined : Time \cup {NoTime}, skipped : Nat, resume : BOOLEAN]
NoClock == [last |-> NoTime, fails |-> 0, quarantined |-> NoTime,
            skipped |-> 0, resume |-> FALSE]
Quarantined(s) == s.quarantined # NoTime

-----------------------------------------------------------------------------
(* The runs table. *)

Exists(R, k) == R[k].state # "absent"
RunningRows(R) == {k \in Key : R[k].state = "running"}       \* mutant
OpenRuns(R) == {k \in Key : Exists(R, k) /\ ~R[k].finished}
DueRetries(R, t) ==
    {k \in Key : R[k].state = "retrying" /\ R[k].notBefore <= t}

\* INSERT ... ON CONFLICT DO NOTHING; it took effect iff the row was absent.
Insert(R, k, row) == IF Exists(R, k) THEN R ELSE [R EXCEPT ![k] = row]
Claim(R, k) == Insert(R, k, [NoRow EXCEPT !.state = "claimed"])
ScheduleRetry(R, k, t) ==
    Insert(R, k, [NoRow EXCEPT !.state = "retrying", !.notBefore = t])

\* Run.transition_to followed by mark(): the row only moves along Transitions.
Mark(R, k, s) ==
    IF s \in Transitions[R[k].state]
      THEN [R EXCEPT ![k].state = s, ![k].notBefore = NoTime]
      ELSE R
MarkUnfinished(R, k, s) == Mark(R, k, s)    \* mutant: finished_at is not set
\* The same with finished_at set.
MarkFinished(R, k, s) == [Mark(R, k, s) EXCEPT ![k].finished = TRUE]

-----------------------------------------------------------------------------
(* The job_clock table. *)

SetLastFire(C, j, t) == [C EXCEPT ![j].last = t]
\* COALESCE: a row inserted by this statement gets last_fire = now.
SaveJobState(C, j, s, now) ==
    [C EXCEPT ![j] = [s EXCEPT !.last =
        IF C[j].last = NoTime THEN now ELSE C[j].last]]
RequestResume(C, j, now) ==
    [C EXCEPT ![j].resume = TRUE,
              ![j].last = IF @ = NoTime THEN now ELSE @]

\* Mutant: the stamp stays.
ClearCounters(s) == [s EXCEPT !.fails = 0, !.skipped = 0, !.resume = FALSE]
\* Scheduler._clear_quarantine
ClearQuarantine(s) == [s EXCEPT !.quarantined = NoTime, !.fails = 0,
                                !.skipped = 0, !.resume = FALSE]
=============================================================================
