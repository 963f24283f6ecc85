----------------------------- MODULE Scheduler -----------------------------
(***************************************************************************)
(* One punctual daemon (scheduler.py) over its store, with clock-driven    *)
(* jobs: restart recovery, catch-up, the tick loop, manual triggers,       *)
(* retries, the quarantine breaker, drain and kill; the job processes and  *)
(* their sentinel files; crashes of the daemon at any point, and restarts. *)
(*                                                                         *)
(* The daemon is one asyncio thread.  `pc` says where the main coroutine   *)
(* stands; it runs from one sleep to the next without yielding, and so do  *)
(* the coroutines that execute runs, from one await to the next.  Every    *)
(* store statement of such a stretch is a step of its own, so that a crash *)
(* (or the CLI, a separate process) can fall between any two; `Busy` keeps *)
(* the other coroutines out meanwhile.                                     *)
(***************************************************************************)
EXTENDS Store, Sequences

CONSTANTS JobConfigs,   \* the job definitions a name may have
          ConfigSets,   \* the sets of names a config file may hold at boot
          Ends,         \* the ways a job may end (see ProcExit, ProcVanish)
          MaxDowns,     \* bound: the daemon crashes while downs is below it
          MaxDrains,    \* bound: ... and is drained or killed
          MaxAdhoc      \* bound: manual triggers waiting at once

\* How a command ends: status 0, another status, death by a signal.
Exit == {"ok", "fail", "signal"}

\* The fields of models.Job this module reads.  `schedule` is the set of
\* instants the cron expression fires at; `delay` the retry backoff.
JobConfig == [enabled : BOOLEAN, schedule : SUBSET Time,
              missed : {"skip", "run_latest", "run_each"}, cap : Nat,
              retries : Nat, delay : Nat, timeout : BOOLEAN,
              idempotent : BOOLEAN, onLost : {"derive", "fail", "retry"},
              concurrency : Nat \ {0}, quarantineAfter : Nat,
              cooldown : Nat \cup {NoTime}]

ASSUME ConfigAssumption ==
    /\ JobConfigs \subseteq JobConfig
    /\ ConfigSets \subseteq SUBSET Job
    /\ Ends \subseteq Exit \cup {"vanish"}
    /\ MaxDowns \in Nat /\ MaxDrains \in Nat
    /\ \A c \in JobConfigs : c.retries + MaxDowns < MaxAttempt
    /\ MaxAdhoc \in Nat

VARIABLES
    now,       \* the wall clock
    \* durable: the store, the run directories, the OS process table
    runs,      \* the runs table
    clock,     \* the job_clock table
    proc,      \* the process group of each attempt
    sentinel,  \* <run_dir>/exit of each attempt
    jobs,      \* what punctual.toml says of each name
    \* the daemon's memory, gone after a crash
    pc,        \* where the main coroutine stands
    config,    \* the names in punctual.toml when this daemon started
    todo,      \* the rows recovery still has to visit
    pending,   \* the jobs catch-up still has to visit
    since,     \* _since: the newest fire the tick loop has looked at
    catchup,   \* one _run_sequence per job: fires left, the one under way
    task,      \* where the daemon's handling of each row stands
    adhoc,     \* _adhoc: triggers not dispatched yet
    stopping,  \* _stopping
    wake,      \* _wake
    \* history
    spawns,    \* processes ever started for an attempt
    result,    \* how its command really ended
    downs      \* times the daemon went down

store  == <<runs, clock>>
os     == <<proc, sentinel>>
memory == <<pc, config, todo, pending, since, catchup, task, adhoc, stopping, wake>>
hist   == <<spawns, result, downs>>
vars   == <<now, runs, clock, proc, sentinel, jobs, pc, config, todo, pending,
            since, catchup, task, adhoc, stopping, wake, spawns, result, downs>>

-----------------------------------------------------------------------------
(* The domains. *)

\* "exiting": the command is gone and the sentinel written, the wrapper is not.
\* An Exit value is the status of a dead child, until its parent reaps it.
Process == {"none", "alive", "exiting"} \cup Exit
Live(k) == proc[k] \in {"alive", "exiting"}

Control == {"down", "recover", "catchup", "tick", "sleep", "drain"}

\* An _execute_run task: created, past its first store write, its child in
\* existence, its child's pid recorded, its child being killed on timeout;
\* then the store writes that follow the outcome, which nothing interleaves:
\* set_last_fire, then the retry or the health update.  "lost" and "relast"
\* are the same writes in the order _recover makes them.
Waiting  == {"spawning", "spawned", "running", "killing"}
Writing  == {"claimed", "last", "settle", "lost", "relast"}
TaskStep == {"none", "queued"} \cup Waiting \cup Writing

\* _running / _inflight: between the first and the last line of _execute_run.
Executing(k) == task[k] \in Waiting \cup {"last", "settle"}
Inflight(j) == Cardinality({k \in Key : k.job = j /\ Executing(k)})

\* A sequence between two of its fires: it goes on without yielding.
Between(j) == catchup[j].cur # NoTime
              /\ task[First(j, catchup[j].cur)] = "none"
Busy == (\E k \in Key : task[k] \in Writing) \/ (\E j \in Job : Between(j))

\* Where coroutines other than the main one get to run.
Yielding == pc \in {"sleep", "drain"} /\ ~Busy

Known(k) == k.job \in config
Enabled == {j \in config : jobs[j].enabled}

\* Job.effective_on_lost
RetriesLost(j) == \/ jobs[j].onLost = "retry"
                  \/ jobs[j].onLost = "derive" /\ jobs[j].idempotent

TypeOK ==
    /\ now \in Time
    /\ runs \in [Key -> Row]
    /\ clock \in [Job -> JobState]
    /\ proc \in [Key -> Process]
    /\ sentinel \in [Key -> Exit \cup {"none"}]
    /\ jobs \in [Job -> JobConfigs]
    /\ pc \in Control
    /\ config \in SUBSET Job
    /\ todo \in SUBSET Key
    /\ pending \in SUBSET Job
    /\ since \in [Job -> Time]
    /\ catchup \in [Job -> [todo : SUBSET Time, cur : Time \cup {NoTime}]]
    /\ task \in [Key -> TaskStep]
    /\ adhoc \in Seq(Job)
    /\ stopping \in BOOLEAN
    /\ wake \in BOOLEAN
    /\ spawns \in [Key -> Nat]
    /\ result \in [Key -> Exit \cup {"none"}]
    /\ downs \in Nat

NoCatchup == [todo |-> {}, cur |-> NoTime]

Init ==
    /\ now = 0
    /\ runs = [k \in Key |-> NoRow]
    /\ clock = [j \in Job |-> NoClock]
    /\ proc = [k \in Key |-> "none"]
    /\ sentinel = [k \in Key |-> "none"]
    /\ jobs \in [Job -> JobConfigs]
    /\ pc = "down"
    /\ config = {}
    /\ todo = {}
    /\ pending = {}
    /\ since = [j \in Job |-> 0]
    /\ catchup = [j \in Job |-> NoCatchup]
    /\ task = [k \in Key |-> "none"]
    /\ adhoc = <<>>
    /\ stopping = FALSE
    /\ wake = FALSE
    /\ spawns = [k \in Key |-> 0]
    /\ result = [k \in Key |-> "none"]
    /\ downs = 0

-----------------------------------------------------------------------------
(* Restart: recovery of the rows a dead daemon left open, then catch-up.   *)

Boot == \* run() up to _recover's open_runs()
    /\ pc = "down"
    /\ \E C \in ConfigSets : config' = C
    /\ pc' = "recover"
    /\ todo' = OpenRuns(runs)
    /\ since' = [j \in Job |-> now]
    /\ UNCHANGED <<now, store, os, jobs, pending, catchup, task, adhoc,
                   stopping, wake, hist>>

\* One row of _recover's loop; open_runs() has no ORDER BY.
Recovering(k) == pc = "recover" /\ ~Busy /\ k \in todo

AdvanceSince(k) == [since EXCEPT ![k.job] = IF k.fire > @ THEN k.fire ELSE @]

\* The job is gone from the config.  A RETRYING row may not become LOST:
\* transition_to raises, _to_lost suppresses that and marks finished_at.
RecoverRemoved(k) ==
    /\ Recovering(k)
    /\ ~Known(k)
    /\ runs' = MarkFinished(runs, k, "lost")
    /\ todo' = todo \ {k}
    /\ UNCHANGED <<now, clock, os, jobs, pc, config, pending, since, catchup,
                   task, adhoc, stopping, wake, hist>>

RecoverRetrying(k) ==
    /\ Recovering(k)
    /\ Known(k)
    /\ runs[k].state = "retrying"
    /\ todo' = todo \ {k}
    /\ UNCHANGED <<now, store, os, jobs, pc, config, pending, since, catchup,
                   task, adhoc, stopping, wake, hist>>

\* Nothing had spawned: launch the row as it is.
RecoverClaimed(k) ==
    /\ Recovering(k)
    /\ Known(k)
    /\ runs[k].state = "claimed"
    /\ task' = [task EXCEPT ![k] = "queued"]
    /\ clock' = SetLastFire(clock, k.job, k.fire)
    /\ since' = AdvanceSince(k)
    /\ todo' = todo \ {k}
    /\ UNCHANGED <<now, runs, os, jobs, pc, config, pending, catchup, adhoc,
                   stopping, wake, hist>>

\* identity_matches: without a recorded pid the process cannot be found.
FoundUnrecorded(k) == ~runs[k].pid /\ Live(k)      \* mutant: test inverted
FoundAlive(k) == runs[k].pid /\ Live(k)

SentinelSignBlind ==        \* mutant: only a positive exit code is a failure
    [ok |-> "succeeded", fail |-> "failed", signal |-> "succeeded"]
SentinelOutcome == [ok |-> "succeeded", fail |-> "failed",
                    signal |-> "timed_out"]

RecoverFromSentinel(k) == \* _resolve_from_sentinel, up to its mark()
    /\ Recovering(k)
    /\ Known(k)
    /\ runs[k].state = "running"
    /\ ~FoundAlive(k)
    /\ sentinel[k] # "none"
    /\ runs' = MarkFinished(runs, k, SentinelOutcome[sentinel[k]])
    /\ task' = [task EXCEPT ![k] = "last"]
    /\ todo' = todo \ {k}
    /\ UNCHANGED <<now, clock, os, jobs, pc, config, pending, since, catchup,
                   adhoc, stopping, wake, hist>>

RecoverLost(k) == \* _recover_running, up to _to_lost's mark()
    /\ Recovering(k)
    /\ Known(k)
    /\ runs[k].state = "running"
    /\ FoundAlive(k) \/ sentinel[k] = "none"
    /\ LET killed == FoundAlive(k) /\ ~jobs[k.job].idempotent
       IN  /\ proc' = [proc EXCEPT ![k] = IF killed THEN "none" ELSE @]
           /\ result' = [result EXCEPT ![k] =
                IF killed /\ proc[k] = "alive" THEN "signal" ELSE @]
    /\ runs' = MarkFinished(runs, k, "lost")
    /\ task' = [task EXCEPT ![k] = "lost"]
    /\ todo' = todo \ {k}
    /\ UNCHANGED <<now, clock, sentinel, jobs, pc, config, pending, since,
                   catchup, adhoc, stopping, wake, spawns, downs>>

RecoverDone ==
    /\ pc = "recover" /\ ~Busy /\ todo = {}
    /\ pc' = "catchup"
    /\ pending' = Enabled
    /\ UNCHANGED <<now, store, os, jobs, config, todo, since, catchup, task,
                   adhoc, stopping, wake, hist>>

MissedUnbounded(j) ==                       \* mutant: no upper end
    {f \in jobs[j].schedule : clock[j].last < f}
Missed(j) == {f \in jobs[j].schedule : clock[j].last < f /\ f <= now}

IsNewest(f, S) == f \in S /\ \A g \in S : g <= f
IsOldest(f, S) == f \in S /\ \A g \in S : f <= g

\* The newest n members of a set of instants; all of it for n = 0 (uncapped).
Newest(n, S) == {f \in S : n = 0 \/ Cardinality({g \in S : g >= f}) <= n}

Replayed(j) ==
    CASE jobs[j].missed = "skip"       -> {}
      [] jobs[j].missed = "run_latest" -> Newest(1, Missed(j))
      [] jobs[j].missed = "run_each"   -> Newest(jobs[j].cap, Missed(j))

CatchUp(j) == \* _plan_catch_up, and _lead starting the sequence
    /\ pc = "catchup"
    /\ j \in pending
    /\ pending' = pending \ {j}
    /\ \/ /\ Quarantined(clock[j]) \/ clock[j].last = NoTime
          /\ since' = [since EXCEPT ![j] = now]
          /\ UNCHANGED <<clock, catchup>>
       \/ /\ ~Quarantined(clock[j]) /\ clock[j].last # NoTime
          /\ Missed(j) = {}
          /\ since' = [since EXCEPT ![j] = clock[j].last]
          /\ UNCHANGED <<clock, catchup>>
       \/ /\ ~Quarantined(clock[j]) /\ clock[j].last # NoTime
          /\ \E f \in Missed(j) :
              /\ IsNewest(f, Missed(j))
              /\ since' = [since EXCEPT ![j] = f]
              /\ clock' = IF jobs[j].missed = "skip"
                            THEN SetLastFire(clock, j, f) ELSE clock
          /\ catchup' = [catchup EXCEPT ![j].todo = Replayed(j)]
    /\ UNCHANGED <<now, runs, os, jobs, pc, config, todo, task, adhoc,
                   stopping, wake, hist>>

CatchUpDone ==
    /\ pc = "catchup" /\ pending = {}
    /\ pc' = "tick"
    /\ UNCHANGED <<now, store, os, jobs, config, todo, pending, since, catchup,
                   task, adhoc, stopping, wake, hist>>

-----------------------------------------------------------------------------
(* One pass of the tick loop: triggers, then due fires, then due retries.  *)

Due(j) == {f \in jobs[j].schedule : since[j] < f /\ f <= now}
DueJobs == {j \in Enabled : Due(j) # {}}

\* Due retries that _sweep_retries lets go ahead.
ReadyRetries ==
    {k \in DueRetries(runs, now) :
        /\ Known(k) /\ jobs[k.job].enabled
        /\ ~Quarantined(clock[k.job])
        /\ Inflight(k.job) < jobs[k.job].concurrency}

\* claim(), then _launch() if the row is ours.
ClaimAndLaunch(k) ==
    /\ runs' = Claim(runs, k)
    /\ task' = [task EXCEPT ![k] = IF Exists(runs, k) THEN @ ELSE "queued"]

DispatchAdhoc ==
    /\ pc = "tick" /\ adhoc # <<>>
    /\ adhoc' = Tail(adhoc)
    /\ IF Head(adhoc) \in config
         THEN ClaimAndLaunch(First(Head(adhoc), now))
         ELSE UNCHANGED <<runs, task>>
    /\ UNCHANGED <<now, clock, os, jobs, pc, config, todo, pending, since,
                   catchup, stopping, wake, hist>>

\* _quarantine_lets_fire_through
Resumed(j) == clock[j].resume
Probes(j) == /\ jobs[j].cooldown # NoTime
             /\ now - clock[j].quarantined >= jobs[j].cooldown
             /\ Inflight(j) = 0

\* _dispatch_due looks at a job once, for the latest of its due fires.
Visit(j, f) ==
    /\ pc = "tick" /\ adhoc = <<>>
    /\ j \in DueJobs
    /\ IsNewest(f, Due(j))
    /\ since' = [since EXCEPT ![j] = f]

SkipQuarantined(j, f) ==
    /\ Visit(j, f)
    /\ Quarantined(clock[j]) /\ ~Resumed(j) /\ ~Probes(j)
    /\ clock' = [clock EXCEPT ![j].skipped = @ + 1, ![j].last = f]
    /\ UNCHANGED <<now, runs, os, jobs, pc, config, todo, pending, catchup,
                   task, adhoc, stopping, wake, hist>>

DispatchDue(j, f) ==
    /\ Visit(j, f)
    /\ Quarantined(clock[j]) => Resumed(j) \/ Probes(j)
    /\ clock' = IF Quarantined(clock[j]) /\ Resumed(j)
                  THEN SaveJobState(clock, j, ClearQuarantine(clock[j]), now)
                  ELSE clock
    /\ IF Inflight(j) >= jobs[j].concurrency
         THEN UNCHANGED <<runs, task>>   \* the fire is dropped
         ELSE ClaimAndLaunch(First(j, f))
    /\ UNCHANGED <<now, os, jobs, pc, config, todo, pending, catchup, adhoc,
                   stopping, wake, hist>>

SweepRetry(k) ==
    /\ pc = "tick" /\ adhoc = <<>> /\ DueJobs = {}
    /\ k \in ReadyRetries
    /\ runs' = Mark(runs, k, "claimed")
    /\ task' = [task EXCEPT ![k] = "queued"]
    /\ UNCHANGED <<now, clock, os, jobs, pc, config, todo, pending, since,
                   catchup, adhoc, stopping, wake, hist>>

PassOver == pc = "tick" /\ adhoc = <<>> /\ DueJobs = {} /\ ReadyRetries = {}

\* _time_to_next has come down to 0: by a fire of a job, or by the retry that
\* next_retry_at() names, whether or not the sweep lets it go ahead.
ExpiredByClock == DueJobs # {}              \* mutant: retries wake nobody
Expired == DueJobs # {} \/ DueRetries(runs, now) # {}

\* _sleep yields, for no time at all if that has expired already ...
Sleep ==
    /\ PassOver
    /\ ~wake \/ Expired
    /\ pc' = "sleep"
    /\ UNCHANGED <<now, store, os, jobs, config, todo, pending, since, catchup,
                   task, adhoc, stopping, wake, hist>>

WakeStays == wake                           \* mutant: _wake.clear() is missing
Cleared == FALSE

\* ... and does not if _wake is set, which recovery may have left so.
PassAgain ==
    /\ PassOver
    /\ wake /\ ~Expired
    /\ wake' = Cleared
    /\ UNCHANGED <<now, store, os, jobs, pc, config, todo, pending, since,
                   catchup, task, adhoc, stopping, hist>>

\* A task or a sequence that was created and has not run yet.
Fresh == \/ \E k \in Key : task[k] = "queued"
         \/ \E j \in Job : catchup[j].cur = NoTime /\ catchup[j].todo # {}

\* _sleep returns, on _wake or on its timeout, not before what is ready has run;
\* the loop ends or makes another pass.  (It returns after MAX_SLEEP as well: a
\* pass that finds nothing to do changes nothing.)
Wake ==
    /\ pc = "sleep" /\ ~Busy /\ ~Fresh
    /\ wake \/ Expired
    /\ pc' = IF stopping THEN "drain" ELSE "tick"
    /\ wake' = Cleared
    /\ UNCHANGED <<now, store, os, jobs, config, todo, pending, since, catchup,
                   task, adhoc, stopping, hist>>

-----------------------------------------------------------------------------
(* Executing a run: _execute_run and execute().                            *)

\* The first statement of the coroutine; `claimed` rows of a sequence get
\* here without yielding after their claim().
StartTask(k) ==
    /\ \/ task[k] = "queued" /\ Yielding
       \/ task[k] = "claimed"
    /\ runs' = Mark(runs, k, "running")
    /\ task' = [task EXCEPT ![k] = "spawning"]
    /\ UNCHANGED <<now, clock, os, jobs, pc, config, todo, pending, since,
                   catchup, adhoc, stopping, wake, hist>>

Spawn(k) ==
    /\ Yielding /\ task[k] = "spawning"
    /\ proc' = [proc EXCEPT ![k] = "alive"]
    /\ spawns' = [spawns EXCEPT ![k] = @ + 1]
    /\ task' = [task EXCEPT ![k] = "spawned"]
    /\ UNCHANGED <<now, store, sentinel, jobs, pc, config, todo, pending,
                   since, catchup, adhoc, stopping, wake, result, downs>>

\* The command cannot be spawned at all: exit code 127.
SpawnFails(k) ==
    /\ Yielding /\ task[k] = "spawning"
    /\ runs' = MarkFinished(runs, k, "failed")
    /\ task' = [task EXCEPT ![k] = "last"]
    /\ UNCHANGED <<now, clock, os, jobs, pc, config, todo, pending, since,
                   catchup, adhoc, stopping, wake, hist>>

RecordPid(k) == \* on_spawn
    /\ Yielding /\ task[k] = "spawned"
    /\ runs' = [runs EXCEPT ![k].pid = TRUE]
    /\ task' = [task EXCEPT ![k] = "running"]
    /\ UNCHANGED <<now, clock, os, jobs, pc, config, todo, pending, since,
                   catchup, adhoc, stopping, wake, hist>>

\* SIGTERM to the group, SIGKILL after the grace period: the process then
\* ends by ProcExit or ProcVanish.
TimeoutFires(k) ==
    /\ Yielding /\ task[k] = "running"
    /\ jobs[k.job].timeout
    /\ task' = [task EXCEPT ![k] = "killing"]
    /\ UNCHANGED <<now, store, os, jobs, pc, config, todo, pending, since,
                   catchup, adhoc, stopping, wake, hist>>

\* execute() returns and the outcome is marked.
FinishRun(k) ==
    /\ Yielding /\ task[k] \in {"running", "killing"}
    /\ proc[k] \in Exit
    /\ runs' = MarkFinished(runs, k,
                 CASE task[k] = "killing" -> "timed_out"
                   [] task[k] = "running" /\ proc[k] = "ok" -> "succeeded"
                   [] OTHER -> "failed")
    /\ proc' = [proc EXCEPT ![k] = "none"]
    /\ task' = [task EXCEPT ![k] = "last"]
    /\ UNCHANGED <<now, clock, sentinel, jobs, pc, config, todo, pending,
                   since, catchup, adhoc, stopping, wake, hist>>

-----------------------------------------------------------------------------
(* After the outcome: _after_terminal, and the tail of _recover.           *)

\* _update_health, on the state it has just read.
Health(j, outcome) ==
    LET s == clock[j]
        opens == /\ jobs[j].quarantineAfter > 0
                 /\ s.fails + 1 >= jobs[j].quarantineAfter
    IN  CASE outcome \in Failure ->
                [s EXCEPT !.fails = @ + 1,
                          !.quarantined = IF Quarantined(s) \/ opens
                                            THEN now ELSE @]
          [] outcome \notin Failure /\ Quarantined(s) -> ClearQuarantine(s)
          [] OTHER -> [s EXCEPT !.fails = 0]

UpdateHealth(j, outcome) ==
    clock' = IF Health(j, outcome) = clock[j]
               THEN clock
               ELSE SaveJobState(clock, j, Health(j, outcome), now)

\* Mutant: health is updated for every attempt.
AfterTerminalCounting(k) ==
    /\ task[k] = "last"
    /\ UpdateHealth(k.job, runs[k].state)
    /\ task' = [task EXCEPT ![k] = "settle"]
    /\ UNCHANGED <<now, runs, os, jobs, pc, config, todo, pending, since,
                   catchup, adhoc, stopping, wake, hist>>

AfterTerminal(k) ==
    /\ task[k] = "last"
    /\ clock' = SetLastFire(clock, k.job, k.fire)
    /\ task' = [task EXCEPT ![k] = "settle"]
    /\ UNCHANGED <<now, runs, os, jobs, pc, config, todo, pending, since,
                   catchup, adhoc, stopping, wake, hist>>

\* In _recover the handler goes on to its own set_last_fire.
Settled(k) == task' = [task EXCEPT ![k] =
                         IF pc = "recover" THEN "relast" ELSE "none"]

RetryLeftAlways(k) ==                       \* mutant: one retry too many
    runs[k].state \in Retryable /\ k.attempt <= jobs[k.job].retries + 1
RetryLeft(k) == /\ runs[k].state \in Retryable
                /\ k.attempt <= jobs[k.job].retries

SettleRetry(k) ==
    /\ \/ /\ task[k] = "settle" /\ RetryLeft(k)
          /\ runs' = ScheduleRetry(runs, NextAttempt(k),
                                   now + jobs[k.job].delay)
       \/ /\ task[k] = "lost" /\ RetriesLost(k.job)
          /\ runs' = ScheduleRetry(runs, NextAttempt(k), now)
    /\ k.attempt < MaxAttempt
    /\ Settled(k)
    /\ wake' = (wake \/ ~Exists(runs, NextAttempt(k)))
    /\ UNCHANGED <<now, clock, os, jobs, pc, config, todo, pending, since,
                   catchup, adhoc, stopping, hist>>

SettleFinal(k) ==
    /\ \/ /\ task[k] = "settle" /\ ~RetryLeft(k)
          /\ sentinel' = [sentinel EXCEPT ![k] = "none"]  \* _cleanup_run_dir
       \/ /\ task[k] = "lost" /\ ~RetriesLost(k.job)
          /\ UNCHANGED sentinel
    /\ UpdateHealth(k.job, runs[k].state)
    /\ Settled(k)
    /\ UNCHANGED <<now, runs, proc, jobs, pc, config, todo, pending, since,
                   catchup, adhoc, stopping, wake, hist>>

RecoverLast(k) ==
    /\ task[k] = "relast"
    /\ clock' = SetLastFire(clock, k.job, k.fire)
    /\ since' = AdvanceSince(k)
    /\ task' = [task EXCEPT ![k] = "none"]
    /\ UNCHANGED <<now, runs, os, jobs, pc, config, todo, pending, catchup,
                   adhoc, stopping, wake, hist>>

\* The fires of a sequence that nobody has claimed, as far as it may claim them:
\* a draining daemon claims no more.
AllLeft(j) == IF stopping THEN {} ELSE catchup[j].todo          \* mutant
NotClaimed(j) == {f \in catchup[j].todo : ~Exists(runs, First(j, f))}  \* mutant
Unclaimed(j) ==
    {f \in catchup[j].todo : ~stopping /\ ~Exists(runs, First(j, f))}

\* _run_sequence, at its start and whenever a run of it has returned: claim
\* the oldest fire left, or end.
SequenceNext(j) ==
    /\ pc \in {"sleep", "drain"}
    /\ \/ Between(j)
       \/ ~Busy /\ catchup[j].cur = NoTime /\ catchup[j].todo # {}
    /\ \/ /\ Unclaimed(j) = {}
          /\ catchup' = [catchup EXCEPT ![j] = NoCatchup]
          /\ UNCHANGED <<runs, task>>
       \/ \E f \in Unclaimed(j) :
          /\ IsOldest(f, Unclaimed(j))
          /\ runs' = Claim(runs, First(j, f))
          /\ task' = [task EXCEPT ![First(j, f)] = "claimed"]
          /\ catchup' = [catchup EXCEPT ![j] = [todo |-> Unclaimed(j) \ {f},
                                                cur |-> f]]
    /\ UNCHANGED <<now, clock, os, jobs, pc, config, todo, pending, since,
                   adhoc, stopping, wake, hist>>

-----------------------------------------------------------------------------
(* The job's process group, under the _runner wrapper.                     *)

\* The parent learns the status of its child; an orphan is init's to reap.
NoStatus(k, r) == "none"                    \* mutant: nobody waits
ExitStatus(k, r) == IF task[k] \in Waiting THEN r ELSE "none"

\* The command ends and the wrapper writes the sentinel, then exits itself.
ProcExit(k) ==
    /\ proc[k] = "alive"
    /\ \E r \in Ends \ {"vanish"} :
        /\ result' = [result EXCEPT ![k] = r]
        /\ sentinel' = [sentinel EXCEPT ![k] = r]
    /\ proc' = [proc EXCEPT ![k] = "exiting"]
    /\ UNCHANGED <<now, store, jobs, memory, spawns, downs>>

ProcReap(k) ==
    /\ proc[k] = "exiting"
    /\ proc' = [proc EXCEPT ![k] = ExitStatus(k, result[k])]
    /\ UNCHANGED <<now, store, sentinel, jobs, memory, hist>>

\* The wrapper goes without a sentinel: its Popen raised, the whole group was
\* SIGKILLed (by execute()'s grace period or by anyone else), the host died.
Killed(k) == /\ proc' = [proc EXCEPT ![k] = ExitStatus(k, "signal")]
             /\ result' = [result EXCEPT ![k] =
                             IF proc[k] = "alive" THEN "signal" ELSE @]

ProcVanish(k) ==
    /\ Live(k)
    /\ "vanish" \in Ends
    /\ Killed(k)
    /\ UNCHANGED <<now, store, sentinel, jobs, memory, spawns, downs>>

-----------------------------------------------------------------------------
(* Operators, signals, time and crashes.                                  *)

Trigger(j) ==
    /\ Yielding
    /\ j \in config
    /\ Len(adhoc) < MaxAdhoc
    /\ adhoc' = Append(adhoc, j)
    /\ wake' = TRUE
    /\ UNCHANGED <<now, store, os, jobs, pc, config, todo, pending, since,
                   catchup, task, stopping, hist>>

\* SIGTERM, or `drain` on the control socket.
RequestDrain ==
    /\ Yielding /\ ~stopping
    /\ downs < MaxDrains
    /\ stopping' = TRUE /\ wake' = TRUE
    /\ UNCHANGED <<now, store, os, jobs, pc, config, todo, pending, since,
                   catchup, task, adhoc, hist>>

\* The second signal, or `stop --kill`: every run whose pid is known.
RequestKill ==
    /\ Yielding
    /\ downs < MaxDrains
    /\ stopping' = TRUE /\ wake' = TRUE
    /\ LET hit == {k \in Key : task[k] \in {"running", "killing"} /\ Live(k)}
       IN  /\ proc' = [k \in Key |-> IF k \in hit THEN "signal" ELSE proc[k]]
           /\ result' = [k \in Key |-> IF k \in hit /\ proc[k] = "alive"
                                         THEN "signal" ELSE result[k]]
    /\ UNCHANGED <<now, store, sentinel, jobs, pc, config, todo, pending,
                   since, catchup, task, adhoc, spawns, downs>>

\* `punctual resume` writes to the store directly; it asks only of a job it
\* sees quarantined.
Resume(j) ==
    /\ Quarantined(clock[j])
    /\ clock' = RequestResume(clock, j, now)
    /\ UNCHANGED <<now, runs, os, jobs, memory, hist>>

\* A stretch between two awaits takes no time worth counting: within one pass
\* every datetime.now() reads the same second, and what is created in it has
\* started before the next.
TimePasses ==
    /\ now < Horizon
    /\ pc \in {"down", "sleep", "drain"} /\ ~Busy /\ ~Fresh
    /\ now' = now + 1
    /\ UNCHANGED <<store, os, jobs, memory, hist>>

Forget ==
    /\ pc' = "down"
    /\ config' = {}
    /\ todo' = {}
    /\ pending' = {}
    /\ since' = [j \in Job |-> 0]
    /\ catchup' = [j \in Job |-> NoCatchup]
    /\ task' = [k \in Key |-> "none"]
    /\ adhoc' = <<>>
    /\ stopping' = FALSE
    /\ wake' = FALSE

\* The TaskGroup has emptied: run() returns.
Stop ==
    /\ pc = "drain" /\ ~Busy
    /\ \A k \in Key : task[k] = "none"
    /\ \A j \in Job : catchup[j] = NoCatchup
    /\ downs' = downs + 1
    /\ Forget
    /\ UNCHANGED <<now, store, os, jobs, spawns, result>>

\* kill -9 of the daemon.  The jobs live on in sessions of their own; the
\* dead ones lose the parent that would have read their status.
Crash ==
    /\ pc # "down"
    /\ downs < MaxDowns
    /\ downs' = downs + 1
    /\ proc' = [k \in Key |-> IF Live(k) THEN proc[k] ELSE "none"]
    /\ Forget
    /\ UNCHANGED <<now, store, sentinel, jobs, spawns, result>>

-----------------------------------------------------------------------------

Recover(k) == \/ RecoverRemoved(k) \/ RecoverRetrying(k) \/ RecoverClaimed(k)
              \/ RecoverFromSentinel(k) \/ RecoverLost(k)

\* The main coroutine.
Loop == \/ \E k \in Key : Recover(k) \/ SweepRetry(k)
        \/ \E j \in Job : CatchUp(j)
        \/ \E j \in Job, f \in Time : SkipQuarantined(j, f) \/ DispatchDue(j, f)
        \/ RecoverDone \/ CatchUpDone \/ DispatchAdhoc \/ Sleep \/ PassAgain \/ Wake
        \/ Stop

Work(k) == \/ StartTask(k) \/ Spawn(k) \/ SpawnFails(k) \/ RecordPid(k)
           \/ FinishRun(k) \/ AfterTerminal(k) \/ SettleRetry(k)
           \/ SettleFinal(k) \/ RecoverLast(k)

Environment == \/ \E k \in Key : ProcExit(k) \/ ProcReap(k) \/ ProcVanish(k)
               \/ \E j \in Job : Trigger(j) \/ Resume(j)
               \/ RequestDrain \/ RequestKill \/ TimePasses \/ Crash

\* The coroutines that execute runs.
Coroutines == \/ \E k \in Key : Work(k)
              \/ \E j \in Job : SequenceNext(j)

Next == \/ Boot \/ Loop \/ Coroutines
        \/ \E k \in Key : TimeoutFires(k)
        \/ Environment

Spec == Init /\ [][Next]_vars

-----------------------------------------------------------------------------
(* Fairness.  The event loop runs ready coroutines and the clock goes on,    *)
(* strongly: while the main loop spins, both happen between its passes.  The *)
(* unit file restarts the daemon (punctual.service: Restart=always).         *)
(* That commands come to an end (ProcExit, ProcVanish) is an assumption      *)
(* about the jobs, and that dead processes are reaped one about the OS.      *)

JobsEnd == \E k \in Key : ProcExit(k) \/ ProcReap(k) \/ ProcVanish(k)

Fairness == /\ WF_vars(Boot) /\ WF_vars(Loop) /\ SF_vars(Coroutines)
            /\ WF_vars(JobsEnd) /\ SF_vars(TimePasses)

FairSpec == Spec /\ Fairness

-----------------------------------------------------------------------------
(* Safety.                                                                 *)

\* However the daemon dies and restarts, one attempt row is handed to the
\* executor at most once: recovery relaunches CLAIMED rows because RUNNING is
\* stored before the child is spawned (_execute_run, _recover).
SpawnedOnce == \A k \in Key : spawns[k] <= 1

\* The row of an attempt, the task at work on it, its process and its sentinel
\* never contradict each other: what the store says is never ahead of the OS
\* (no outcome before the process is over or given up), and never so far
\* behind it that a relaunch after a crash would run the attempt again.
Agree(k) ==
    LET r == runs[k].state
        t == task[k]
    IN  /\ r \in {"absent", "retrying", "claimed", "running"} \cup Outcome
        /\ r \in Outcome => runs[k].finished
        /\ r \in {"absent", "retrying"} => t = "none"
        /\ r \in {"absent", "retrying", "claimed"} => spawns[k] = 0
        /\ t \in {"queued", "claimed"} => r = "claimed"
        /\ t = "spawning" => r = "running" /\ spawns[k] = 0
        /\ t \in {"spawned", "running", "killing"} => r = "running" /\ spawns[k] = 1
        /\ t \in {"last", "settle"} => r \in Outcome \ {"lost"}
        /\ t = "lost" => r = "lost"
        /\ t = "relast" => r \in Outcome
        /\ spawns[k] \in {0, 1}
        /\ spawns[k] = 0 => proc[k] = "none" /\ sentinel[k] = "none"
                            /\ result[k] = "none"
        /\ proc[k] = "alive" => sentinel[k] = "none" /\ result[k] = "none"
        /\ proc[k] = "exiting" => result[k] # "none"
        /\ proc[k] = "ok" => result[k] = "ok"
        /\ sentinel[k] # "none" => sentinel[k] = result[k]
        /\ r = "succeeded" => result[k] = "ok"
        /\ k \in todo => t = "none" /\ r \in {"claimed", "running", "retrying"}

Bookkeeping == /\ todo # {} => pc = "recover"
               /\ pc = "down" => \A k \in Key : task[k] = "none"
               /\ \A k \in Key : Agree(k)

\* A retry exists only of an attempt that is over and did not succeed, and a
\* FAILED or TIMED_OUT attempt gets one only within RetryPolicy.max, a LOST
\* one only under on_lost=retry (_after_terminal, _recover_running).
RetryFollowsFailure ==
    \A k \in Key : k.attempt < MaxAttempt /\ Exists(runs, NextAttempt(k)) =>
        \/ runs[k].state \in Retryable /\ k.attempt <= jobs[k.job].retries
        \/ runs[k].state = "lost" /\ RetriesLost(k.job)

\* Once recovery has looked at it, no CLAIMED or RUNNING row is left without
\* a task of this daemon that will bring it to an end - if the job never left
\* the config: the waiting retry of one that did has its finished_at set, and
\* open_runs() will not find it once it is claimed (_to_lost, _sweep_retries).
Stays(j) == \A names \in ConfigSets : j \in names
NothingStranded ==
    pc # "down" =>
        \A k \in Key : runs[k].state \in {"claimed", "running"} /\ Stays(k.job) =>
            task[k] # "none" \/ k \in todo

\* An orphan of a non-idempotent job whose pid is on record does not outlive
\* recovery (DESIGN O2b: "Kill the orphan"), if the job never left the config:
\* the row of one that did is closed and its process goes on.
NoRecordedOrphan ==
    pc \notin {"down", "recover"} =>
        \A k \in Key : Live(k) /\ runs[k].pid /\ ~jobs[k.job].idempotent /\ Stays(k.job) =>
            task[k] \in Waiting

\* A row says SUCCEEDED only if its command really ended with status 0:
\* neither recovery nor the executor makes a success up.
SuccessIsReal ==
    \A k \in Key : runs[k].state = "succeeded" => result[k] = "ok"

\* The breaker counts fires, not attempts: consecutive_failures never exceeds
\* the number of fires whose last attempt is over and failed (_update_health).
FailedFires(j) ==
    {f \in Time : \E k \in Key :
        /\ k.job = j /\ k.fire = f
        /\ runs[k].state \in Failure
        /\ k.attempt < MaxAttempt => ~Exists(runs, NextAttempt(k))}
FiresCountedOnce ==
    \A j \in Job : clock[j].fails <= Cardinality(FailedFires(j))

\* A job is quarantined only by enough failed fires, whatever probes, resumes
\* and restarts happen in between (_update_health, _clear_quarantine).
QuarantineIsEarned ==
    \A j \in Job : Quarantined(clock[j]) =>
        /\ jobs[j].quarantineAfter > 0
        /\ clock[j].fails >= jobs[j].quarantineAfter

\* The baseline of catch-up and the cursor of the tick loop never run ahead of
\* the wall clock: that would swallow the fires in between (set_last_fire,
\* _advance_since, _plan_catch_up, _dispatch_due).
CursorsBehindClock ==
    \A j \in Job : clock[j].last <= now /\ since[j] <= now

\* Draining stops claiming: from the request on no fire and no waiting retry
\* becomes CLAIMED, by a pass that was to come or by the sequences of catch-up
\* either (scheduler.py: "stop claiming, let in-flight runs finish").
DrainClaimsNothing ==
    [][stopping =>
        \A k \in Key : runs'[k].state = "claimed" => runs[k].state = "claimed"]_vars

\* The rows live the life RunLifecycle allows them.
Number(k) == k.attempt
Lifecycle == INSTANCE RunLifecycle
                 WITH Attempt <- Key, After <- NextAttempt,
                      state <- [k \in Key |-> runs[k].state]
ImplementsLifecycle == Lifecycle!Spec

-----------------------------------------------------------------------------
(* Liveness.                                                               *)

\* Whatever is claimed or running gets an outcome, over crashes and restarts:
\* in the end, when no new fire comes, no row is left open.
EveryRunEnds ==
    <>[](\A k \in Key : runs[k].state \notin {"claimed", "running"})

\* A retry that comes due is taken up, unless its job is in quarantine: the
\* RETRYING row survives restarts ("a retry pending across a restart isn't
\* lost", scheduler.py).
RetriesHappen ==
    <>[](\A k \in DueRetries(runs, now) : Quarantined(clock[k.job]))

\* A drain comes to its end: the in-flight runs and the sequences finish and
\* the daemon goes down.
DrainEnds == stopping ~> pc = "down"

\* The daemon comes to rest: every fire up to now looked at, every task and every
\* catch-up sequence over, and the loop asleep with _wake cleared - but for an
\* overdue retry that the sweep refuses for good and _time_to_next does not pass
\* over: then the loop goes round without a pause.
Spinning == \E k \in DueRetries(runs, now) :
               \/ ~Known(k) \/ ~jobs[k.job].enabled
               \/ Quarantined(clock[k.job])
ComesToRest ==
    <>[](/\ DueJobs = {} /\ adhoc = <<>>
         /\ \A k \in Key : task[k] = "none"
         /\ \A j \in Job : catchup[j] = NoCatchup
         /\ (pc = "sleep" /\ ~wake) \/ Spinning)

-----------------------------------------------------------------------------
(* What the documentation says and the code does not keep.                 *)

\* DESIGN O9: after the cooldown "one probe fire is allowed through - success
\* clears the breaker, failure re-stamps quarantined_at".  So once a probe has
\* failed, no other is let through on the same stamp.
FailedProbe(j, f) ==
    /\ f > clock[j].quarantined
    /\ runs[First(j, f)].state \in Failure /\ task[First(j, f)] = "none"
OneProbe ==
    \A j \in Job : Quarantined(clock[j]) =>
        \A f, g \in Time : f < g /\ FailedProbe(j, f) => ~Exists(runs, First(j, g))
=============================================================================
