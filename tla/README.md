# A TLA+ model of punctual

punctual is a cron-like job scheduler: one asyncio daemon reads `punctual.toml`,
claims the fires of its jobs in a store (SQLite or Postgres), runs each as a
process group under a small wrapper, and survives crashes by what the store and
the run directories remember. This directory holds TLA+ modules of its core, TLC
configurations that check them on small instances, and proofs that TLAPS checks
for every value of the constants. Paths below are relative to the repository;
`scheduler.py` and the like live in `src/punctual/`.

## 1. The system

| Component | State | Operations | Works with |
|---|---|---|---|
| scheduler (`scheduler.py`) | `_since`, `_inflight`, `_running`, `_adhoc`, `_blocked_since`, `_stopping`, `_wake`, tasks | boot, recover, catch up, tick, sweep retries, trigger, execute, quarantine, drain, kill, reload | calls the store at every step, awaits the executor, is called by the control socket |
| store (`store.py`) | tables `runs`, `job_clock`, `leases`, `steps` | `claim`, `mark`, `schedule_retry`, `record_skip`, `set_last_fire`, `save_job_state`, `request_resume`, lease calls | single atomic statements; shared by daemons and the CLI |
| run states (`models.py`) | - | `Run.transition_to`, `RetryPolicy`, `effective_on_lost` | used by scheduler and store |
| dependencies (`_dispatch_triggered`) | `last_fire`, `_blocked_since` | claim, skip, hold or wait for each triggered job at each pass | reads what the upstream runs left in the store |
| cluster lease | `leases` row, `_leader`, `_fence` | acquire, renew, release, step down | several daemons on one store |
| executor and wrapper (`executor.py`, `_runner.py`) | process group, pipes, `<run_dir>/exit` | spawn, timeout, TERM then KILL, drain pipes, write sentinel | the OS; recovery reads the sentinel |
| config and registry (`config.py`, `registry.py`) | `_REGISTERED`, `sys.modules`, `Scheduler.jobs` | load, validate, reject cycles, reload | the daemon at boot and at `reload` |
| durable steps (`steps.py`, `_inproc.py`) | `steps` table | `step(name, fn)` | job processes, beside the daemon |
| control socket (`control.py`) | the socket file, open connections | ping, drain, stop, reload, trigger; `request`, `wait_until_gone` | runs in the daemon's thread; the CLI is its client |
| shutdown (`run`, `notify.drain`, `metrics.http_server`) | the contexts around the TaskGroup, `notify._inflight` | leave each context in turn | whatever is still open when a drain ends |
| schema (`Store._init_schema`, `_migrate`) | tables, columns, version | open a fresh or an older database | every process that opens the store |
| schedule (`schedule.py`) | - | `next_fire`, `fires_between` (croniter) | scheduler |
| CLI, introspection, metrics, notifications, logs, TUI | - | read the store, format, send | the store; `resume` writes to it, `stop` talks to the socket |

What makes it hard: the daemon may die between any two statements; several
coroutines (main loop, catch-up sequences, one task per run) interleave at
awaits; job processes and the wrapper end whenever they like; the CLI writes to
the store from outside; two daemons may contend for the lease with clocks that
differ; retries, catch-up, manual triggers and recovery all create attempts of
the same fires. `PROJECT.json` lists the hazards, each at its line.

What makes each part correct:

* scheduler: an attempt is spawned once; nothing claimed is left behind; retries
  follow failures only; the breaker opens and closes for the reasons given;
  cursors never pass the clock; runs end, drains end.
* dependencies: each upstream success is used, and used once; skips are earned.
* lease: one daemon schedules; a failover comes, and does not disturb a run.
* executor: outcome and sentinel tell what happened; a call ends with its processes.
* config: just the acyclic, closed tables get in force.
* steps: one value per step of a fire, computed again only when it was lost.
* control and shutdown: what `punctual stop` reports is true, and a daemon told to
  stop ends, with nothing still in flight.
* the shared `job_clock` row: a resume is heard, and only in its own quarantine.
* schema: a store that was opened is complete, whoever else opened it or died.

## 2. The modules

| Module | What it models |
|---|---|
| `RunStates` | `RunState`, `_TRANSITIONS` and the outcome sets of `models.py` |
| `Store` | the `runs` and `job_clock` tables, and each statement on them as an operator |
| `Scheduler` | one daemon with clock-driven jobs over `Store`, its processes, crashes and restarts |
| `RunLifecycle` | abstract: the life of one attempt and of its process, whatever daemon is up |
| `Cluster` | several daemons, the lease, and the rows in flight when the leader changes |
| `Dependencies` | triggered jobs over what the store says of their upstreams |
| `Executor` | one run below the scheduler: `execute()`, the wrapper, the command, a child |
| `Config` | `load_config`, the cycle search, the registry, `reload` |
| `JobTable` | abstract: what a load of the config does to the jobs in force |
| `Steps` | `step()` and the `steps` table under attempts that die, overlap and are retried |
| `Breaker` | the `job_clock` row of one job, read and written back by daemons and `punctual resume` |
| `Schema` | processes that open one database at the same time, and may die over it |
| `Control` | the control socket, how a daemon goes down, and `punctual stop` |
| `Processes` | `Control` and `Executor` side by side |
| `Data` | `Steps`, `Config`, `Breaker` and `Schema` side by side |
| `MC*` | instances for TLC |
| `SchedulerProofs`, `SchedulerInvariants`, `ClusterProofs`, `DependenciesProofs`, `StepsProofs`, `ControlProofs`, `ExecutorProofs`, `DataProofs` | theorems and proofs |

`Scheduler` extends `Store`, which extends `RunStates`; it refines
`RunLifecycle`, and `Config` refines `JobTable`. The other models meet at their borders: what `Scheduler` takes
from the executor (a run ends with an outcome, a sentinel may be left) is what
`Executor` checks; `Dependencies`, `Cluster` and `Steps` keep of a run only the part
their properties need and leave its steps to `Scheduler`; `Breaker` splits in two
what is one step there, the read and the save of `job_clock`.

Parts that share no state stand side by side in one module: `Processes` holds
`Control` and `Executor`, `Data` holds `Steps`, `Config`, `Breaker` and `Schema`;
`MCProcesses` and `MCData` give their constants values. A behaviour of such a module is one of a single part, from that part's own initial states; the others
stand in a final state (`Idle*`) in which they can do nothing, so that their
interleavings, which cannot matter, cost nothing. The states and the properties
of each part are those of the part alone.

### Scheduler

The daemon is one thread: a coroutine runs from one await to the next alone. The
main coroutine is `pc` (`down`, `recover`, `catchup`, `tick`, `sleep`, `drain`),
each `_execute_run` task is an entry of `task`, each `_run_sequence` one of
`catchup`. Every store statement is a step of its own, so that a crash, a process
or the CLI falls between any two; `Busy` keeps other coroutines out while one is
between two awaits.

| Code | Actions |
|---|---|
| `run`, `_lead`, `_recover`, `_recover_running`, `_resolve_from_sentinel`, `_to_lost` | `Boot`, `RecoverRemoved`, `RecoverRetrying`, `RecoverClaimed`, `RecoverFromSentinel`, `RecoverLost`, `RecoverDone` |
| `_plan_catch_up`, `_run_sequence` | `CatchUp`, `CatchUpDone`, `SequenceNext` |
| `_dispatch_adhoc`, `_dispatch_due`, `_sweep_retries`, `_sleep` | `DispatchAdhoc`, `DispatchDue`, `SkipQuarantined`, `SweepRetry`, `Sleep`, `PassAgain`, `Wake` |
| `_execute_run`, `_after_terminal`, `_schedule_retry`, `_update_health` | `StartTask`, `Spawn`, `SpawnFails`, `RecordPid`, `TimeoutFires`, `FinishRun`, `AfterTerminal`, `SettleRetry`, `SettleFinal`, `RecoverLast` |
| control socket, signals, CLI | `Trigger`, `RequestDrain`, `RequestKill`, `Resume`, `Stop` |
| processes and the world | `ProcExit`, `ProcReap`, `ProcVanish`, `TimePasses`, `Crash` |

`wake` is `_wake`. `Expired` is `_time_to_next` at 0: a fire is due, or
`next_retry_at()` names a retry whose time has come, whether or not the sweep takes
it. After a pass the loop yields if `_wake` is clear or the timeout is 0 (`Sleep`) and
goes round without yielding otherwise (`PassAgain`); it wakes by `_wake` or its timeout
(`Wake`). A task or a sequence that was just created (`Fresh`) starts before `_sleep`
returns and before time passes, as in asyncio.

Abstractions. Time is whole seconds and stands still between awaits. A schedule
is the set of instants it fires at. A pass that finds nothing to do changes nothing,
so the timeouts of `MAX_SLEEP` and of the lease renewal, which only start such passes,
are left out. That `_after_terminal` sets `_wake` for the downstreams is in `Dependencies`.
Two writes are one step where nothing that reads them can come between: the
counter and the cursor of a skipped fire, the clearing and saving of a resumed
breaker, the kill of an orphan and its LOST mark, the cleanup of a run directory
and the health update. The retry delay is a constant of the job
(`delay_for_attempt` is not modelled). A job's definition does not change in a
behaviour; which names are in the file is chosen at each boot. `mark()` is
applied to the stored state where the code uses its in-memory `Run`; `Bookkeeping`
says the two agree. A pid that is reused by another process is left out, as are
output tails, logs and notifications. A wrapper that dies without a sentinel is
`ProcVanish`. `punctual resume` is one step and is asked only of a quarantined job.

### Cluster

A row stands for one attempt; `Start` takes the row from CLAIMED to a recorded
child in one step, the steps between being `Scheduler`'s. A catch-up sequence is
the set of fires left. Time is kept as what is left of it: of the lease
(`lease.left`) and of the time a daemon may take before its next step (`slack`).
`ahead` is the clock of the daemon's host. The comparison is the strict one of
`acquire_lease`, and `renew_lease` asks nothing of expiry, as in the code.
Killing an orphan at recovery is not told apart from marking it LOST.

### Dependencies

A fire is in the state of its newest attempt, which is what `last_run` and
`last_success_fire` see. Clock-driven jobs may be dispatched at any second, their
runs end as they like, a failed run may open the breaker (`broken`): whoever
decides that is in `Scheduler`. The outcome of a run, `set_last_fire` and what follows
(a retry or the health of the job) are committed one by one: `End`, `SaveLastFire`,
`Settle`, with `ending` for what is still to be written; `RecoverRunning` starts the
same writes (for a LOST run `last_fire` comes last), `Skip` leaves its `last_fire` to
`SaveLastFire`. There is no await between them, so only a crash comes between. `DispatchTriggered` starts a pass over the
triggered jobs, in any order, and each is visited by one of `HeldByBreaker`,
`Hold`, `OnSuccess`, `RunAnyway`, `KeepWaiting` and `Skip`. `PassAgain` is `_sleep`
with `_wake` set: it returns without yielding, so that tasks launched in the pass
are not yet counted in `_inflight`.

### Executor

Three processes: the wrapper, the command and a child the command may fork, with
`traits`: whether the job has a timeout, whether the command exists, whether the
child leaves the process group, keeps the pipes, and who ignores SIGTERM.
`TimeoutFires`, `Cancel`, `GraceOver`, `KillDone` and `FlushDone` are the paths of
`execute()` and `_kill`; `Reap` is asyncio's child watcher setting `returncode`.
The death of the daemon is `Scheduler`'s part.

### Config

A job is its `after` list and where it comes from; the checks of single tables
are one bit, `disk.valid`. `_reject_cycles` is modelled frame by frame with
colours and a stack, in any order. A load is one synchronous call of the daemon,
so a file is edited only between loads. A module that raises during its import
leaves any part of its registrations behind. A module may lie in packages (`Around`),
which Python imports before it (`Needed`); `Wanted` is the filter of
`_load_python_jobs`, which takes the registrations of a listed module and of all below
it. Packages that import their own submodules are left out.

### Steps

One fire, up to `MaxAttempt` attempts of it, each a process that runs the same
`Body`. `Replay`, `Call`, `FnReturns` and `Record` are the statements of `step()`: the
lookup, `fn()`, `json.dumps` and `INSERT ... ON CONFLICT DO NOTHING`. A value is who
computed it and whether it is plain, a tuple (which JSON makes a list) or not
serialisable. `Die` is an exception, a timeout or a kill at any point. The daemon's
side is `Launch`, `RecordPid`, `Watched`, `Crash` and `Restart`: recovery believes a
sentinel, kills a process whose pid it knows unless the job is idempotent, and
retries what was LOST - the two ways in which attempts of a fire come to overlap.
Importing the job's module (`_inproc.py`) belongs to the start of the process.

### Breaker

`Healthy`, `Resumed`, `Probe` and `Skip` are `_quarantine_lets_fire_through` and its
callers, `Fails`, `Succeeds` and `StaysWell` are `_update_health`, `Save` is the
`save_job_state` that follows a decision, `ResumeReads` and `ResumeWrites` are
`punctual resume`. Nothing of the same daemon runs between a read and its save, but
another process does; a second daemon has runs of its own after a `Handover`.

### Schema

`ReadVersion`, `ReadTables`, `ReadColumns`, `Alter`, `SetVersion`, `InsertVersion`,
`CreateTable` and `ScriptDone` are the statements of `_migrate` and `_init_schema`, each
of which commits by itself; Postgres stamps the version by a DELETE and an INSERT.

### Control

`life` is where a daemon stands in the contexts `run()` nests: `up` while the
TaskGroup lives, then the HTTP listener, the control server (`close`, its handlers),
the unlinking of the path, `notify.drain()` with the release of the lease, `gone`.
`path` says whose socket the file is. `Start` and `Bind` are `__aenter__`, `Unlink` is the
end of `__aexit__`. The client is `AskStop` to `GiveUp`: `request("stop")` once, then
`wait_until_gone`. `Lost` is an exception that neither of them catches. Connecting fails
just when nobody listens at the path (`Nobody`): a connect that fails or takes more
than 2 s although somebody does is left out.

## 3. The runs

| Run | Question | Bounds |
|---|---|---|
| `scheduler_core` | do rows, tasks, processes, counters and cursors stay consistent when one job with a retry and a breaker runs two fires and the daemon dies or stops once? | 2 fires, 3 attempts, 1 crash, drains and kills |
| `scheduler_restarts` | is what recovery and catch-up do right, when the job may have left the file, is retried when lost, or has a timeout? Implements `RunLifecycle`? | 2 fires, 2 attempts, 1 crash or stop |
| `scheduler_triggers` | manual triggers, drains, kills: is anything stranded, does an orphan survive, does a drain claim? | 1 fire, 1 waiting trigger, 1 crash, 2 drains |
| `scheduler_live` | do runs end, retries happen, drains end, and does the loop come to rest asleep, unless an overdue retry that is refused for good keeps it spinning? | 2 fires, 3 attempts, 1 crash or stop, no triggers |
| `cluster` | one scheduler, clean handovers, failover, rows closed | 2 daemons, 1 fire, 2 faults, equal clocks |
| `dependencies` | no trigger forgotten, repeated or made up, wherever a crash falls between the writes of an end? | fan-in, chain, waiting downstream; 2 instants, 1 fault |
| `processes` | `Executor`: do outcome, sentinel, pipes and survivors agree? `Control`: is "daemon stopped" true, do notices go out, does a daemon told to stop end? | every process tree, 1 kill; 2 daemons on one path, a run, a notice and a scrape each at most |
| `data` | `Config`: verdict of the search, half-imported modules; does it implement `JobTable`? `Steps`: one value per step. `Breaker`: resumes. `Schema`: openings | graphs on 3 names (an unknown upstream, or a job after itself, in the small ones), a package with a submodule, 2 edits; 2 steps, 3 attempts, 1 crash; 2 daemons, 3 runs, 1 resume, 1 fault; 2 openings, 2 tables |
| `scheduler_probe`, `cluster_lost`, `dependencies_stale`, `executor_timeout` | disagreements of documentation and code, see section 6 | as small as shows them |

Why these bounds are enough to be worth it. A crash can fall between any two
statements, and the state a daemon leaves is all its successor gets, so one crash
with recovery, catch-up and normal work after it exercises each recovery branch;
the theorems cover any number. Two fires are what an older and a newer one need
(cursors, `last_fire`, catch-up); three attempts let a retry of a retry be lost.
One fire and two daemons suffice for a lease and a row to be disputed; two faults
let a crash meet a suspended or draining peer. `Dependencies` needs two upstreams
for a partial trigger, two instants for a fresh one and a stale one. Three names
give self-loops, two- and three-cycles, chains, fan-ins and reconverging paths, and in
`Config` two edits give a bad file between two good ones. Three attempts of a fire
let an orphan overlap its retry and the retry of that; two steps let an attempt
replay one and run the other. Two daemons are what a taken socket path, an
overwritten `job_clock` row and a race of two openings need. Names are
interchangeable in `Config` and the run `data` has no liveness property, so symmetry
is sound there. `MaxDowns`, `MaxDrains`, `MaxAdhoc`, `MaxAttempt`, `Horizon`,
`MaxFaults`, `MaxKills`, `MaxEdits`, `MaxCrashes`, `MaxRuns`, `MaxResumes`, `MaxScrapes`,
`Stall` and `MaxAhead` are the bounds.
`CHECK_DEADLOCK FALSE` is set because a bounded clock, a stopped daemon or a
finished call really leaves nothing to do.

Properties of the passing runs: `Bookkeeping`, `SpawnedOnce`,
`RetryFollowsFailure`, `FiresCountedOnce`, `QuarantineIsEarned`,
`CursorsBehindClock`, `SuccessIsReal`, `NothingStranded`, `NoRecordedOrphan`,
`DrainClaimsNothing`, `ImplementsLifecycle`, `EveryRunEnds`, `RetriesHappen`,
`DrainEnds`, `ComesToRest`; `OneScheduler`, `HandoverIsClean`,
`FailoverHappens`, `RowsEnd`; `FreshWhileInOrder`, `RowsComeFromUpstream`,
`TriggersHappen`; `OutcomeIsReal`, `NobodyWrites`, `SurvivorsIgnoreTerm`,
`ReturnsInTheEnd`; `StoppedMeansIdle`, `NoticesGoOut`, `StopEnds`; `VerdictIsRight`,
`NoHalfModules`, `ImplementsJobTable`; `ReplaysAgree`, `RerunsAreExplained`; `ResumeIsHeard`,
`ResumeIsFresh`; `OpeningsAreSafe`; and type invariants. `Scheduler` and `Cluster` have
theirs proved and no longer in a run; `TypesOK` of the two packed runs is the conjunction of
those of their parts. Each property is stated above its definition. For each,
`PROJECT.json` names a mutant of the model (a dropped guard, a swapped order, a
forgotten reset) that makes TLC find it violated.

Some properties hold only under a condition, which is part of their statement.

* `HandoverIsClean` excepts a lease taken from a daemon that has work in flight,
  `FreshWhileInOrder` a downstream whose `last_fire` has moved back, or missed the end
  of a run because a crash fell between its outcome and `set_last_fire`, or whose
  runs may overlap: findings and remarks of section 6.
* `NoHalfModules` accepts, beside a module whose import has succeeded, one that lies in
  an imported package; `ComesToRest` excepts an overdue retry that the sweep refuses
  for good (`Spinning`). Section 6 says what happens then.
* `ImplementsJobTable` lets a reload keep a changed definition, the rule of `reload`
  ("changed jobs keep their old definition"); `MergedIsSound`, which is proved and no
  longer in the run, says of the jobs in force that they are sound otherwise.
* `NothingStranded` and `NoRecordedOrphan` are about jobs that stay in the config
  (`Stays`); section 6 says what happens to the others.
* `StoppedMeansIdle` excepts a daemon that died, or lost the path to another one
  while it served; `ReplaysAgree` and `RerunsAreExplained` an attempt that ran a step
  while another attempt of the fire was alive; `ResumeIsHeard` and `ResumeIsFresh` a
  write over a row that had changed since it was read. The exceptions name the
  race, so the properties say that nothing short of it does harm.
* `StopEnds` asks that scrapes end.

### Fairness

* `Scheduler`: weak fairness of the boot (the unit file in `packaging/` restarts
  the daemon), of the main loop, and of the ends of jobs - the one assumption about
  the jobs themselves; strong fairness of the coroutines as a whole (an event loop
  runs what is ready) and of time, because the loop may spin, and both happen between
  its passes. None for operators, timeouts or crashes. Manual triggers are
  left out of the liveness run.
* `Cluster`: weak fairness of each daemon's loop while it is up, strong fairness
  of its other coroutines and of time, because the loop takes turns with them;
  none for booting, so no dead daemon has to come back.
* `Dependencies`: weak fairness of the loop only; no run has to end.
* `Executor`: the event loop, the wrapper and the timer; nothing makes a job end.
* `Control`: weak fairness of a daemon on its way down, of the ends of its runs and
  of the handlers that answer a client. None for a scraper, whose request is read
  without a timeout, for the client, or for starting a daemon.

## 4. What is proved

All theorems hold for any sets of jobs, configurations, fires, attempts and
daemons and for any values of the bounds, from the named assumptions on the
constants (`HorizonAssumption`, `MaxAttemptAssumption`, `ConfigAssumption`,
`LeaseAssumption`, `DependenciesAssumption`, `StepsAssumption`, `ControlAssumption`,
`ProcessesAssumption`, `DataAssumption`). `DataAssumption` is the conjunction of those
of its parts, which say that what a config file holds are tables of jobs that are
nobody's module, that a daemon is not the CLI, that thresholds are positive, and
that a column that is added belongs to a table of `SCHEMA`.

* `TypeCorrect`: `Scheduler` keeps its types, action by action. `ConfigAssumption`
  asks for `MaxAttempt` above the retries plus the crashes, so that the attempt
  number of a retry, also of one that follows a LOST run, stays in its domain.
* `BookkeepingCorrect`: `Bookkeeping` is inductive as it stands (with the types).
  It is the strengthening of everything below: it ties the state of a row to the
  stage of the task at work on it and to the process, in both directions, and says
  that a row recovery has yet to visit has no task. Lemmas `MarkEffect` and
  `InsertEffect` say what a statement does to one row, `AgreeFrame` that the others
  are left alone, and there is a lemma per group of actions.
* `SpawnedOnceCorrect`, `SuccessIsRealCorrect` follow from it directly.
* `Refinement`: `Spec => ImplementsLifecycle`. Under `Bookkeeping` each action of the
  daemon is a move of one attempt that `RunLifecycle` allows, or a stutter
  (`LifecycleMove`, `LifecycleStutter`).
* `RetryFollowsFailureCorrect`: needs besides `Bookkeeping` that a task that is about
  to schedule a retry belongs to a settled row, and that a row with an outcome
  never changes again, which the refinement gives.
* `TypesCorrect`, `OneSchedulerCorrect` (`Cluster`): `OneScheduler` alone is not
  inductive; `Entitled` adds that a daemon at work on a pass holds the lease, with
  more time left on it, by the fastest clock, than the pass may still take. That a
  renewal asks nothing about expiry does no harm because it asks for holder and
  fence. The assumption is `Stall + MaxAhead <= TTL`: no pass, plus the difference of
  the clocks, outlasts the lease. Without it two daemons do schedule together.
  In the code TTL is 30 s and the renewal period 10 s.

* `QuarantineIsEarnedCorrect` needs nothing but types: `BreakerStep` shows that every
  write of a `job_clock` row keeps it (opened at the threshold, counted up while
  open, cleared as a whole).
* `FiresCountedOnceCorrect`: the counter alone says nothing about rows. `CountsFires`
  bounds it by the fires that have failed and have no attempt whose health update is
  still to come, and `Ordered` says that the attempts of a fire follow one
  another: a later one exists only behind a failed one that is settled. A fire is
  counted when its last attempt leaves the unsettled stages, and never again.
* `CursorsBehindClockCorrect`: `RowsArePast` and `SequencesArePast` say that every row
  and every fire a catch-up sequence holds is not after the clock; cursors only
  take values from them or from the clock.
* `NothingStrandedCorrect`, `NoRecordedOrphanCorrect`: `RowsAreTended` says, stage by
  stage of the main coroutine, who is at work on an open row of a job that stays
  in the config: a task, or recovery which has not come to it.
* `HandoverIsCleanCorrect` (`Cluster`): `Undisturbed`, as long as no lease was taken
  from a daemon with work in flight: all work belongs to the holder (`WorkIsHeld`),
  who begins with none; a row recovery has read is unchanged and nobody's until
  it is visited (`AsRead`); a row has at most one task, in the stage its state says
  (`OneTask`). It rests on `Entitled`.
* `TypeOKCorrect`, `RowsComeFromUpstreamCorrect`, `FreshWhileInOrderCorrect`
  (`Dependencies`), for any after-graph and policies: `Visits` (what a pass may
  still visit), `Untouched` (a fire no one has run has no inputs) and
  `Consumed`: a run that was started on successes is behind the `last_fire` of its job,
  or will be before that job is visited with other ones (recovery has yet to see
  its row, its end is being written, it holds the one slot, or it was claimed in this
  very pass), unless a crash has made the job `outdated`. That `last_fire` is the newest end uses that a
  set of fires has a greatest element, taken from the well-foundedness of Nat.
* `ReplaysAgreeCorrect`, `RerunsAreExplainedCorrect` (`Steps`), for any body: `Chain`
  (one open row at most, and nothing behind it), `Met` (whoever is alive together is
  in `together`), `Kept` (a value that was computed is in the table, on its way there
  or lost with its attempt), and `Computed`, `Allowed`, `Overtaken`, which say what
  an attempt that is about to call or to record implies about the others.
* `StoppedMeansIdleCorrect`, `NoticesGoOutCorrect` (`Control`), for any number of
  daemons: `Counted` (runs launched and in flight), `AtPath` (a daemon that serves
  has the path or was robbed of it), `LeftIdle` (past the TaskGroup no run is in
  flight), `Talking` (the client speaks to a daemon that was up) and
  `Awaited` (what is being sent after `notify.drain()` has looked is what it saw).
* `DrainClaimsNothingCorrect` (`Scheduler`), an action property:
  `WritesOfADrain` lists what is written to the rows once the request to stop is there
  (marks of other states, a pid, a retry that waits): by `LoopHasEnded` no pass begins
  any more, and a catch-up sequence looks at the request.
* `OutcomeIsRealCorrect`, `NobodyWritesCorrect`, `SurvivorsIgnoreTermCorrect`
  (`Executor`), for any number of signals: `Births` (nothing exists before what starts
  it), `Deaths` (a sentinel and a status are about a command that is over), `Ways` (how
  `execute()` came to where it stands, so that a good sentinel beside a bad status
  has a timeout, a cancellation or a kill behind it) and `Warned` (once the group was
  sent SIGTERM nobody joins it, and who is left in it ignores the signal).
* `ResumeIsHeardCorrect`, `ResumeIsFreshCorrect` (`Breaker`), for any number of
  daemons: the two properties are about the row; `Intent` is about what is on its way
  to the row: what a daemon is about to save keeps the flag as it read it, or
  clears it together with the quarantine, and the CLI asks only for a quarantine it
  has seen. A save over the row that was read then keeps the properties, and any
  other save is `stomped`.
* `OpeningsAreSafeCorrect` (`Schema`), for any schema and number of openings:
  `Opening` says of a migration half-way that the tables it has not found were
  created since, complete, and that a column it does not know of in a table it has
  looked at was added by a rival; `Upgraded` holds from the stamp of the version on.
  `Grows` is what a step does to the others, `BystandersKeep` that it is enough.
* `VerdictIsRightCorrect`, `MergedIsSoundCorrect`, `NoHalfModulesCorrect` (`Config`), for
  any set of jobs: `Path` (the stack is a path of just the grey jobs, each waiting
  for the one above it, and what a frame is through with is black) and `Finished`
  (the black jobs wait for black ones, and every set of them has one that waits for
  none of the set). A grey upstream closes a circle of the path above it; when no
  job is white the stack is empty, so all are black. The lemmas `EnterKeeps`,
  `PassKeeps` and `LeaveKeeps` are about any graph, colouring and stack, not about the
  variables. A reload that keeps no old definition puts just the searched graph in
  force, and what is in force or searched came from modules that are imported or lie
  in an imported package (`Imports`).
* `LoadsImplementJobTable` (`Config`): the start of a search proposes a table, which by
  `MergedIs` has no unknown upstream; what the search ends with is `JobTable`'s verdict
  by the same invariant (`VerdictsImplement`); everything else, however a load gets
  there or fails, is a stutter (`LoadingStutters`).
* `TypesOKCorrect` (`Processes`) and `DataTypesCorrect` (`Data`): the types of the parts
  that are checked together, under the specification of the run; for this the
  states in which a part is left alone are shown to satisfy that part's invariant.

Each inductive invariant was checked by TLC before it was proved.

With this every invariant and action property of the passing runs has a theorem. Only
model-checked: the liveness properties `EveryRunEnds`, `RetriesHappen`, `DrainEnds`,
`ComesToRest`, `FailoverHappens`, `RowsEnd`, `TriggersHappen`, `StopEnds` and
`ReturnsInTheEnd`, as TLAPS does not reason about fairness and ENABLED here.

## 5. What is not modelled

Cron arithmetic and time zones (croniter, `schedule.py`); the connections and the
two SQL dialects; the text of the requests on the control socket; the checks of
single config tables; `delay_for_attempt`, a constant of the job here; the sinks of
notifications and the rendering of metrics; introspection, logs and the terminal
UI, which read or report and change nothing. That `reload` changes the cursors of a
running loop and does not rebuild `_downstreams` is not in `Scheduler`, where jobs are
fixed in a behaviour.

## 6. Where the documentation and the code disagree

* `scheduler_probe`: a probe that fails with retries left does not restart the
  cooldown (`docs/DESIGN.md` O9); the next fire is let through as another probe.
* `cluster_lost`: a run may be declared LOST although no daemon died: a leader that
  steps down for one store error leads again and recovers its own live runs.
* `dependencies_stale`: the retry of an older downstream fire moves `last_fire` back,
  and the next pass runs the downstream on a success it has consumed already. (A crash
  between `mark` and `set_last_fire`, two commits, has the same effect without any
  retry: recovery does not look at a row that has its outcome.)
* `executor_timeout`: a command that leaves a background child with the pipes open
  makes its run outlast any timeout; `_kill` signals nobody once the wrapper is
  reaped.

Seen while modelling, without a run of their own:

* scheduler: `concurrency` binds neither manual triggers nor catch-up, and a task
  counts itself only when it starts; a catch-up sequence keeps claiming after its
  daemon has stepped down, and does not look at the quarantine. A crash between
  `mark` and `_update_health` loses the count of a failure.
* tick loop: `next_retry_at` names the earliest of all RETRYING rows, also one that
  `_sweep_retries` passes over (job in quarantine, removed, disabled or busy). Once such a
  retry is overdue `_sleep` gets 0 and the loop goes round without a pause, until the
  retry is taken up; a TLC run shows it if `Spinning` is taken out of `ComesToRest`.
* removed jobs: recovery closes the RUNNING row of a job that left the config
  without killing its process. Of a RETRYING row it sets `finished_at` and not the
  state (the transition is refused, the exception suppressed); when the job comes
  back, `_sweep_retries` makes the row CLAIMED with `finished_at` still set, and after
  a crash `open_runs` does not see it: it stays CLAIMED for ever. TLC shows it
  once `Stays` is taken out of `NothingStranded`.
* steps: of two attempts that run a step at once, the loser of `record_step` returns
  its own value, although `steps.py` says that a step returns the same whether it
  ran or was replayed.
* resume: `punctual resume` says the daemon clears the quarantine "on its next tick";
  it does at the next due fire. A resume that is written between the daemon's read
  and save is lost; one that was decided before the quarantine was cleared stays in
  the row for the next quarantine.
* stop: `punctual stop` is to "wait for it to exit" (`cli.py`) and ends when the socket
  no longer accepts; the daemon may then still be waiting for its handlers and its
  notices, and hold the lease. `wait_until_gone` takes any failure to connect (an
  `OSError`, or no connection within 2 s) for the end of the daemon, and catches nothing
  else: a slow answer or a reset ends it with a traceback.
* socket path: a daemon unlinks what is there, at its start and at its end,
  whosever it is; a crashed one leaves the file behind.
* shutdown: one scraper that sends half a request keeps the daemon from exiting;
  a sink may take 15 s and `drain` waits for 10.
* schema: two openings of an older database may both add a column, and one of them
  fails; the version is stamped before the SCHEMA script has run, and in Postgres by
  two statements.
* cluster: `fence` starts again at 1 after a release.
* config: the documentation and `config.py` say that dropping a Python module needs
  a restart, but `_load_python_jobs` filters its jobs out at the next reload. A submodule
  whose import failed half-way leaves registrations behind; once only its package is
  listed, a reload puts them in force, as the filter goes by the prefix of the name.
* executor: a command that does not exist ends with the wrapper's traceback and
  status 1, not with the documented 127.
* dependencies: `_blocked_since` is cleared only by a run or a skip, so that a later
  wait may count from an older one; after a reload that adds a triggered job its
  upstreams do not wake the loop.

## 7. Plan

Done: the inventory, `Scheduler` with its lifecycle, `Cluster`, `Dependencies`,
`Executor`, `Config`, `Steps`, `Breaker`, `Schema`, `Control`; the proofs of section 4.
What is left, in this order:

1. `reload` as an action of `Scheduler`: cursors of added and dropped jobs in a
   running loop, and the wake-ups that `_downstreams` no longer knows.
2. `RetryPolicy.delay_for_attempt` as a function, with the width of `timedelta`.
3. Proofs: an abstract specification of `Steps` (a memo per name), implemented by
   the one that is here.

To check: `tlc -config SchedulerCore.cfg MCScheduler` and so on for each run of
`PROJECT.json`; `tlapm SchedulerProofs.tla` and so on for each module of proofs.
