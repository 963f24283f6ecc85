---------------------------- MODULE Dependencies ----------------------------
(***************************************************************************)
(* Trigger-driven jobs (DESIGN O12): _dispatch_triggered and               *)
(* _on_upstream_failure of scheduler.py, over what the runs and job_clock  *)
(* tables say of the upstream jobs, in one daemon that may crash and       *)
(* restart.                                                                *)
(*                                                                         *)
(* A fire of a job is in the state of its newest attempt, which is what    *)
(* last_run() and last_success_fire() see of it.  Who claims the fires of  *)
(* the clock-driven jobs, the breaker, and the steps of a run are          *)
(* Scheduler's part: here a job may be dispatched at any time, its runs    *)
(* end as they like, and a failed run may open the breaker.                *)
(***************************************************************************)
EXTENDS Naturals, FiniteSets, FiniteSetsExt

CONSTANTS Job,
          Tables,    \* the contents a config may have
          Horizon,   \* bound: the last instant
          MaxFaults, \* bound: crashes of the daemon and manual triggers of
                     \* triggered jobs
          NoTime     \* no timestamp

Fire == 1 .. Horizon
Instant == 0 .. Horizon

\* The fields of models.Job this module reads; wait is wait_timeout, lost is
\* effective_on_lost = RETRY, breaker is that quarantine_after is set.
JobConfig == [after : SUBSET Job, policy : {"skip", "run", "wait"},
              wait : Nat \cup {NoTime}, retries : Nat, lost : BOOLEAN,
              breaker : BOOLEAN, concurrency : Nat \ {0}]

ASSUME DependenciesAssumption ==
    /\ Horizon \in Nat \ {0} /\ MaxFaults \in Nat
    /\ NoTime \notin Nat
    /\ Tables \subseteq [Job -> JobConfig]

VARIABLES
    now,
    jobs,     \* the job table
    run,      \* the newest attempt of each fire of each job
    tries,    \* its number
    last,     \* job_clock.last_fire
    broken,   \* the jobs in quarantine
    pc,       \* where the main coroutine stands
    todo,     \* rows recovery has to visit, or triggered jobs a pass has to
    blocked,  \* _blocked_since
    wake,     \* _wake, as recovery left it
    ending,   \* the row whose end is being written, and what is left to write
    \* history
    inputs,   \* the upstream successes a triggered run was started on
    outdated, \* the jobs whose last_fire has moved back, or has missed the end
              \* of a run over a crash
    faults

memory == <<pc, todo, blocked, wake, ending>>
hist   == <<inputs, outdated, faults>>
vars   == <<now, jobs, run, tries, last, broken, pc, todo, blocked, wake, ending,
            inputs, outdated, faults>>

-----------------------------------------------------------------------------

\* "queued": claimed, but the task has not started, so _inflight misses it.
State == {"absent", "queued", "open", "retrying", "succeeded", "failed", "skipped"}

\* The outcome of a run and what follows from it are autocommitted one by one:
\* "marked" still needs last_fire and then its consequences (a retry, or the
\* health of the job), "fired" the consequences, "lost" both in the other order,
\* "late" and "skipped" last_fire.
Ending == [job : Job, fire : Fire,
           stage : {"marked", "fired", "lost", "late", "skipped"}]
OwesLastFire(e) == e.stage \in {"marked", "lost", "late"}

Triggered(j) == jobs[j].after # {}
Open(j) == {f \in Fire : run[j][f] = "open"}
Inflight(j) == Cardinality(Open(j))

TypeOK ==
    /\ now \in Instant
    /\ jobs \in Tables
    /\ run \in [Job -> [Fire -> State]]
    /\ tries \in [Job -> [Fire -> Nat]]
    /\ last \in [Job -> Instant \cup {NoTime}]
    /\ broken \in SUBSET Job
    /\ pc \in {"recover", "dispatch", "triggered", "sleep"}
    /\ todo \in SUBSET (Job \cup (Job \X Fire))
    /\ blocked \in [Job -> Instant \cup {NoTime}]
    /\ wake \in BOOLEAN
    /\ ending \subseteq Ending
    /\ inputs \in [Job -> [Fire -> SUBSET (Job \X Fire)]]
    /\ outdated \in SUBSET Job
    /\ faults \in Nat

Init ==
    /\ now = 0
    /\ jobs \in Tables
    /\ run = [j \in Job |-> [f \in Fire |-> "absent"]]
    /\ tries = [j \in Job |-> [f \in Fire |-> 1]]
    /\ last = [j \in Job |-> NoTime]
    /\ broken = {}
    /\ pc = "recover"
    /\ todo = {}
    /\ blocked = [j \in Job |-> NoTime]
    /\ inputs = [j \in Job |-> [f \in Fire |-> {}]]
    /\ wake = FALSE
    /\ ending = {}
    /\ outdated = {}
    /\ faults = 0

-----------------------------------------------------------------------------
(* What the store tells of an upstream.                                    *)

\* `last is None or f > last`.
Newer(f, j) == last[j] = NoTime \/ f > last[j]

Successes(u) == {f \in Fire : run[u][f] = "succeeded"}
Rows(u) == {f \in Fire : run[u][f] # "absent"}

\* last_success_fire() has something newer than the last fire of j.
FreshSuccess(u, j) == Successes(u) # {} /\ Newer(Max(Successes(u)), j)

\* last_run() is a failure that no retry follows, newer than the last fire of j.
PastFailure(u, j) ==                        \* mutant: of any run, not the last
    /\ \E f \in Rows(u) : run[u][f] = "failed"
    /\ Newer(Max(Rows(u)), j)
FreshFailure(u, j) ==
    /\ Rows(u) # {}
    /\ run[u][Max(Rows(u))] = "failed"
    /\ Newer(Max(Rows(u)), j)

Satisfied(j) == {u \in jobs[j].after : FreshSuccess(u, j)}
Failed(j) == {u \in jobs[j].after : ~FreshSuccess(u, j) /\ FreshFailure(u, j)}
Pending(j) == jobs[j].after \ (Satisfied(j) \cup Failed(j))

\* ready_at: the newest success of all.
ReadyAt(j) == Max({Max(Successes(u)) : u \in Satisfied(j)})

-----------------------------------------------------------------------------
(* One pass of the loop.                                                   *)

Wake ==
    /\ pc = "sleep"
    /\ pc' = "dispatch"
    /\ UNCHANGED <<now, jobs, run, tries, last, broken, todo, blocked, wake, ending, hist>>

\* _dispatch_due of a clock-driven job, _dispatch_adhoc of any.
Dispatch(j) ==
    /\ pc = "dispatch" /\ now \in Fire
    /\ run[j][now] = "absent"
    /\ run' = [run EXCEPT ![j][now] = "queued"]
    /\ IF Triggered(j) THEN faults < MaxFaults /\ faults' = faults + 1
       ELSE UNCHANGED faults
    /\ UNCHANGED <<now, jobs, tries, last, broken, memory, inputs, outdated>>

SweepRetry(j, f) ==
    /\ pc = "dispatch"
    /\ run[j][f] = "retrying"
    /\ j \notin broken /\ Inflight(j) < jobs[j].concurrency
    /\ run' = [run EXCEPT ![j][f] = "queued"]
    /\ UNCHANGED <<now, jobs, tries, last, broken, memory, hist>>

FirstTimers ==                              \* mutant: those that never fired
    {j \in Job : Triggered(j) /\ last[j] = NoTime}
Downstreams == {j \in Job : Triggered(j)}
DispatchTriggered ==
    /\ pc = "dispatch"
    /\ pc' = "triggered"
    /\ todo' = Downstreams
    /\ UNCHANGED <<now, jobs, run, tries, last, broken, blocked, wake, ending, hist>>

\* The body of _dispatch_triggered for one job.
Visit(j) ==
    /\ pc = "triggered" /\ j \in todo
    /\ todo' = todo \ {j}
    /\ UNCHANGED <<now, jobs, tries, broken, pc, wake, faults>>

Idle == UNCHANGED <<run, last, blocked, ending, inputs, outdated>>

\* claim() for fire f, with what it is started on.
Claim(j, f, on) ==
    IF run[j][f] = "absent"
      THEN /\ run' = [run EXCEPT ![j][f] = "queued"]
           /\ blocked' = [blocked EXCEPT ![j] = NoTime]
           /\ inputs' = [inputs EXCEPT ![j][f] = on]
      ELSE UNCHANGED <<run, blocked, inputs>>

HeldByBreaker(j) == Visit(j) /\ j \in broken /\ Idle

\* The breaker lets through: not open, resumed, or a probe with none in flight.
LetThrough(j) == Visit(j) /\ (j \in broken => Inflight(j) = 0)

Hold(j) ==
    /\ LetThrough(j)
    /\ Failed(j) = {} /\ Pending(j) # {}
    /\ Idle

AllFresh(j) == Failed(j) = {} /\ Pending(j) = {}

OnSuccess(j) ==
    /\ LetThrough(j)
    /\ AllFresh(j)
    /\ IF Inflight(j) < jobs[j].concurrency
         THEN Claim(j, ReadyAt(j), {<<u, Max(Successes(u))>> : u \in jobs[j].after})
         ELSE UNCHANGED <<run, blocked, inputs>>
    /\ UNCHANGED <<last, ending, outdated>>

\* `failed` keeps the last such upstream in the order of `after`: any of them.
OnUpstreamFailure(j, u) ==
    /\ LetThrough(j)
    /\ u \in Failed(j)

RunAnyway(j, u) ==
    /\ OnUpstreamFailure(j, u)
    /\ jobs[j].policy = "run"
    /\ IF Inflight(j) < jobs[j].concurrency THEN Claim(j, Max(Rows(u)), {})
       ELSE UNCHANGED <<run, blocked, inputs>>
    /\ UNCHANGED <<last, ending, outdated>>

Since(j) == IF blocked[j] = NoTime THEN now ELSE blocked[j]
Patient(j) == jobs[j].wait = NoTime \/ now - Since(j) < jobs[j].wait

KeepWaiting(j, u) ==
    /\ OnUpstreamFailure(j, u)
    /\ jobs[j].policy = "wait" /\ Patient(j)
    /\ blocked' = [blocked EXCEPT ![j] = Since(j)]
    /\ UNCHANGED <<run, last, ending, inputs, outdated>>

Write(j, f, stage) == ending' = {[job |-> j, fire |-> f, stage |-> stage]}

\* record_skip(), which leaves an existing row alone; last_fire follows.
Skip(j, u) ==
    /\ OnUpstreamFailure(j, u)
    /\ jobs[j].policy = "skip" \/ (jobs[j].policy = "wait" /\ ~Patient(j))
    /\ run' = [run EXCEPT ![j][Max(Rows(u))] = IF @ = "absent" THEN "skipped" ELSE @]
    /\ Write(j, Max(Rows(u)), "skipped")
    /\ blocked' = [blocked EXCEPT ![j] = NoTime]
    /\ UNCHANGED <<last, inputs, outdated>>

\* The tasks launched in the pass start as soon as it yields, which it does not
\* when _wake is set: then there is another pass first.
Sleep ==
    /\ pc = "triggered" /\ todo = {} /\ ~wake
    /\ pc' = "sleep"
    /\ run' = [j \in Job |-> [f \in Fire |->
                 IF run[j][f] = "queued" THEN "open" ELSE run[j][f]]]
    /\ UNCHANGED <<now, jobs, tries, last, broken, todo, blocked, wake, ending, hist>>

PassAgain ==
    /\ pc = "triggered" /\ todo = {} /\ wake
    /\ pc' = "dispatch"
    /\ wake' = FALSE
    /\ UNCHANGED <<now, jobs, run, tries, last, broken, todo, blocked, ending, hist>>

-----------------------------------------------------------------------------
(* The ends of runs (_after_terminal), crashes and recovery, time.         *)

\* The outcome is written first.
Outcome(j, f) == \E s \in {"succeeded", "failed"} : run' = [run EXCEPT ![j][f] = s]

End(j, f) ==
    /\ pc = "sleep" /\ run[j][f] = "open"
    /\ Outcome(j, f)
    /\ Write(j, f, "marked")
    /\ UNCHANGED <<now, jobs, tries, last, broken, pc, todo, blocked, wake, hist>>

LastNext(j, f) == [last EXCEPT ![j] = f + 1] \* mutant: off by one
LastForgotten(j, f) == last                 \* mutant: no baseline
LastFire(j, f) == [last EXCEPT ![j] = f]

\* set_last_fire() takes what it is given, older or not.
SetLastFire(j, f) ==
    /\ last' = LastFire(j, f)
    /\ outdated' = IF Newer(f, j) \/ f = last[j] THEN outdated ELSE outdated \cup {j}

SaveLastFire(e) ==
    /\ e.stage \in {"marked", "late", "skipped"}
    /\ SetLastFire(e.job, e.fire)
    /\ IF e.stage = "marked" THEN Write(e.job, e.fire, "fired") ELSE ending' = {}
    /\ UNCHANGED <<now, jobs, run, tries, broken, pc, todo, blocked, wake, inputs, faults>>

\* After a failure: the retry that is left, or the end of the fire, which may
\* open the breaker.
Retry(j, f) ==
    /\ run' = [run EXCEPT ![j][f] = "retrying"]
    /\ tries' = [tries EXCEPT ![j][f] = @ + 1]
    /\ UNCHANGED broken

Fail(j) ==
    /\ \/ UNCHANGED broken
       \/ jobs[j].breaker /\ broken' = broken \cup {j}
    /\ UNCHANGED <<run, tries>>

Fails(j, f) == IF tries[j][f] <= jobs[j].retries THEN Retry(j, f) ELSE Fail(j)

\* No sentinel: the number of attempts is not looked at.
Lost(j, f) == IF jobs[j].lost THEN Retry(j, f) ELSE Fail(j)

Succeeds(j) ==
    /\ broken' = broken \ {j}
    /\ UNCHANGED <<run, tries>>

\* _wake is set for a retry and, but for a LOST run, for the downstreams.
WakesFor(e) == \/ run'[e.job][e.fire] = "retrying"
               \/ e.stage = "fired" /\ \E d \in Job : e.job \in jobs[d].after

Settle(e) ==
    /\ e.stage \in {"fired", "lost"}
    /\ IF run[e.job][e.fire] = "succeeded" THEN Succeeds(e.job)
       ELSE IF e.stage = "lost" THEN Lost(e.job, e.fire)
       ELSE Fails(e.job, e.fire)
    /\ wake' = (wake \/ (pc = "recover" /\ WakesFor(e)))
    /\ IF e.stage = "lost" THEN Write(e.job, e.fire, "late") ELSE ending' = {}
    /\ UNCHANGED <<now, jobs, last, pc, todo, blocked, hist>>

\* The operator resumes the job; the next pass clears the breaker.
Resume(j) ==
    /\ pc = "sleep" /\ j \in broken
    /\ broken' = broken \ {j}
    /\ UNCHANGED <<now, jobs, run, tries, last, memory, hist>>

Crash ==
    /\ faults < MaxFaults
    /\ faults' = faults + 1
    /\ pc' = "recover"
    /\ todo' = {r \in Job \X Fire : run[r[1]][r[2]] \in {"queued", "open"}}
    /\ blocked' = [j \in Job |-> NoTime]
    /\ wake' = FALSE /\ ending' = {}
    /\ outdated' = outdated \cup {e.job : e \in {x \in ending : OwesLastFire(x)}}
    /\ UNCHANGED <<now, jobs, run, tries, last, broken, inputs>>

\* CLAIMED rows are launched; RUNNING ones take the outcome of the sentinel (and
\* set last_fire once more, to the same) or are LOST.
RecoverClaimed(j, f) ==
    /\ run[j][f] = "queued"
    /\ SetLastFire(j, f)
    /\ UNCHANGED <<run, ending>>

RecoverRunning(j, f) ==
    /\ run[j][f] = "open"
    /\ \/ Outcome(j, f) /\ Write(j, f, "marked")
       \/ run' = [run EXCEPT ![j][f] = "failed"] /\ Write(j, f, "lost")
    /\ UNCHANGED <<last, outdated>>

Recover(j, f) ==
    /\ pc = "recover" /\ <<j, f>> \in todo
    /\ todo' = todo \ {<<j, f>>}
    /\ RecoverClaimed(j, f) \/ RecoverRunning(j, f)
    /\ UNCHANGED <<now, jobs, tries, broken, pc, blocked, wake, inputs, faults>>

RecoverDone ==
    /\ pc = "recover" /\ todo = {}
    /\ pc' = "dispatch"
    /\ UNCHANGED <<now, jobs, run, tries, last, broken, todo, blocked, wake, ending, hist>>

TimePasses ==
    /\ pc = "sleep" /\ now < Horizon
    /\ now' = now + 1
    /\ UNCHANGED <<jobs, run, tries, last, broken, memory, hist>>

-----------------------------------------------------------------------------

Consider(j) ==
    \/ HeldByBreaker(j) \/ Hold(j) \/ OnSuccess(j)
    \/ \E u \in Job : RunAnyway(j, u) \/ KeepWaiting(j, u) \/ Skip(j, u)

Pass == \/ Wake \/ DispatchTriggered \/ Sleep \/ PassAgain \/ RecoverDone
        \/ \E j \in Job : Consider(j)
        \/ \E j \in Job, f \in Fire : SweepRetry(j, f) \/ Recover(j, f)

\* There is no await between the writes of an end: of all the others, only a
\* crash comes between them.
Loop == \/ ending = {} /\ Pass
        \/ \E e \in ending : SaveLastFire(e) \/ Settle(e)

Outside == \/ \E j \in Job : Dispatch(j) \/ Resume(j)
           \/ \E j \in Job, f \in Fire : End(j, f)
           \/ TimePasses

Next == Loop \/ (ending = {} /\ Outside) \/ Crash

Spec == Init /\ [][Next]_vars
FairSpec == Spec /\ WF_vars(Loop)

-----------------------------------------------------------------------------

\* A success of an upstream starts the downstream at most once: it "won't
\* re-run a downstream on stale data" (DESIGN O12).
Disjoint(j) == \A f, g \in Fire : f # g => inputs[j][f] \cap inputs[j][g] = {}
FreshInputs == \A j \in Job : Disjoint(j)

\* What it takes to consume a success twice is that last_fire of the downstream
\* moved back, that a crash fell between the outcome of its run and the
\* set_last_fire after it, or that its runs may overlap: passes, other crashes,
\* retries and manual triggers never do it.
FreshWhileInOrder ==
    \A j \in Job : j \notin outdated /\ jobs[j].concurrency = 1 => Disjoint(j)

\* The end of the row is written and its consequences are not.
Unsettled(j, f) ==
    \E e \in ending : e.job = j /\ e.fire = f /\ e.stage \in {"marked", "fired", "lost"}

\* A row that is SKIPPED names a fire at which some upstream failed for good
\* ("upstream X failed"), and a run started on successes is for the newest of
\* them.
RowsComeFromUpstream ==
    \A j \in Job, f \in Fire :
        /\ run[j][f] = "skipped" =>
              \E u \in jobs[j].after : run[u][f] = "failed" /\ ~Unsettled(u, f)
        /\ inputs[j][f] # {} =>
              /\ \E u \in jobs[j].after : <<u, f>> \in inputs[j][f]
              /\ \A r \in inputs[j][f] : r[2] <= f /\ run[r[1]][r[2]] = "succeeded"

\* A downstream all of whose upstreams have a fresh success gets its run for
\* it, unless it is in quarantine or busy: no trigger is forgotten, over
\* crashes either.
Overlooked(j) ==
    /\ Triggered(j) /\ j \notin broken
    /\ AllFresh(j) /\ Open(j) = {}
    /\ run[j][ReadyAt(j)] = "absent"
TriggersHappen == \A j \in Job : [](Overlooked(j) => <>~Overlooked(j))
=============================================================================
