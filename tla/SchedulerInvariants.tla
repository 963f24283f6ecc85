------------------------ MODULE SchedulerInvariants ------------------------
(***************************************************************************)
(* Proofs about Scheduler, second part: the breaker counts fires and opens *)
(* only when earned, the cursors stay behind the clock, and recovery       *)
(* leaves neither a row without a task nor an orphan that it could kill.   *)
(***************************************************************************)
EXTENDS SchedulerProofs, FiniteSetTheorems

-----------------------------------------------------------------------------
(* The breaker opens when earned.                                          *)

\* What the statements on job_clock do to the breaker's columns.
LEMMA ClockEffect ==
    ASSUME NEW C \in [Job -> JobState], NEW j \in Job, NEW s \in JobState, NEW t
    PROVE  /\ \A i \in Job :
                 /\ SetLastFire(C, j, t)[i].fails = C[i].fails
                 /\ SetLastFire(C, j, t)[i].quarantined = C[i].quarantined
                 /\ RequestResume(C, j, t)[i].fails = C[i].fails
                 /\ RequestResume(C, j, t)[i].quarantined = C[i].quarantined
                 /\ i # j => SaveJobState(C, j, s, t)[i] = C[i]
           /\ SaveJobState(C, j, s, t)[j].fails = s.fails
           /\ SaveJobState(C, j, s, t)[j].quarantined = s.quarantined
<1>1. \A i \in Job : C[i] \in JobState
  OBVIOUS
<1>2. \A i \in Job : SetLastFire(C, j, t)[i].fails = C[i].fails
                     /\ SetLastFire(C, j, t)[i].quarantined = C[i].quarantined
  BY <1>1 DEF SetLastFire, JobState
<1>3. \A i \in Job : RequestResume(C, j, t)[i].fails = C[i].fails
                     /\ RequestResume(C, j, t)[i].quarantined = C[i].quarantined
  BY <1>1 DEF RequestResume, JobState
<1>4. /\ \A i \in Job : i # j => SaveJobState(C, j, s, t)[i] = C[i]
      /\ SaveJobState(C, j, s, t)[j].fails = s.fails
      /\ SaveJobState(C, j, s, t)[j].quarantined = s.quarantined
  BY <1>1 DEF SaveJobState, JobState
<1> QED BY <1>2, <1>3, <1>4

LEMMA ClearEffect ==
    ASSUME NEW s \in JobState
    PROVE  ClearQuarantine(s).fails = 0 /\ ClearQuarantine(s).quarantined = NoTime
BY DEF ClearQuarantine, JobState

\* _update_health: a failure counts one, anything else counts none; the stamp
\* is set when the count is enough or the breaker was open, and nowhere else.
LEMMA HealthEffect ==
    ASSUME TypeOK, NEW j \in Job, NEW o
    PROVE  LET s == clock[j]
               h == Health(j, o)
           IN  /\ o \in Failure => h.fails = s.fails + 1
               /\ o \notin Failure => h.fails = 0 /\ ~Quarantined(h)
               /\ o \in Failure /\ Quarantined(h) =>
                     \/ Quarantined(s)
                     \/ /\ jobs[j].quarantineAfter > 0
                        /\ h.fails >= jobs[j].quarantineAfter
<1>1. clock[j] \in JobState
  BY DEF TypeOK
<1>2. CASE o \in Failure
  <2> DEFINE opens == /\ jobs[j].quarantineAfter > 0
                      /\ clock[j].fails + 1 >= jobs[j].quarantineAfter
             q == IF Quarantined(clock[j]) \/ opens THEN now ELSE clock[j].quarantined
  <2>1. Health(j, o) = [clock[j] EXCEPT !.fails = clock[j].fails + 1, !.quarantined = q]
    BY <1>2, Zenon DEF Health
  <2>2. ~Quarantined(clock[j]) /\ ~opens => q = NoTime
    BY DEF Quarantined
  <2> HIDE DEF q
  <2>3. /\ Health(j, o).fails = clock[j].fails + 1
        /\ Health(j, o).quarantined = q
    BY <1>1, <2>1 DEF JobState
  <2> QED BY <1>2, <2>2, <2>3 DEF Quarantined
<1>3. CASE o \notin Failure
  <2>1. CASE Quarantined(clock[j])
    <3>1. Health(j, o) = ClearQuarantine(clock[j])
      BY <1>3, <2>1 DEF Health
    <3> QED BY <1>1, <1>3, <3>1, ClearEffect DEF Quarantined
  <2>2. CASE ~Quarantined(clock[j])
    <3>1. Health(j, o) = [clock[j] EXCEPT !.fails = 0]
      BY <1>3, <2>2 DEF Health
    <3> QED BY <1>1, <1>3, <2>2, <3>1 DEF Quarantined, JobState
  <2> QED BY <2>1, <2>2
<1> QED BY <1>2, <1>3

\* What a step does to the breaker's columns of a job.
LEMMA BreakerStep ==
    ASSUME TypeOK, Bookkeeping, [Next]_vars, NEW j \in Job
    PROVE  \/ /\ clock'[j].fails = clock[j].fails
              /\ clock'[j].quarantined = clock[j].quarantined
           \/ clock'[j].fails = 0 /\ ~Quarantined(clock'[j])
           \/ \E k \in Key :
                 /\ SettleFinal(k) /\ k.job = j /\ runs[k].state \in Failure
                 /\ clock'[j].fails = clock[j].fails + 1
                 /\ Quarantined(clock'[j]) =>
                       \/ Quarantined(clock[j])
                       \/ /\ jobs[j].quarantineAfter > 0
                          /\ clock'[j].fails >= jobs[j].quarantineAfter
<1> USE DEF store, os, memory, hist
<1>1. /\ clock \in [Job -> JobState] /\ clock[j] \in JobState
      /\ \A k \in Key : k.job \in Job /\ k.fire \in Time
  BY KeyFacts DEF TypeOK
<1>2. CASE UNCHANGED clock
  BY <1>2
<1>3. ASSUME NEW i \in Job, NEW t, clock' = SetLastFire(clock, i, t)
      PROVE  clock'[j].fails = clock[j].fails /\ clock'[j].quarantined = clock[j].quarantined
  BY <1>1, <1>3, ClockEffect
<1>4. ASSUME NEW k \in Key, Recover(k)
      PROVE  \/ UNCHANGED clock
             \/ clock' = SetLastFire(clock, k.job, k.fire)
  BY <1>4 DEF Recover, RecoverRemoved, RecoverRetrying, RecoverClaimed,
              RecoverFromSentinel, RecoverLost
<1>5. ASSUME NEW i \in Job, CatchUp(i)
      PROVE  \/ UNCHANGED clock
             \/ \E f \in Missed(i) : clock' = SetLastFire(clock, i, f)
  BY <1>5 DEF CatchUp
<1>6. ASSUME NEW i \in Job, NEW f \in Time, SkipQuarantined(i, f)
      PROVE  clock'[j].fails = clock[j].fails /\ clock'[j].quarantined = clock[j].quarantined
  <2>1. clock' = [clock EXCEPT ![i].skipped = @ + 1, ![i].last = f]
    BY <1>6 DEF SkipQuarantined
  <2> QED BY <1>1, <2>1 DEF JobState
<1>7. ASSUME NEW i \in Job, NEW f \in Time, DispatchDue(i, f)
      PROVE  \/ clock'[j] = clock[j]
             \/ clock'[j].fails = 0 /\ ~Quarantined(clock'[j])
  <2>1. CASE clock' = clock
    BY <2>1
  <2>2. CASE clock' = SaveJobState(clock, i, ClearQuarantine(clock[i]), now)
    <3>1. clock[i] \in JobState /\ ClearQuarantine(clock[i]) \in JobState
      BY <1>1, ClockType, HorizonAssumption DEF ClearQuarantine, JobState
    <3>2. i = j => clock'[j].fails = 0 /\ clock'[j].quarantined = NoTime
      BY <1>1, <2>2, <3>1, ClockEffect, ClearEffect
    <3>3. i # j => clock'[j] = clock[j]
      BY <1>1, <2>2, <3>1, ClockEffect
    <3> QED BY <3>2, <3>3 DEF Quarantined
  <2> QED BY <1>7, <2>1, <2>2 DEF DispatchDue
<1>8. ASSUME NEW i \in Job, Resume(i)
      PROVE  clock'[j].fails = clock[j].fails /\ clock'[j].quarantined = clock[j].quarantined
  <2>1. clock' = RequestResume(clock, i, now)
    BY <1>8 DEF Resume
  <2> QED BY <1>1, <2>1, ClockEffect
<1>9. ASSUME NEW k \in Key, AfterTerminal(k) \/ RecoverLast(k)
      PROVE  clock' = SetLastFire(clock, k.job, k.fire)
  BY <1>9 DEF AfterTerminal, RecoverLast
<1>10. ASSUME NEW k \in Key, SettleFinal(k)
       PROVE  \/ clock'[j].fails = clock[j].fails
                 /\ clock'[j].quarantined = clock[j].quarantined
              \/ clock'[j].fails = 0 /\ ~Quarantined(clock'[j])
              \/ /\ k.job = j /\ runs[k].state \in Failure
                 /\ clock'[j].fails = clock[j].fails + 1
                 /\ Quarantined(clock'[j]) =>
                       \/ Quarantined(clock[j])
                       \/ /\ jobs[j].quarantineAfter > 0
                          /\ clock'[j].fails >= jobs[j].quarantineAfter
  <2> DEFINE h == Health(k.job, runs[k].state)
  <2>1. h \in JobState
    BY <1>1, HealthType
  <2>2. CASE clock' = clock
    BY <2>2
  <2>3. CASE clock' = SaveJobState(clock, k.job, h, now) /\ k.job = j
    <3>1. clock'[j].fails = h.fails /\ clock'[j].quarantined = h.quarantined
      BY <1>1, <2>1, <2>3, ClockEffect
    <3>2. /\ runs[k].state \in Failure => h.fails = clock[j].fails + 1
          /\ runs[k].state \notin Failure => h.fails = 0 /\ ~Quarantined(h)
          /\ runs[k].state \in Failure /\ Quarantined(h) =>
                \/ Quarantined(clock[j])
                \/ /\ jobs[j].quarantineAfter > 0
                   /\ h.fails >= jobs[j].quarantineAfter
      BY <1>1, <2>3, HealthEffect
    <3> HIDE DEF h
    <3> QED BY <2>3, <3>1, <3>2 DEF Quarantined
  <2>4. CASE clock' = SaveJobState(clock, k.job, h, now) /\ k.job # j
    BY <1>1, <2>1, <2>4, ClockEffect
  <2> QED BY <1>10, <2>2, <2>3, <2>4 DEF SettleFinal, UpdateHealth
<1>11. CASE \/ RecoverDone \/ CatchUpDone \/ Sleep \/ PassAgain \/ Wake \/ Stop \/ Boot
            \/ DispatchAdhoc
            \/ \E i \in Job : SequenceNext(i) \/ Trigger(i)
            \/ \E k \in Key : \/ SweepRetry(k) \/ StartTask(k) \/ Spawn(k)
                              \/ SpawnFails(k) \/ RecordPid(k) \/ FinishRun(k)
                              \/ SettleRetry(k) \/ TimeoutFires(k)
                              \/ ProcExit(k) \/ ProcReap(k) \/ ProcVanish(k)
            \/ RequestDrain \/ RequestKill \/ TimePasses \/ Crash \/ UNCHANGED vars
  <2>1. UNCHANGED clock
    BY <1>11
    DEF RecoverDone, CatchUpDone, Sleep, PassAgain, Wake, Stop, Boot, DispatchAdhoc, SequenceNext,
        Trigger, SweepRetry, StartTask, Spawn, SpawnFails, RecordPid, FinishRun,
        SettleRetry, TimeoutFires, ProcExit, ProcReap, ProcVanish, RequestDrain,
        RequestKill, TimePasses, Crash, vars
  <2> QED BY <2>1
<1> QED
  BY <1>1, <1>2, <1>3, <1>4, <1>5, <1>6, <1>7, <1>8, <1>9, <1>10, <1>11
  DEF Next, Loop, Coroutines, Work, Environment

\* A quarantine, however it came about, is backed by enough counted failures.
THEOREM QuarantineIsEarnedCorrect == Spec => []QuarantineIsEarned
<1>1. Init => QuarantineIsEarned
  BY DEF Init, QuarantineIsEarned, Quarantined, NoClock
<1>2. TypeOK /\ Bookkeeping /\ QuarantineIsEarned /\ [Next]_vars => QuarantineIsEarned'
  <2> SUFFICES ASSUME TypeOK, Bookkeeping, QuarantineIsEarned, [Next]_vars,
                      NEW j \in Job, Quarantined(clock'[j])
               PROVE  /\ jobs[j].quarantineAfter > 0
                      /\ clock'[j].fails >= jobs[j].quarantineAfter
    BY JobsFixed DEF QuarantineIsEarned, Quarantined
  <2>1. /\ clock[j].fails \in Nat
        /\ jobs[j].quarantineAfter \in Nat
    BY ConfigAssumption DEF TypeOK, JobState, JobConfig
  <2>2. Quarantined(clock[j]) => /\ jobs[j].quarantineAfter > 0
                                 /\ clock[j].fails >= jobs[j].quarantineAfter
    BY DEF QuarantineIsEarned
  <2> QED BY <2>1, <2>2, BreakerStep DEF Quarantined
<1> QED BY <1>1, <1>2, TypeCorrect, BookkeepingCorrect, PTL DEF Spec

-----------------------------------------------------------------------------
(* Fires are counted once.                                                 *)

\* The outcome of a run is stored, its retry or its health update is not.
Unsettled == {"last", "settle", "lost"}

\* The attempts of a fire come one after the other: when there is a later one,
\* an earlier one has failed, is settled, and was followed by the next.
Ordered ==
    \A k \in Key, q \in Key :
        k.job = q.job /\ k.fire = q.fire /\ k.attempt < q.attempt /\ Exists(runs, q)
            => /\ runs[k].state \in Failure
               /\ task[k] \notin Unsettled
               /\ Exists(runs, NextAttempt(k))

\* The failed fires whose failure may have been counted already.
Counted(j) ==
    {f \in FailedFires(j) :
        \A k \in Key : k.job = j /\ k.fire = f => task[k] \notin Unsettled}

CountsFires == \A j \in Job : clock[j].fails <= Cardinality(Counted(j))

\* A task gets into these steps by the outcome of a running row.
LEMMA UnsettledAppears ==
    ASSUME TypeOK, Bookkeeping, [Next]_vars, NEW q \in Key,
           task'[q] \in Unsettled, task[q] \notin Unsettled
    PROVE  runs[q].state = "running"
<1> USE DEF store, os, memory, hist
<1>1. task \in [Key -> TaskStep] /\ Agree(q) /\ task'[q] # task[q]
  BY DEF TypeOK, Bookkeeping
<1>2. ASSUME NEW k \in Key, Recover(k) PROVE runs[q].state = "running"
  BY <1>1, <1>2 DEF Recover, RecoverRemoved, RecoverRetrying, RecoverClaimed,
                    RecoverFromSentinel, RecoverLost, Unsettled
<1>3. ASSUME NEW k \in Key, Work(k) \/ TimeoutFires(k) PROVE runs[q].state = "running"
  BY <1>1, <1>3 DEF Work, TimeoutFires, StartTask, Spawn, SpawnFails, RecordPid,
                    FinishRun, AfterTerminal, SettleRetry, SettleFinal, Settled,
                    RecoverLast, Unsettled, Agree
<1>4. ASSUME NEW k \in Key, ClaimAndLaunch(k) PROVE FALSE
  BY <1>1, <1>4 DEF ClaimAndLaunch, Unsettled
<1>5. CASE \/ DispatchAdhoc
           \/ \E j \in Job, f \in Time : DispatchDue(j, f)
           \/ \E k \in Key : SweepRetry(k)
           \/ \E j \in Job : SequenceNext(j)
  <2>1. \A j \in Job, t \in Time : First(j, t) \in Key
    BY KeyFacts
  <2>2. ASSUME DispatchAdhoc PROVE FALSE
    <3>1. Head(adhoc) \in Job /\ now \in Time
      BY <2>2 DEF DispatchAdhoc, TypeOK
    <3> QED BY <1>1, <1>4, <2>1, <2>2, <3>1 DEF DispatchAdhoc
  <2>3. ASSUME NEW j \in Job, NEW f \in Time, DispatchDue(j, f) PROVE FALSE
    BY <1>1, <1>4, <2>1, <2>3 DEF DispatchDue
  <2>4. ASSUME NEW k \in Key, SweepRetry(k) PROVE FALSE
    BY <1>1, <2>4 DEF SweepRetry, Unsettled
  <2>5. ASSUME NEW j \in Job, SequenceNext(j) PROVE FALSE
    BY <1>1, <2>5 DEF SequenceNext, Unsettled
  <2> QED BY <1>5, <2>2, <2>3, <2>4, <2>5
<1>6. CASE Stop \/ Crash
  BY <1>6, ForgetAgree DEF Unsettled
<1>7. CASE \/ RecoverDone \/ CatchUpDone \/ Sleep \/ PassAgain \/ Wake \/ Boot
           \/ \E j \in Job : CatchUp(j) \/ Trigger(j) \/ Resume(j)
           \/ \E j \in Job, f \in Time : SkipQuarantined(j, f)
           \/ \E k \in Key : ProcExit(k) \/ ProcReap(k) \/ ProcVanish(k)
           \/ RequestDrain \/ RequestKill \/ TimePasses \/ UNCHANGED vars
  <2>1. UNCHANGED task
    BY <1>7
    DEF RecoverDone, CatchUpDone, Sleep, PassAgain, Wake, Boot, CatchUp, Trigger, Resume,
        SkipQuarantined, ProcExit, ProcReap, ProcVanish, RequestDrain,
        RequestKill, TimePasses, vars
  <2> QED BY <1>1, <2>1
<1> QED
  BY <1>2, <1>3, <1>5, <1>6, <1>7 DEF Next, Loop, Coroutines, Environment

\* Rows are never deleted.
LEMMA RowsStay ==
    ASSUME [Lifecycle!Next]_Lifecycle!vars, NEW q \in Key, Exists(runs, q)
    PROVE  Exists(runs', q)
<1>1. ASSUME NEW a \in Key, NEW from, NEW to, Lifecycle!Move(a, from, to), to # "absent"
      PROVE  Exists(runs', q)
  BY <1>1 DEF Lifecycle!Move, Exists
<1>2. \A o \in Lifecycle!Failure : o # "absent"
  BY DEF Lifecycle!Failure
<1>3. CASE UNCHANGED Lifecycle!vars
  BY <1>3 DEF Lifecycle!vars, Exists
<1>4. ASSUME NEW a \in Key, Lifecycle!Spawn(a) PROVE Exists(runs', q)
  BY <1>4 DEF Lifecycle!Spawn, Exists
<1>5. ASSUME NEW a \in Key,
             \/ Lifecycle!Claim(a) \/ Lifecycle!Reclaim(a) \/ Lifecycle!Start(a)
             \/ Lifecycle!Succeed(a) \/ Lifecycle!Fail(a) \/ Lifecycle!Abandon(a)
             \/ Lifecycle!Retry(a)
      PROVE  Exists(runs', q)
  BY <1>1, <1>2, <1>5
  DEF Lifecycle!Claim, Lifecycle!Reclaim, Lifecycle!Start, Lifecycle!Succeed,
      Lifecycle!Fail, Lifecycle!Abandon, Lifecycle!Retry
<1> QED BY <1>3, <1>4, <1>5 DEF Lifecycle!Next

\* A row of a second or later attempt comes from the settling of the one before.
LEMMA NextAppears ==
    ASSUME TypeOK, Bookkeeping, [Next]_vars, NEW q \in Key, q.attempt # 1,
           ~Exists(runs, q), Exists(runs', q)
    PROVE  \E k \in Key : SettleRetry(k) /\ q = NextAttempt(k)
<1>1. runs[q].state = "absent" /\ runs'[q].state = "retrying"
  BY NextLifecycle, LifecycleRows DEF Exists
<1> QED BY <1>1, RetryingIsSettled

\* The row that is settled has failed, and is settled now.
LEMMA SettledRetry ==
    ASSUME TypeOK, Bookkeeping, NEW k \in Key, SettleRetry(k)
    PROVE  /\ runs[k].state \in Failure
           /\ task[k] \in Unsettled /\ task'[k] \notin Unsettled
           /\ \A q \in Key \ {k} : task'[q] = task[q]
<1>1. task \in [Key -> TaskStep] /\ Agree(k)
  BY DEF TypeOK, Bookkeeping
<1>2. runs[k].state \in Failure /\ task[k] \in Unsettled
  BY <1>1 DEF SettleRetry, RetryLeft, Agree, Retryable, Failure, Unsettled
<1> QED BY <1>1, <1>2 DEF SettleRetry, Settled, Unsettled

LEMMA NextOrdered == TypeOK /\ Bookkeeping /\ Ordered /\ [Next]_vars => Ordered'
<1> SUFFICES ASSUME TypeOK, Bookkeeping, Ordered, [Next]_vars,
                    NEW k \in Key, NEW q \in Key, k.job = q.job, k.fire = q.fire,
                    k.attempt < q.attempt, Exists(runs', q)
             PROVE  /\ runs'[k].state \in Failure
                    /\ task'[k] \notin Unsettled
                    /\ Exists(runs', NextAttempt(k))
  BY DEF Ordered, Exists
<1>1. [Lifecycle!Next]_Lifecycle!vars
  BY NextLifecycle
<1>2. /\ k.attempt \in Int /\ q.attempt \in Int /\ 1 <= k.attempt
      /\ q.attempt <= MaxAttempt /\ MaxAttempt \in Int
  BY KeyFacts, MaxAttemptAssumption
<1>3. k.attempt < MaxAttempt /\ q.attempt # 1
  BY <1>2
<1>4. NextAttempt(k) \in Key
  BY <1>3, KeyFacts
<1>5. CASE Exists(runs, q)
  <2>1. /\ runs[k].state \in Failure /\ task[k] \notin Unsettled
        /\ Exists(runs, NextAttempt(k))
    BY <1>5 DEF Ordered
  <2>2. runs'[k].state \in Failure
    BY <1>1, <2>1, LifecycleRows
  <2>3. task'[k] \notin Unsettled
    BY <2>1, UnsettledAppears DEF Failure
  <2> QED BY <1>1, <1>4, <2>1, <2>2, <2>3, RowsStay
<1>6. CASE ~Exists(runs, q)
  <2>1. PICK a \in Key : SettleRetry(a) /\ q = NextAttempt(a)
    BY <1>3, <1>6, NextAppears
  <2>2. /\ a.job = q.job /\ a.fire = q.fire /\ q.attempt = a.attempt + 1
        /\ a.attempt \in Int
    BY <2>1 DEF NextAttempt, Key
  <2>3. /\ runs[a].state \in Failure /\ task'[a] \notin Unsettled
        /\ \A r \in Key \ {a} : task'[r] = task[r]
    BY <2>1, SettledRetry
  <2>4. CASE k = a
    <3>1. runs'[k].state \in Failure
      BY <1>1, <2>3, <2>4, LifecycleRows
    <3> QED BY <2>1, <2>3, <2>4, <3>1
  <2>5. CASE k # a
    <3>1. k.attempt # a.attempt
      BY <2>2, <2>5 DEF Key
    <3>2. k.attempt < a.attempt
      BY <1>2, <2>2, <3>1
    <3>3. Exists(runs, a)
      BY <2>3 DEF Exists, Failure
    <3>4. /\ runs[k].state \in Failure /\ task[k] \notin Unsettled
          /\ Exists(runs, NextAttempt(k))
      BY <2>2, <3>2, <3>3 DEF Ordered
    <3>5. runs'[k].state \in Failure
      BY <1>1, <3>4, LifecycleRows
    <3> QED BY <1>1, <1>4, <2>3, <2>5, <3>4, <3>5, RowsStay
  <2> QED BY <2>4, <2>5
<1> QED BY <1>5, <1>6

LEMMA CountedFinite ==
    ASSUME NEW j \in Job
    PROVE  IsFiniteSet(Counted(j)) /\ IsFiniteSet(FailedFires(j))
           /\ Counted(j) \subseteq FailedFires(j)
<1>1. IsFiniteSet(Time)
  BY FS_Interval, HorizonAssumption DEF Time
<1>2. Counted(j) \subseteq FailedFires(j) /\ FailedFires(j) \subseteq Time
  BY DEF Counted, FailedFires
<1> QED BY <1>1, <1>2, FS_Subset

\* A fire that is counted stays counted: its last attempt is over for good.
LEMMA CountedStays ==
    ASSUME TypeOK, Bookkeeping, Ordered, [Next]_vars, NEW j \in Job
    PROVE  Counted(j) \subseteq Counted(j)'
<1> SUFFICES ASSUME NEW f \in Counted(j) PROVE f \in Counted(j)'
  OBVIOUS
<1>1. f \in Time /\ \A q \in Key : q.job = j /\ q.fire = f => task[q] \notin Unsettled
  BY DEF Counted, FailedFires
<1>2. PICK k \in Key : /\ k.job = j /\ k.fire = f /\ runs[k].state \in Failure
                       /\ k.attempt < MaxAttempt => ~Exists(runs, NextAttempt(k))
  BY DEF Counted, FailedFires
<1>3. runs'[k].state \in Failure
  BY <1>2, NextLifecycle, LifecycleRows
<1>4. k.attempt < MaxAttempt => ~Exists(runs', NextAttempt(k))
  <2> SUFFICES ASSUME k.attempt < MaxAttempt, Exists(runs', NextAttempt(k)) PROVE FALSE
    OBVIOUS
  <2>1. NextAttempt(k) \in Key /\ NextAttempt(k).attempt # 1
    BY KeyFacts DEF NextAttempt, Key
  <2>2. PICK a \in Key : SettleRetry(a) /\ NextAttempt(k) = NextAttempt(a)
    BY <1>2, <2>1, NextAppears
  <2>3. a = k
    BY <2>2 DEF NextAttempt, Key
  <2> QED BY <1>1, <1>2, <2>2, <2>3, SettledRetry
<1>5. ASSUME NEW q \in Key, q.job = j, q.fire = f PROVE task'[q] \notin Unsettled
  <2> SUFFICES ASSUME task'[q] \in Unsettled PROVE FALSE
    OBVIOUS
  <2>1. runs[q].state = "running"
    BY <1>1, <1>5, UnsettledAppears
  <2>2. /\ k.attempt \in Int /\ q.attempt \in Int /\ MaxAttempt \in Int
        /\ q.attempt <= MaxAttempt
    BY KeyFacts, MaxAttemptAssumption
  <2>3. q.attempt # k.attempt
    <3>1. q # k
      BY <1>2, <2>1 DEF Failure
    <3> QED BY <1>2, <1>5, <3>1 DEF Key
  <2>4. CASE q.attempt < k.attempt
    <3>1. Exists(runs, k)
      BY <1>2 DEF Exists, Failure
    <3> QED BY <1>2, <1>5, <2>1, <2>4, <3>1 DEF Ordered, Failure
  <2>5. CASE k.attempt < q.attempt
    <3>1. Exists(runs, q) /\ k.attempt < MaxAttempt
      BY <2>1, <2>2, <2>5 DEF Exists
    <3> QED BY <1>2, <1>5, <2>5, <3>1 DEF Ordered
  <2> QED BY <2>2, <2>3, <2>4, <2>5
<1> QED BY <1>1, <1>2, <1>3, <1>4, <1>5 DEF Counted, FailedFires

\* Settling a failure for good adds its fire to the counted ones.
LEMMA CountedGrows ==
    ASSUME TypeOK, Bookkeeping, Ordered, [Next]_vars, NEW k \in Key,
           SettleFinal(k), runs[k].state \in Failure
    PROVE  k.fire \in Counted(k.job)' /\ k.fire \notin Counted(k.job)
<1>1. /\ task \in [Key -> TaskStep] /\ k.fire \in Time
      /\ task[k] \in Unsettled /\ task'[k] \notin Unsettled
      /\ \A q \in Key \ {k} : task'[q] = task[q]
      /\ UNCHANGED runs
  BY KeyFacts DEF TypeOK, SettleFinal, Settled, Unsettled
<1>2. k.fire \notin Counted(k.job)
  BY <1>1 DEF Counted
<1>3. k.attempt < MaxAttempt => ~Exists(runs, NextAttempt(k))
  <2> SUFFICES ASSUME k.attempt < MaxAttempt, Exists(runs, NextAttempt(k)) PROVE FALSE
    OBVIOUS
  <2>1. /\ NextAttempt(k) \in Key /\ NextAttempt(k).job = k.job
        /\ NextAttempt(k).fire = k.fire /\ k.attempt < NextAttempt(k).attempt
    BY KeyFacts DEF NextAttempt, Key
  <2> QED BY <1>1, <2>1 DEF Ordered
<1>4. ASSUME NEW q \in Key, q.job = k.job, q.fire = k.fire
      PROVE  task'[q] \notin Unsettled
  <2> SUFFICES ASSUME q # k, task[q] \in Unsettled PROVE FALSE
    BY <1>1
  <2>1. Exists(runs, q) /\ Exists(runs, k)
    BY <1>1 DEF Bookkeeping, Agree, Unsettled, Exists, Outcome
  <2>2. q.attempt # k.attempt /\ q.attempt \in Int /\ k.attempt \in Int
    BY <1>4, KeyFacts DEF Key
  <2>3. q.attempt < k.attempt \/ k.attempt < q.attempt
    BY <2>2
  <2> QED BY <1>1, <1>4, <2>1, <2>3 DEF Ordered
<1> QED BY <1>1, <1>2, <1>3, <1>4 DEF Counted, FailedFires, Exists

LEMMA NextCountsFires ==
    TypeOK /\ Bookkeeping /\ Ordered /\ CountsFires /\ [Next]_vars => CountsFires'
<1> SUFFICES ASSUME TypeOK, Bookkeeping, Ordered, CountsFires, [Next]_vars, NEW j \in Job
             PROVE  clock'[j].fails <= Cardinality(Counted(j)')
  BY DEF CountsFires
<1> DEFINE C == Counted(j)
           D == Counted(j)'
<1>1. IsFiniteSet(C) /\ IsFiniteSet(D)
  <2>1. IsFiniteSet(Time)
    BY FS_Interval, HorizonAssumption DEF Time
  <2>2. D \subseteq Time
    BY DEF Counted, FailedFires
  <2> QED BY <2>1, <2>2, FS_Subset, CountedFinite
<1>2. C \subseteq D
  BY CountedStays
<1>3. clock[j].fails \in Nat /\ clock[j].fails <= Cardinality(C)
  BY DEF CountsFires, TypeOK, JobState
<1>4. ASSUME NEW k \in Key, SettleFinal(k), k.job = j, runs[k].state \in Failure
      PROVE  k.fire \in D /\ k.fire \notin C
  BY <1>4, CountedGrows
<1> HIDE DEF C, D
<1>5. /\ Cardinality(C) \in Nat /\ Cardinality(D) \in Nat
      /\ Cardinality(C) <= Cardinality(D)
  BY <1>1, <1>2, FS_Subset, FS_CardinalityType
<1>6. ASSUME NEW k \in Key, SettleFinal(k), k.job = j, runs[k].state \in Failure,
             clock'[j].fails = clock[j].fails + 1
      PROVE  clock'[j].fails <= Cardinality(D)
  <2>1. Cardinality(C \cup {k.fire}) = Cardinality(C) + 1
    BY <1>1, <1>4, <1>6, FS_AddElement
  <2>2. C \cup {k.fire} \subseteq D
    BY <1>2, <1>4, <1>6
  <2>3. Cardinality(C \cup {k.fire}) <= Cardinality(D)
    BY <1>1, <2>2, FS_Subset
  <2> QED BY <1>3, <1>5, <1>6, <2>1, <2>3
<1>7. clock'[j].fails <= Cardinality(D)
  BY <1>3, <1>5, <1>6, BreakerStep
<1> QED BY <1>7 DEF D

\* consecutive_failures never exceeds the number of fires that really failed,
\* however many attempts, crashes and recoveries a fire has been through.
THEOREM FiresCountedOnceCorrect == Spec => []FiresCountedOnce
<1>1. Init => Ordered /\ CountsFires
  <2> SUFFICES ASSUME Init PROVE Ordered /\ CountsFires
    OBVIOUS
  <2>1. Ordered
    BY DEF Init, Ordered, Exists, NoRow
  <2>2. ASSUME NEW j \in Job PROVE clock[j].fails <= Cardinality(Counted(j))
    <3>1. clock[j].fails = 0
      BY DEF Init, NoClock
    <3> QED BY <3>1, CountedFinite, FS_CardinalityType
  <2> QED BY <2>1, <2>2 DEF CountsFires
<1>2. TypeOK /\ CountsFires => FiresCountedOnce
  <2> SUFFICES ASSUME TypeOK, CountsFires, NEW j \in Job
               PROVE  clock[j].fails <= Cardinality(FailedFires(j))
    BY DEF FiresCountedOnce
  <2>1. clock[j].fails \in Nat
    BY DEF TypeOK, JobState
  <2>2. Cardinality(Counted(j)) <= Cardinality(FailedFires(j))
        /\ Cardinality(Counted(j)) \in Nat /\ Cardinality(FailedFires(j)) \in Nat
    BY CountedFinite, FS_Subset, FS_CardinalityType
  <2> QED BY <2>1, <2>2 DEF CountsFires
<1> QED
  BY <1>1, <1>2, NextOrdered, NextCountsFires, TypeCorrect, BookkeepingCorrect, PTL
  DEF Spec

-----------------------------------------------------------------------------
(* The cursors stay behind the clock.                                      *)

\* No row is of a fire to come, nor does a catch-up sequence hold one.
RowsArePast == \A k \in Key : Exists(runs, k) => k.fire <= now
SequencesArePast == \A j \in Job : \A f \in catchup[j].todo : f <= now

LEMMA TimeFacts ==
    ASSUME TypeOK, [Next]_vars
    PROVE  now \in Int /\ now' \in Int /\ now <= now'
<1>1. now \in Int
  BY HorizonAssumption DEF TypeOK, Time
<1>2. CASE TimePasses
  BY <1>1, <1>2 DEF TimePasses
<1>3. CASE [Next]_vars /\ ~TimePasses
  <2>1. now' = now
    BY <1>3
    DEF Next, Loop, Coroutines, Work, Recover, Environment, RecoverRemoved,
        RecoverRetrying, RecoverClaimed, RecoverFromSentinel, RecoverLost,
        RecoverDone, CatchUpDone, Sleep, PassAgain, Wake, Stop, Boot, CatchUp, SkipQuarantined,
        DispatchDue, DispatchAdhoc, SweepRetry, SequenceNext, StartTask, Spawn,
        SpawnFails, RecordPid, FinishRun, AfterTerminal, SettleRetry, SettleFinal,
        RecoverLast, TimeoutFires, ProcExit, ProcReap, ProcVanish, Trigger, Resume,
        RequestDrain, RequestKill, Crash, vars
  <2> QED BY <1>1, <2>1
<1> QED BY <1>2, <1>3

\* The rows a pass or a sequence may add.
LEMMA ClaimedIsPast ==
    ASSUME TypeOK, NEW k \in Key, runs' = Claim(runs, k), k.fire <= now,
           RowsArePast, now' = now
    PROVE  RowsArePast'
<1>1. runs \in [Key -> Row]
  BY DEF TypeOK
<1>2. \A q \in Key \ {k} : runs'[q] = runs[q]
  BY <1>1, InsertEffect
<1> QED BY <1>2 DEF RowsArePast, Exists

LEMMA NextRowsArePast ==
    TypeOK /\ Bookkeeping /\ RowsArePast /\ SequencesArePast /\ [Next]_vars
        => RowsArePast'
<1> SUFFICES ASSUME TypeOK, Bookkeeping, RowsArePast, SequencesArePast, [Next]_vars
             PROVE  RowsArePast'
  OBVIOUS
<1>1. /\ now \in Int /\ now' \in Int /\ now <= now'
      /\ \A q \in Key : q.fire \in Int
      /\ \A j \in Job, t \in Time : First(j, t) \in Key /\ First(j, t).fire = t
  BY TimeFacts, KeyFacts, HorizonAssumption DEF Time, First
<1> USE DEF store, os, memory, hist
<1>2. CASE \A q \in Key : Exists(runs', q) => Exists(runs, q)
  BY <1>1, <1>2 DEF RowsArePast
<1>3. ASSUME NEW q \in Key, Exists(runs', q), ~Exists(runs, q)
      PROVE  RowsArePast'
  <2>1. CASE q.attempt # 1
    <3>1. PICK k \in Key : SettleRetry(k) /\ q = NextAttempt(k)
      BY <1>3, <2>1, NextAppears
    <3>2. q.fire = k.fire /\ Exists(runs, k) /\ now' = now
      BY <3>1, SettledRetry DEF NextAttempt, Key, Exists, Failure, SettleRetry
    <3>3. \A r \in Key \ {q} : runs'[r] = runs[r]
      <4>1. PICK t : runs' = ScheduleRetry(runs, q, t)
        BY <3>1 DEF SettleRetry
      <4>2. runs \in [Key -> Row]
        BY DEF TypeOK
      <4> QED BY <4>1, <4>2, InsertEffect
    <3> QED BY <3>2, <3>3 DEF RowsArePast, Exists
  <2>2. CASE q.attempt = 1
    <3>1. ASSUME NEW j \in Job, NEW f \in Time, DispatchDue(j, f) PROVE RowsArePast'
      <4>1. f <= now /\ now' = now
        BY <3>1 DEF DispatchDue, Visit, IsNewest, Due
      <4>2. runs' = runs \/ runs' = Claim(runs, First(j, f))
        BY <3>1 DEF DispatchDue, ClaimAndLaunch
      <4> QED BY <1>1, <1>3, <4>1, <4>2, ClaimedIsPast
    <3>2. CASE DispatchAdhoc
      <4>1. Head(adhoc) \in Job /\ now \in Time /\ now' = now
        BY <3>2 DEF DispatchAdhoc, TypeOK
      <4>2. runs' = runs \/ runs' = Claim(runs, First(Head(adhoc), now))
        BY <3>2 DEF DispatchAdhoc, ClaimAndLaunch
      <4> QED BY <1>1, <1>3, <4>1, <4>2, ClaimedIsPast
    <3>3. ASSUME NEW j \in Job, SequenceNext(j) PROVE RowsArePast'
      <4>1. \A f \in Unclaimed(j) : f \in Time /\ f <= now
        BY DEF Unclaimed, SequencesArePast, TypeOK
      <4>2. \/ runs' = runs
            \/ \E f \in Unclaimed(j) : runs' = Claim(runs, First(j, f))
        BY <3>3 DEF SequenceNext
      <4>3. now' = now
        BY <3>3 DEF SequenceNext
      <4> QED BY <1>1, <1>3, <4>1, <4>2, <4>3, ClaimedIsPast
    <3>4. ASSUME NEW k \in Key, SettleRetry(k) PROVE FALSE
      <4>1. NextAttempt(k) \in Key /\ NextAttempt(k).attempt # 1
        BY <3>4, KeyFacts DEF SettleRetry, NextAttempt, Key
      <4>2. PICK t : runs' = ScheduleRetry(runs, NextAttempt(k), t)
        BY <3>4 DEF SettleRetry
      <4>3. runs \in [Key -> Row]
        BY DEF TypeOK
      <4> QED BY <1>3, <2>2, <4>1, <4>2, <4>3, InsertEffect DEF Exists
    <3>5. ASSUME NEW k \in Key, NEW s,
                 runs' = Mark(runs, k, s) \/ runs' = MarkFinished(runs, k, s),
                 runs[k].state # "absent"
          PROVE  FALSE
      <4>1. runs \in [Key -> Row]
        BY DEF TypeOK
      <4> QED BY <1>3, <3>5, <4>1, MarkEffect DEF Exists
    <3>6. ASSUME NEW k \in Key, Recover(k) PROVE FALSE
      <4>1. runs[k].state # "absent"
        BY <3>6 DEF Recover, RecoverRemoved, RecoverRetrying, RecoverClaimed,
                    RecoverFromSentinel, RecoverLost, Recovering, Bookkeeping, Agree
      <4>2. \/ runs' = runs
            \/ \E s : runs' = MarkFinished(runs, k, s)
        BY <3>6 DEF Recover, RecoverRemoved, RecoverRetrying, RecoverClaimed,
                    RecoverFromSentinel, RecoverLost
      <4> QED BY <1>3, <3>5, <4>1, <4>2
    <3>7. ASSUME NEW k \in Key, SweepRetry(k) \/ StartTask(k) PROVE FALSE
      <4>1. runs[k].state # "absent"
        BY <3>7 DEF SweepRetry, ReadyRetries, DueRetries, StartTask, Bookkeeping, Agree
      <4> QED BY <3>5, <3>7, <4>1 DEF SweepRetry, StartTask
    <3>8. ASSUME NEW k \in Key, SpawnFails(k) \/ FinishRun(k) PROVE FALSE
      <4>1. runs[k].state # "absent"
        BY <3>8 DEF SpawnFails, FinishRun, Bookkeeping, Agree
      <4>2. \E s : runs' = MarkFinished(runs, k, s)
        BY <3>8 DEF SpawnFails, FinishRun
      <4> QED BY <3>5, <4>1, <4>2
    <3>9. ASSUME NEW k \in Key, RecordPid(k) PROVE FALSE
      <4>1. runs \in [Key -> Row]
        BY DEF TypeOK
      <4> QED BY <1>3, <3>9, <4>1 DEF RecordPid, Row, Exists
    <3>10. CASE UNCHANGED runs
      BY <1>3, <3>10
    <3> QED
      BY <3>1, <3>2, <3>3, <3>4, <3>6, <3>7, <3>8, <3>9, <3>10
      DEF Next, Loop, Coroutines, Work, Environment, RecoverDone, CatchUpDone,
          Sleep, PassAgain, Wake, Stop, Boot, CatchUp, SkipQuarantined, Spawn, AfterTerminal,
          SettleFinal, RecoverLast, TimeoutFires, ProcExit, ProcReap, ProcVanish,
          Trigger, Resume, RequestDrain, RequestKill, TimePasses, Crash, vars
  <2> QED BY <2>1, <2>2
<1> QED BY <1>2, <1>3

LEMMA SequencesStayPast ==
    TypeOK /\ SequencesArePast /\ [Next]_vars => SequencesArePast'
<1> SUFFICES ASSUME TypeOK, SequencesArePast, [Next]_vars, NEW i \in Job
             PROVE  \A f \in catchup'[i].todo : f <= now'
  BY DEF SequencesArePast
<1>1. /\ now \in Int /\ now' \in Int /\ now <= now'
      /\ catchup \in [Job -> [todo : SUBSET Time, cur : Time \cup {NoTime}]]
      /\ \A f \in Time : f \in Int
  BY TimeFacts, HorizonAssumption DEF TypeOK, Time
<1>2. \A f \in catchup[i].todo : f \in Time /\ f <= now'
  <2>1. \A f \in catchup[i].todo : f \in Time /\ f <= now
    BY <1>1 DEF SequencesArePast
  <2> QED BY <1>1, <2>1
<1> USE DEF store, os, memory, hist
<1>3. ASSUME NEW j \in Job, CatchUp(j) PROVE \A f \in catchup'[i].todo : f <= now'
  <2>1. \A f \in Missed(j) : f <= now
    BY DEF Missed
  <2>2. Replayed(j) \subseteq Missed(j)
    BY ConfigAssumption DEF Replayed, Newest, TypeOK, JobConfig
  <2>3. catchup' = catchup \/ catchup' = [catchup EXCEPT ![j].todo = Replayed(j)]
    BY <1>3 DEF CatchUp
  <2>4. catchup'[i].todo = catchup[i].todo \/ catchup'[i].todo = Replayed(j)
    BY <1>1, <2>3
  <2>5. now' = now
    BY <1>3 DEF CatchUp
  <2> QED BY <1>2, <2>1, <2>2, <2>4, <2>5
<1>4. ASSUME NEW j \in Job, SequenceNext(j) PROVE \A f \in catchup'[i].todo : f <= now'
  <2>1. Unclaimed(j) \subseteq catchup[j].todo
    BY DEF Unclaimed
  <2>2. catchup'[i].todo \subseteq catchup[i].todo
    BY <1>1, <1>4, <2>1 DEF SequenceNext, NoCatchup
  <2> QED BY <1>2, <2>2
<1>5. CASE Stop \/ Crash
  BY <1>5 DEF Stop, Crash, Forget, NoCatchup
<1>6. CASE UNCHANGED catchup
  BY <1>2, <1>6
<1> QED
  BY <1>3, <1>4, <1>5, <1>6
  DEF Next, Loop, Coroutines, Work, Recover, Environment, RecoverRemoved,
      RecoverRetrying, RecoverClaimed, RecoverFromSentinel, RecoverLost,
      RecoverDone, CatchUpDone, Sleep, PassAgain, Wake, Boot, SkipQuarantined,
      DispatchDue, DispatchAdhoc, SweepRetry, StartTask, Spawn,
      SpawnFails, RecordPid, FinishRun, AfterTerminal, SettleRetry, SettleFinal,
      RecoverLast, TimeoutFires, ProcExit, ProcReap, ProcVanish, Trigger, Resume,
      RequestDrain, RequestKill, TimePasses, vars

\* What the statements on job_clock do to last_fire.
LEMMA LastEffect ==
    ASSUME NEW C \in [Job -> JobState], NEW j \in Job, NEW t
    PROVE  /\ \A i \in Job :
                 SetLastFire(C, j, t)[i].last = IF i = j THEN t ELSE C[i].last
           /\ \A i \in Job :
                 RequestResume(C, j, t)[i].last \in {C[i].last, t}
           /\ \A i \in Job, s \in JobState :
                 SaveJobState(C, j, s, t)[i].last \in {C[i].last, t}
<1>1. \A i \in Job : C[i] \in JobState
  OBVIOUS
<1>2. \A i \in Job : SetLastFire(C, j, t)[i].last = IF i = j THEN t ELSE C[i].last
  BY <1>1 DEF SetLastFire, JobState
<1>3. \A i \in Job : RequestResume(C, j, t)[i].last \in {C[i].last, t}
  BY <1>1 DEF RequestResume, JobState
<1>4. \A i \in Job, s \in JobState : SaveJobState(C, j, s, t)[i].last \in {C[i].last, t}
  BY <1>1 DEF SaveJobState, JobState
<1> QED BY <1>2, <1>3, <1>4

LEMMA NextCursors ==
    TypeOK /\ Bookkeeping /\ RowsArePast /\ CursorsBehindClock /\ [Next]_vars
        => CursorsBehindClock'
<1> SUFFICES ASSUME TypeOK, Bookkeeping, RowsArePast, CursorsBehindClock, [Next]_vars,
                    NEW i \in Job
             PROVE  clock'[i].last <= now' /\ since'[i] <= now'
  BY DEF CursorsBehindClock
<1>1. /\ now \in Time /\ now \in Int /\ now' \in Int /\ now <= now' /\ 0 <= now
      /\ clock \in [Job -> JobState] /\ since \in [Job -> Time]
      /\ \A f \in Time : f \in Int
      /\ \A k \in Key : k.job \in Job /\ k.fire \in Time
  <2>1. /\ now \in Time /\ clock \in [Job -> JobState] /\ since \in [Job -> Time]
        /\ \A k \in Key : k.job \in Job /\ k.fire \in Time
    BY KeyFacts DEF TypeOK
  <2>2. \A f \in Time : f \in Int /\ 0 <= f
    BY HorizonAssumption DEF Time
  <2> QED BY <2>1, <2>2, TimeFacts
<1>2. clock[i].last <= now' /\ since[i] <= now'
  <2>1. clock[i].last <= now /\ since[i] <= now
    BY DEF CursorsBehindClock
  <2>2. clock[i].last \in Int /\ since[i] \in Int
    <3>1. clock[i] \in JobState /\ since[i] \in Time
      BY <1>1
    <3> QED BY <1>1, <3>1, NoTimeType DEF JobState
  <2> QED BY <1>1, <2>1, <2>2
<1>3. ASSUME NEW k \in Key, Exists(runs, k) PROVE k.fire <= now'
  <2>1. k.fire <= now /\ k.fire \in Int
    BY <1>1, <1>3 DEF RowsArePast
  <2> QED BY <1>1, <2>1
<1> DEFINE ClockGood == clock'[i].last \in {clock[i].last, now}
                        \/ \E k \in Key : Exists(runs, k) /\ clock'[i].last = k.fire
           SinceGood == since'[i] \in {since[i], now}
                        \/ \E k \in Key : Exists(runs, k) /\ since'[i] = k.fire
<1>4. ASSUME ClockGood PROVE clock'[i].last <= now'
  BY <1>1, <1>2, <1>3, <1>4
<1>5. ASSUME SinceGood PROVE since'[i] <= now'
  BY <1>1, <1>2, <1>3, <1>5
<1> USE DEF store, os, memory, hist
<1>6. ASSUME NEW k \in Key, Exists(runs, k), clock' = SetLastFire(clock, k.job, k.fire)
      PROVE  ClockGood
  BY <1>1, <1>6, LastEffect
<1>7. ASSUME NEW k \in Key, Exists(runs, k), since' = AdvanceSince(k)
      PROVE  SinceGood
  BY <1>1, <1>7 DEF AdvanceSince
<1>8. ASSUME NEW k \in Key, Recover(k) PROVE ClockGood /\ SinceGood
  <2>1. Exists(runs, k)
    BY <1>8 DEF Recover, RecoverRemoved, RecoverRetrying, RecoverClaimed,
                RecoverFromSentinel, RecoverLost, Recovering, Bookkeeping, Agree, Exists
  <2>2. \/ UNCHANGED <<clock, since>>
        \/ /\ clock' = SetLastFire(clock, k.job, k.fire)
           /\ since' = AdvanceSince(k)
    BY <1>8 DEF Recover, RecoverRemoved, RecoverRetrying, RecoverClaimed,
                RecoverFromSentinel, RecoverLost
  <2> QED BY <1>6, <1>7, <2>1, <2>2
<1>9. ASSUME NEW k \in Key, AfterTerminal(k) \/ RecoverLast(k)
      PROVE  ClockGood /\ SinceGood
  <2>1. Exists(runs, k)
    BY <1>9 DEF AfterTerminal, RecoverLast, Bookkeeping, Agree, Exists, Outcome
  <2>2. /\ clock' = SetLastFire(clock, k.job, k.fire)
        /\ since' = since \/ since' = AdvanceSince(k)
    BY <1>9 DEF AfterTerminal, RecoverLast
  <2> QED BY <1>6, <1>7, <2>1, <2>2
<1>10. ASSUME NEW j \in Job, CatchUp(j)
       PROVE  clock'[i].last <= now' /\ since'[i] <= now'
  <2>1. \A f \in Missed(j) : f <= now
    BY DEF Missed
  <2>2. clock[j].last <= now
    BY DEF CursorsBehindClock
  <2>3. now' = now
    BY <1>10 DEF CatchUp
  <2>4. \/ clock' = clock
        \/ \E f \in Missed(j) : clock' = SetLastFire(clock, j, f)
    BY <1>10 DEF CatchUp
  <2>5. \/ since' = [since EXCEPT ![j] = now]
        \/ since' = [since EXCEPT ![j] = clock[j].last]
        \/ \E f \in Missed(j) : since' = [since EXCEPT ![j] = f]
    BY <1>10 DEF CatchUp
  <2>6. clock'[i].last <= now'
    BY <1>1, <1>2, <2>1, <2>3, <2>4, LastEffect
  <2>7. since'[i] <= now'
    <3>1. \/ since'[i] \in {since[i], now, clock[j].last}
          \/ \E f \in Missed(j) : since'[i] = f
      BY <1>1, <2>5
    <3> QED BY <1>1, <1>2, <2>1, <2>2, <2>3, <3>1
  <2> QED BY <2>6, <2>7
<1>11. ASSUME NEW j \in Job, NEW f \in Time, SkipQuarantined(j, f) \/ DispatchDue(j, f)
       PROVE  clock'[i].last <= now' /\ since'[i] <= now'
  <2>1. f <= now /\ now' = now /\ since' = [since EXCEPT ![j] = f]
    BY <1>11 DEF SkipQuarantined, DispatchDue, Visit, IsNewest, Due
  <2>2. since'[i] \in {since[i], f}
    BY <1>1, <2>1
  <2>3. clock'[i].last \in {clock[i].last, f, now}
    <3>1. CASE SkipQuarantined(j, f)
      <4>1. clock' = [clock EXCEPT ![j].skipped = @ + 1, ![j].last = f]
        BY <3>1 DEF SkipQuarantined
      <4> QED BY <1>1, <4>1 DEF JobState
    <3>2. CASE DispatchDue(j, f)
      <4>1. clock[j] \in JobState /\ ClearQuarantine(clock[j]) \in JobState
        BY <1>1, ClockType
      <4>2. clock' = clock \/ clock' = SaveJobState(clock, j, ClearQuarantine(clock[j]), now)
        BY <3>2 DEF DispatchDue
      <4>3. SaveJobState(clock, j, ClearQuarantine(clock[j]), now)[i].last
              \in {clock[i].last, now}
        BY <1>1, <4>1, LastEffect
      <4> QED BY <4>2, <4>3
    <3> QED BY <1>11, <3>1, <3>2
  <2> QED BY <1>1, <1>2, <2>1, <2>2, <2>3
<1>12. ASSUME NEW k \in Key, SettleFinal(k) PROVE ClockGood /\ SinceGood
  <2>1. Health(k.job, runs[k].state) \in JobState
    BY <1>1, HealthType
  <2>2. \/ clock' = clock
        \/ clock' = SaveJobState(clock, k.job, Health(k.job, runs[k].state), now)
    BY <1>12 DEF SettleFinal, UpdateHealth
  <2>3. since' = since
    BY <1>12 DEF SettleFinal
  <2>4. SaveJobState(clock, k.job, Health(k.job, runs[k].state), now)[i].last
          \in {clock[i].last, now}
    BY <1>1, <2>1, LastEffect
  <2> QED BY <2>2, <2>3, <2>4
<1>13. ASSUME NEW j \in Job, Resume(j) PROVE ClockGood /\ SinceGood
  BY <1>1, <1>13, LastEffect DEF Resume
<1>14. CASE Boot
  <2>1. clock' = clock /\ now' = now /\ since'[i] = now
    BY <1>14 DEF Boot
  <2> QED BY <1>1, <1>2, <2>1
<1>15. CASE Stop \/ Crash
  <2>1. since'[i] = 0 /\ clock' = clock
    BY <1>15 DEF Stop, Crash, Forget
  <2>2. 0 <= now'
    BY <1>1
  <2> QED BY <1>2, <2>1, <2>2
<1>16. CASE UNCHANGED <<clock, since>>
  BY <1>2, <1>16
<1> HIDE DEF ClockGood, SinceGood
<1> QED
  BY <1>4, <1>5, <1>8, <1>9, <1>10, <1>11, <1>12, <1>13, <1>14, <1>15, <1>16
  DEF Next, Loop, Coroutines, Work, Environment, RecoverDone, CatchUpDone,
      Sleep, PassAgain, Wake, DispatchAdhoc, SweepRetry, SequenceNext, StartTask, Spawn,
      SpawnFails, RecordPid, FinishRun, SettleRetry, TimeoutFires, ProcExit,
      ProcReap, ProcVanish, Trigger, RequestDrain, RequestKill, TimePasses, vars

\* Neither the baseline of catch-up nor the cursor of the tick loop swallows a
\* fire that is still to come, whatever the daemon dies of and when.
THEOREM CursorsBehindClockCorrect == Spec => []CursorsBehindClock
<1>1. Init => RowsArePast /\ SequencesArePast /\ CursorsBehindClock
  BY DEF Init, RowsArePast, SequencesArePast, CursorsBehindClock, Exists, NoRow,
         NoCatchup, NoClock, NoTime
<1> QED
  BY <1>1, NextRowsArePast, SequencesStayPast, NextCursors, TypeCorrect,
     BookkeepingCorrect, PTL
  DEF Spec

-----------------------------------------------------------------------------
(* Recovery leaves no row without a task, and no orphan it could kill.     *)

\* The config of a running daemon is one that a config file may hold.
ConfigIsKept == pc # "down" => config \in ConfigSets

\* A row of a job that never leaves the config: finished_at comes with an
\* outcome (so open_runs() finds every other row), an open row has a task or
\* recovery is still to visit it, and a process on record is of a running row.
Tended(k) ==
    Stays(k.job) =>
        /\ runs[k].finished => runs[k].state \in Outcome
        /\ pc # "down" /\ runs[k].state \in {"claimed", "running"}
              => task[k] # "none" \/ k \in todo
        /\ Live(k) /\ runs[k].pid /\ ~jobs[k.job].idempotent
              => runs[k].state = "running"

RowsAreTended == \A k \in Key : Tended(k)

LEMMA NextConfig == ConfigIsKept /\ [Next]_vars => ConfigIsKept'
<1> SUFFICES ASSUME ConfigIsKept, [Next]_vars PROVE ConfigIsKept'
  OBVIOUS
<1> USE DEF memory
<1>1. CASE Boot
  BY <1>1 DEF Boot, ConfigIsKept
<1>2. CASE Stop \/ Crash
  BY <1>2 DEF Stop, Crash, Forget, ConfigIsKept
<1>3. CASE config' = config /\ (pc' = pc \/ pc # "down")
  BY <1>3 DEF ConfigIsKept
<1>4. CASE \/ Loop /\ ~Stop
           \/ \E j \in Job : SequenceNext(j)
  BY <1>3, <1>4
  DEF Loop, Recover, RecoverRemoved, RecoverRetrying, RecoverClaimed,
      RecoverFromSentinel, RecoverLost, RecoverDone, CatchUpDone, Sleep, PassAgain, Wake,
      PassOver, CatchUp, SkipQuarantined, DispatchDue, Visit, DispatchAdhoc, SweepRetry,
      SequenceNext
<1>5. CASE \/ \E k \in Key : Work(k) \/ TimeoutFires(k)
           \/ Environment /\ ~Crash
           \/ UNCHANGED vars
  BY <1>3, <1>5
  DEF Work, StartTask, Spawn, SpawnFails, RecordPid, FinishRun, AfterTerminal,
      SettleRetry, SettleFinal, RecoverLast, TimeoutFires, Environment, ProcExit,
      ProcReap, ProcVanish, Trigger, Resume, RequestDrain, RequestKill,
      TimePasses, vars
<1> QED BY <1>1, <1>2, <1>4, <1>5 DEF Next, Loop, Coroutines

LEMMA TendedFrame ==
    ASSUME NEW q \in Key, Tended(q), runs'[q] = runs[q], task'[q] = task[q],
           q \in todo => q \in todo', jobs' = jobs, Live(q)' => Live(q),
           pc' = pc \/ pc' = "down" \/ pc # "down"
    PROVE  Tended(q)'
BY DEF Tended

\* Claim and ScheduleRetry add rows that are not finished and have no pid.
LEMMA InsertFresh ==
    ASSUME NEW R \in [Key -> Row], NEW k \in Key, NEW t, ~Exists(R, k)
    PROVE  /\ ~Claim(R, k)[k].finished /\ ~Claim(R, k)[k].pid
           /\ ~ScheduleRetry(R, k, t)[k].finished /\ ~ScheduleRetry(R, k, t)[k].pid
BY DEF Claim, ScheduleRetry, Insert, NoRow

\* Marking leaves the pid.
LEMMA MarkPid ==
    ASSUME NEW R \in [Key -> Row], NEW k \in Key, NEW s
    PROVE  Mark(R, k, s)[k].pid = R[k].pid /\ MarkFinished(R, k, s)[k].pid = R[k].pid
<1>1. R[k] \in Row
  OBVIOUS
<1>2. Mark(R, k, s)[k].pid = R[k].pid
  BY <1>1 DEF Mark, Row
<1>3. /\ DOMAIN Mark(R, k, s) = Key
      /\ Mark(R, k, s)[k] \in [state : {Mark(R, k, s)[k].state}, finished : BOOLEAN,
                               pid : BOOLEAN, notBefore : Int]
  BY <1>1, NoTimeType DEF Mark, Row
<1> QED BY <1>2, <1>3 DEF MarkFinished

LEMMA RecoverTended ==
    ASSUME TypeOK, Bookkeeping, ConfigIsKept, RowsAreTended,
           NEW k \in Key, Recover(k), NEW q \in Key
    PROVE  Tended(q)'
<1> USE DEF store, os, memory, hist, Recovering
<1>1. /\ runs \in [Key -> Row] /\ task \in [Key -> TaskStep]
      /\ proc \in [Key -> Process] /\ sentinel \in [Key -> Exit \cup {"none"}]
      /\ Tended(q) /\ Tended(k)
  BY DEF TypeOK, RowsAreTended
<1>2. /\ pc' = pc /\ pc = "recover" /\ jobs' = jobs /\ todo' = todo \ {k}
  BY DEF Recover, RecoverRemoved, RecoverRetrying, RecoverClaimed,
         RecoverFromSentinel, RecoverLost
<1>3. CASE q # k
  <2>1. runs'[q] = runs[q] /\ task'[q] = task[q] /\ proc'[q] = proc[q]
    BY <1>1, <1>3, MarkEffect
    DEF Recover, RecoverRemoved, RecoverRetrying, RecoverClaimed,
        RecoverFromSentinel, RecoverLost
  <2> QED BY <1>1, <1>2, <1>3, <2>1, TendedFrame DEF Live
<1>4. CASE q = k
  <2> SUFFICES ASSUME Stays(k.job)
               PROVE  /\ runs'[k].finished => runs'[k].state \in Outcome
                      /\ runs'[k].state \in {"claimed", "running"} => task'[k] # "none"
                      /\ Live(k)' /\ runs'[k].pid /\ ~jobs[k.job].idempotent
                            => runs'[k].state = "running"
    BY <1>2, <1>4 DEF Tended
  <2>1. Known(k)
    BY <1>2 DEF ConfigIsKept, Stays, Known
  <2>2. CASE RecoverRetrying(k)
    BY <1>1, <1>2, <2>2 DEF RecoverRetrying, Tended, Live
  <2>3. CASE RecoverClaimed(k)
    BY <1>1, <1>2, <2>3 DEF RecoverClaimed, Tended, Live
  <2>4. CASE RecoverFromSentinel(k)
    <3>1. SentinelOutcome[sentinel[k]] \in Outcome
      BY <1>1, <2>4 DEF RecoverFromSentinel, SentinelOutcome, Exit, Outcome
    <3>2. /\ runs'[k].state \in Outcome /\ runs'[k].pid = runs[k].pid
      BY <1>1, <2>4, <3>1, MarkEffect, MarkPid, TransitionFacts DEF RecoverFromSentinel
    <3>3. ~(runs[k].pid /\ Live(k)) /\ proc' = proc
      BY <2>4 DEF RecoverFromSentinel, FoundAlive
    <3> QED BY <3>2, <3>3 DEF Live, Outcome
  <2>5. CASE RecoverLost(k)
    <3>1. /\ runs'[k].state = "lost" /\ runs'[k].pid = runs[k].pid
      BY <1>1, <2>5, MarkEffect, MarkPid, TransitionFacts DEF RecoverLost, Outcome
    <3>2. \/ proc'[k] = "none"
          \/ proc'[k] = proc[k] /\ ~(runs[k].pid /\ Live(k) /\ ~jobs[k.job].idempotent)
      BY <1>1, <2>5 DEF RecoverLost, FoundAlive
    <3> QED BY <3>1, <3>2 DEF Live, Outcome
  <2> QED BY <2>1, <2>2, <2>3, <2>4, <2>5 DEF Recover, RecoverRemoved
<1> QED BY <1>3, <1>4

LEMMA WorkTended ==
    ASSUME TypeOK, Bookkeeping, RowsAreTended, NEW k \in Key,
           Work(k) \/ TimeoutFires(k), NEW q \in Key
    PROVE  Tended(q)'
<1> USE DEF store, os, memory, hist
<1>1. /\ runs \in [Key -> Row] /\ task \in [Key -> TaskStep]
      /\ proc \in [Key -> Process] /\ Tended(q) /\ Tended(k) /\ Agree(k)
  BY DEF TypeOK, RowsAreTended, Bookkeeping
<1>2. /\ pc' = pc /\ todo' = todo /\ jobs' = jobs
  BY DEF Work, TimeoutFires, StartTask, Spawn, SpawnFails, RecordPid, FinishRun,
         AfterTerminal, SettleRetry, SettleFinal, RecoverLast
<1>3. ASSUME runs'[q] = runs[q], task'[q] = task[q], proc'[q] = proc[q]
      PROVE  Tended(q)'
  BY <1>1, <1>2, <1>3, TendedFrame DEF Live
\* What is left to show of the row the step is about.
<1>4. ASSUME /\ Stays(k.job) /\ runs'[k].finished => runs'[k].state \in Outcome
             /\ runs'[k].state \in {"claimed", "running"} => task'[k] # "none"
             /\ Stays(k.job) /\ Live(k)' /\ runs'[k].pid /\ ~jobs[k.job].idempotent
                   => runs'[k].state = "running"
      PROVE  Tended(k)'
  BY <1>2, <1>4 DEF Tended
<1>5. CASE StartTask(k)
  <2>1. runs[k].state = "claimed" /\ proc[k] = "none"
    BY <1>1, <1>5 DEF StartTask, Agree
  <2>2. /\ runs'[k].state = "running" /\ runs'[k].finished = runs[k].finished
        /\ task'[k] = "spawning" /\ proc' = proc
    BY <1>1, <1>5, <2>1, MarkEffect, TransitionFacts DEF StartTask
  <2>3. Tended(k)'
    BY <1>1, <1>4, <2>1, <2>2 DEF Tended, Outcome
  <2>4. q # k => runs'[q] = runs[q] /\ task'[q] = task[q]
    BY <1>1, <1>5, MarkEffect DEF StartTask
  <2> QED BY <1>3, <2>2, <2>3, <2>4
<1>6. CASE Spawn(k)
  <2>1. runs[k].state = "running" /\ runs' = runs
    BY <1>1, <1>6 DEF Spawn, Agree
  <2>2. Tended(k)'
    BY <1>1, <1>4, <1>6, <2>1 DEF Spawn, Tended
  <2>3. q # k => task'[q] = task[q] /\ proc'[q] = proc[q]
    BY <1>1, <1>6 DEF Spawn
  <2> QED BY <1>3, <2>1, <2>2, <2>3
<1>7. CASE SpawnFails(k)
  <2>1. runs[k].state = "running" /\ proc[k] = "none" /\ proc' = proc
    BY <1>1, <1>7 DEF SpawnFails, Agree
  <2>2. runs'[k].state = "failed"
    BY <1>1, <1>7, <2>1, MarkEffect, TransitionFacts DEF SpawnFails, Outcome
  <2>3. Tended(k)'
    BY <1>4, <2>1, <2>2 DEF Live, Outcome
  <2>4. q # k => runs'[q] = runs[q] /\ task'[q] = task[q]
    BY <1>1, <1>7, MarkEffect DEF SpawnFails
  <2> QED BY <1>3, <2>1, <2>3, <2>4
<1>8. CASE RecordPid(k)
  <2>1. /\ runs[k].state = "running" /\ proc' = proc /\ task'[k] = "running"
    BY <1>1, <1>8 DEF RecordPid, Agree
  <2>2. runs'[k].state = "running" /\ runs'[k].finished = runs[k].finished
    BY <1>1, <1>8, <2>1 DEF RecordPid, Row
  <2>3. Tended(k)'
    BY <1>1, <1>4, <2>1, <2>2 DEF Tended
  <2>4. q # k => runs'[q] = runs[q] /\ task'[q] = task[q]
    BY <1>1, <1>8 DEF RecordPid
  <2> QED BY <1>3, <2>1, <2>3, <2>4
<1>9. CASE FinishRun(k)
  <2> DEFINE o == CASE task[k] = "killing" -> "timed_out"
                    [] task[k] = "running" /\ proc[k] = "ok" -> "succeeded"
                    [] OTHER -> "failed"
  <2>1. runs[k].state = "running" /\ o \in Outcome /\ runs' = MarkFinished(runs, k, o)
    BY <1>1, <1>9 DEF FinishRun, Agree, Outcome
  <2> HIDE DEF o
  <2>2. runs'[k].state \in Outcome /\ proc'[k] = "none"
    BY <1>1, <1>9, <2>1, MarkEffect, TransitionFacts DEF FinishRun
  <2>3. Tended(k)'
    BY <1>4, <2>2 DEF Live, Outcome
  <2>4. q # k => runs'[q] = runs[q] /\ task'[q] = task[q] /\ proc'[q] = proc[q]
    BY <1>1, <1>9, <2>1, MarkEffect DEF FinishRun
  <2> QED BY <1>3, <2>3, <2>4
<1>10. CASE AfterTerminal(k) \/ SettleFinal(k) \/ RecoverLast(k)
  <2>1. runs[k].state \in Outcome /\ UNCHANGED <<runs, proc>>
    BY <1>1, <1>10 DEF AfterTerminal, SettleFinal, RecoverLast, Agree, Outcome
  <2>2. Tended(k)'
    BY <1>1, <1>4, <2>1 DEF Tended, Live, Outcome
  <2>3. q # k => task'[q] = task[q]
    BY <1>1, <1>10 DEF AfterTerminal, SettleFinal, RecoverLast, Settled
  <2> QED BY <1>3, <2>1, <2>2, <2>3
<1>11. CASE TimeoutFires(k)
  <2>1. task'[k] = "killing" /\ UNCHANGED <<runs, proc>>
    BY <1>1, <1>11 DEF TimeoutFires
  <2>2. Tended(k)'
    BY <1>1, <1>4, <2>1 DEF Tended, Live
  <2>3. q # k => task'[q] = task[q]
    BY <1>1, <1>11 DEF TimeoutFires
  <2> QED BY <1>3, <2>1, <2>2, <2>3
<1>12. CASE SettleRetry(k)
  <2> DEFINE n == NextAttempt(k)
  <2>1. n \in Key /\ n # k /\ proc' = proc
    BY <1>12, KeyFacts DEF SettleRetry, NextAttempt, Key
  <2>2. PICK t : runs' = ScheduleRetry(runs, n, t)
    BY <1>12 DEF SettleRetry
  <2>3. runs[k].state \in Outcome
    BY <1>1, <1>12 DEF SettleRetry, Agree, Outcome
  <2> HIDE DEF n
  <2>4. runs'[k] = runs[k]
    BY <1>1, <2>1, <2>2, InsertEffect
  <2>5. Tended(k)'
    BY <1>1, <1>4, <2>1, <2>3, <2>4 DEF Tended, Live, Outcome
  <2>6. q # k => task'[q] = task[q]
    BY <1>1, <1>12 DEF SettleRetry, Settled
  <2>7. CASE q # n \/ Exists(runs, n)
    <3>1. runs'[q] = runs[q]
      BY <1>1, <2>1, <2>2, <2>7, InsertEffect
    <3> QED BY <1>3, <2>1, <2>5, <2>6, <3>1
  <2>8. CASE q = n /\ ~Exists(runs, n)
    <3>1. /\ runs'[q].state = "retrying" /\ ~runs'[q].finished /\ ~runs'[q].pid
      BY <1>1, <2>1, <2>2, <2>8, InsertEffect, InsertFresh
    <3> QED BY <3>1 DEF Tended
  <2> QED BY <2>7, <2>8
<1> QED
  BY <1>5, <1>6, <1>7, <1>8, <1>9, <1>10, <1>11, <1>12 DEF Work

\* A row claimed for the first time, with the task that is to execute it.
LEMMA ClaimTended ==
    ASSUME TypeOK, RowsAreTended, NEW k \in Key, runs' = Claim(runs, k),
           \A r \in Key : task'[r] = task[r]
                          \/ (r = k /\ task'[r] # "none"),
           ~Exists(runs, k) => task'[k] # "none",
           UNCHANGED <<proc, jobs, pc, todo>>, NEW q \in Key
    PROVE  Tended(q)'
<1>1. runs \in [Key -> Row] /\ Tended(q)
  BY DEF TypeOK, RowsAreTended
<1>2. CASE q # k \/ Exists(runs, k)
  <2>1. runs'[q] = runs[q]
    BY <1>1, <1>2, InsertEffect
  <2> QED BY <1>1, <2>1 DEF Tended, Live
<1>3. CASE q = k /\ ~Exists(runs, k)
  <2>1. ~runs'[k].finished /\ ~runs'[k].pid /\ task'[k] # "none"
    BY <1>1, <1>3, InsertFresh
  <2> QED BY <1>3, <2>1 DEF Tended
<1> QED BY <1>2, <1>3

LEMMA TickTended ==
    ASSUME TypeOK, Bookkeeping, RowsAreTended, NEW q \in Key,
           \/ DispatchAdhoc
           \/ \E j \in Job, f \in Time : SkipQuarantined(j, f) \/ DispatchDue(j, f)
           \/ \E k \in Key : SweepRetry(k)
           \/ \E j \in Job : SequenceNext(j)
    PROVE  Tended(q)'
<1> USE DEF store, os, memory, hist
<1>1. /\ runs \in [Key -> Row] /\ task \in [Key -> TaskStep] /\ Tended(q)
      /\ UNCHANGED <<proc, jobs, pc, todo>>
  BY DEF TypeOK, RowsAreTended, DispatchAdhoc, SkipQuarantined, DispatchDue, Visit,
         SweepRetry, SequenceNext
<1>2. CASE UNCHANGED <<runs, task>>
  BY <1>1, <1>2, TendedFrame DEF Live
<1>3. ASSUME NEW k \in Key, ClaimAndLaunch(k) PROVE Tended(q)'
  BY <1>1, <1>3, ClaimTended DEF ClaimAndLaunch
<1>4. CASE DispatchAdhoc
  <2>1. First(Head(adhoc), now) \in Key
    BY <1>4, KeyFacts DEF DispatchAdhoc, TypeOK
  <2> QED BY <1>2, <1>3, <1>4, <2>1 DEF DispatchAdhoc
<1>5. ASSUME NEW j \in Job, NEW f \in Time, SkipQuarantined(j, f) \/ DispatchDue(j, f)
      PROVE  Tended(q)'
  BY <1>2, <1>3, <1>5, KeyFacts DEF SkipQuarantined, DispatchDue
<1>6. ASSUME NEW k \in Key, SweepRetry(k) PROVE Tended(q)'
  <2>1. runs[k].state = "retrying" /\ Tended(k) /\ Agree(k)
    BY <1>6 DEF SweepRetry, ReadyRetries, DueRetries, RowsAreTended, Bookkeeping
  <2>2. /\ runs'[k].state = "claimed" /\ runs'[k].finished = runs[k].finished
        /\ task'[k] = "queued"
    BY <1>1, <1>6, <2>1, MarkEffect, TransitionFacts DEF SweepRetry
  <2>3. proc[k] = "none"
    BY <2>1 DEF Agree
  <2>4. Tended(k)'
    BY <1>1, <2>1, <2>2, <2>3 DEF Tended, Live, Outcome
  <2>5. q # k => runs'[q] = runs[q] /\ task'[q] = task[q]
    BY <1>1, <1>6, MarkEffect DEF SweepRetry
  <2> QED BY <1>1, <2>4, <2>5, TendedFrame DEF Live
<1>7. ASSUME NEW j \in Job, SequenceNext(j) PROVE Tended(q)'
  <2>1. ASSUME NEW f \in Unclaimed(j), runs' = Claim(runs, First(j, f)),
               task' = [task EXCEPT ![First(j, f)] = "claimed"]
        PROVE  Tended(q)'
    <3>1. First(j, f) \in Key
      BY KeyFacts DEF Unclaimed, TypeOK
    <3> QED BY <1>1, <2>1, <3>1, ClaimTended
  <2> QED BY <1>2, <1>7, <2>1 DEF SequenceNext
<1> QED BY <1>4, <1>5, <1>6, <1>7

LEMMA NextTended ==
    TypeOK /\ Bookkeeping /\ ConfigIsKept /\ RowsAreTended /\ [Next]_vars
        => RowsAreTended'
<1> SUFFICES ASSUME TypeOK, Bookkeeping, ConfigIsKept, RowsAreTended, [Next]_vars,
                    NEW q \in Key
             PROVE  Tended(q)'
  BY DEF RowsAreTended
<1> USE DEF store, os, memory, hist
<1>1. /\ Tended(q) /\ Agree(q) /\ proc \in [Key -> Process] /\ jobs' = jobs
      /\ result \in [Key -> Exit \cup {"none"}]
  BY JobsFixed DEF TypeOK, Bookkeeping, RowsAreTended
<1>2. CASE Boot
  <2>1. runs' = runs /\ proc' = proc
    BY <1>2 DEF Boot
  <2>2. Stays(q.job) /\ runs[q].state \in {"claimed", "running"} => q \in todo'
    BY <1>1, <1>2 DEF Boot, OpenRuns, Exists, Tended, Outcome
  <2> QED BY <1>1, <2>1, <2>2 DEF Tended, Live
<1>3. CASE Stop \/ Crash
  <2>1. /\ runs' = runs /\ pc' = "down"
        /\ Live(q)' => Live(q)
    BY <1>1, <1>3 DEF Stop, Crash, Forget, Live
  <2> QED BY <1>1, <2>1 DEF Tended
<1>4. ASSUME NEW k \in Key, ProcExit(k) \/ ProcReap(k) \/ ProcVanish(k)
      PROVE  Tended(q)'
  <2>1. /\ runs' = runs /\ task' = task /\ todo' = todo /\ pc' = pc
    BY <1>4 DEF ProcExit, ProcReap, ProcVanish
  <2>2. Live(q)' => Live(q)
    BY <1>1, <1>4 DEF ProcExit, ProcReap, ProcVanish, Killed, ExitStatus, Live
  <2> QED BY <1>1, <2>1, <2>2, TendedFrame
<1>5. CASE RequestKill
  <2>1. /\ runs' = runs /\ task' = task /\ todo' = todo /\ pc' = pc
        /\ Live(q)' => Live(q)
    BY <1>1, <1>5 DEF RequestKill, Live
  <2> QED BY <1>1, <2>1, TendedFrame
<1>6. CASE \/ RecoverDone \/ CatchUpDone \/ Sleep \/ PassAgain \/ Wake
           \/ \E j \in Job : CatchUp(j) \/ Trigger(j) \/ Resume(j)
           \/ RequestDrain \/ TimePasses \/ UNCHANGED vars
  <2>1. /\ runs' = runs /\ task' = task /\ todo' = todo /\ proc' = proc
        /\ pc' = pc \/ pc # "down"
    BY <1>6 DEF RecoverDone, CatchUpDone, Sleep, PassAgain, Wake, CatchUp, Trigger, Resume,
                PassOver, RequestDrain, TimePasses, vars
  <2> QED BY <1>1, <2>1, TendedFrame DEF Live
<1> QED
  BY <1>2, <1>3, <1>4, <1>5, <1>6, RecoverTended, WorkTended, TickTended
  DEF Next, Loop, Coroutines, Environment

LEMMA TendedCorrect == Spec => [](ConfigIsKept /\ RowsAreTended)
<1>1. Init => ConfigIsKept /\ RowsAreTended
  BY DEF Init, ConfigIsKept, RowsAreTended, Tended, NoRow
<1> QED
  BY <1>1, NextConfig, NextTended, TypeCorrect, BookkeepingCorrect, PTL DEF Spec

\* Whenever the daemon dies, the next one brings every open row of a job that
\* stays in the config under a task again.
THEOREM NothingStrandedCorrect == Spec => []NothingStranded
<1>1. RowsAreTended => NothingStranded
  BY DEF RowsAreTended, Tended, NothingStranded
<1> QED BY <1>1, TendedCorrect, PTL

\* A recorded process of such a job that may not run twice is dead, or it is
\* the child of a task of this daemon, once recovery is over.
THEOREM NoRecordedOrphanCorrect == Spec => []NoRecordedOrphan
<1>1. TypeOK /\ Bookkeeping /\ RowsAreTended => NoRecordedOrphan
  <2> SUFFICES ASSUME TypeOK, Bookkeeping, RowsAreTended, pc \notin {"down", "recover"},
                      NEW k \in Key, Live(k), runs[k].pid,
                      ~jobs[k.job].idempotent, Stays(k.job)
               PROVE  task[k] \in Waiting
    BY DEF NoRecordedOrphan
  <2>1. runs[k].state = "running" /\ todo = {} /\ Agree(k)
    BY DEF RowsAreTended, Tended, Bookkeeping
  <2>2. task[k] \in TaskStep \ {"none"}
    BY <2>1 DEF RowsAreTended, Tended, TypeOK
  <2> QED BY <2>1, <2>2 DEF Agree, Waiting, TaskStep, Writing, Outcome
<1> QED BY <1>1, TendedCorrect, TypeCorrect, BookkeepingCorrect, PTL

-----------------------------------------------------------------------------
(* A drain.                                                                *)

\* A drain is asked for while the loop sleeps, which then ends, not to begin again.
LoopHasEnded == stopping => pc \in {"sleep", "drain"}

LEMMA NextLoopHasEnded == LoopHasEnded /\ [Next]_vars => LoopHasEnded'
BY DEF LoopHasEnded, Next, Loop, Coroutines, Work, Recover, Environment, RecoverRemoved,
       RecoverRetrying, RecoverClaimed, RecoverFromSentinel, RecoverLost,
       RecoverDone, CatchUpDone, Sleep, PassAgain, Wake, Stop, Boot, CatchUp, SkipQuarantined,
       DispatchDue, DispatchAdhoc, SweepRetry, SequenceNext, StartTask, Spawn,
       SpawnFails, RecordPid, FinishRun, AfterTerminal, SettleRetry, SettleFinal,
       RecoverLast, TimeoutFires, ProcExit, ProcReap, ProcVanish, Trigger, Resume,
       RequestDrain, RequestKill, TimePasses, Crash, Forget, Yielding, memory, vars

\* A row that is marked keeps its state or gets the new one.
LEMMA MarkedAs ==
    ASSUME NEW R \in [Key -> Row], NEW k \in Key, NEW s
    PROVE  /\ Mark(R, k, s)[k].state \in {s, R[k].state}
           /\ MarkFinished(R, k, s)[k].state \in {s, R[k].state}
<1>1. CASE s \in Transitions[R[k].state]
  BY <1>1, MarkEffect
<1>2. CASE s \notin Transitions[R[k].state]
  BY <1>2, MarkEffect
<1> QED BY <1>1, <1>2

\* What a drain still writes to the runs table.
LEMMA WritesOfADrain ==
    ASSUME TypeOK, pc \in {"sleep", "drain"}, stopping, [Next]_vars
    PROVE  \/ runs' = runs
           \/ \E k \in Key : \E s \in RunState \ {"claimed"} :
                 runs' = Mark(runs, k, s) \/ runs' = MarkFinished(runs, k, s)
           \/ \E k \in Key : runs' = [runs EXCEPT ![k].pid = TRUE]
           \/ \E k \in Key, t \in Int : k.attempt < MaxAttempt
                                       /\ runs' = ScheduleRetry(runs, NextAttempt(k), t)
<1>1. {"running", "failed", "timed_out", "succeeded", "lost"}
        \subseteq RunState \ {"claimed"}
  BY DEF RunState
<1>2. ASSUME NEW j \in Job, SequenceNext(j)
      PROVE  runs' = runs
  BY <1>2 DEF SequenceNext, Unclaimed
<1>3. ASSUME NEW k \in Key, SettleRetry(k)
      PROVE  \E t \in Int : k.attempt < MaxAttempt
                             /\ runs' = ScheduleRetry(runs, NextAttempt(k), t)
  <2>1. now \in Int /\ now + jobs[k.job].delay \in Int
    BY KeyFacts, JobConfigType, HorizonAssumption DEF TypeOK, Time
  <2> QED BY <1>3, <2>1 DEF SettleRetry
<1>4. ASSUME NEW k \in Key, StartTask(k) \/ SpawnFails(k) \/ FinishRun(k)
      PROVE  \E s \in RunState \ {"claimed"} :
                 runs' = Mark(runs, k, s) \/ runs' = MarkFinished(runs, k, s)
  BY <1>1, <1>4 DEF StartTask, SpawnFails, FinishRun
<1>5. ASSUME NEW k \in Key, RecordPid(k)
      PROVE  runs' = [runs EXCEPT ![k].pid = TRUE]
  BY <1>5 DEF RecordPid
<1>6. ASSUME NEW k \in Key,
             Spawn(k) \/ AfterTerminal(k) \/ SettleFinal(k) \/ RecoverLast(k)
             \/ TimeoutFires(k) \/ ProcExit(k) \/ ProcReap(k) \/ ProcVanish(k)
      PROVE  runs' = runs
  BY <1>6 DEF Spawn, AfterTerminal, SettleFinal, RecoverLast, TimeoutFires,
              ProcExit, ProcReap, ProcVanish, store
<1>7. CASE Stop \/ Sleep \/ Wake \/ Crash \/ RequestDrain \/ RequestKill \/ TimePasses
           \/ (\E j \in Job : Trigger(j) \/ Resume(j)) \/ UNCHANGED vars
  BY <1>7 DEF Stop, Sleep, Wake, Crash, RequestDrain, RequestKill, TimePasses, Trigger, Resume,
              store, vars
<1>8. ~Boot /\ (Loop => Stop \/ Sleep \/ Wake)
  BY DEF Boot, Loop, Recover, Recovering, RecoverRemoved, RecoverRetrying,
         RecoverClaimed, RecoverFromSentinel, RecoverLost, SweepRetry, CatchUp, SkipQuarantined,
         DispatchDue, Visit, RecoverDone, CatchUpDone, DispatchAdhoc, Sleep, PassAgain, Wake,
         PassOver
<1> QED
  BY <1>2, <1>3, <1>4, <1>5, <1>6, <1>7, <1>8
  DEF Next, Coroutines, Work, Environment

\* Once a drain is asked for, no fire and no retry is claimed any more, by the main
\* loop or by the sequences of catch-up.
THEOREM DrainClaimsNothingCorrect == Spec => DrainClaimsNothing
<1>1. Init => LoopHasEnded
  BY DEF Init, LoopHasEnded
<1>2. TypeOK /\ LoopHasEnded /\ [Next]_vars
        => [stopping => \A k \in Key :
               runs'[k].state = "claimed" => runs[k].state = "claimed"]_vars
  <2> SUFFICES ASSUME TypeOK, stopping, pc \in {"sleep", "drain"}, [Next]_vars, NEW q \in Key,
                      runs'[q].state = "claimed"
               PROVE  runs[q].state = "claimed"
    BY DEF LoopHasEnded
  <2>0. runs \in [Key -> Row]
    BY DEF TypeOK
  <2>1. ASSUME NEW k \in Key, NEW s \in RunState \ {"claimed"},
               runs' = Mark(runs, k, s) \/ runs' = MarkFinished(runs, k, s)
        PROVE  runs[q].state = "claimed"
    <3>1. CASE q = k
      BY <2>0, <2>1, <3>1, MarkedAs
    <3>2. CASE q # k
      BY <2>0, <2>1, <3>2, MarkEffect
    <3> QED BY <3>1, <3>2
  <2>2. ASSUME NEW k \in Key, runs' = [runs EXCEPT ![k].pid = TRUE]
        PROVE  runs[q].state = "claimed"
    BY <2>0, <2>2 DEF Row
  <2>3. ASSUME NEW k \in Key, NEW t \in Int, k.attempt < MaxAttempt,
               runs' = ScheduleRetry(runs, NextAttempt(k), t)
        PROVE  runs[q].state = "claimed"
    BY <2>0, <2>3, KeyFacts DEF ScheduleRetry, Insert, NoRow
  <2> QED BY <2>1, <2>2, <2>3, WritesOfADrain
<1>3. Spec => []LoopHasEnded
  BY <1>1, NextLoopHasEnded, PTL DEF Spec
<1> QED
  BY <1>2, <1>3, TypeCorrect, PTL DEF Spec, DrainClaimsNothing
=============================================================================
