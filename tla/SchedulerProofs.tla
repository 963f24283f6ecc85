-------------------------- MODULE SchedulerProofs --------------------------
(***************************************************************************)
(* Proofs about Scheduler, first part: the operators of Store stay within  *)
(* their tables, and every variable keeps its type; Bookkeeping is         *)
(* inductive, and from it follow that an attempt is spawned at most once   *)
(* and that no success is made up; every step is a step of RunLifecycle or *)
(* leaves it alone, and retries follow failures only.                      *)
(***************************************************************************)
EXTENDS Scheduler, TLAPS

-----------------------------------------------------------------------------
(* The tables. *)

LEMMA KeyFacts ==
    /\ \A j \in Job, t \in Time : First(j, t) \in Key
    /\ \A k \in Key : k.job \in Job /\ k.fire \in Time
                      /\ k.attempt \in 1..MaxAttempt
    /\ \A k \in Key : k.attempt < MaxAttempt => NextAttempt(k) \in Key
BY HorizonAssumption, MaxAttemptAssumption DEF Key, First, NextAttempt, Time

LEMMA InsertType ==
    ASSUME NEW R \in [Key -> Row], NEW k \in Key, NEW row \in Row
    PROVE  Insert(R, k, row) \in [Key -> Row]
BY DEF Insert

LEMMA NoTimeType == NoTime \in Int
BY DEF NoTime

LEMMA NoRowType == NoRow \in Row
<1>1. "absent" \in RunState \cup {"absent"} OBVIOUS
<1> QED BY <1>1, NoTimeType DEF NoRow, Row

LEMMA ClaimType ==
    ASSUME NEW R \in [Key -> Row], NEW k \in Key
    PROVE  Claim(R, k) \in [Key -> Row]
<1>1. [NoRow EXCEPT !.state = "claimed"] \in Row
  BY NoRowType DEF Row, RunState
<1> QED BY <1>1, InsertType DEF Claim

LEMMA ScheduleRetryType ==
    ASSUME NEW R \in [Key -> Row], NEW k \in Key, NEW t \in Int
    PROVE  ScheduleRetry(R, k, t) \in [Key -> Row]
<1>1. [NoRow EXCEPT !.state = "retrying", !.notBefore = t] \in Row
  BY NoRowType DEF Row, RunState
<1> QED BY <1>1, InsertType DEF ScheduleRetry

LEMMA MarkType ==
    ASSUME NEW R \in [Key -> Row], NEW k \in Key, NEW s \in RunState
    PROVE  /\ Mark(R, k, s) \in [Key -> Row]
           /\ MarkFinished(R, k, s) \in [Key -> Row]
<1>1. R[k] \in Row OBVIOUS
<1>2. [R[k] EXCEPT !.state = s, !.notBefore = NoTime] \in Row
  BY <1>1, NoTimeType DEF Row
<1>3. Mark(R, k, s) \in [Key -> Row]
  BY <1>1, <1>2 DEF Mark
<1>4. \A row \in Row : [row EXCEPT !.finished = TRUE] \in Row
  BY DEF Row
<1> QED BY <1>3, <1>4 DEF MarkFinished

LEMMA ClockType ==
    ASSUME NEW C \in [Job -> JobState], NEW j \in Job, NEW t \in Time
    PROVE  /\ SetLastFire(C, j, t) \in [Job -> JobState]
           /\ RequestResume(C, j, t) \in [Job -> JobState]
           /\ \A s \in JobState : SaveJobState(C, j, s, t) \in [Job -> JobState]
           /\ \A s \in JobState : ClearQuarantine(s) \in JobState
<1>1. C[j] \in JobState OBVIOUS
<1>2. SetLastFire(C, j, t) \in [Job -> JobState]
  BY <1>1 DEF SetLastFire, JobState
<1>3. RequestResume(C, j, t) \in [Job -> JobState]
  BY <1>1 DEF RequestResume, JobState
<1>4. \A s \in JobState : SaveJobState(C, j, s, t) \in [Job -> JobState]
  BY <1>1 DEF SaveJobState, JobState
<1>5. \A s \in JobState : ClearQuarantine(s) \in JobState
  BY DEF ClearQuarantine, JobState
<1> QED BY <1>2, <1>3, <1>4, <1>5

-----------------------------------------------------------------------------
(* Type correctness. *)

LEMMA InitTypeOK == Init => TypeOK
<1> SUFFICES ASSUME Init PROVE TypeOK
  OBVIOUS
<1>1. 0 \in Time /\ <<>> \in Seq(Job)
  BY HorizonAssumption DEF Time
<1>2. NoClock \in JobState
  BY DEF NoClock, JobState
<1>3. NoCatchup \in [todo : SUBSET Time, cur : Time \cup {NoTime}]
  BY DEF NoCatchup
<1> QED
  BY <1>1, <1>2, <1>3, NoRowType
  DEF Init, TypeOK, Process, TaskStep, Control

LEMMA ForgetTypeOK ==
    ASSUME TypeOK, Forget
    PROVE  /\ pc' \in Control /\ config' \in SUBSET Job /\ todo' \in SUBSET Key
           /\ pending' \in SUBSET Job /\ since' \in [Job -> Time]
           /\ catchup' \in [Job -> [todo : SUBSET Time, cur : Time \cup {NoTime}]]
           /\ task' \in [Key -> TaskStep] /\ adhoc' \in Seq(Job)
           /\ stopping' \in BOOLEAN /\ wake' \in BOOLEAN
<1>1. 0 \in Time /\ <<>> \in Seq(Job)
  BY HorizonAssumption DEF Time
<1>2. NoCatchup \in [todo : SUBSET Time, cur : Time \cup {NoTime}]
  BY DEF NoCatchup
<1> QED
  BY <1>1, <1>2 DEF Forget, Control, TaskStep

LEMMA JobConfigType ==
    ASSUME TypeOK, NEW j \in Job
    PROVE  /\ jobs[j].schedule \subseteq Time /\ jobs[j].delay \in Nat
           /\ jobs[j].retries \in Nat
BY ConfigAssumption DEF TypeOK, JobConfig

LEMMA HealthType ==
    ASSUME TypeOK, NEW j \in Job, NEW o
    PROVE  Health(j, o) \in JobState
<1>1. clock[j] \in JobState /\ now \in Time
  BY DEF TypeOK
<1>2. ClearQuarantine(clock[j]) \in JobState
  BY <1>1, ClockType DEF TypeOK
<1>3. clock[j].fails + 1 \in Nat
  BY <1>1 DEF JobState
<1>4. [clock[j] EXCEPT !.fails = 0] \in JobState
  BY <1>1 DEF JobState
<1>5. CASE o \in Failure
  <2> DEFINE q == IF Quarantined(clock[j])
                     \/ (jobs[j].quarantineAfter > 0
                         /\ clock[j].fails + 1 >= jobs[j].quarantineAfter)
                    THEN now ELSE clock[j].quarantined
  <2>1. q \in Time \cup {NoTime}
    BY <1>1 DEF JobState
  <2>2. Health(j, o) = [clock[j] EXCEPT !.fails = clock[j].fails + 1,
                                        !.quarantined = q]
    BY <1>5, Zenon DEF Health
  <2> HIDE DEF q
  <2>3. [clock[j] EXCEPT !.fails = clock[j].fails + 1, !.quarantined = q] \in JobState
    BY <1>1, <1>3, <2>1 DEF JobState
  <2> QED BY <2>2, <2>3
<1>6. CASE o \notin Failure
  BY <1>1, <1>2, <1>4, <1>6 DEF Health
<1> QED BY <1>5, <1>6

LEMMA NextTypeOK == TypeOK /\ [Next]_vars => TypeOK'
<1> SUFFICES ASSUME TypeOK, [Next]_vars PROVE TypeOK'
  OBVIOUS
<1> USE DEF store, os, memory, hist
<1>0. now \in Int
  BY HorizonAssumption DEF TypeOK, Time
<1>1. CASE Boot
  BY <1>1, ConfigAssumption DEF Boot, TypeOK, Control, OpenRuns
<1>2. ASSUME NEW k \in Key, Recover(k) PROVE TypeOK'
  <2>1. MarkFinished(runs, k, "lost") \in [Key -> Row]
    BY MarkType DEF TypeOK, RunState
  <2>2. AdvanceSince(k) \in [Job -> Time]
    BY KeyFacts DEF TypeOK, AdvanceSince
  <2>3. CASE RecoverRemoved(k)
    BY <2>1, <2>3 DEF RecoverRemoved, Recovering, TypeOK
  <2>4. CASE RecoverRetrying(k)
    BY <2>4 DEF RecoverRetrying, Recovering, TypeOK
  <2>5. CASE RecoverClaimed(k)
    <3>1. clock' \in [Job -> JobState]
      BY <2>5, ClockType, KeyFacts, HorizonAssumption DEF RecoverClaimed, TypeOK, Time
    <3> QED BY <2>5, <2>2, <3>1 DEF RecoverClaimed, Recovering, TypeOK, TaskStep
  <2>6. CASE RecoverFromSentinel(k)
    <3>1. SentinelOutcome[sentinel[k]] \in RunState
      BY <2>6 DEF RecoverFromSentinel, TypeOK, Exit, SentinelOutcome, RunState
    <3>2. runs' \in [Key -> Row]
      BY <2>6, <3>1, MarkType DEF RecoverFromSentinel, TypeOK
    <3> QED BY <2>6, <3>2 DEF RecoverFromSentinel, Recovering, TypeOK, TaskStep, Writing
  <2>7. CASE RecoverLost(k)
    BY <2>7, <2>1 DEF RecoverLost, Recovering, TypeOK, TaskStep, Writing, Process, Exit
  <2> QED BY <1>2, <2>3, <2>4, <2>5, <2>6, <2>7 DEF Recover
<1>3. ASSUME NEW k \in Key, SweepRetry(k) PROVE TypeOK'
  <2>1. runs' \in [Key -> Row]
    BY <1>3, MarkType DEF SweepRetry, TypeOK, RunState
  <2> QED BY <1>3, <2>1 DEF SweepRetry, TypeOK, TaskStep
<1>4. ASSUME NEW j \in Job, CatchUp(j) PROVE TypeOK'
  <2>1. Missed(j) \subseteq Time /\ Replayed(j) \subseteq Missed(j)
    BY JobConfigType, ConfigAssumption DEF Missed, Replayed, Newest, TypeOK, JobConfig
  <2>2. CASE since' = [since EXCEPT ![j] = now] /\ UNCHANGED <<clock, catchup>>
    BY <1>4, <2>2 DEF CatchUp, TypeOK
  <2>3. ASSUME NEW f \in Missed(j), since' = [since EXCEPT ![j] = f],
               clock' = IF jobs[j].missed = "skip"
                          THEN SetLastFire(clock, j, f) ELSE clock,
               catchup' = [catchup EXCEPT ![j].todo = Replayed(j)]
        PROVE  TypeOK'
    <3>1. clock' \in [Job -> JobState]
      BY <2>1, <2>3, ClockType DEF TypeOK
    <3>2. catchup' \in [Job -> [todo : SUBSET Time, cur : Time \cup {NoTime}]]
      BY <2>1, <2>3 DEF TypeOK
    <3> QED BY <1>4, <2>1, <2>3, <3>1, <3>2 DEF CatchUp, TypeOK
  <2>4. clock[j].last # NoTime => clock[j].last \in Time
    BY DEF TypeOK, JobState
  <2>5. CASE /\ clock[j].last # NoTime
             /\ since' = [since EXCEPT ![j] = clock[j].last]
             /\ UNCHANGED <<clock, catchup>>
    BY <1>4, <2>4, <2>5 DEF CatchUp, TypeOK
  <2> QED BY <1>4, <2>2, <2>3, <2>5 DEF CatchUp
<1>5. ASSUME NEW j \in Job, NEW f \in Time,
             SkipQuarantined(j, f) \/ DispatchDue(j, f)
      PROVE  TypeOK'
  <2>1. Claim(runs, First(j, f)) \in [Key -> Row] /\ First(j, f) \in Key
    BY ClaimType, KeyFacts DEF TypeOK
  <2>2. CASE SkipQuarantined(j, f)
    <3>1. clock[j] \in JobState /\ clock[j].skipped + 1 \in Nat
      BY DEF TypeOK, JobState
    <3>2. [clock[j] EXCEPT !.skipped = clock[j].skipped + 1, !.last = f] \in JobState
      BY <3>1 DEF JobState
    <3>3. clock' = [clock EXCEPT ![j] =
              [clock[j] EXCEPT !.skipped = clock[j].skipped + 1, !.last = f]]
      BY <2>2 DEF SkipQuarantined, TypeOK, JobState
    <3>4. clock' \in [Job -> JobState]
      BY <3>2, <3>3 DEF TypeOK
    <3> QED BY <2>2, <3>4 DEF SkipQuarantined, Visit, TypeOK
  <2>3. CASE DispatchDue(j, f)
    <3>1. clock' \in [Job -> JobState]
      BY <2>3, ClockType DEF DispatchDue, TypeOK
    <3>2. runs' \in [Key -> Row] /\ task' \in [Key -> TaskStep]
      BY <2>1, <2>3 DEF DispatchDue, ClaimAndLaunch, TypeOK, TaskStep
    <3> QED BY <2>3, <3>1, <3>2 DEF DispatchDue, Visit, TypeOK
  <2> QED BY <1>5, <2>2, <2>3
<1>6. CASE RecoverDone \/ CatchUpDone \/ Sleep \/ PassAgain \/ Wake
  BY <1>6 DEF RecoverDone, CatchUpDone, Sleep, PassAgain, PassOver, Cleared, Wake, TypeOK,
              Control, Enabled
<1>7. CASE DispatchAdhoc
  <2>1. Head(adhoc) \in Job /\ Tail(adhoc) \in Seq(Job)
    BY <1>7 DEF DispatchAdhoc, TypeOK
  <2>2. First(Head(adhoc), now) \in Key
    BY <2>1, KeyFacts DEF TypeOK
  <2>3. Claim(runs, First(Head(adhoc), now)) \in [Key -> Row]
    BY <2>2, ClaimType DEF TypeOK
  <2>4. runs' \in [Key -> Row] /\ task' \in [Key -> TaskStep]
    BY <1>7, <2>2, <2>3 DEF DispatchAdhoc, ClaimAndLaunch, TypeOK, TaskStep
  <2> QED BY <1>7, <2>1, <2>4 DEF DispatchAdhoc, TypeOK
<1>8. CASE Stop
  BY <1>8, ForgetTypeOK DEF Stop, TypeOK
<1>9. ASSUME NEW k \in Key, Work(k) \/ TimeoutFires(k) PROVE TypeOK'
  <2>1. \A s \in RunState : Mark(runs, k, s) \in [Key -> Row]
                           /\ MarkFinished(runs, k, s) \in [Key -> Row]
    BY MarkType DEF TypeOK
  <2> USE DEF TaskStep, Waiting, Writing
  <2>2. CASE StartTask(k)
    BY <2>1, <2>2 DEF StartTask, TypeOK, RunState
  <2>3. CASE Spawn(k)
    BY <2>3 DEF Spawn, TypeOK, Process
  <2>4. CASE SpawnFails(k)
    BY <2>1, <2>4 DEF SpawnFails, TypeOK, RunState
  <2>5. CASE RecordPid(k)
    <3>1. runs \in [Key -> Row] /\ [runs[k] EXCEPT !.pid = TRUE] \in Row
      <4>1. runs \in [Key -> Row] /\ runs[k] \in Row
        BY DEF TypeOK
      <4> QED BY <4>1 DEF Row
    <3>2. runs' = [runs EXCEPT ![k] = [runs[k] EXCEPT !.pid = TRUE]]
      BY <2>5, <3>1 DEF RecordPid
    <3>3. runs' \in [Key -> Row]
      BY <3>1, <3>2
    <3> QED BY <2>5, <3>3 DEF RecordPid, TypeOK
  <2>6. CASE FinishRun(k)
    <3>1. runs' \in [Key -> Row]
      BY <2>1, <2>6 DEF FinishRun, RunState
    <3> QED BY <2>6, <3>1 DEF FinishRun, TypeOK, Process
  <2>7. CASE AfterTerminal(k) \/ RecoverLast(k)
    <3>1. clock' \in [Job -> JobState]
      <4>1. k.job \in Job /\ k.fire \in Time
        BY KeyFacts
      <4>2. SetLastFire(clock, k.job, k.fire) \in [Job -> JobState]
        BY <4>1, ClockType DEF TypeOK
      <4> QED BY <2>7, <4>2 DEF AfterTerminal, RecoverLast
    <3>2. since' \in [Job -> Time]
      <4>1. AdvanceSince(k) \in [Job -> Time]
        BY KeyFacts DEF AdvanceSince, TypeOK
      <4> QED BY <2>7, <4>1 DEF AfterTerminal, RecoverLast, TypeOK
    <3> QED BY <2>7, <3>1, <3>2 DEF AfterTerminal, RecoverLast, TypeOK
  <2>8. CASE SettleRetry(k)
    <3>1. now \in Int /\ now + jobs[k.job].delay \in Int
      <4>1. now \in Nat
        BY HorizonAssumption DEF TypeOK, Time
      <4>2. jobs[k.job].delay \in Nat
        BY JobConfigType, KeyFacts DEF TypeOK
      <4> QED BY <4>1, <4>2
    <3>2. NextAttempt(k) \in Key
      BY <2>8, KeyFacts DEF SettleRetry
    <3>3. \A t \in Int : ScheduleRetry(runs, NextAttempt(k), t) \in [Key -> Row]
      BY <3>2, ScheduleRetryType DEF TypeOK
    <3>4. runs' \in [Key -> Row]
      BY <2>8, <3>1, <3>3 DEF SettleRetry
    <3> QED BY <2>8, <3>4 DEF SettleRetry, Settled, TypeOK
  <2>9. CASE SettleFinal(k)
    <3>1. clock' \in [Job -> JobState]
      BY <2>9, HealthType, ClockType, KeyFacts DEF SettleFinal, UpdateHealth, TypeOK
    <3>2. sentinel' \in [Key -> Exit \cup {"none"}]
      BY <2>9 DEF SettleFinal, TypeOK
    <3> QED BY <2>9, <3>1, <3>2 DEF SettleFinal, Settled, TypeOK
  <2>10. CASE TimeoutFires(k)
    BY <2>10 DEF TimeoutFires, TypeOK
  <2> QED BY <1>9, <2>2, <2>3, <2>4, <2>5, <2>6, <2>7, <2>8, <2>9, <2>10 DEF Work
<1>10. ASSUME NEW j \in Job, SequenceNext(j) PROVE TypeOK'
  <2>1. NoCatchup \in [todo : SUBSET Time, cur : Time \cup {NoTime}]
    BY DEF NoCatchup
  <2>2. Unclaimed(j) \subseteq Time
    BY DEF Unclaimed, TypeOK
  <2>3. ASSUME NEW f \in Unclaimed(j),
               runs' = Claim(runs, First(j, f)),
               task' = [task EXCEPT ![First(j, f)] = "claimed"],
               catchup' = [catchup EXCEPT ![j] = [todo |-> Unclaimed(j) \ {f},
                                                  cur |-> f]]
        PROVE  TypeOK'
    <3>1. First(j, f) \in Key /\ Claim(runs, First(j, f)) \in [Key -> Row]
      BY <2>2, ClaimType, KeyFacts DEF TypeOK
    <3> QED BY <1>10, <2>2, <2>3, <3>1 DEF SequenceNext, TypeOK, TaskStep, Writing
  <2>4. CASE catchup' = [catchup EXCEPT ![j] = NoCatchup] /\ UNCHANGED <<runs, task>>
    BY <1>10, <2>1, <2>4 DEF SequenceNext, TypeOK
  <2> QED BY <1>10, <2>3, <2>4 DEF SequenceNext
<1>11. ASSUME NEW k \in Key, ProcExit(k) \/ ProcReap(k) \/ ProcVanish(k)
       PROVE  TypeOK'
  <2>1. Ends \ {"vanish"} \subseteq Exit
    BY ConfigAssumption
  <2>2. CASE ProcExit(k)
    BY <2>1, <2>2 DEF ProcExit, TypeOK, Process
  <2>3. CASE ProcReap(k)
    BY <2>3 DEF ProcReap, ExitStatus, TypeOK, Process
  <2>4. CASE ProcVanish(k)
    BY <2>4 DEF ProcVanish, Killed, ExitStatus, TypeOK, Process, Exit
  <2> QED BY <1>11, <2>2, <2>3, <2>4
<1>12. ASSUME NEW j \in Job, Trigger(j) \/ Resume(j) PROVE TypeOK'
  <2>1. CASE Trigger(j)
    BY <2>1 DEF Trigger, TypeOK
  <2>2. CASE Resume(j)
    BY <2>2, ClockType DEF Resume, TypeOK
  <2> QED BY <1>12, <2>1, <2>2
<1>13. CASE RequestDrain
  BY <1>13 DEF RequestDrain, TypeOK
<1>14. CASE RequestKill
  BY <1>14 DEF RequestKill, TypeOK, Process, Exit
<1>15. CASE TimePasses
  <2>1. now' \in Time
    BY <1>15, HorizonAssumption DEF TimePasses, TypeOK, Time
  <2> QED BY <1>15, <2>1 DEF TimePasses, TypeOK
<1>16. CASE Crash
  <2>1. proc' \in [Key -> Process] /\ downs' \in Nat
    BY <1>16 DEF Crash, TypeOK, Process
  <2>2. Forget /\ UNCHANGED <<now, runs, clock, sentinel, jobs, spawns, result>>
    BY <1>16 DEF Crash
  <2> QED BY <2>1, <2>2, ForgetTypeOK DEF TypeOK
<1>17. CASE UNCHANGED vars
  BY <1>17 DEF vars, TypeOK
<1> QED
  BY <1>1, <1>2, <1>3, <1>4, <1>5, <1>6, <1>7, <1>8, <1>9, <1>10, <1>11, <1>12,
     <1>13, <1>14, <1>15, <1>16, <1>17
  DEF Next, Loop, Coroutines, Environment

\* Every variable keeps to its domain, whatever jobs the configuration holds.
THEOREM TypeCorrect == Spec => []TypeOK
BY InitTypeOK, NextTypeOK, PTL DEF Spec

-----------------------------------------------------------------------------
(* What the statements on the runs table do to a row. *)

LEMMA TransitionFacts ==
    /\ Transitions["claimed"] = {"running", "lost"}
    /\ Transitions["running"] = Outcome
    /\ Transitions["retrying"] = {"claimed"}
BY DEF Transitions, RunState, Outcome

\* Mark and MarkFinished touch one row; along a transition it gets its state.
LEMMA MarkEffect ==
    ASSUME NEW R \in [Key -> Row], NEW k \in Key, NEW s
    PROVE  /\ \A q \in Key \ {k} : Mark(R, k, s)[q] = R[q]
                                   /\ MarkFinished(R, k, s)[q] = R[q]
           /\ MarkFinished(R, k, s)[k].finished
           /\ s \in Transitions[R[k].state] =>
                 /\ Mark(R, k, s)[k].state = s
                 /\ Mark(R, k, s)[k].finished = R[k].finished
                 /\ MarkFinished(R, k, s)[k].state = s
           /\ s \notin Transitions[R[k].state] =>
                 Mark(R, k, s) = R
                 /\ MarkFinished(R, k, s)[k].state = R[k].state
<1>1. R[k] \in Row
  OBVIOUS
<1>2. /\ \A q \in Key \ {k} : Mark(R, k, s)[q] = R[q]
      /\ s \in Transitions[R[k].state] =>
            Mark(R, k, s)[k].state = s /\ Mark(R, k, s)[k].finished = R[k].finished
      /\ s \notin Transitions[R[k].state] => Mark(R, k, s) = R
  BY <1>1 DEF Mark, Row
<1>3. DOMAIN Mark(R, k, s) = Key /\ Mark(R, k, s)[k] \in [state : {Mark(R, k, s)[k].state}, finished : BOOLEAN, pid : BOOLEAN, notBefore : Int]
  BY <1>1, NoTimeType DEF Mark, Row
<1> QED BY <1>2, <1>3 DEF MarkFinished

\* Claim and ScheduleRetry add a row where there was none, and nothing else.
LEMMA InsertEffect ==
    ASSUME NEW R \in [Key -> Row], NEW k \in Key, NEW t
    PROVE  /\ \A q \in Key \ {k} : Claim(R, k)[q] = R[q]
                                   /\ ScheduleRetry(R, k, t)[q] = R[q]
           /\ Exists(R, k) => Claim(R, k) = R /\ ScheduleRetry(R, k, t) = R
           /\ ~Exists(R, k) => Claim(R, k)[k].state = "claimed"
                               /\ ScheduleRetry(R, k, t)[k].state = "retrying"
BY DEF Claim, ScheduleRetry, Insert, NoRow

-----------------------------------------------------------------------------
(* The inductive invariant. *)

LEMMA InitBookkeeping == Init => Bookkeeping
BY DEF Init, Bookkeeping, Agree, NoRow, Outcome

\* Agree(q) speaks of nothing but the following.
LEMMA AgreeFrame ==
    ASSUME NEW q \in Key, Agree(q),
           runs'[q].state = runs[q].state, runs'[q].finished = runs[q].finished,
           task'[q] = task[q], proc'[q] = proc[q], sentinel'[q] = sentinel[q],
           spawns'[q] = spawns[q], result'[q] = result[q],
           q \in todo' => q \in todo
    PROVE  Agree(q)'
BY DEF Agree

LEMMA RecoverAgree ==
    ASSUME TypeOK, Bookkeeping, NEW k \in Key, Recover(k), NEW q \in Key
    PROVE  Agree(q)'
<1> USE DEF store, os, memory, hist, Recovering
<1>1. /\ runs \in [Key -> Row] /\ task \in [Key -> TaskStep]
      /\ proc \in [Key -> Process] /\ sentinel \in [Key -> Exit \cup {"none"}]
      /\ result \in [Key -> Exit \cup {"none"}] /\ spawns \in [Key -> Nat]
  BY DEF TypeOK
<1>2. Agree(k) /\ Agree(q)
  BY DEF Bookkeeping
<1>3. k \in todo /\ todo' = todo \ {k}
  BY DEF Recover, RecoverRemoved, RecoverRetrying, RecoverClaimed,
         RecoverFromSentinel, RecoverLost
<1>4. task[k] = "none" /\ runs[k].state \in {"claimed", "running", "retrying"}
  BY <1>2, <1>3 DEF Agree
<1>5. ASSUME q # k PROVE Agree(q)'
  <2>1. /\ runs'[q] = runs[q] /\ task'[q] = task[q] /\ proc'[q] = proc[q]
        /\ sentinel'[q] = sentinel[q] /\ spawns'[q] = spawns[q]
        /\ result'[q] = result[q]
    BY <1>1, <1>5, MarkEffect
    DEF Recover, RecoverRemoved, RecoverRetrying, RecoverClaimed,
        RecoverFromSentinel, RecoverLost
  <2> QED BY <1>2, <1>3, <2>1, AgreeFrame
<1>6. CASE RecoverRemoved(k)
  <2>1. /\ runs'[k].finished
        /\ runs'[k].state = IF runs[k].state = "retrying" THEN "retrying" ELSE "lost"
    BY <1>1, <1>4, <1>6, MarkEffect, TransitionFacts DEF RecoverRemoved, Outcome
  <2>2. Agree(k)'
    BY <1>2, <1>3, <1>4, <1>6, <2>1 DEF RecoverRemoved, Agree, Outcome
  <2> QED BY <1>5, <2>2
<1>7. CASE RecoverRetrying(k)
  <2>1. Agree(k)'
    BY <1>2, <1>3, <1>7, AgreeFrame DEF RecoverRetrying
  <2> QED BY <1>5, <2>1
<1>8. CASE RecoverClaimed(k)
  <2>1. task'[k] = "queued" /\ runs'[k].state = "claimed"
    BY <1>1, <1>8 DEF RecoverClaimed
  <2>2. Agree(k)'
    BY <1>2, <1>3, <1>8, <2>1 DEF RecoverClaimed, Agree, Outcome
  <2> QED BY <1>5, <2>2
<1>9. CASE RecoverFromSentinel(k)
  <2> DEFINE o == SentinelOutcome[sentinel[k]]
  <2>1. /\ o \in Outcome \ {"lost"} /\ sentinel[k] # "none"
        /\ o = "succeeded" => sentinel[k] = "ok"
    BY <1>1, <1>9 DEF RecoverFromSentinel, SentinelOutcome, Exit, Outcome
  <2>2. runs' = MarkFinished(runs, k, o) /\ runs[k].state = "running"
    BY <1>9 DEF RecoverFromSentinel
  <2> HIDE DEF o
  <2>3. runs'[k].finished /\ runs'[k].state = o
    BY <1>1, <2>1, <2>2, MarkEffect, TransitionFacts
  <2>4. task'[k] = "last"
    BY <1>1, <1>9 DEF RecoverFromSentinel
  <2>5. Agree(k)'
    BY <1>2, <1>3, <1>9, <2>1, <2>2, <2>3, <2>4
    DEF RecoverFromSentinel, Agree, Outcome
  <2> QED BY <1>5, <2>5
<1>10. CASE RecoverLost(k)
  <2>1. runs'[k].finished /\ runs'[k].state = "lost"
    BY <1>1, <1>10, MarkEffect, TransitionFacts DEF RecoverLost, Outcome
  <2>2. task'[k] = "lost" /\ runs[k].state = "running"
    BY <1>1, <1>10 DEF RecoverLost
  <2>3. \/ proc'[k] = proc[k] /\ result'[k] = result[k]
        \/ /\ proc'[k] = "none" /\ Live(k)
           /\ result'[k] = IF proc[k] = "alive" THEN "signal" ELSE result[k]
    BY <1>1, <1>10 DEF RecoverLost, FoundAlive
  <2>4. Agree(k)'
    BY <1>2, <1>3, <1>10, <2>1, <2>2, <2>3 DEF RecoverLost, Agree, Outcome, Live
  <2> QED BY <1>5, <2>4
<1> QED BY <1>6, <1>7, <1>8, <1>9, <1>10 DEF Recover

LEMMA WorkAgree ==
    ASSUME TypeOK, Bookkeeping, NEW k \in Key, Work(k) \/ TimeoutFires(k),
           NEW q \in Key
    PROVE  Agree(q)'
<1> USE DEF store, os, memory, hist
<1>1. /\ runs \in [Key -> Row] /\ task \in [Key -> TaskStep]
      /\ proc \in [Key -> Process] /\ sentinel \in [Key -> Exit \cup {"none"}]
      /\ result \in [Key -> Exit \cup {"none"}] /\ spawns \in [Key -> Nat]
  BY DEF TypeOK
<1>2. Agree(k) /\ Agree(q)
  BY DEF Bookkeeping
<1>3. CASE StartTask(k)
  <2>1. runs[k].state = "claimed"
    BY <1>2, <1>3 DEF StartTask, Agree
  <2>2. runs'[k].state = "running" /\ task'[k] = "spawning"
    BY <1>1, <1>3, <2>1, MarkEffect, TransitionFacts DEF StartTask
  <2>3. CASE q = k
    BY <1>2, <1>3, <2>1, <2>2, <2>3 DEF StartTask, Agree, Outcome
  <2>4. CASE q # k
    <3>1. runs'[q] = runs[q] /\ task'[q] = task[q]
      BY <1>1, <1>3, <2>4, MarkEffect DEF StartTask
    <3> QED BY <1>2, <1>3, <3>1, AgreeFrame DEF StartTask
  <2> QED BY <2>3, <2>4
<1>4. CASE Spawn(k)
  BY <1>1, <1>2, <1>4 DEF Spawn, Agree, Outcome
<1>5. CASE SpawnFails(k)
  <2>1. runs[k].state = "running"
    BY <1>2, <1>5 DEF SpawnFails, Agree
  <2>2. runs'[k].state = "failed" /\ runs'[k].finished /\ task'[k] = "last"
    BY <1>1, <1>5, <2>1, MarkEffect, TransitionFacts DEF SpawnFails, Outcome
  <2>3. CASE q = k
    BY <1>2, <1>5, <2>1, <2>2, <2>3 DEF SpawnFails, Agree, Outcome
  <2>4. CASE q # k
    <3>1. runs'[q] = runs[q] /\ task'[q] = task[q]
      BY <1>1, <1>5, <2>4, MarkEffect DEF SpawnFails
    <3> QED BY <1>2, <1>5, <3>1, AgreeFrame DEF SpawnFails
  <2> QED BY <2>3, <2>4
<1>6. CASE RecordPid(k)
  <2>1. runs'[q].state = runs[q].state /\ runs'[q].finished = runs[q].finished
    BY <1>1, <1>6 DEF RecordPid, Row
  <2> QED BY <1>1, <1>2, <1>6, <2>1 DEF RecordPid, Agree
<1>7. CASE FinishRun(k)
  <2> DEFINE o == CASE task[k] = "killing" -> "timed_out"
                    [] task[k] = "running" /\ proc[k] = "ok" -> "succeeded"
                    [] OTHER -> "failed"
  <2>1. runs[k].state = "running" /\ spawns[k] = 1
    BY <1>2, <1>7 DEF FinishRun, Agree
  <2>2. /\ o \in Outcome \ {"lost"}
        /\ o = "succeeded" => proc[k] = "ok"
    BY <1>7 DEF FinishRun, Outcome
  <2>3. runs' = MarkFinished(runs, k, o)
    BY <1>7 DEF FinishRun
  <2> HIDE DEF o
  <2>4. runs'[k].state = o /\ runs'[k].finished
    BY <1>1, <2>1, <2>2, <2>3, MarkEffect, TransitionFacts
  <2>5. task'[k] = "last" /\ proc'[k] = "none"
    BY <1>1, <1>7 DEF FinishRun
  <2>6. CASE q = k
    BY <1>2, <1>7, <2>1, <2>2, <2>4, <2>5, <2>6 DEF FinishRun, Agree, Outcome
  <2>7. CASE q # k
    <3>1. runs'[q] = runs[q] /\ task'[q] = task[q] /\ proc'[q] = proc[q]
      BY <1>1, <1>7, <2>3, <2>7, MarkEffect DEF FinishRun
    <3> QED BY <1>2, <1>7, <3>1, AgreeFrame DEF FinishRun
  <2> QED BY <2>6, <2>7
<1>8. CASE AfterTerminal(k)
  BY <1>1, <1>2, <1>8 DEF AfterTerminal, Agree, Outcome
<1>9. CASE SettleRetry(k)
  <2>1. NextAttempt(k) \in Key /\ NextAttempt(k) # k
    BY <1>9, KeyFacts DEF SettleRetry, NextAttempt, Key
  <2>2. PICK t : runs' = ScheduleRetry(runs, NextAttempt(k), t)
    BY <1>9 DEF SettleRetry
  <2>3. task[k] \in {"settle", "lost"} /\ task'[k] \in {"none", "relast"}
    BY <1>1, <1>9 DEF SettleRetry, Settled
  <2>4. runs[k].state \in Outcome
    BY <1>2, <2>3 DEF Agree, Outcome
  <2>5. CASE q = k
    <3>1. runs'[k] = runs[k]
      BY <1>1, <2>1, <2>2, InsertEffect
    <3> QED BY <1>2, <1>9, <2>3, <2>4, <2>5, <3>1 DEF SettleRetry, Agree, Outcome
  <2>6. CASE q # k /\ runs'[q] = runs[q]
    <3>1. task'[q] = task[q]
      BY <1>1, <1>9, <2>6 DEF SettleRetry, Settled
    <3> QED BY <1>2, <1>9, <2>6, <3>1, AgreeFrame DEF SettleRetry
  <2>7. CASE q # k /\ runs'[q] # runs[q]
    <3>1. runs[q].state = "absent" /\ runs'[q].state = "retrying"
      BY <1>1, <2>1, <2>2, <2>7, InsertEffect DEF Exists
    <3>2. task'[q] = task[q]
      BY <1>1, <1>9, <2>7 DEF SettleRetry, Settled
    <3> QED BY <1>2, <1>9, <3>1, <3>2 DEF SettleRetry, Agree, Outcome
  <2> QED BY <2>5, <2>6, <2>7
<1>10. CASE SettleFinal(k)
  <2>1. task[k] \in {"settle", "lost"} /\ task'[k] \in {"none", "relast"}
    BY <1>1, <1>10 DEF SettleFinal, Settled
  <2>2. sentinel'[k] \in {sentinel[k], "none"}
    BY <1>1, <1>10 DEF SettleFinal
  <2>3. CASE q = k
    BY <1>2, <1>10, <2>1, <2>2, <2>3 DEF SettleFinal, Agree, Outcome
  <2>4. CASE q # k
    <3>1. task'[q] = task[q] /\ sentinel'[q] = sentinel[q]
      BY <1>1, <1>10, <2>4 DEF SettleFinal, Settled
    <3> QED BY <1>2, <1>10, <3>1, AgreeFrame DEF SettleFinal
  <2> QED BY <2>3, <2>4
<1>11. CASE RecoverLast(k)
  BY <1>1, <1>2, <1>11 DEF RecoverLast, Agree, Outcome
<1>12. CASE TimeoutFires(k)
  BY <1>1, <1>2, <1>12 DEF TimeoutFires, Agree, Outcome
<1> QED
  BY <1>3, <1>4, <1>5, <1>6, <1>7, <1>8, <1>9, <1>10, <1>11, <1>12 DEF Work

\* Claiming keys that are not there yet, and launching them.
LEMMA ClaimAgree ==
    ASSUME TypeOK, Bookkeeping, NEW k \in Key, ClaimAndLaunch(k), todo = {},
           UNCHANGED <<proc, sentinel, result, spawns, todo>>, NEW q \in Key
    PROVE  Agree(q)'
<1>1. /\ runs \in [Key -> Row] /\ task \in [Key -> TaskStep]
      /\ Agree(k) /\ Agree(q)
  BY DEF TypeOK, Bookkeeping
<1>2. CASE q = k /\ ~Exists(runs, k)
  <2>1. runs'[k].state = "claimed" /\ task'[k] = "queued" /\ runs[k].state = "absent"
    BY <1>1, <1>2, InsertEffect DEF ClaimAndLaunch, Exists
  <2> QED BY <1>1, <1>2, <2>1 DEF Agree, Outcome
<1>3. CASE q # k \/ Exists(runs, k)
  <2>1. runs'[q] = runs[q] /\ task'[q] = task[q]
    BY <1>1, <1>3, InsertEffect DEF ClaimAndLaunch
  <2> QED BY <1>1, <2>1, AgreeFrame
<1> QED BY <1>2, <1>3

LEMMA TickAgree ==
    ASSUME TypeOK, Bookkeeping, NEW q \in Key,
           \/ DispatchAdhoc
           \/ \E j \in Job, f \in Time : SkipQuarantined(j, f) \/ DispatchDue(j, f)
           \/ \E k \in Key : SweepRetry(k)
    PROVE  Agree(q)'
<1> USE DEF store, os, memory, hist
<1>1. /\ runs \in [Key -> Row] /\ task \in [Key -> TaskStep] /\ Agree(q)
  BY DEF TypeOK, Bookkeeping
<1>2. todo = {} /\ UNCHANGED <<proc, sentinel, result, spawns, todo>>
  BY DEF Bookkeeping, DispatchAdhoc, SkipQuarantined, DispatchDue, SweepRetry, Visit
<1>3. CASE UNCHANGED <<runs, task>>
  BY <1>1, <1>2, <1>3, AgreeFrame
<1>4. CASE DispatchAdhoc
  <2>1. First(Head(adhoc), now) \in Key
    BY <1>4, KeyFacts DEF DispatchAdhoc, TypeOK
  <2> QED BY <1>2, <1>3, <1>4, <2>1, ClaimAgree DEF DispatchAdhoc
<1>5. ASSUME NEW j \in Job, NEW f \in Time,
             SkipQuarantined(j, f) \/ DispatchDue(j, f)
      PROVE  Agree(q)'
  <2>1. First(j, f) \in Key
    BY KeyFacts
  <2> QED BY <1>2, <1>3, <1>5, <2>1, ClaimAgree DEF SkipQuarantined, DispatchDue
<1>6. ASSUME NEW k \in Key, SweepRetry(k) PROVE Agree(q)'
  <2>1. runs[k].state = "retrying"
    BY <1>6 DEF SweepRetry, ReadyRetries, DueRetries
  <2>2. runs'[k].state = "claimed" /\ task'[k] = "queued"
    BY <1>1, <1>6, <2>1, MarkEffect, TransitionFacts DEF SweepRetry
  <2>3. q # k => runs'[q] = runs[q] /\ task'[q] = task[q]
    BY <1>1, <1>6, MarkEffect DEF SweepRetry
  <2> QED BY <1>1, <1>2, <2>1, <2>2, <2>3 DEF Agree, Outcome
<1> QED BY <1>4, <1>5, <1>6

LEMMA SequenceAgree ==
    ASSUME TypeOK, Bookkeeping, NEW j \in Job, SequenceNext(j), NEW q \in Key
    PROVE  Agree(q)'
<1>1. /\ runs \in [Key -> Row] /\ task \in [Key -> TaskStep] /\ Agree(q)
  BY DEF TypeOK, Bookkeeping
<1>2. todo = {} /\ UNCHANGED <<proc, sentinel, result, spawns, todo>>
  BY DEF Bookkeeping, SequenceNext, os, hist
<1>3. CASE UNCHANGED <<runs, task>>
  BY <1>1, <1>2, <1>3, AgreeFrame
<1>4. ASSUME NEW f \in Unclaimed(j), runs' = Claim(runs, First(j, f)),
             task' = [task EXCEPT ![First(j, f)] = "claimed"]
      PROVE  Agree(q)'
  <2>1. First(j, f) \in Key /\ runs[First(j, f)].state = "absent"
    BY KeyFacts DEF Unclaimed, Exists, TypeOK
  <2>2. runs'[First(j, f)].state = "claimed" /\ task'[First(j, f)] = "claimed"
    BY <1>1, <1>4, <2>1, InsertEffect DEF Exists
  <2>3. q # First(j, f) => runs'[q] = runs[q] /\ task'[q] = task[q]
    BY <1>1, <1>4, <2>1, InsertEffect
  <2> QED BY <1>1, <1>2, <2>1, <2>2, <2>3 DEF Agree, Outcome
<1> QED BY <1>3, <1>4 DEF SequenceNext

LEMMA ProcessAgree ==
    ASSUME TypeOK, Bookkeeping, NEW q \in Key,
           \/ \E k \in Key : ProcExit(k) \/ ProcReap(k) \/ ProcVanish(k)
           \/ RequestKill
    PROVE  Agree(q)'
<1> USE DEF store, os, memory, hist
<1>1. /\ proc \in [Key -> Process] /\ sentinel \in [Key -> Exit \cup {"none"}]
      /\ result \in [Key -> Exit \cup {"none"}] /\ Agree(q)
  BY DEF TypeOK, Bookkeeping
<1>2. ASSUME NEW k \in Key, ProcExit(k) PROVE Agree(q)'
  <2>1. Ends \ {"vanish"} \subseteq Exit
    BY ConfigAssumption
  <2> QED BY <1>1, <1>2, <2>1 DEF ProcExit, Agree, Exit, Outcome
<1>3. ASSUME NEW k \in Key, ProcReap(k) PROVE Agree(q)'
  BY <1>1, <1>3 DEF ProcReap, ExitStatus, Agree, Exit, Outcome
<1>4. ASSUME NEW k \in Key, ProcVanish(k) PROVE Agree(q)'
  BY <1>1, <1>4 DEF ProcVanish, Killed, ExitStatus, Agree, Outcome, Live
<1>5. CASE RequestKill
  BY <1>1, <1>5 DEF RequestKill, Agree, Outcome, Live
<1> QED BY <1>2, <1>3, <1>4, <1>5

LEMMA ForgetAgree ==
    ASSUME TypeOK, Bookkeeping, Stop \/ Crash, NEW q \in Key
    PROVE  Agree(q)' /\ todo' = {} /\ \A k \in Key : task'[k] = "none"
<1>1. /\ proc \in [Key -> Process] /\ Agree(q)
  BY DEF TypeOK, Bookkeeping
<1>2. proc'[q] \in {proc[q], "none"}
  BY <1>1 DEF Stop, Crash, os
<1>3. /\ todo' = {} /\ \A k \in Key : task'[k] = "none"
      /\ UNCHANGED <<runs, sentinel, spawns, result>>
  BY DEF Stop, Crash, Forget, os, store
<1> QED BY <1>1, <1>2, <1>3 DEF Agree, Outcome

LEMMA NextBookkeeping == TypeOK /\ Bookkeeping /\ [Next]_vars => Bookkeeping'
<1> SUFFICES ASSUME TypeOK, Bookkeeping, [Next]_vars PROVE Bookkeeping'
  OBVIOUS
<1> USE DEF store, os, memory, hist
<1>1. ASSUME NEW q \in Key PROVE Agree(q)'
  <2>1. Agree(q)
    BY DEF Bookkeeping
  <2>2. CASE Boot
    <3>1. task[q] = "none"
      BY <2>2 DEF Boot, Bookkeeping
    <3>2. q \in todo' => ~runs[q].finished /\ runs[q].state # "absent"
      BY <2>2 DEF Boot, OpenRuns, Exists
    <3> QED BY <2>1, <2>2, <3>1, <3>2 DEF Boot, Agree, Outcome
  <2>3. CASE \/ RecoverDone \/ CatchUpDone \/ Sleep \/ PassAgain \/ Wake \/ TimePasses
             \/ RequestDrain
             \/ \E j \in Job : CatchUp(j) \/ Trigger(j) \/ Resume(j)
             \/ UNCHANGED vars
    <3>1. UNCHANGED <<runs, task, proc, sentinel, spawns, result, todo>>
      BY <2>3 DEF RecoverDone, CatchUpDone, Sleep, PassAgain, Wake, TimePasses,
                  RequestDrain, CatchUp, Trigger, Resume, vars
    <3> QED BY <2>1, <3>1, AgreeFrame
  <2> QED
    BY <2>2, <2>3, RecoverAgree, WorkAgree, TickAgree, SequenceAgree,
       ProcessAgree, ForgetAgree
    DEF Next, Loop, Coroutines, Environment
<1>2. (todo # {} => pc = "recover")' /\ (pc = "down" => \A k \in Key : task[k] = "none")'
  <2>1. CASE Stop \/ Crash
    BY <2>1, ForgetAgree DEF Forget, Stop, Crash
  <2>2. ASSUME NEW k \in Key, Recover(k)
        PROVE  pc' = "recover"
    BY <2>2 DEF Recover, Recovering, RecoverRemoved, RecoverRetrying,
                RecoverClaimed, RecoverFromSentinel, RecoverLost
  <2>3. ASSUME NEW k \in Key, Work(k) \/ TimeoutFires(k)
        PROVE  todo' = todo /\ pc' = pc /\ pc # "down"
    BY <2>3 DEF Bookkeeping, Work, TimeoutFires, StartTask, Spawn, SpawnFails, RecordPid,
                FinishRun, AfterTerminal, SettleRetry, SettleFinal, RecoverLast, Yielding
  <2>4. CASE \/ \E k \in Key : SweepRetry(k)
             \/ \E j \in Job, f \in Time : SkipQuarantined(j, f) \/ DispatchDue(j, f)
             \/ \E j \in Job : SequenceNext(j) \/ CatchUp(j) \/ Trigger(j)
             \/ DispatchAdhoc \/ Sleep \/ PassAgain \/ Wake \/ RecoverDone \/ CatchUpDone
             \/ RequestDrain
    BY <2>4 DEF Bookkeeping, SweepRetry, SkipQuarantined, DispatchDue, Visit,
                SequenceNext, CatchUp, Trigger, DispatchAdhoc, Sleep, PassAgain, Wake,
                PassOver, RecoverDone, CatchUpDone, RequestDrain, Yielding
  <2>5. CASE \/ Boot \/ TimePasses \/ RequestKill \/ UNCHANGED vars
             \/ \E k \in Key : ProcExit(k) \/ ProcReap(k) \/ ProcVanish(k)
             \/ \E j \in Job : Resume(j)
    BY <2>5 DEF Bookkeeping, Boot, TimePasses, RequestKill, vars, ProcExit,
                ProcReap, ProcVanish, Resume
  <2> QED
    BY <2>1, <2>2, <2>3, <2>4, <2>5 DEF Bookkeeping, Next, Loop, Coroutines, Environment
<1> QED BY <1>1, <1>2 DEF Bookkeeping

-----------------------------------------------------------------------------

\* The row, the task, the process and the sentinel of an attempt never
\* contradict each other, whatever crashes and restarts come between.
THEOREM BookkeepingCorrect == Spec => []Bookkeeping
BY InitBookkeeping, NextBookkeeping, TypeCorrect, PTL DEF Spec

\* No attempt is ever handed to the operating system twice.
THEOREM SpawnedOnceCorrect == Spec => []SpawnedOnce
<1>1. Bookkeeping => SpawnedOnce
  BY DEF Bookkeeping, Agree, SpawnedOnce
<1> QED BY <1>1, BookkeepingCorrect, PTL

\* A row that says SUCCEEDED is of a command that ended with status 0.
THEOREM SuccessIsRealCorrect == Spec => []SuccessIsReal
<1>1. Bookkeeping => SuccessIsReal
  BY DEF Bookkeeping, Agree, SuccessIsReal
<1> QED BY <1>1, BookkeepingCorrect, PTL

-----------------------------------------------------------------------------
(* The mapping: a step that moves one row, and one that moves none.        *)

LEMMA LifecycleMove ==
    ASSUME NEW k \in Key, NEW from, NEW to, runs[k].state \in from,
           runs'[k].state = to,
           \A q \in Key \ {k} : runs'[q].state = runs[q].state
    PROVE  Lifecycle!Move(k, from, to)
BY DEF Lifecycle!Move

LEMMA LifecycleStutter ==
    ASSUME \A q \in Key : runs'[q].state = runs[q].state, UNCHANGED spawns
    PROVE  UNCHANGED Lifecycle!vars
BY DEF Lifecycle!vars

\* A row marked along a transition.
LEMMA MarkMove ==
    ASSUME TypeOK, NEW k \in Key, NEW s, s \in Transitions[runs[k].state],
           runs' = Mark(runs, k, s) \/ runs' = MarkFinished(runs, k, s)
    PROVE  Lifecycle!Move(k, {runs[k].state}, s)
<1>1. runs \in [Key -> Row]
  BY DEF TypeOK
<1>2. runs'[k].state = s /\ \A q \in Key \ {k} : runs'[q].state = runs[q].state
  BY <1>1, MarkEffect
<1> QED BY <1>2, LifecycleMove

\* A running row that gets an outcome.
LEMMA OutcomeMove ==
    ASSUME TypeOK, NEW k \in Key, NEW o \in Outcome, runs[k].state = "running",
           runs' = MarkFinished(runs, k, o), o = "succeeded" => spawns[k] = 1,
           UNCHANGED spawns
    PROVE  [Lifecycle!Next]_Lifecycle!vars
<1>1. Lifecycle!Move(k, {"running"}, o)
  BY MarkMove, TransitionFacts
<1>2. CASE o = "succeeded"
  BY <1>1, <1>2 DEF Lifecycle!Succeed, Lifecycle!Next
<1>3. CASE o # "succeeded"
  <2>1. o \in Lifecycle!Failure
    BY <1>3 DEF Outcome, Lifecycle!Failure
  <2>2. Lifecycle!Fail(k)
    BY <1>1, <2>1 DEF Lifecycle!Fail
  <2> QED BY <2>2 DEF Lifecycle!Next
<1> QED BY <1>2, <1>3

LEMMA InitLifecycle == Init => Lifecycle!Init
BY DEF Init, Lifecycle!Init, NoRow

LEMMA RecoverLifecycle ==
    ASSUME TypeOK, Bookkeeping, NEW k \in Key, Recover(k)
    PROVE  [Lifecycle!Next]_Lifecycle!vars
<1> USE DEF store, os, memory, hist, Recovering
<1>1. /\ runs \in [Key -> Row] /\ sentinel[k] \in Exit \cup {"none"}
      /\ Agree(k) /\ k \in todo /\ UNCHANGED spawns
  BY DEF TypeOK, Bookkeeping, Recover, RecoverRemoved, RecoverRetrying,
         RecoverClaimed, RecoverFromSentinel, RecoverLost
<1>2. runs[k].state \in {"claimed", "running", "retrying"}
  BY <1>1 DEF Agree
<1>3. CASE RecoverRetrying(k) \/ RecoverClaimed(k)
  BY <1>1, <1>3, LifecycleStutter DEF RecoverRetrying, RecoverClaimed
<1>5. CASE RecoverRemoved(k)
  <2>1. CASE runs[k].state = "claimed"
    <3>1. Lifecycle!Move(k, {"claimed"}, "lost")
      BY <1>5, <2>1, MarkMove, TransitionFacts DEF RecoverRemoved
    <3> QED BY <1>1, <3>1 DEF Lifecycle!Abandon, Lifecycle!Next
  <2>2. CASE runs[k].state = "running"
    BY <1>1, <1>5, <2>2, OutcomeMove DEF RecoverRemoved, Outcome
  <2>3. CASE runs[k].state = "retrying"
    <3>1. \A q \in Key : runs'[q].state = runs[q].state
      BY <1>1, <1>5, <2>3, MarkEffect, TransitionFacts DEF RecoverRemoved
    <3> QED BY <1>1, <3>1, LifecycleStutter
  <2> QED BY <1>2, <2>1, <2>2, <2>3
<1>6. CASE RecoverFromSentinel(k)
  <2>1. SentinelOutcome[sentinel[k]] \in Outcome
    BY <1>1, <1>6 DEF RecoverFromSentinel, SentinelOutcome, Exit, Outcome
  <2>2. spawns[k] = 1
    BY <1>1, <1>6 DEF RecoverFromSentinel, Agree
  <2> QED BY <1>1, <1>6, <2>1, <2>2, OutcomeMove DEF RecoverFromSentinel
<1>7. CASE RecoverLost(k)
  BY <1>1, <1>7, OutcomeMove DEF RecoverLost, Outcome
<1> QED BY <1>3, <1>5, <1>6, <1>7 DEF Recover

LEMMA WorkLifecycle ==
    ASSUME TypeOK, Bookkeeping, NEW k \in Key, Work(k) \/ TimeoutFires(k)
    PROVE  [Lifecycle!Next]_Lifecycle!vars
<1> USE DEF store, os, memory, hist
<1>1. runs \in [Key -> Row] /\ spawns \in [Key -> Nat] /\ Agree(k)
  BY DEF TypeOK, Bookkeeping
<1>2. CASE StartTask(k)
  <2>1. runs[k].state = "claimed"
    BY <1>1, <1>2 DEF StartTask, Agree
  <2>2. Lifecycle!Move(k, {"claimed"}, "running")
    BY <1>2, <2>1, MarkMove, TransitionFacts DEF StartTask
  <2> QED BY <1>2, <2>2 DEF StartTask, Lifecycle!Start, Lifecycle!Next
<1>3. CASE Spawn(k)
  <2>1. runs[k].state = "running" /\ spawns[k] = 0
    BY <1>1, <1>3 DEF Spawn, Agree
  <2>2. spawns' = [spawns EXCEPT ![k] = 1] /\ UNCHANGED runs
    BY <1>1, <1>3, <2>1 DEF Spawn
  <2>3. Lifecycle!Spawn(k)
    BY <2>1, <2>2 DEF Lifecycle!Spawn
  <2> QED BY <2>3 DEF Lifecycle!Next
<1>4. CASE SpawnFails(k)
  <2>1. runs[k].state = "running"
    BY <1>1, <1>4 DEF SpawnFails, Agree
  <2> QED BY <1>4, <2>1, OutcomeMove DEF SpawnFails, Outcome
<1>5. CASE RecordPid(k)
  <2>1. \A q \in Key : runs'[q].state = runs[q].state
    BY <1>1, <1>5 DEF RecordPid, Row
  <2> QED BY <1>5, <2>1, LifecycleStutter DEF RecordPid
<1>6. CASE FinishRun(k)
  <2> DEFINE o == CASE task[k] = "killing" -> "timed_out"
                    [] task[k] = "running" /\ proc[k] = "ok" -> "succeeded"
                    [] OTHER -> "failed"
  <2>1. runs[k].state = "running" /\ spawns[k] = 1
    BY <1>1, <1>6 DEF FinishRun, Agree
  <2>2. o \in Outcome
    BY <1>6 DEF FinishRun, Outcome
  <2>3. runs' = MarkFinished(runs, k, o) /\ UNCHANGED spawns
    BY <1>6 DEF FinishRun
  <2> HIDE DEF o
  <2> QED BY <2>1, <2>2, <2>3, OutcomeMove
<1>7. CASE AfterTerminal(k) \/ SettleFinal(k) \/ RecoverLast(k) \/ TimeoutFires(k)
  BY <1>7, LifecycleStutter DEF AfterTerminal, SettleFinal, RecoverLast, TimeoutFires
<1>8. CASE SettleRetry(k)
  <2>1. NextAttempt(k) \in Key /\ UNCHANGED spawns
    BY <1>8, KeyFacts DEF SettleRetry
  <2>2. PICK t : runs' = ScheduleRetry(runs, NextAttempt(k), t)
    BY <1>8 DEF SettleRetry
  <2>3. runs[k].state \in Failure
    BY <1>1, <1>8 DEF SettleRetry, RetryLeft, Agree, Failure, Retryable
  <2>4. CASE Exists(runs, NextAttempt(k))
    <3>1. runs' = runs
      BY <1>1, <2>1, <2>2, <2>4, InsertEffect
    <3> QED BY <2>1, <3>1, LifecycleStutter
  <2>5. CASE ~Exists(runs, NextAttempt(k))
    <3>1. Lifecycle!Move(NextAttempt(k), {"absent"}, "retrying")
      BY <1>1, <2>1, <2>2, <2>5, InsertEffect, LifecycleMove DEF Exists
    <3>2. Lifecycle!Retry(k)
      BY <2>1, <2>3, <3>1 DEF Lifecycle!Retry, Lifecycle!Failure, Failure
    <3> QED BY <3>2 DEF Lifecycle!Next
  <2> QED BY <2>4, <2>5
<1> QED
  BY <1>2, <1>3, <1>4, <1>5, <1>6, <1>7, <1>8 DEF Work

\* Claiming a first attempt, or finding it claimed already.
LEMMA ClaimLifecycle ==
    ASSUME TypeOK, NEW j \in Job, NEW t \in Time,
           runs' = Claim(runs, First(j, t)), UNCHANGED spawns
    PROVE  [Lifecycle!Next]_Lifecycle!vars
<1>1. runs \in [Key -> Row] /\ First(j, t) \in Key /\ First(j, t).attempt = 1
  BY KeyFacts DEF TypeOK, First
<1>2. CASE Exists(runs, First(j, t))
  <2>1. runs' = runs
    BY <1>1, <1>2, InsertEffect
  <2> QED BY <2>1, LifecycleStutter
<1>3. CASE ~Exists(runs, First(j, t))
  <2>1. Lifecycle!Move(First(j, t), {"absent"}, "claimed")
    BY <1>1, <1>3, InsertEffect, LifecycleMove DEF Exists
  <2>2. Lifecycle!Claim(First(j, t))
    BY <1>1, <2>1 DEF Lifecycle!Claim, Number
  <2> QED BY <1>1, <2>2 DEF Lifecycle!Next
<1> QED BY <1>2, <1>3

LEMMA TickLifecycle ==
    ASSUME TypeOK, Bookkeeping,
           \/ DispatchAdhoc
           \/ \E j \in Job, f \in Time : SkipQuarantined(j, f) \/ DispatchDue(j, f)
           \/ \E k \in Key : SweepRetry(k)
           \/ \E j \in Job : SequenceNext(j)
    PROVE  [Lifecycle!Next]_Lifecycle!vars
<1> USE DEF store, os, memory, hist
<1>1. CASE DispatchAdhoc
  <2>1. Head(adhoc) \in Job /\ now \in Time
    BY <1>1 DEF DispatchAdhoc, TypeOK
  <2> QED BY <1>1, <2>1, ClaimLifecycle, LifecycleStutter DEF DispatchAdhoc, ClaimAndLaunch
<1>2. ASSUME NEW j \in Job, NEW f \in Time,
             SkipQuarantined(j, f) \/ DispatchDue(j, f)
      PROVE  [Lifecycle!Next]_Lifecycle!vars
  BY <1>2, ClaimLifecycle, LifecycleStutter
  DEF SkipQuarantined, DispatchDue, ClaimAndLaunch
<1>3. ASSUME NEW k \in Key, SweepRetry(k) PROVE [Lifecycle!Next]_Lifecycle!vars
  <2>1. runs[k].state = "retrying" /\ runs \in [Key -> Row]
    BY <1>3 DEF SweepRetry, ReadyRetries, DueRetries, TypeOK
  <2>2. Lifecycle!Move(k, {"retrying"}, "claimed")
    BY <1>3, <2>1, MarkMove, TransitionFacts DEF SweepRetry
  <2> QED BY <1>3, <2>2 DEF SweepRetry, Lifecycle!Reclaim, Lifecycle!Next
<1>4. ASSUME NEW j \in Job, SequenceNext(j) PROVE [Lifecycle!Next]_Lifecycle!vars
  <2>1. \A f \in Unclaimed(j) : f \in Time
    BY DEF Unclaimed, TypeOK
  <2> QED BY <1>4, <2>1, ClaimLifecycle, LifecycleStutter DEF SequenceNext
<1> QED BY <1>1, <1>2, <1>3, <1>4

LEMMA NextLifecycle ==
    TypeOK /\ Bookkeeping /\ [Next]_vars => [Lifecycle!Next]_Lifecycle!vars
<1> SUFFICES ASSUME TypeOK, Bookkeeping, [Next]_vars
             PROVE  [Lifecycle!Next]_Lifecycle!vars
  OBVIOUS
<1>1. CASE \/ RecoverDone \/ CatchUpDone \/ Sleep \/ PassAgain \/ Wake \/ Stop \/ Boot
           \/ \E j \in Job : CatchUp(j)
           \/ Environment \/ UNCHANGED vars
  <2>1. UNCHANGED <<runs, spawns>>
    BY <1>1 DEF RecoverDone, CatchUpDone, Sleep, PassAgain, Wake, Stop, Boot, CatchUp,
         Environment, ProcExit, ProcReap, ProcVanish, Trigger, Resume,
         RequestDrain, RequestKill, TimePasses, Crash, vars, store, os, memory, hist
  <2> QED BY <2>1, LifecycleStutter
<1> QED
  BY <1>1, RecoverLifecycle, WorkLifecycle, TickLifecycle
  DEF Next, Loop, Coroutines

\* Whatever the jobs, the crashes and the interleavings, the rows of the store
\* and the processes behind them live the life RunLifecycle describes.
THEOREM Refinement == Spec => ImplementsLifecycle
<1>1. Spec => []TypeOK /\ []Bookkeeping
  BY TypeCorrect, BookkeepingCorrect, PTL
<1> QED
  BY <1>1, InitLifecycle, NextLifecycle, PTL DEF Spec, ImplementsLifecycle, Lifecycle!Spec

-----------------------------------------------------------------------------
(* Retries. *)

\* What RunLifecycle says of rows that are over and of rows that are not yet.
LEMMA LifecycleRows ==
    ASSUME [Lifecycle!Next]_Lifecycle!vars, NEW q \in Key
    PROVE  /\ runs[q].state \in Failure => runs'[q].state = runs[q].state
           /\ runs[q].state = "absent" =>
                 runs'[q].state \in {"absent", "retrying"} \/ q.attempt = 1
<1>1. CASE UNCHANGED Lifecycle!vars
  <2>1. runs'[q].state = runs[q].state
    BY <1>1 DEF Lifecycle!vars
  <2> QED BY <2>1
<1>2. ASSUME NEW a \in Key, NEW from, NEW to, Lifecycle!Move(a, from, to),
             from \cap Failure = {},
             "absent" \in from => to = "retrying" \/ a.attempt = 1
      PROVE  /\ runs[q].state \in Failure => runs'[q].state = runs[q].state
             /\ runs[q].state = "absent" =>
                   runs'[q].state \in {"absent", "retrying"} \/ q.attempt = 1
  <2>1. /\ runs[a].state \in from
        /\ runs'[q].state = IF q = a THEN to ELSE runs[q].state
    BY <1>2 DEF Lifecycle!Move
  <2> QED BY <1>2, <2>1
<1>3. ASSUME NEW a \in Key,
             \/ Lifecycle!Claim(a) \/ Lifecycle!Reclaim(a) \/ Lifecycle!Start(a)
             \/ Lifecycle!Succeed(a) \/ Lifecycle!Fail(a) \/ Lifecycle!Abandon(a)
      PROVE  \E from, to : /\ Lifecycle!Move(a, from, to)
                           /\ from \cap Failure = {}
                           /\ "absent" \in from => to = "retrying" \/ a.attempt = 1
  <2>1. /\ {"absent"} \cap Failure = {} /\ {"retrying"} \cap Failure = {}
        /\ {"claimed"} \cap Failure = {} /\ {"running"} \cap Failure = {}
    BY DEF Failure
  <2> QED
    BY <1>3, <2>1
    DEF Lifecycle!Claim, Number, Lifecycle!Reclaim, Lifecycle!Start,
        Lifecycle!Succeed, Lifecycle!Fail, Lifecycle!Abandon
<1>4. ASSUME NEW a \in Key, Lifecycle!Retry(a)
      PROVE  \E b \in Key : Lifecycle!Move(b, {"absent"}, "retrying")
  BY <1>4 DEF Lifecycle!Retry
<1>5. ASSUME NEW a \in Key, Lifecycle!Spawn(a)
      PROVE  runs'[q].state = runs[q].state
  BY <1>5 DEF Lifecycle!Spawn
<1>6. {"absent"} \cap Failure = {}
  BY DEF Failure
<1> QED
  BY <1>1, <1>2, <1>3, <1>4, <1>5, <1>6 DEF Lifecycle!Next

\* Only SettleRetry brings a row into being that waits for a retry.
LEMMA RetryingIsSettled ==
    ASSUME TypeOK, [Next]_vars, NEW q \in Key,
           runs[q].state = "absent", runs'[q].state = "retrying"
    PROVE  \E k \in Key : SettleRetry(k) /\ q = NextAttempt(k)
<1> USE DEF store, os, memory, hist
<1>1. /\ runs \in [Key -> Row] /\ runs'[q].state # runs[q].state
      /\ q.attempt \in 1..MaxAttempt
  BY KeyFacts DEF TypeOK
<1>2. ASSUME NEW k \in Key, NEW s, s # "retrying",
             runs' = Mark(runs, k, s) \/ runs' = MarkFinished(runs, k, s)
      PROVE  FALSE
  BY <1>1, <1>2, MarkEffect
<1>3. ASSUME NEW k \in Key, runs' = Claim(runs, k) PROVE FALSE
  <2>1. \/ Claim(runs, k)[q] = runs[q]
        \/ Claim(runs, k)[q].state = "claimed"
    <3>1. CASE Exists(runs, k)
      BY <3>1 DEF Claim, Insert
    <3>2. CASE ~Exists(runs, k)
      BY <1>1, <3>2 DEF Claim, Insert, NoRow
    <3> QED
      BY <3>1, <3>2
  <2> QED
    BY <1>1, <1>3, <2>1
<1>4. ASSUME NEW k \in Key, Recover(k) PROVE FALSE
  <2>1. \A x \in Exit : SentinelOutcome[x] # "retrying"
    BY DEF SentinelOutcome, Exit
  <2>2. CASE RecoverFromSentinel(k)
    <3>1. sentinel[k] \in Exit
      BY <2>2 DEF TypeOK, RecoverFromSentinel
    <3> QED
      BY <1>2, <2>1, <2>2, <3>1 DEF RecoverFromSentinel
  <2>3. CASE RecoverRemoved(k) \/ RecoverLost(k)
    BY <1>2, <2>3 DEF RecoverRemoved, RecoverLost
  <2>4. CASE RecoverRetrying(k) \/ RecoverClaimed(k)
    BY <1>1, <2>4 DEF RecoverRetrying, RecoverClaimed
  <2> QED
    BY <1>4, <2>2, <2>3, <2>4 DEF Recover
<1>5. ASSUME NEW k \in Key, SweepRetry(k) \/ StartTask(k) \/ SpawnFails(k) PROVE FALSE
  BY <1>2, <1>5 DEF SweepRetry, StartTask, SpawnFails
<1>6. ASSUME NEW k \in Key, FinishRun(k) PROVE FALSE
  BY <1>2, <1>6 DEF FinishRun
<1>7. ASSUME NEW k \in Key, RecordPid(k) PROVE FALSE
  BY <1>1, <1>7 DEF RecordPid, Row
<1>8. ASSUME NEW j \in Job, NEW f \in Time, DispatchDue(j, f) PROVE FALSE
  BY <1>1, <1>3, <1>8, KeyFacts DEF DispatchDue, ClaimAndLaunch
<1>9. CASE DispatchAdhoc
  <2>1. Head(adhoc) \in Job /\ now \in Time
    BY <1>9 DEF DispatchAdhoc, TypeOK
  <2> QED BY <1>1, <1>3, <1>9, <2>1, KeyFacts DEF DispatchAdhoc, ClaimAndLaunch
<1>10. ASSUME NEW j \in Job, SequenceNext(j) PROVE FALSE
  <2>1. \A f \in Unclaimed(j) : f \in Time
    BY DEF Unclaimed, TypeOK
  <2> QED BY <1>1, <1>3, <1>10, <2>1, KeyFacts DEF SequenceNext
<1>11. ASSUME NEW k \in Key, SettleRetry(k) PROVE q = NextAttempt(k)
  <2>1. NextAttempt(k) \in Key
    BY <1>11, KeyFacts DEF SettleRetry
  <2>2. PICK t : runs' = ScheduleRetry(runs, NextAttempt(k), t)
    BY <1>11 DEF SettleRetry
  <2> QED BY <1>1, <2>1, <2>2, InsertEffect
<1>12. CASE \/ RecoverDone \/ CatchUpDone \/ Sleep \/ PassAgain \/ Wake \/ Stop \/ Boot
            \/ \E j \in Job : CatchUp(j)
            \/ \E j \in Job, f \in Time : SkipQuarantined(j, f)
            \/ \E k \in Key : \/ Spawn(k) \/ AfterTerminal(k) \/ SettleFinal(k)
                              \/ RecoverLast(k) \/ TimeoutFires(k)
            \/ Environment \/ UNCHANGED vars
  BY <1>1, <1>12
  DEF RecoverDone, CatchUpDone, Sleep, PassAgain, Wake, Stop, Boot, CatchUp, SkipQuarantined,
      Spawn, AfterTerminal, SettleFinal, RecoverLast, TimeoutFires,
      Environment, ProcExit, ProcReap, ProcVanish, Trigger, Resume,
      RequestDrain, RequestKill, TimePasses, Crash, vars
<1> QED
  BY <1>4, <1>5, <1>6, <1>7, <1>8, <1>9, <1>10, <1>11, <1>12
  DEF Next, Loop, Coroutines, Work

LEMMA JobsFixed == [Next]_vars => jobs' = jobs
BY DEF Next, Loop, Coroutines, Work, Recover, Environment, RecoverRemoved,
       RecoverRetrying, RecoverClaimed, RecoverFromSentinel, RecoverLost,
       RecoverDone, CatchUpDone, Sleep, PassAgain, Wake, Stop, Boot, CatchUp, SkipQuarantined,
       DispatchDue, DispatchAdhoc, SweepRetry, SequenceNext, StartTask, Spawn,
       SpawnFails, RecordPid, FinishRun, AfterTerminal, SettleRetry, SettleFinal,
       RecoverLast, TimeoutFires, ProcExit, ProcReap, ProcVanish, Trigger, Resume,
       RequestDrain, RequestKill, TimePasses, Crash, vars

LEMMA NextRetryFollows ==
    TypeOK /\ Bookkeeping /\ RetryFollowsFailure /\ [Next]_vars
        => RetryFollowsFailure'
<1> SUFFICES ASSUME TypeOK, Bookkeeping, RetryFollowsFailure, [Next]_vars,
                    NEW k \in Key, k.attempt < MaxAttempt,
                    Exists(runs', NextAttempt(k))
             PROVE  \/ /\ runs'[k].state \in Retryable
                       /\ k.attempt <= jobs[k.job].retries
                    \/ runs'[k].state = "lost" /\ RetriesLost(k.job)
  BY JobsFixed DEF RetryFollowsFailure, RetriesLost, Exists
<1>1. [Lifecycle!Next]_Lifecycle!vars
  BY NextLifecycle
<1>2. NextAttempt(k) \in Key /\ NextAttempt(k).attempt # 1
  BY KeyFacts DEF NextAttempt, Key
<1>3. CASE Exists(runs, NextAttempt(k))
  <2>1. \/ runs[k].state \in Retryable /\ k.attempt <= jobs[k.job].retries
        \/ runs[k].state = "lost" /\ RetriesLost(k.job)
    BY <1>3 DEF RetryFollowsFailure
  <2>2. runs'[k].state = runs[k].state
    BY <1>1, <2>1, LifecycleRows DEF Retryable, Failure
  <2> QED BY <2>1, <2>2
<1>4. CASE ~Exists(runs, NextAttempt(k))
  <2>1. runs'[NextAttempt(k)].state = "retrying"
    BY <1>1, <1>2, <1>4, LifecycleRows DEF Exists
  <2>2. PICK k0 \in Key : SettleRetry(k0) /\ NextAttempt(k) = NextAttempt(k0)
    BY <1>2, <1>4, <2>1, RetryingIsSettled DEF Exists
  <2>3. k0 = k
    BY <2>2 DEF NextAttempt, Key
  <2>4. runs[k].state \in Failure /\ task[k] \in {"settle", "lost"}
    BY <2>2, <2>3 DEF SettleRetry, RetryLeft, Bookkeeping, Agree, Retryable, Failure
  <2>5. runs'[k].state = runs[k].state
    BY <1>1, <2>4, LifecycleRows
  <2> QED
    BY <2>2, <2>3, <2>5 DEF SettleRetry, RetryLeft, Bookkeeping, Agree
<1> QED BY <1>3, <1>4

\* A retry is of an attempt that is over without success, within the policy.
THEOREM RetryFollowsFailureCorrect == Spec => []RetryFollowsFailure
<1>1. Init => RetryFollowsFailure
  BY KeyFacts DEF Init, RetryFollowsFailure, Exists, NoRow
<1> QED
  BY <1>1, NextRetryFollows, TypeCorrect, BookkeepingCorrect, PTL DEF Spec
============================================================================
