------------------------- MODULE DependenciesProofs -------------------------
(***************************************************************************)
(* Proofs about Dependencies, for any job table and number of fires: a     *)
(* skipped row names a failure, a triggered run its newest input, and no   *)
(* success of an upstream is consumed twice as long as last_fire of the    *)
(* downstream only moved forward and its runs do not overlap.              *)
(***************************************************************************)
EXTENDS Dependencies, FiniteSetTheorems, TLAPS

-----------------------------------------------------------------------------
(* The newest of a set of fires. *)

LEMMA FireFacts ==
    /\ \A f \in Fire : f \in Nat /\ f \in Instant /\ f <= Horizon
    /\ \A t \in Instant : t \in Nat
    /\ Horizon \in Nat /\ NoTime \notin Nat
BY DependenciesAssumption DEF Fire, Instant

LEMMA NewestFire ==
    ASSUME NEW S \in SUBSET Fire, S # {}
    PROVE  Max(S) \in S /\ \A y \in S : y <= Max(S)
<1> DEFINE T == {Horizon - x : x \in S}
<1>1. ASSUME NEW x \in S PROVE x \in Nat /\ Horizon - x \in Nat
  <2>1. x \in Nat /\ x <= Horizon /\ Horizon \in Nat
    BY FireFacts
  <2> QED BY <2>1
<1>2. T \subseteq Nat /\ T # {}
  BY <1>1
<1>3. \E x \in T : \A y \in T : ~ (<<y, x>> \in OpToRel(<, Nat))
  BY <1>2, WFMin, NatLessThanWellFounded
<1>4. PICK m \in S : \A y \in S : ~(<<Horizon - y, Horizon - m>> \in OpToRel(<, Nat))
  BY <1>3
<1>5. ASSUME NEW y \in S PROVE m >= y
  <2>1. Horizon - y \in Nat /\ Horizon - m \in Nat /\ y \in Nat /\ m \in Nat
    BY <1>1
  <2>2. ~(Horizon - y < Horizon - m)
    BY <1>4, <2>1 DEF OpToRel
  <2>3. Horizon \in Nat
    BY FireFacts
  <2> QED BY <2>1, <2>2, <2>3
<1>6. Max(S) = CHOOSE x \in S : \A y \in S : x >= y
  BY DEF Max
<1>7. Max(S) \in S /\ \A y \in S : Max(S) >= y
  BY <1>5, <1>6
<1>8. ASSUME NEW y \in S PROVE y <= Max(S)
  BY <1>1, <1>7
<1> QED BY <1>7, <1>8

\* What last_run() and last_success_fire() return is a row of the upstream.
LEMMA NewestRow ==
    ASSUME NEW u
    PROVE  /\ Rows(u) # {} => Max(Rows(u)) \in Fire
           /\ Successes(u) # {} => /\ Max(Successes(u)) \in Fire
                                   /\ run[u][Max(Successes(u))] = "succeeded"
<1>1. Rows(u) \subseteq Fire /\ Successes(u) \subseteq Fire
  BY DEF Rows, Successes
<1>2. Rows(u) # {} => Max(Rows(u)) \in Rows(u)
  BY <1>1, NewestFire
<1>3. Successes(u) # {} => Max(Successes(u)) \in Successes(u)
  BY <1>1, NewestFire
<1> QED BY <1>1, <1>2, <1>3 DEF Successes

\* What a run is started on, and the fire it is started for.
StartedOn(j) == {<<u, Max(Successes(u))>> : u \in jobs[j].after}

LEMMA TableFacts ==
    ASSUME TypeOK, NEW j \in Job
    PROVE  jobs[j].after \subseteq Job
<1>1. jobs[j] \in JobConfig
  BY DependenciesAssumption DEF TypeOK
<1> QED BY <1>1 DEF JobConfig

LEMMA ReadyFacts ==
    ASSUME TypeOK, NEW j \in Job, AllFresh(j), Triggered(j)
    PROVE  /\ ReadyAt(j) \in Fire
           /\ \E u \in jobs[j].after : <<u, ReadyAt(j)>> \in StartedOn(j)
           /\ \A r \in StartedOn(j) :
                 /\ r \in Job \X Fire /\ r[1] \in jobs[j].after
                 /\ r[2] <= ReadyAt(j) /\ run[r[1]][r[2]] = "succeeded"
                 /\ Newer(r[2], j)
<1> DEFINE N == {Max(Successes(u)) : u \in Satisfied(j)}
<1>1. Satisfied(j) = jobs[j].after /\ jobs[j].after # {}
  BY DEF AllFresh, Pending, Satisfied, Triggered
<1>2. ASSUME NEW u \in jobs[j].after
      PROVE  /\ Max(Successes(u)) \in Fire
             /\ run[u][Max(Successes(u))] = "succeeded"
             /\ Newer(Max(Successes(u)), j)
  BY <1>1, NewestRow DEF Satisfied, FreshSuccess
<1>3. N \in SUBSET Fire /\ N # {}
  BY <1>1, <1>2
<1>4. ReadyAt(j) = Max(N)
  BY DEF ReadyAt
<1> HIDE DEF N
<1>5. ReadyAt(j) \in N /\ \A y \in N : y <= ReadyAt(j)
  BY <1>3, <1>4, NewestFire
<1> USE DEF N
<1>6. \E u \in jobs[j].after : ReadyAt(j) = Max(Successes(u))
  BY <1>1, <1>5
<1>7. ASSUME NEW u \in jobs[j].after PROVE Max(Successes(u)) <= ReadyAt(j)
  BY <1>1, <1>5
<1>8. jobs[j].after \subseteq Job
  BY TableFacts
<1>9. \E u \in jobs[j].after : <<u, ReadyAt(j)>> \in StartedOn(j)
  BY <1>6 DEF StartedOn
<1>10. ASSUME NEW r \in StartedOn(j)
       PROVE  /\ r \in Job \X Fire /\ r[1] \in jobs[j].after
              /\ r[2] <= ReadyAt(j) /\ run[r[1]][r[2]] = "succeeded"
              /\ Newer(r[2], j)
  <2>1. PICK u \in jobs[j].after : r = <<u, Max(Successes(u))>>
    BY DEF StartedOn
  <2>2. r[1] = u /\ r[2] = Max(Successes(u))
    BY <2>1
  <2> QED BY <1>2, <1>7, <1>8, <2>1, <2>2
<1> QED BY <1>3, <1>5, <1>9, <1>10

\* The failure a downstream is told of.
LEMMA FailureFacts ==
    ASSUME TypeOK, NEW j \in Job, NEW u, u \in Failed(j)
    PROVE  /\ u \in jobs[j].after /\ u \in Job
           /\ Max(Rows(u)) \in Fire /\ run[u][Max(Rows(u))] = "failed"
<1>1. u \in jobs[j].after /\ Rows(u) # {} /\ run[u][Max(Rows(u))] = "failed"
  BY DEF Failed, FreshFailure
<1> QED BY <1>1, NewestRow, TableFacts

-----------------------------------------------------------------------------
(* Type correctness.                                                       *)

LEMMA InitTypeOK == Init => TypeOK
<1> SUFFICES ASSUME Init PROVE TypeOK
  OBVIOUS
<1>1. 0 \in Instant
  BY FireFacts DEF Instant
<1>2. run \in [Job -> [Fire -> State]] /\ inputs \in [Job -> [Fire -> SUBSET (Job \X Fire)]]
  BY DEF Init, State
<1>3. tries \in [Job -> [Fire -> Nat]] /\ faults \in Nat
  BY DEF Init
<1> QED BY <1>1, <1>2, <1>3 DEF Init, TypeOK

\* A row of the table set to a state.
LEMMA RowType ==
    ASSUME TypeOK, NEW j \in Job, NEW f \in Fire, NEW s \in State
    PROVE  [run EXCEPT ![j][f] = s] \in [Job -> [Fire -> State]]
BY DEF TypeOK

LEMMA LastType ==
    ASSUME TypeOK, NEW j \in Job, NEW f \in Fire, SetLastFire(j, f)
    PROVE  last' \in [Job -> Instant \cup {NoTime}] /\ outdated' \in SUBSET Job
BY FireFacts DEF SetLastFire, LastFire, TypeOK

LEMMA WriteType ==
    ASSUME NEW j \in Job, NEW f \in Fire,
           NEW stage \in {"marked", "fired", "lost", "late", "skipped"}, Write(j, f, stage)
    PROVE  ending' \subseteq Ending
BY DEF Write, Ending

LEMMA OutcomeType ==
    ASSUME TypeOK, NEW j \in Job, NEW f \in Fire, Outcome(j, f)
    PROVE  run' \in [Job -> [Fire -> State]]
BY RowType DEF Outcome, State

LEMMA SettleType ==
    ASSUME TypeOK, NEW e \in ending, Settle(e)
    PROVE  TypeOK'
<1> DEFINE j == e.job
           f == e.fire
<1>1. j \in Job /\ f \in Fire
  BY DEF TypeOK, Ending
<1>2. /\ tries \in [Job -> [Fire -> Nat]] /\ broken \in SUBSET Job
      /\ run \in [Job -> [Fire -> State]]
  BY DEF TypeOK
<1>3. /\ run' \in [Job -> [Fire -> State]] /\ tries' \in [Job -> [Fire -> Nat]]
      /\ broken' \in SUBSET Job
  <2>1. CASE Retry(j, f)
    <3>1. run' \in [Job -> [Fire -> State]]
      BY <1>1, <2>1, RowType DEF Retry, State
    <3>2. tries' \in [Job -> [Fire -> Nat]]
      BY <1>1, <1>2, <2>1 DEF Retry
    <3> QED BY <1>2, <2>1, <3>1, <3>2 DEF Retry
  <2>2. CASE Fail(j)
    BY <1>1, <1>2, <2>2 DEF Fail
  <2>3. CASE Succeeds(j)
    BY <1>2, <2>3 DEF Succeeds
  <2> QED BY <2>1, <2>2, <2>3 DEF Settle, Fails, Lost
<1>4. ending' \subseteq Ending
  BY <1>1, WriteType DEF Settle
<1>5. wake' \in BOOLEAN
  BY Zenon DEF Settle, TypeOK
<1>6. UNCHANGED <<now, jobs, last, pc, todo, blocked, inputs, outdated, faults>>
  BY DEF Settle, hist
<1> QED BY <1>3, <1>4, <1>5, <1>6 DEF TypeOK

LEMMA SaveType ==
    ASSUME TypeOK, NEW e \in ending, SaveLastFire(e)
    PROVE  TypeOK'
<1>1. e.job \in Job /\ e.fire \in Fire
  BY DEF TypeOK, Ending
<1>2. last' \in [Job -> Instant \cup {NoTime}] /\ outdated' \in SUBSET Job
  BY <1>1, LastType DEF SaveLastFire
<1>3. ending' \subseteq Ending
  BY <1>1, WriteType DEF SaveLastFire
<1> QED BY <1>2, <1>3 DEF TypeOK, SaveLastFire

LEMMA ClaimType ==
    ASSUME TypeOK, NEW j \in Job, NEW f \in Fire, NEW on \in SUBSET (Job \X Fire),
           \/ Claim(j, f, on)
           \/ UNCHANGED <<run, blocked, inputs>>
    PROVE  /\ run' \in [Job -> [Fire -> State]]
           /\ blocked' \in [Job -> Instant \cup {NoTime}]
           /\ inputs' \in [Job -> [Fire -> SUBSET (Job \X Fire)]]
<1>1. [run EXCEPT ![j][f] = "queued"] \in [Job -> [Fire -> State]]
  BY RowType DEF State
<1>2. /\ run \in [Job -> [Fire -> State]]
      /\ blocked \in [Job -> Instant \cup {NoTime}]
      /\ inputs \in [Job -> [Fire -> SUBSET (Job \X Fire)]]
  BY DEF TypeOK
<1>3. CASE UNCHANGED <<run, blocked, inputs>>
  BY <1>2, <1>3
<1>4. CASE Claim(j, f, on) /\ run[j][f] = "absent"
  <2>1. /\ run' = [run EXCEPT ![j][f] = "queued"]
        /\ blocked' = [blocked EXCEPT ![j] = NoTime]
        /\ inputs' = [inputs EXCEPT ![j][f] = on]
    BY <1>4 DEF Claim
  <2>2. inputs' \in [Job -> [Fire -> SUBSET (Job \X Fire)]]
    BY <1>2, <2>1
  <2>3. blocked' \in [Job -> Instant \cup {NoTime}]
    BY <1>2, <2>1
  <2> QED BY <1>1, <2>1, <2>2, <2>3
<1>5. CASE Claim(j, f, on) /\ run[j][f] # "absent"
  BY <1>2, <1>5 DEF Claim
<1> QED BY <1>3, <1>4, <1>5

\* Only triggered jobs are visited, by the passes.
Visits == pc = "triggered" => todo \subseteq Downstreams

LEMMA VisitTriggered ==
    ASSUME Visits, NEW j, Visit(j)
    PROVE  Triggered(j)
BY DEF Visits, Visit, Downstreams

LEMMA ConsiderTypeOK ==
    ASSUME TypeOK, Visits, NEW j \in Job, Consider(j)
    PROVE  TypeOK'
<1> USE DEF TypeOK
<1>1. ASSUME Visit(j),
             run' \in [Job -> [Fire -> State]],
             last' \in [Job -> Instant \cup {NoTime}],
             blocked' \in [Job -> Instant \cup {NoTime}],
             inputs' \in [Job -> [Fire -> SUBSET (Job \X Fire)]],
             ending' \subseteq Ending, outdated' \in SUBSET Job
      PROVE  TypeOK'
  BY <1>1 DEF Visit
<1>2. CASE HeldByBreaker(j) \/ Hold(j)
  BY <1>1, <1>2 DEF HeldByBreaker, Hold, LetThrough, Idle
<1>3. CASE OnSuccess(j)
  <2>1. Visit(j) /\ AllFresh(j) /\ UNCHANGED <<last, ending, outdated>>
    BY <1>3 DEF OnSuccess, LetThrough
  <2>2. ReadyAt(j) \in Fire /\ StartedOn(j) \subseteq Job \X Fire
    BY <2>1, VisitTriggered, ReadyFacts
  <2>3. Claim(j, ReadyAt(j), StartedOn(j)) \/ UNCHANGED <<run, blocked, inputs>>
    BY <1>3 DEF OnSuccess, StartedOn
  <2> QED BY <1>1, <2>1, <2>2, <2>3, ClaimType
<1>4. ASSUME NEW u \in Job, RunAnyway(j, u) PROVE TypeOK'
  <2>1. Visit(j) /\ u \in Failed(j) /\ UNCHANGED <<last, ending, outdated>>
    BY <1>4 DEF RunAnyway, OnUpstreamFailure, LetThrough
  <2>2. Max(Rows(u)) \in Fire
    BY <2>1, FailureFacts
  <2>3. Claim(j, Max(Rows(u)), {}) \/ UNCHANGED <<run, blocked, inputs>>
    BY <1>4 DEF RunAnyway
  <2> QED BY <1>1, <2>1, <2>2, <2>3, ClaimType
<1>5. ASSUME NEW u \in Job, KeepWaiting(j, u) PROVE TypeOK'
  <2>1. Since(j) \in Instant
    BY DEF Since
  <2>2. blocked' \in [Job -> Instant \cup {NoTime}]
    BY <1>5, <2>1 DEF KeepWaiting
  <2> QED BY <1>1, <1>5, <2>2 DEF KeepWaiting, OnUpstreamFailure, LetThrough
<1>6. ASSUME NEW u \in Job, Skip(j, u) PROVE TypeOK'
  <2>1. Visit(j) /\ u \in Failed(j) /\ Write(j, Max(Rows(u)), "skipped")
    BY <1>6 DEF Skip, OnUpstreamFailure, LetThrough
  <2>2. Max(Rows(u)) \in Fire
    BY <2>1, FailureFacts
  <2>3. run' \in [Job -> [Fire -> State]]
    BY <1>6, <2>2 DEF Skip, State
  <2>4. blocked' \in [Job -> Instant \cup {NoTime}]
        /\ UNCHANGED <<last, inputs, outdated>>
    BY <1>6 DEF Skip
  <2>5. ending' \subseteq Ending
    BY <2>1, <2>2, WriteType
  <2> QED BY <1>1, <2>1, <2>3, <2>4, <2>5
<1> QED BY <1>2, <1>3, <1>4, <1>5, <1>6 DEF Consider

LEMMA NextTypeOK == TypeOK /\ Visits /\ [Next]_vars => TypeOK' /\ Visits'
<1> SUFFICES ASSUME TypeOK, Visits, [Next]_vars PROVE TypeOK' /\ Visits'
  OBVIOUS
<1> USE DEF TypeOK, memory, hist
<1>1. CASE Wake \/ RecoverDone \/ PassAgain
  BY <1>1 DEF Wake, RecoverDone, PassAgain, Visits
<1>2. CASE DispatchTriggered
  <2>1. Downstreams \subseteq Job /\ Downstreams' = Downstreams
    BY <1>2 DEF DispatchTriggered, Downstreams, Triggered
  <2> QED BY <1>2, <2>1 DEF DispatchTriggered, Visits
<1>3. CASE Sleep
  <2>1. run' \in [Job -> [Fire -> State]]
    BY <1>3 DEF Sleep, State
  <2> QED BY <1>3, <2>1 DEF Sleep, Visits
<1>4. ASSUME NEW j \in Job, Consider(j) PROVE TypeOK' /\ Visits'
  <2>1. Visit(j)
    BY <1>4 DEF Consider, HeldByBreaker, Hold, OnSuccess, RunAnyway, KeepWaiting,
                Skip, OnUpstreamFailure, LetThrough
  <2>2. Visits'
    BY <2>1 DEF Visit, Visits, Downstreams, Triggered
  <2> QED BY <1>4, <2>2, ConsiderTypeOK
<1>5. ASSUME NEW j \in Job, NEW f \in Fire, SweepRetry(j, f) PROVE TypeOK' /\ Visits'
  <2>1. run' \in [Job -> [Fire -> State]]
    BY <1>5, RowType DEF SweepRetry, State
  <2> QED BY <1>5, <2>1 DEF SweepRetry, Visits
<1>6. ASSUME NEW j \in Job, NEW f \in Fire, Recover(j, f) PROVE TypeOK' /\ Visits'
  <2>1. CASE RecoverClaimed(j, f)
    <3>1. last' \in [Job -> Instant \cup {NoTime}] /\ outdated' \in SUBSET Job
      BY <2>1, LastType DEF RecoverClaimed
    <3> QED BY <1>6, <2>1, <3>1 DEF Recover, RecoverClaimed, Visits
  <2>2. CASE RecoverRunning(j, f)
    <3>1. run' \in [Job -> [Fire -> State]]
      <4>1. [run EXCEPT ![j][f] = "failed"] \in [Job -> [Fire -> State]]
        BY RowType DEF State
      <4> QED BY <2>2, <4>1, OutcomeType DEF RecoverRunning
    <3>2. ending' \subseteq Ending
      BY <2>2, WriteType DEF RecoverRunning
    <3> QED BY <1>6, <2>2, <3>1, <3>2 DEF Recover, RecoverRunning, Visits
  <2> QED BY <1>6, <2>1, <2>2 DEF Recover
<1>7. ASSUME NEW j \in Job, Dispatch(j) PROVE TypeOK' /\ Visits'
  <2>1. run' \in [Job -> [Fire -> State]]
    BY <1>7, RowType DEF Dispatch, State
  <2>2. faults' \in Nat
    BY <1>7 DEF Dispatch
  <2> QED BY <1>7, <2>1, <2>2 DEF Dispatch, Visits
<1>8. ASSUME NEW j \in Job, Resume(j) PROVE TypeOK' /\ Visits'
  BY <1>8 DEF Resume, Visits
<1>9. ASSUME NEW j \in Job, NEW f \in Fire, End(j, f) PROVE TypeOK' /\ Visits'
  <2>1. run' \in [Job -> [Fire -> State]] /\ ending' \subseteq Ending
    BY <1>9, OutcomeType, WriteType DEF End
  <2> QED BY <1>9, <2>1 DEF End, Visits
<1>10. CASE TimePasses
  <2>1. now' \in Instant
    BY <1>10, FireFacts DEF TimePasses, Instant
  <2> QED BY <1>10, <2>1 DEF TimePasses, Visits
<1>11. CASE Crash
  <2>1. faults' \in Nat /\ blocked' \in [Job -> Instant \cup {NoTime}]
    BY <1>11 DEF Crash
  <2>2. outdated' \in SUBSET Job
    BY <1>11 DEF Crash, Ending
  <2> QED BY <1>11, <2>1, <2>2 DEF Crash, Visits
<1>12. CASE UNCHANGED vars
  BY <1>12 DEF vars, Visits, Downstreams, Triggered
<1>13. ASSUME NEW e \in ending, SaveLastFire(e) \/ Settle(e) PROVE TypeOK' /\ Visits'
  <2>1. UNCHANGED <<jobs, pc, todo>>
    BY <1>13 DEF SaveLastFire, Settle
  <2>2. TypeOK'
    BY <1>13, SaveType, SettleType
  <2> QED BY <2>1, <2>2 DEF Visits, Downstreams, Triggered
<1> QED
  BY <1>1, <1>2, <1>3, <1>4, <1>5, <1>6, <1>7, <1>8, <1>9, <1>10, <1>11, <1>12, <1>13
  DEF Next, Loop, Pass, Outside

\* Every variable keeps to its domain, whatever the jobs depend on.
THEOREM TypesCorrect == Spec => [](TypeOK /\ Visits)
<1>1. Init => TypeOK /\ Visits
  BY InitTypeOK DEF Init, Visits
<1> QED BY <1>1, NextTypeOK, PTL DEF Spec

\* The type invariant on its own.
THEOREM TypeOKCorrect == Spec => []TypeOK
BY TypesCorrect, PTL

-----------------------------------------------------------------------------
(* What a step does to a row, to what a run was started on, to last_fire.  *)

LEMMA JobsFixed == [Next]_vars => jobs' = jobs
<1>1. Pass => jobs' = jobs
  BY DEF Pass, Wake, DispatchTriggered, Sleep, PassAgain, RecoverDone, Consider,
         HeldByBreaker, Hold, OnSuccess, RunAnyway, KeepWaiting, Skip,
         OnUpstreamFailure, LetThrough, Visit, SweepRetry, Recover
<1>2. Outside \/ Crash \/ UNCHANGED vars => jobs' = jobs
  BY DEF Outside, Dispatch, Resume, End, TimePasses, Crash, vars
<1>3. \A e \in ending : SaveLastFire(e) \/ Settle(e) => jobs' = jobs
  BY DEF SaveLastFire, Settle
<1> QED BY <1>1, <1>2, <1>3 DEF Next, Loop

LEMMA ClaimStep ==
    ASSUME TypeOK, NEW j \in Job, NEW f \in Fire, NEW on, Claim(j, f, on),
           NEW i \in Job, NEW g \in Fire
    PROVE  \/ run'[i][g] = run[i][g] /\ inputs'[i][g] = inputs[i][g]
           \/ /\ i = j /\ g = f /\ run[i][g] = "absent"
              /\ run'[i][g] = "queued" /\ inputs'[i][g] = on
<1>1. run \in [Job -> [Fire -> State]] /\ inputs \in [Job -> [Fire -> SUBSET (Job \X Fire)]]
  BY DEF TypeOK
<1>2. CASE run[j][f] = "absent"
  <2>1. /\ run' = [run EXCEPT ![j][f] = "queued"]
        /\ inputs' = [inputs EXCEPT ![j][f] = on]
    BY <1>2 DEF Claim
  <2>2. CASE i = j /\ g = f
    BY <1>1, <1>2, <2>1, <2>2
  <2>3. CASE i # j \/ g # f
    BY <1>1, <2>1, <2>3
  <2> QED BY <2>2, <2>3
<1>3. CASE run[j][f] # "absent"
  BY <1>3 DEF Claim
<1> QED BY <1>2, <1>3

\* The outcome of a run is written to its row only.
LEMMA OutcomeStep ==
    ASSUME TypeOK, NEW j \in Job, NEW f \in Fire,
           NEW s, run' = [run EXCEPT ![j][f] = s],
           NEW i \in Job, NEW g \in Fire
    PROVE  run'[i][g] = IF i = j /\ g = f THEN s ELSE run[i][g]
<1>1. run \in [Job -> [Fire -> State]]
  BY DEF TypeOK
<1>2. CASE i = j /\ g = f
  BY <1>1, <1>2
<1>3. CASE i # j \/ g # f
  BY <1>1, <1>3
<1> QED BY <1>2, <1>3

\* What follows from an outcome turns it into a retry at most, and no success.
LEMMA SettleStep ==
    ASSUME TypeOK, NEW e \in ending, Settle(e), NEW i \in Job, NEW g \in Fire
    PROVE  \/ run'[i][g] = run[i][g]
           \/ /\ i = e.job /\ g = e.fire /\ e.stage \in {"fired", "lost"}
              /\ run[i][g] # "succeeded" /\ run'[i][g] = "retrying"
<1>1. e.job \in Job /\ e.fire \in Fire
  BY DEF TypeOK, Ending
<1>2. e.stage \in {"fired", "lost"}
  BY DEF Settle
<1>3. \/ run' = run
      \/ run[e.job][e.fire] # "succeeded" /\ run' = [run EXCEPT ![e.job][e.fire] = "retrying"]
  BY DEF Settle, Fails, Lost, Fail, Retry, Succeeds
<1> QED BY <1>1, <1>2, <1>3, OutcomeStep

LEMMA ConsiderStep ==
    ASSUME TypeOK, Visits, NEW j \in Job, Consider(j), NEW i \in Job, NEW g \in Fire
    PROVE  /\ \/ run'[i][g] = run[i][g]
              \/ run[i][g] = "absent" /\ run'[i][g] = "queued"
              \/ /\ run[i][g] = "absent" /\ run'[i][g] = "skipped"
                 /\ \E u \in jobs[i].after : run[u][g] = "failed"
           /\ \/ inputs'[i][g] = inputs[i][g]
              \/ run[i][g] = "absent" /\ inputs'[i][g] = {}
              \/ /\ OnSuccess(i) /\ g = ReadyAt(i) /\ run[i][g] = "absent"
                 /\ Inflight(i) < jobs[i].concurrency
                 /\ inputs'[i][g] = StartedOn(i) /\ run'[i][g] = "queued"
           /\ pc = "triggered" /\ pc' = pc
<1>1. Visit(j) /\ run \in [Job -> [Fire -> State]]
  BY DEF TypeOK, Consider, HeldByBreaker, Hold, OnSuccess, RunAnyway, KeepWaiting,
         Skip, OnUpstreamFailure, LetThrough
<1>2. pc = "triggered" /\ pc' = pc
  BY <1>1 DEF Visit
<1>3. CASE UNCHANGED <<run, inputs>>
  BY <1>2, <1>3
<1>4. CASE OnSuccess(j)
  <2>1. ReadyAt(j) \in Fire
    BY <1>1, <1>4, VisitTriggered, ReadyFacts DEF OnSuccess
  <2>2. \/ UNCHANGED <<run, inputs>>
        \/ /\ Claim(j, ReadyAt(j), StartedOn(j))
           /\ Inflight(j) < jobs[j].concurrency
    BY <1>4 DEF OnSuccess, StartedOn
  <2> QED BY <1>2, <1>3, <1>4, <2>1, <2>2, ClaimStep
<1>5. ASSUME NEW u \in Job, RunAnyway(j, u)
      PROVE  /\ \/ run'[i][g] = run[i][g]
                \/ run[i][g] = "absent" /\ run'[i][g] = "queued"
             /\ \/ inputs'[i][g] = inputs[i][g]
                \/ run[i][g] = "absent" /\ inputs'[i][g] = {}
  <2>1. Max(Rows(u)) \in Fire
    BY <1>5, FailureFacts DEF RunAnyway, OnUpstreamFailure
  <2>2. UNCHANGED <<run, inputs>> \/ Claim(j, Max(Rows(u)), {})
    BY <1>5 DEF RunAnyway
  <2> QED BY <2>1, <2>2, ClaimStep
<1>6. ASSUME NEW u \in Job, Skip(j, u)
      PROVE  /\ \/ run'[i][g] = run[i][g]
                \/ /\ run[i][g] = "absent" /\ run'[i][g] = "skipped"
                   /\ \E v \in jobs[i].after : run[v][g] = "failed"
             /\ inputs'[i][g] = inputs[i][g]
  <2>1. Max(Rows(u)) \in Fire /\ u \in jobs[j].after /\ run[u][Max(Rows(u))] = "failed"
    BY <1>6, FailureFacts DEF Skip, OnUpstreamFailure
  <2> DEFINE m == Max(Rows(u))
  <2>2. run' = [run EXCEPT ![j][m] = IF @ = "absent" THEN "skipped" ELSE @]
    BY <1>6 DEF Skip
  <2>3. m \in Fire
    BY <2>1
  <2> HIDE DEF m
  <2>4. run'[i][g] = IF i = j /\ g = m /\ run[i][g] = "absent"
                       THEN "skipped" ELSE run[i][g]
    <3>1. CASE i = j /\ g = m
      BY <1>1, <2>2, <2>3, <3>1
    <3>2. CASE i # j \/ g # m
      BY <1>1, <2>2, <2>3, <3>2
    <3> QED BY <3>1, <3>2
  <2> USE DEF m
  <2>5. inputs' = inputs
    BY <1>6 DEF Skip
  <2> QED BY <2>1, <2>4, <2>5
<1>7. CASE HeldByBreaker(j) \/ Hold(j) \/ \E u \in Job : KeepWaiting(j, u)
  BY <1>3, <1>7 DEF HeldByBreaker, Hold, KeepWaiting, Idle
<1> QED BY <1>2, <1>4, <1>5, <1>6, <1>7 DEF Consider

\* A row that is over stays as it is, but for a failure that is not settled; one
\* is skipped for a failure; and what a run is started on is settled when it is
\* claimed.
LEMMA RowStep ==
    ASSUME TypeOK, Visits, [Next]_vars, NEW i \in Job, NEW g \in Fire
    PROVE  /\ run[i][g] = "succeeded" => run'[i][g] = "succeeded"
           /\ run[i][g] = "failed" /\ ~Unsettled(i, g) => run'[i][g] = "failed"
           /\ run'[i][g] = "absent" => run[i][g] = "absent"
           /\ run'[i][g] = "skipped" /\ run[i][g] # "skipped" =>
                 \E u \in jobs[i].after : run[u][g] = "failed" /\ ~Unsettled(u, g)
           /\ \/ inputs'[i][g] = inputs[i][g]
              \/ run[i][g] = "absent" /\ inputs'[i][g] = {}
              \/ /\ OnSuccess(i) /\ g = ReadyAt(i) /\ run[i][g] = "absent"
                 /\ Inflight(i) < jobs[i].concurrency
                 /\ inputs'[i][g] = StartedOn(i) /\ run'[i][g] = "queued"
                 /\ pc = "triggered" /\ pc' = pc /\ ending = {}
<1>1. run \in [Job -> [Fire -> State]]
  BY DEF TypeOK
<1>2. CASE run'[i][g] = run[i][g] /\ inputs'[i][g] = inputs[i][g]
  BY <1>2
<1>3. ASSUME NEW j \in Job, Consider(j)
      PROVE  /\ \/ run'[i][g] = run[i][g]
                \/ run[i][g] = "absent" /\ run'[i][g] = "queued"
                \/ /\ run[i][g] = "absent" /\ run'[i][g] = "skipped"
                   /\ \E u \in jobs[i].after : run[u][g] = "failed"
             /\ \/ inputs'[i][g] = inputs[i][g]
                \/ run[i][g] = "absent" /\ inputs'[i][g] = {}
                \/ /\ OnSuccess(i) /\ g = ReadyAt(i) /\ run[i][g] = "absent"
                   /\ Inflight(i) < jobs[i].concurrency
                   /\ inputs'[i][g] = StartedOn(i) /\ run'[i][g] = "queued"
             /\ pc = "triggered" /\ pc' = pc
  BY <1>3, ConsiderStep
<1>4. ASSUME NEW j \in Job, NEW f \in Fire, SweepRetry(j, f) \/ (Dispatch(j) /\ f = now)
      PROVE  /\ run'[i][g] = run[i][g] \/ (run[i][g] \in {"absent", "retrying"}
                                            /\ run'[i][g] = "queued")
             /\ inputs' = inputs
  <2>1. /\ run' = [run EXCEPT ![j][f] = "queued"] /\ run[j][f] \in {"absent", "retrying"}
        /\ inputs' = inputs
    BY <1>4 DEF SweepRetry, Dispatch, hist
  <2>2. CASE i = j /\ g = f
    BY <1>1, <2>1, <2>2
  <2>3. CASE i # j \/ g # f
    BY <1>1, <2>1, <2>3
  <2> QED BY <2>1, <2>2, <2>3
<1>5. ASSUME NEW j \in Job, NEW f \in Fire, End(j, f) \/ Recover(j, f)
      PROVE  /\ run'[i][g] = run[i][g] \/ (run[i][g] = "open" /\ run'[i][g] \in
                                             {"failed", "succeeded"})
             /\ inputs' = inputs
  <2>1. inputs' = inputs
    BY <1>5 DEF End, Recover, hist
  <2>2. \/ run' = run
        \/ run[j][f] = "open" /\ \E s \in {"failed", "succeeded"} :
              run' = [run EXCEPT ![j][f] = s]
    BY <1>5 DEF End, Recover, RecoverClaimed, RecoverRunning, Outcome
  <2> QED BY <2>1, <2>2, OutcomeStep
<1>6. CASE Sleep
  <2>1. run'[i][g] = IF run[i][g] = "queued" THEN "open" ELSE run[i][g]
    BY <1>1, <1>6 DEF Sleep
  <2>2. inputs' = inputs
    BY <1>6 DEF Sleep, hist
  <2> QED BY <2>1, <2>2
<1>7. CASE \/ Wake \/ DispatchTriggered \/ PassAgain \/ RecoverDone \/ TimePasses \/ Crash
           \/ \E j \in Job : Resume(j)
           \/ UNCHANGED vars
  <2>1. run' = run /\ inputs' = inputs
    BY <1>7 DEF Wake, DispatchTriggered, PassAgain, RecoverDone, TimePasses, Crash,
                Resume, vars, hist
  <2> QED BY <2>1
<1>8. ASSUME NEW j \in Job, Dispatch(j) PROVE now \in Fire
  BY <1>8 DEF Dispatch
<1>9. ASSUME NEW e \in ending, SaveLastFire(e)
      PROVE  run'[i][g] = run[i][g] /\ inputs'[i][g] = inputs[i][g]
  BY <1>9 DEF SaveLastFire
<1>10. ASSUME NEW e \in ending, Settle(e)
       PROVE  /\ inputs'[i][g] = inputs[i][g]
              /\ \/ run'[i][g] = run[i][g]
                 \/ /\ Unsettled(i, g)
                    /\ run[i][g] # "succeeded" /\ run'[i][g] = "retrying"
  BY <1>10, SettleStep DEF Settle, hist, Unsettled
<1>11. ending = {} => \A u, h : ~Unsettled(u, h)
  BY DEF Unsettled
<1>12. ASSUME ending = {}, NEW j \in Job, Consider(j)
       PROVE  run'[i][g] = "skipped" /\ run[i][g] # "skipped" =>
                 \E u \in jobs[i].after : run[u][g] = "failed" /\ ~Unsettled(u, g)
  BY <1>3, <1>11, <1>12
<1>13. CASE ending = {} /\ \E j \in Job : Consider(j)
  BY <1>3, <1>12, <1>13
<1>14. CASE \/ \E j \in Job, f \in Fire : SweepRetry(j, f)
            \/ \E j \in Job : Dispatch(j)
  BY <1>4, <1>8, <1>14
<1>15. CASE \E j \in Job, f \in Fire : End(j, f) \/ Recover(j, f)
  BY <1>5, <1>15
<1>16. CASE \E e \in ending : SaveLastFire(e) \/ Settle(e)
  BY <1>9, <1>10, <1>16
<1> QED
  BY <1>2, <1>6, <1>7, <1>13, <1>14, <1>15, <1>16 DEF Next, Loop, Pass, Outside

\* A failure that is settled stays so: only an open row gets an outcome.
LEMMA SettledStays ==
    ASSUME TypeOK, Visits, [Next]_vars, NEW u \in Job, NEW f \in Fire,
           run[u][f] = "failed", ~Unsettled(u, f)
    PROVE  ~Unsettled(u, f)'
<1>1. CASE ending' = {}
  BY <1>1 DEF Unsettled
<1>2. ASSUME NEW j \in Job, NEW g \in Fire, End(j, g) \/ Recover(j, g)
      PROVE  ~Unsettled(u, f)'
  <2>1. \/ ending' = ending
        \/ \E stage \in {"marked", "lost"} : run[j][g] = "open" /\ Write(j, g, stage)
    BY <1>2 DEF End, Recover, RecoverClaimed, RecoverRunning
  <2> QED BY <2>1 DEF Write, Unsettled
<1>3. ASSUME NEW j \in Job, Consider(j)
      PROVE  ~Unsettled(u, f)'
  <2>1. ending' = ending \/ \E v \in Job : Write(j, Max(Rows(v)), "skipped")
    BY <1>3 DEF Consider, HeldByBreaker, Hold, OnSuccess, RunAnyway, KeepWaiting, Skip,
                Idle
  <2> QED BY <2>1 DEF Write, Unsettled
<1>4. ASSUME NEW e \in ending, SaveLastFire(e) \/ Settle(e)
      PROVE  ~Unsettled(u, f)'
  <2>1. \/ ending' = {}
        \/ e.stage = "marked" /\ Write(e.job, e.fire, "fired")
        \/ Write(e.job, e.fire, "late")
    BY <1>4 DEF SaveLastFire, Settle
  <2>2. e.stage = "marked" => ~(e.job = u /\ e.fire = f)
    BY DEF Unsettled
  <2> QED BY <2>1, <2>2 DEF Write, Unsettled
<1>5. CASE ending' = ending
  BY <1>5 DEF Unsettled
<1>6. CASE \/ Wake \/ DispatchTriggered \/ Sleep \/ PassAgain \/ RecoverDone \/ TimePasses
           \/ \E j \in Job : Resume(j) \/ Dispatch(j)
           \/ \E j \in Job, g \in Fire : SweepRetry(j, g)
           \/ UNCHANGED vars
  BY <1>5, <1>6 DEF Wake, DispatchTriggered, Sleep, PassAgain, RecoverDone, TimePasses,
                    Resume, Dispatch, SweepRetry, memory, vars
<1>7. CASE Crash
  BY <1>1, <1>7 DEF Crash
<1> QED
  BY <1>2, <1>3, <1>4, <1>6, <1>7 DEF Next, Loop, Pass, Outside

\* A skipped row names a fire at which an upstream failed for good; a run
\* started on successes is for the newest of them, whatever happens later.
THEOREM RowsComeFromUpstreamCorrect == Spec => []RowsComeFromUpstream
<1>1. Init => RowsComeFromUpstream
  BY DEF Init, RowsComeFromUpstream
<1>2. TypeOK /\ Visits /\ RowsComeFromUpstream /\ [Next]_vars => RowsComeFromUpstream'
  <2> SUFFICES ASSUME TypeOK, Visits, RowsComeFromUpstream, [Next]_vars,
                      NEW j \in Job, NEW f \in Fire
               PROVE  /\ run'[j][f] = "skipped" =>
                            \E u \in jobs[j].after :
                                run'[u][f] = "failed" /\ ~Unsettled(u, f)'
                      /\ inputs'[j][f] # {} =>
                            /\ \E u \in jobs[j].after : <<u, f>> \in inputs'[j][f]
                            /\ \A r \in inputs'[j][f] :
                                  r[2] <= f /\ run'[r[1]][r[2]] = "succeeded"
    BY JobsFixed DEF RowsComeFromUpstream
  <2>1. jobs[j].after \subseteq Job
    BY TableFacts
  <2>2. \A u \in jobs[j].after : run[u][f] = "failed" /\ ~Unsettled(u, f)
                                 => run'[u][f] = "failed" /\ ~Unsettled(u, f)'
    BY <2>1, RowStep, SettledStays
  <2>3. \A r \in Job \X Fire :
           run[r[1]][r[2]] = "succeeded" => run'[r[1]][r[2]] = "succeeded"
    BY RowStep
  <2>4. run'[j][f] = "skipped" =>
           \E u \in jobs[j].after : run[u][f] = "failed" /\ ~Unsettled(u, f)
    <3>1. CASE run[j][f] = "skipped"
      BY <3>1 DEF RowsComeFromUpstream
    <3>2. CASE run[j][f] # "skipped"
      BY <3>2, RowStep
    <3> QED BY <3>1, <3>2
  <2>5. CASE inputs'[j][f] = inputs[j][f]
    <3>1. inputs[j][f] \subseteq Job \X Fire
      BY DEF TypeOK
    <3>2. inputs[j][f] # {} =>
             /\ \E u \in jobs[j].after : <<u, f>> \in inputs[j][f]
             /\ \A r \in inputs[j][f] : r[2] <= f /\ run[r[1]][r[2]] = "succeeded"
      BY DEF RowsComeFromUpstream
    <3> QED BY <2>2, <2>3, <2>4, <2>5, <3>1, <3>2
  <2>6. CASE inputs'[j][f] = {}
    BY <2>2, <2>4, <2>6
  <2>7. CASE OnSuccess(j) /\ f = ReadyAt(j) /\ inputs'[j][f] = StartedOn(j)
    <3>1. AllFresh(j) /\ Triggered(j)
      BY <2>7, VisitTriggered DEF OnSuccess, LetThrough
    <3>2. /\ \E u \in jobs[j].after : <<u, f>> \in StartedOn(j)
          /\ \A r \in StartedOn(j) :
                r \in Job \X Fire /\ r[2] <= f /\ run[r[1]][r[2]] = "succeeded"
      BY <2>7, <3>1, ReadyFacts
    <3> QED BY <2>2, <2>3, <2>4, <2>7, <3>2
  <2> QED BY <2>5, <2>6, <2>7, RowStep
<1> QED BY <1>1, <1>2, TypesCorrect, PTL DEF Spec

-----------------------------------------------------------------------------
(* No success is consumed twice, while last_fire moves forward.            *)

\* A row that was never claimed was started on nothing.
Untouched == \A j \in Job, f \in Fire : run[j][f] = "absent" => inputs[j][f] = {}

\* The successes a run was started on are known to be consumed: last_fire has
\* reached its fire ...
Behind(j, f) == last[j] # NoTime /\ f <= last[j]

\* ... or it will before its job is visited with other successes: recovery is
\* still to visit the row, the run is open and holds the job's one slot, its end
\* is being written, or it was claimed in this pass and the upstreams have not
\* moved since.
Owed(j, f) == \E e \in ending : e.job = j /\ e.fire = f /\ OwesLastFire(e)
Waits(j, f) ==
    \/ pc = "recover" /\ run[j][f] \in {"queued", "open"} /\ <<j, f>> \in todo
    \/ pc # "recover" /\ run[j][f] = "open"
    \/ Owed(j, f)
    \/ /\ pc \in {"dispatch", "triggered"} /\ run[j][f] = "queued"
       /\ inputs[j][f] = StartedOn(j)

Consumed ==
    \A j \in Job : j \notin outdated =>
        \A f \in Fire : inputs[j][f] # {} => Behind(j, f) \/ Waits(j, f)

\* One end is written at a time, of a run that is over.
OneEnd ==
    \A e \in ending :
        /\ \A d \in ending : d = e
        /\ e.stage # "skipped" => run[e.job][e.fire] \notin {"queued", "open"}

LEMMA NextOneEnd == TypeOK /\ Visits /\ OneEnd /\ [Next]_vars => OneEnd'
<1> SUFFICES ASSUME TypeOK, Visits, OneEnd, [Next]_vars PROVE OneEnd'
  OBVIOUS
<1>1. ASSUME NEW j \in Job, NEW f \in Fire, NEW stage, Write(j, f, stage),
             stage # "skipped" => run'[j][f] \notin {"queued", "open"}
      PROVE  OneEnd'
  BY <1>1 DEF Write, OneEnd
<1>2. CASE ending' = {}
  BY <1>2 DEF OneEnd
<1>3. CASE UNCHANGED <<run, ending>>
  BY <1>3 DEF OneEnd
<1>4. ASSUME NEW j \in Job, NEW f \in Fire, End(j, f) \/ Recover(j, f)
      PROVE  OneEnd'
  <2>1. \/ UNCHANGED <<run, ending>>
        \/ \E s \in {"failed", "succeeded"}, stage \in {"marked", "lost"} :
              run' = [run EXCEPT ![j][f] = s] /\ Write(j, f, stage)
    BY <1>4 DEF End, Recover, RecoverClaimed, RecoverRunning, Outcome
  <2>2. \A s \in {"failed", "succeeded"} :
           run' = [run EXCEPT ![j][f] = s] => run'[j][f] \notin {"queued", "open"}
    BY DEF TypeOK
  <2> QED BY <1>1, <1>3, <2>1, <2>2
<1>5. ASSUME NEW j \in Job, Consider(j), ending = {}
      PROVE  OneEnd'
  <2>1. ending' = ending \/ \E u \in Failed(j) : Write(j, Max(Rows(u)), "skipped")
    BY <1>5 DEF Consider, HeldByBreaker, Hold, OnSuccess, RunAnyway, KeepWaiting, Skip,
                OnUpstreamFailure, Idle
  <2>2. \A u \in Failed(j) : Max(Rows(u)) \in Fire
    BY FailureFacts
  <2> QED BY <1>1, <1>2, <1>5, <2>1, <2>2
<1>6. ASSUME NEW e \in ending, SaveLastFire(e) \/ Settle(e)
      PROVE  OneEnd'
  <2>1. e.job \in Job /\ e.fire \in Fire
    BY DEF TypeOK, Ending
  <2>2. \/ ending' = {}
        \/ /\ \E stage \in {"fired", "late"} : Write(e.job, e.fire, stage)
           /\ e.stage # "skipped"
    BY <1>6 DEF SaveLastFire, Settle
  <2>3. e.stage # "skipped" => run'[e.job][e.fire] \notin {"queued", "open"}
    BY <1>6, <2>1, SettleStep DEF SaveLastFire, OneEnd
  <2> QED BY <1>1, <1>2, <2>1, <2>2, <2>3
<1>7. CASE /\ ending = {}
           /\ \/ Wake \/ DispatchTriggered \/ Sleep \/ PassAgain \/ RecoverDone
              \/ TimePasses
              \/ \E j \in Job : Resume(j) \/ Dispatch(j)
              \/ \E j \in Job, g \in Fire : SweepRetry(j, g)
  BY <1>2, <1>7 DEF Wake, DispatchTriggered, Sleep, PassAgain, RecoverDone, TimePasses,
                    Resume, Dispatch, SweepRetry, memory
<1>8. CASE Crash \/ UNCHANGED vars
  BY <1>2, <1>3, <1>8 DEF Crash, vars
<1> QED
  BY <1>4, <1>5, <1>6, <1>7, <1>8 DEF Next, Loop, Pass, Outside

LEMMA NextUntouched == TypeOK /\ Visits /\ Untouched /\ [Next]_vars => Untouched'
BY RowStep DEF Untouched

\* What was behind last_fire stays behind it, or the job is marked.
LEMMA BehindStays ==
    ASSUME TypeOK, Visits, [Next]_vars, NEW j \in Job, j \notin outdated',
           NEW f \in Fire
    PROVE  j \notin outdated /\ (Behind(j, f) => Behind(j, f)')
<1>1. last \in [Job -> Instant \cup {NoTime}] /\ f \in Nat
  BY FireFacts DEF TypeOK
<1>2. ASSUME NEW i \in Job, NEW g \in Fire, SetLastFire(i, g)
      PROVE  j \notin outdated /\ (Behind(j, f) => Behind(j, f)')
  <2>1. /\ last' = [last EXCEPT ![i] = g]
        /\ outdated' = IF Newer(g, i) \/ g = last[i] THEN outdated ELSE outdated \cup {i}
    BY <1>2 DEF SetLastFire, LastFire
  <2>2. j \notin outdated
    BY <2>1
  <2>3. CASE i # j
    BY <1>1, <2>1, <2>2, <2>3 DEF Behind
  <2>4. CASE i = j
    <3>1. last'[j] = g /\ g \in Nat /\ g # NoTime
      BY <1>1, <2>1, <2>4, FireFacts
    <3>2. Newer(g, j) \/ g = last[j]
      BY <2>1, <2>4
    <3>3. ASSUME Behind(j, f) PROVE f <= g
      <4>1. last[j] \in Nat
        BY <1>1, <3>3, FireFacts DEF Behind
      <4> QED BY <1>1, <3>1, <3>2, <3>3, <4>1 DEF Behind, Newer
    <3> QED BY <2>2, <3>1, <3>3 DEF Behind
  <2> QED BY <2>3, <2>4
<1>3. CASE UNCHANGED <<last, outdated>>
  BY <1>3 DEF Behind
<1>4. ASSUME NEW i \in Job, Consider(i)
      PROVE  UNCHANGED <<last, outdated>>
  BY <1>4 DEF Consider, HeldByBreaker, Hold, OnSuccess, RunAnyway, KeepWaiting, Skip,
              Idle
<1>5. ASSUME NEW e \in ending, SaveLastFire(e)
      PROVE  e.job \in Job /\ e.fire \in Fire /\ SetLastFire(e.job, e.fire)
  BY <1>5 DEF SaveLastFire, TypeOK, Ending
<1>6. ASSUME NEW i \in Job, NEW g \in Fire, Recover(i, g)
      PROVE  UNCHANGED <<last, outdated>> \/ SetLastFire(i, g)
  BY <1>6 DEF Recover, RecoverClaimed, RecoverRunning
<1>7. CASE Crash
  BY <1>7 DEF Crash, Behind
<1>8. CASE \/ Wake \/ DispatchTriggered \/ Sleep \/ PassAgain \/ RecoverDone
           \/ TimePasses
           \/ \E i \in Job : Resume(i) \/ Dispatch(i)
           \/ \E i \in Job, g \in Fire : SweepRetry(i, g) \/ End(i, g)
           \/ \E e \in ending : Settle(e)
           \/ UNCHANGED vars
  BY <1>3, <1>8 DEF Wake, DispatchTriggered, Sleep, PassAgain, RecoverDone, TimePasses,
                    Resume, Dispatch, SweepRetry, End, Settle, vars, hist
<1> QED
  BY <1>2, <1>3, <1>4, <1>5, <1>6, <1>7, <1>8 DEF Next, Loop, Pass, Outside

\* In a pass the upstreams do not move.
LEMMA PassKeepsSuccesses ==
    ASSUME TypeOK, Visits, [Next]_vars, NEW j \in Job,
           \/ DispatchTriggered \/ PassAgain
           \/ \E i \in Job : Consider(i) \/ Dispatch(i)
           \/ \E i \in Job, g \in Fire : SweepRetry(i, g)
           \/ \E e \in ending : SaveLastFire(e) \/ Settle(e)
    PROVE  StartedOn(j)' = StartedOn(j)
<1>1. run \in [Job -> [Fire -> State]]
  BY DEF TypeOK
<1>2. ASSUME NEW u \in Job, NEW g \in Fire
      PROVE  run'[u][g] = "succeeded" <=> run[u][g] = "succeeded"
  <2>1. ASSUME NEW i \in Job, Consider(i)
        PROVE  run'[u][g] \in {run[u][g], "queued", "skipped"}
    BY <2>1, ConsiderStep
  <2>2. ASSUME NEW i \in Job, NEW f \in Fire, SweepRetry(i, f) \/ (Dispatch(i) /\ f = now)
        PROVE  run'[u][g] \in {run[u][g], "queued"}
    <3>1. run' = [run EXCEPT ![i][f] = "queued"]
      BY <2>2 DEF SweepRetry, Dispatch
    <3>2. CASE u = i /\ g = f
      BY <1>1, <3>1, <3>2
    <3>3. CASE u # i \/ g # f
      BY <1>1, <3>1, <3>3
    <3> QED BY <3>2, <3>3
  <2>3. CASE DispatchTriggered \/ PassAgain
    BY <2>3 DEF DispatchTriggered, PassAgain
  <2>4. ASSUME NEW i \in Job, Dispatch(i) PROVE now \in Fire
    BY <2>4 DEF Dispatch
  <2>5. ASSUME NEW e \in ending, SaveLastFire(e) \/ Settle(e)
        PROVE  run'[u][g] \in {run[u][g], "retrying"}
    BY <2>5, SettleStep DEF SaveLastFire
  <2>6. run'[u][g] = "succeeded" => run[u][g] = "succeeded"
    BY <2>1, <2>2, <2>3, <2>4, <2>5
  <2>7. run[u][g] = "succeeded" => run'[u][g] = "succeeded"
    BY RowStep
  <2> QED BY <2>6, <2>7
<1>3. \A u \in Job : Successes(u)' = Successes(u)
  BY <1>2 DEF Successes
<1>4. jobs[j].after \subseteq Job /\ jobs' = jobs
  BY TableFacts, JobsFixed
<1>5. StartedOn(j)' = {<<u, Max(Successes(u)')>> : u \in jobs[j].after}
  BY <1>4 DEF StartedOn
<1> QED BY <1>3, <1>4, <1>5 DEF StartedOn

LEMMA WriteOwes ==
    ASSUME NEW j, NEW f, NEW stage \in {"marked", "lost", "late"}, Write(j, f, stage)
    PROVE  Owed(j, f)'
<1> DEFINE e == [job |-> j, fire |-> f, stage |-> stage]
<1>1. e \in ending' /\ e.job = j /\ e.fire = f /\ OwesLastFire(e)
  BY DEF Write, OwesLastFire
<1> QED BY <1>1 DEF Owed, OwesLastFire

LEMMA WaitsOn ==
    ASSUME TypeOK, Visits, OneEnd, [Next]_vars, NEW j \in Job, NEW f \in Fire,
           j \notin outdated', inputs'[j][f] = inputs[j][f], Waits(j, f)
    PROVE  Behind(j, f)' \/ Waits(j, f)'
<1> USE DEF memory, hist
<1>1. /\ run \in [Job -> [Fire -> State]] /\ f # NoTime /\ f <= f
      /\ last \in [Job -> Instant \cup {NoTime}]
  BY FireFacts DEF TypeOK
<1>2. ASSUME SetLastFire(j, f) PROVE Behind(j, f)'
  BY <1>1, <1>2 DEF SetLastFire, LastFire, Behind
<1>3. CASE Crash
  <2>1. pc' = "recover" /\ run' = run /\ j \notin outdated'
    BY <1>3 DEF Crash
  <2>2. ~Owed(j, f)
    BY <1>3, <2>1 DEF Crash, Owed
  <2>3. run[j][f] \in {"queued", "open"} /\ <<j, f>> \in todo'
    BY <1>3, <2>2 DEF Crash, Waits
  <2> QED BY <2>1, <2>3 DEF Waits
<1>4. CASE ending = {} /\ Sleep
  <2>1. run[j][f] \in {"queued", "open"}
    BY <1>4 DEF Waits, Owed
  <2>2. run'[j][f] = "open" /\ pc' = "sleep"
    BY <1>1, <1>4, <2>1 DEF Sleep
  <2> QED BY <2>2 DEF Waits
<1>5. ASSUME ending = {}, NEW i \in Job, NEW g \in Fire, End(i, g) \/ Recover(i, g)
      PROVE  Behind(j, f)' \/ Waits(j, f)'
  <2>1. CASE i = j /\ g = f
    <3>1. CASE SetLastFire(j, f)
      BY <1>2, <3>1
    <3>2. CASE Write(j, f, "marked") \/ Write(j, f, "lost")
      <4>1. Owed(j, f)'
        BY <3>2, WriteOwes
      <4> QED BY <4>1 DEF Waits
    <3> QED BY <1>5, <2>1, <3>1, <3>2 DEF End, Recover, RecoverClaimed, RecoverRunning
  <2>2. CASE i # j \/ g # f
    <3>1. run'[j][f] = run[j][f]
      <4>1. run' = run \/ \E s \in {"failed", "succeeded"} : run' = [run EXCEPT ![i][g] = s]
        BY <1>5 DEF End, Recover, RecoverClaimed, RecoverRunning, Outcome
      <4> QED BY <2>2, <4>1, OutcomeStep
    <3>2. ~Owed(j, f)
      BY <1>5 DEF Owed
    <3>3. CASE End(i, g)
      BY <3>1, <3>2, <3>3 DEF End, Waits
    <3>4. CASE Recover(i, g)
      BY <2>2, <3>1, <3>2, <3>4 DEF Recover, Waits
    <3> QED BY <1>5, <3>3, <3>4
  <2> QED BY <2>1, <2>2
<1>6. CASE /\ ending = {}
           /\ \/ DispatchTriggered \/ PassAgain
              \/ \E i \in Job : Consider(i) \/ Dispatch(i)
              \/ \E i \in Job, g \in Fire : SweepRetry(i, g)
  <2>0. ~Owed(j, f) /\ run[j][f] \in {"queued", "open"}
    BY <1>6 DEF Owed, Waits
  <2>1. StartedOn(j)' = StartedOn(j)
    BY <1>6, PassKeepsSuccesses
  <2>2. /\ pc \in {"dispatch", "triggered"} /\ pc' \in {"dispatch", "triggered"}
        /\ run'[j][f] = run[j][f]
    <3>1. CASE DispatchTriggered \/ PassAgain
      BY <3>1 DEF DispatchTriggered, PassAgain
    <3>2. ASSUME NEW i \in Job, Consider(i)
          PROVE  pc \in {"dispatch", "triggered"} /\ pc' \in {"dispatch", "triggered"}
                 /\ run'[j][f] = run[j][f]
      BY <2>0, <3>2, ConsiderStep
    <3>3. ASSUME NEW i \in Job, NEW g \in Fire, SweepRetry(i, g) \/ (Dispatch(i) /\ g = now)
          PROVE  pc = "dispatch" /\ pc' = pc /\ run'[j][f] = run[j][f]
      <4>1. /\ run' = [run EXCEPT ![i][g] = "queued"]
            /\ run[i][g] \in {"absent", "retrying"} /\ pc = "dispatch" /\ pc' = pc
        BY <3>3 DEF SweepRetry, Dispatch
      <4>2. i # j \/ g # f
        BY <2>0, <4>1
      <4>3. run'[j][f] = run[j][f]
        BY <1>1, <4>1, <4>2
      <4> QED BY <4>1, <4>3
    <3>4. ASSUME NEW i \in Job, Dispatch(i) PROVE now \in Fire
      BY <3>4 DEF Dispatch
    <3> QED BY <1>6, <3>1, <3>2, <3>3, <3>4
  <2> QED BY <2>0, <2>1, <2>2 DEF Waits
<1>7. CASE /\ ending = {}
           /\ Wake \/ RecoverDone \/ TimePasses \/ \E i \in Job : Resume(i)
  BY <1>7 DEF Wake, RecoverDone, TimePasses, Resume, Waits, Owed
<1>8. CASE UNCHANGED vars
  <2>1. \A u \in Job : Successes(u)' = Successes(u)
    BY <1>8 DEF vars, Successes
  <2>2. StartedOn(j)' = {<<u, Max(Successes(u)')>> : u \in jobs[j].after}
    BY <1>8 DEF vars, StartedOn
  <2>3. jobs[j].after \subseteq Job
    BY TableFacts
  <2>4. StartedOn(j)' = StartedOn(j)
    BY <2>1, <2>2, <2>3 DEF StartedOn
  <2> HIDE DEF StartedOn
  <2> QED BY <1>8, <2>4 DEF vars, Waits, Owed
<1>9. ASSUME NEW e \in ending, SaveLastFire(e) \/ Settle(e)
      PROVE  Behind(j, f)' \/ Waits(j, f)'
  <2>1. e.job \in Job /\ e.fire \in Fire /\ \A d \in ending : d = e
    BY DEF TypeOK, Ending, OneEnd
  <2>2. pc' = pc /\ todo' = todo
    BY <1>9 DEF SaveLastFire, Settle
  <2>3. CASE Owed(j, f)
    <3>1. e.job = j /\ e.fire = f /\ OwesLastFire(e)
      BY <2>1, <2>3 DEF Owed
    <3>2. CASE SaveLastFire(e)
      BY <1>2, <3>1, <3>2 DEF SaveLastFire
    <3>3. CASE Settle(e)
      <4>1. Write(j, f, "late")
        BY <3>1, <3>3 DEF Settle, OwesLastFire
      <4> QED BY <4>1, WriteOwes DEF Waits
    <3> QED BY <1>9, <3>2, <3>3
  <2>4. CASE run[j][f] \in {"queued", "open"}
    <3>1. run'[j][f] = run[j][f]
      BY <1>9, <2>4, SettleStep DEF SaveLastFire, OneEnd
    <3>2. StartedOn(j)' = StartedOn(j)
      BY <1>9, PassKeepsSuccesses
    <3> QED BY <2>2, <2>3, <3>1, <3>2 DEF Waits
  <2> QED BY <2>3, <2>4 DEF Waits
<1> QED
  BY <1>3, <1>4, <1>5, <1>6, <1>7, <1>8, <1>9 DEF Next, Loop, Pass, Outside

LEMMA NextConsumed ==
    TypeOK /\ Visits /\ OneEnd /\ Consumed /\ [Next]_vars => Consumed'
<1> SUFFICES ASSUME TypeOK, Visits, OneEnd, Consumed, [Next]_vars, NEW j \in Job,
                    j \notin outdated', NEW f \in Fire, inputs'[j][f] # {}
             PROVE  Behind(j, f)' \/ Waits(j, f)'
  BY DEF Consumed
<1>1. j \notin outdated /\ (Behind(j, f) => Behind(j, f)')
  BY BehindStays
<1>2. CASE inputs'[j][f] = inputs[j][f]
  <2>1. Behind(j, f) \/ Waits(j, f)
    BY <1>1, <1>2 DEF Consumed
  <2> QED BY <1>1, <1>2, <2>1, WaitsOn
<1>3. CASE /\ OnSuccess(j) /\ inputs'[j][f] = StartedOn(j)
           /\ run'[j][f] = "queued" /\ pc = "triggered" /\ pc' = pc
  <2>1. StartedOn(j)' = StartedOn(j)
    BY <1>3, PassKeepsSuccesses DEF Consider
  <2> QED BY <1>3, <2>1 DEF Waits
<1> QED BY <1>2, <1>3, RowStep

LEMMA BusyCounts ==
    ASSUME NEW j, NEW f \in Fire, run[j][f] = "open"
    PROVE  ~(Inflight(j) < 1)
<1>1. IsFiniteSet(Fire)
  BY FS_Interval, DependenciesAssumption DEF Fire
<1>2. Open(j) \subseteq Fire /\ f \in Open(j)
  BY DEF Open
<1>3. IsFiniteSet(Open(j)) /\ Open(j) # {}
  BY <1>1, <1>2, FS_Subset
<1>4. Cardinality(Open(j)) \in Nat /\ Cardinality(Open(j)) # 0
  BY <1>3, FS_CardinalityType, FS_EmptySet
<1> QED BY <1>4 DEF Inflight

\* What a new run is started on, no earlier run was.
LEMMA NewInputsAreNew ==
    ASSUME TypeOK, Visits, Consumed, RowsComeFromUpstream, NEW j \in Job,
           j \notin outdated, jobs[j].concurrency = 1, OnSuccess(j),
           pc = "triggered", ending = {}, Inflight(j) < jobs[j].concurrency,
           NEW g \in Fire, g # ReadyAt(j)
    PROVE  inputs[j][g] \cap StartedOn(j) = {}
<1> SUFFICES ASSUME NEW r \in inputs[j][g], r \in StartedOn(j) PROVE FALSE
  OBVIOUS
<1>1. AllFresh(j) /\ Triggered(j)
  BY VisitTriggered DEF OnSuccess, LetThrough
<1>2. /\ ReadyAt(j) \in Fire /\ r[2] \in Fire /\ r[2] <= ReadyAt(j) /\ Newer(r[2], j)
      /\ \E u \in jobs[j].after : <<u, ReadyAt(j)>> \in StartedOn(j)
      /\ \A s \in StartedOn(j) : s[2] <= ReadyAt(j)
  BY <1>1, ReadyFacts
<1>3. /\ \E u \in jobs[j].after : <<u, g>> \in inputs[j][g]
      /\ \A s \in inputs[j][g] : s[2] <= g
  BY DEF RowsComeFromUpstream
<1>4. r[2] \in Nat /\ g \in Nat /\ ReadyAt(j) \in Nat
  BY <1>2, FireFacts
<1>5. CASE Behind(j, g)
  <2>1. last[j] \in Nat /\ g <= last[j] /\ last[j] # NoTime
    BY <1>5, FireFacts DEF Behind, TypeOK
  <2>2. r[2] > last[j]
    BY <1>2, <2>1 DEF Newer
  <2>3. r[2] <= g
    BY <1>3
  <2> QED BY <1>4, <2>1, <2>2, <2>3
<1>6. CASE run[j][g] = "open"
  BY <1>6, BusyCounts
<1>7. CASE inputs[j][g] = StartedOn(j)
  <2>1. PICK u \in jobs[j].after : <<u, g>> \in inputs[j][g]
    BY <1>3
  <2>2. g <= ReadyAt(j)
    BY <1>2, <1>7, <2>1
  <2>3. PICK v \in jobs[j].after : <<v, ReadyAt(j)>> \in StartedOn(j)
    BY <1>2
  <2>4. ReadyAt(j) <= g
    BY <1>3, <1>7, <2>3
  <2> QED BY <1>4, <2>2, <2>4
<1> QED BY <1>5, <1>6, <1>7 DEF Consumed, Waits, Owed

\* A downstream whose last_fire never moved back, nor missed the end of a run over
\* a crash, and whose runs do not overlap, consumes a success of an upstream at
\* most once, over all other crashes, retries, quarantines and manual triggers.
THEOREM FreshWhileInOrderCorrect == Spec => []FreshWhileInOrder
<1>1. Init => OneEnd /\ Untouched /\ Consumed /\ FreshWhileInOrder
  BY DEF Init, OneEnd, Untouched, Consumed, FreshWhileInOrder, Disjoint
<1>2. /\ TypeOK /\ Visits /\ Consumed /\ RowsComeFromUpstream /\ FreshWhileInOrder
      /\ [Next]_vars
      => FreshWhileInOrder'
  <2> SUFFICES ASSUME TypeOK, Visits, Consumed, RowsComeFromUpstream,
                      FreshWhileInOrder, [Next]_vars, NEW j \in Job,
                      j \notin outdated', jobs[j].concurrency = 1,
                      NEW f \in Fire, NEW g \in Fire, f # g
               PROVE  inputs'[j][f] \cap inputs'[j][g] = {}
    BY JobsFixed DEF FreshWhileInOrder, Disjoint
  <2>1. j \notin outdated
    BY BehindStays
  <2>2. inputs[j][f] \cap inputs[j][g] = {}
    BY <2>1 DEF FreshWhileInOrder, Disjoint
  <2> DEFINE New(x) == /\ OnSuccess(j) /\ x = ReadyAt(j) /\ pc = "triggered"
                       /\ Inflight(j) < jobs[j].concurrency /\ ending = {}
                       /\ inputs'[j][x] = StartedOn(j)
  <2>3. \A x \in Fire : \/ inputs'[j][x] = inputs[j][x] \/ inputs'[j][x] = {} \/ New(x)
    BY RowStep
  <2>4. ASSUME NEW x \in Fire, NEW y \in Fire, x # y, New(x)
        PROVE  inputs[j][y] \cap inputs'[j][x] = {}
    BY <2>1, <2>4, NewInputsAreNew
  <2>5. ~(New(f) /\ New(g))
    OBVIOUS
  <2> HIDE DEF New
  <2> QED BY <2>2, <2>3, <2>4, <2>5
<1> QED
  BY <1>1, <1>2, NextOneEnd, NextConsumed, TypesCorrect, RowsComeFromUpstreamCorrect, PTL DEF Spec
=============================================================================
