--------------------------- MODULE ClusterProofs ---------------------------
(* Type correctness of Cluster, that at most one daemon schedules, and that *)
(* a handover disturbs no run.                                             *)
EXTENDS Cluster, TLAPS

\* What a daemon may rely on while it recovers or is in a pass: the lease is
\* its own, and longer than it can stay there, by whichever clock.
Entitled ==
    \A d \in Daemon : Scheduling(d) =>
        /\ lease.holder = d
        /\ slack[d] \in Nat
        /\ lease.left >= slack[d] + MaxAhead

-----------------------------------------------------------------------------
(* Type correctness. *)

LEMMA EnterTypes ==
    ASSUME TypeOK, NEW d \in Daemon, NEW stage \in Stage,
           NEW limit \in Nat \cup {NoLimit}, Enter(d, stage, limit)
    PROVE  pc' \in [Daemon -> Stage] /\ slack' \in [Daemon -> Nat \cup {NoLimit}]
BY DEF TypeOK, Enter

LEMMA ClaimRowTypes ==
    ASSUME TypeOK, NEW d \in Daemon, NEW f \in Fire, ClaimRow(d, f)
    PROVE  row' \in [Fire -> RowState] /\ queued' \in [Daemon -> [Fire -> Nat]]
<1>1. CASE row[f] = "absent"
  <2>1. /\ row' = [row EXCEPT ![f] = "claimed"]
        /\ queued' = [queued EXCEPT ![d][f] = queued[d][f] + 1]
    BY <1>1 DEF ClaimRow
  <2>2. row' \in [Fire -> RowState]
    BY <2>1 DEF TypeOK, RowState
  <2>3. queued' \in [Daemon -> [Fire -> Nat]]
    BY <2>1 DEF TypeOK
  <2> QED
    BY <2>2, <2>3
<1>2. CASE row[f] # "absent"
  BY <1>2 DEF TypeOK, ClaimRow
<1> QED
  BY <1>1, <1>2

LEMMA LoopTypes ==
    ASSUME TypeOK, NEW d \in Daemon, Loop(d)
    PROVE  TypeOK'
<1> USE LeaseAssumption DEF TypeOK, Enter, Stage, RowState
<1>1. CASE Take(d)
  BY <1>1 DEF Take, Held, table, given, work
<1>2. CASE Lose(d)
  BY <1>2 DEF Lose, table, given, work
<1>3. CASE OpenRuns(d)
  BY <1>3 DEF OpenRuns, Open, table, given
<1>4. CASE RecoverDone(d)
  BY <1>4 DEF RecoverDone, table, given
<1>5. CASE RenewLease(d)
  BY <1>5 DEF RenewLease, Held, table, given, work
<1>6. CASE StepDown(d)
  BY <1>6 DEF StepDown, table, given, work
<1>7. CASE Sleep(d)
  BY <1>7 DEF Sleep, table, given, work
<1>8. CASE Wake(d)
  <2>1. PICK stage \in Stage, limit \in Nat \cup {NoLimit} : Enter(d, stage, limit)
    BY <1>8 DEF Wake
  <2>2. pc' \in [Daemon -> Stage] /\ slack' \in [Daemon -> Nat \cup {NoLimit}]
    BY <2>1, EnterTypes
  <2> QED
    BY <1>8, <2>2 DEF Wake, table, given, work
<1>9. CASE Stop(d)
  BY <1>9 DEF Stop, Release, Free, Forget, NoRows, NoTasks, NoLimit, table, given
<1>10. ASSUME NEW f \in Fire, RecoverClaimed(d, f)
       PROVE  TypeOK'
  BY <1>10 DEF RecoverClaimed, table, given
<1>11. ASSUME NEW f \in Fire, RecoverRunning(d, f)
       PROVE  TypeOK'
  <2>1. row' \in [Fire -> RowState]
    BY <1>11 DEF RecoverRunning
  <2>2. todo' \in [Daemon -> [Fire -> {"absent", "claimed", "running"}]]
    BY <1>11 DEF RecoverRunning
  <2> QED
    BY <1>11, <2>1, <2>2 DEF RecoverRunning, given
<1>12. ASSUME NEW f \in Fire, Dispatch(d, f)
       PROVE  TypeOK'
  BY <1>12, ClaimRowTypes DEF Dispatch, given
<1> QED
  BY <1>1, <1>2, <1>3, <1>4, <1>5, <1>6, <1>7, <1>8, <1>9, <1>10, <1>11, <1>12
  DEF Loop

LEMMA CoroutineTypes ==
    ASSUME TypeOK, NEW d \in Daemon, NEW f \in Fire, Coroutine(d, f)
    PROVE  TypeOK'
<1> USE DEF TypeOK, RowState
<1>1. CASE Start(d, f)
  BY <1>1 DEF Start, MarkRunning, given
<1>2. CASE Finish(d, f)
  BY <1>2 DEF Finish, given
<1>3. CASE SequenceNext(d, f)
  <2>1. row' \in [Fire -> RowState] /\ queued' \in [Daemon -> [Fire -> Nat]]
    <3>1. CASE stopping[d]
      BY <1>3, <3>1 DEF SequenceNext
    <3>2. CASE ~stopping[d]
      <4>1. ClaimRow(d, f)
        BY <1>3, <3>2 DEF SequenceNext
      <4> QED
        BY <4>1, ClaimRowTypes
    <3> QED
      BY <3>1, <3>2
  <2>2. seq' \in [Daemon -> SUBSET Fire]
    BY <1>3 DEF SequenceNext
  <2> QED
    BY <1>3, <2>1, <2>2 DEF SequenceNext, given
<1> QED
  BY <1>1, <1>2, <1>3 DEF Coroutine

LEMMA NextTypes ==
    ASSUME TypeOK, [Next]_vars
    PROVE  TypeOK'
<1> USE LeaseAssumption DEF TypeOK, Enter, Stage
<1>1. CASE TimePasses
  <2>1. slack' \in [Daemon -> Nat \cup {NoLimit}]
    <3>1. ASSUME NEW d \in Daemon
          PROVE  (IF slack[d] > 0 THEN slack[d] - 1 ELSE slack[d])
                    \in Nat \cup {NoLimit}
      <4>1. CASE slack[d] = NoLimit
        BY <4>1 DEF NoLimit
      <4>2. CASE slack[d] \in Nat
        BY <4>2
      <4> QED
        BY <4>1, <4>2
    <3> QED
      BY <1>1, <3>1 DEF TimePasses
  <2>2. lease' \in [holder : Daemon \cup {NoDaemon}, fence : Nat, left : Int]
    <3>1. PICK n \in Int : lease' = [lease EXCEPT !.left = n]
      <4>1. lease.left \in Int
        OBVIOUS
      <4> DEFINE n == IF lease.left >= 0 THEN lease.left - 1 ELSE lease.left
      <4>2. n \in Int
        BY <4>1
      <4>3. lease' = [lease EXCEPT !.left = n]
        BY <1>1 DEF TimePasses
      <4> QED
        BY <4>2, <4>3
    <3> QED
      BY <3>1
  <2> QED
    BY <1>1, <2>1, <2>2 DEF TimePasses, table, given, work
<1>2. ASSUME NEW d \in Daemon, Boot(d)
      PROVE  TypeOK'
  BY <1>2 DEF Boot, table, given, work
<1>3. ASSUME NEW d \in Daemon, Loop(d)
      PROVE  TypeOK'
  BY <1>3, LoopTypes
<1>4. ASSUME NEW d \in Daemon, NEW f \in Fire, Coroutine(d, f)
      PROVE  TypeOK'
  BY <1>4, CoroutineTypes
<1>5. ASSUME NEW d \in Daemon, StoreFails(d)
      PROVE  TypeOK'
  <2>1. PICK stage \in Stage, limit \in Nat \cup {NoLimit} : Enter(d, stage, limit)
    BY <1>5 DEF StoreFails
  <2>2. pc' \in [Daemon -> Stage] /\ slack' \in [Daemon -> Nat \cup {NoLimit}]
    BY <2>1, EnterTypes
  <2> QED
    BY <1>5, <2>2 DEF StoreFails, table, given, work
<1>6. ASSUME NEW d \in Daemon, RequestDrain(d)
      PROVE  TypeOK'
  BY <1>6 DEF RequestDrain, table, given, work
<1>7. ASSUME NEW d \in Daemon, Crash(d)
      PROVE  TypeOK'
  BY <1>7 DEF Crash, Forget, NoRows, NoTasks, NoLimit, table, given
<1>8. ASSUME NEW d \in Daemon, Suspend(d)
      PROVE  TypeOK'
  BY <1>8 DEF Suspend, NoLimit, table, given, work
<1>9. CASE UNCHANGED vars
  BY <1>9 DEF vars
<1> QED
  BY <1>1, <1>2, <1>3, <1>4, <1>5, <1>6, <1>7, <1>8, <1>9 DEF Next

\* Every variable keeps its type, however many daemons there are.
THEOREM TypesCorrect == Spec => []TypeOK
<1>1. Init => TypeOK
  <2> SUFFICES ASSUME Init PROVE TypeOK
    OBVIOUS
  <2>1. Free \in [holder : Daemon \cup {NoDaemon}, fence : Nat, left : Int]
    BY DEF Free
  <2> QED
    BY <2>1 DEF Init, TypeOK, NoRows, NoTasks, Stage, RowState
<1> QED
  BY <1>1, NextTypes, PTL DEF Spec

-----------------------------------------------------------------------------

\* Nobody can win the lease from a daemon that is entitled to it.
LEMMA NotWonFrom ==
    ASSUME TypeOK, Entitled, NEW d \in Daemon, NEW e \in Daemon,
           Scheduling(d), Won(e)
    PROVE  d = e
BY LeaseAssumption DEF TypeOK, Entitled, Won

\* A step that gives nobody the right to schedule, changes no lease and lets
\* nobody stay longer keeps Entitled.
LEMMA EntitledFrame ==
    ASSUME TypeOK, Entitled, UNCHANGED lease,
           \A d \in Daemon : Scheduling(d)' => Scheduling(d) /\ slack'[d] = slack[d]
    PROVE  Entitled'
BY DEF Entitled

LEMMA LoopEntitled ==
    ASSUME TypeOK, Entitled, NEW d \in Daemon, Loop(d)
    PROVE  Entitled'
<1>1. CASE Take(d)
  <2>1. /\ lease'.holder = d
        /\ lease'.left = TTL + ahead[d]
        /\ slack'[d] = Stall
    BY <1>1 DEF Take, Held, Enter, TypeOK
  <2>2. ASSUME NEW e \in Daemon, Scheduling(e)', e # d
        PROVE  FALSE
    <3>1. Scheduling(e)
      BY <1>1, <2>2 DEF Take, Enter, Scheduling, TypeOK
    <3> QED
      BY <1>1, <2>2, <3>1, NotWonFrom DEF Take
  <2> QED
    BY <2>1, <2>2, LeaseAssumption DEF Entitled, TypeOK
<1>2. CASE RenewLease(d)
  <2>1. /\ lease'.holder = d
        /\ lease'.left = TTL + ahead[d]
        /\ slack'[d] = Stall
    BY <1>2 DEF RenewLease, Held, Enter, TypeOK
  <2>2. ASSUME NEW e \in Daemon, Scheduling(e)', e # d
        PROVE  FALSE
    <3>1. Scheduling(e)
      BY <1>2, <2>2 DEF RenewLease, Enter, Scheduling, TypeOK
    <3> QED
      BY <1>2, <2>2, <3>1 DEF RenewLease, Renewable, Entitled
  <2> QED
    BY <2>1, <2>2, LeaseAssumption DEF Entitled, TypeOK
<1>3. CASE Stop(d)
  <2>1. ASSUME NEW e \in Daemon, Scheduling(e)'
        PROVE  e # d /\ Scheduling(e) /\ slack'[e] = slack[e] /\ lease' = lease
    BY <1>3, <2>1 DEF Stop, Forget, Enter, Scheduling, TypeOK, Release, Entitled
  <2> QED
    BY <2>1 DEF Entitled
<1>4. CASE \/ Lose(d) \/ OpenRuns(d) \/ RecoverDone(d) \/ StepDown(d)
           \/ Sleep(d) \/ Wake(d)
  <2>1. /\ UNCHANGED lease
        /\ \A e \in Daemon : Scheduling(e)' => Scheduling(e) /\ slack'[e] = slack[e]
    BY <1>4 DEF Lose, OpenRuns, RecoverDone, StepDown, Sleep, Wake, Enter,
                Scheduling, TypeOK
  <2> QED
    BY <2>1, EntitledFrame
<1>5. CASE \E f \in Fire : \/ RecoverClaimed(d, f) \/ RecoverRunning(d, f)
                           \/ Dispatch(d, f)
  <2>1. UNCHANGED <<lease, pc, slack>>
    BY <1>5 DEF RecoverClaimed, RecoverRunning, Dispatch
  <2> QED
    BY <2>1, EntitledFrame DEF Scheduling
<1> QED
  BY <1>1, <1>2, <1>3, <1>4, <1>5 DEF Loop

LEMMA TimeEntitled ==
    ASSUME TypeOK, Entitled, TimePasses
    PROVE  Entitled'
<1> SUFFICES ASSUME NEW d \in Daemon, Scheduling(d)'
             PROVE  /\ lease'.holder = d
                    /\ slack'[d] \in Nat
                    /\ lease'.left >= slack'[d] + MaxAhead
  BY DEF Entitled
<1>1. /\ lease.holder = d
      /\ slack[d] \in Nat
      /\ lease.left >= slack[d] + MaxAhead
  BY DEF TimePasses, Scheduling, Entitled
<1>2. slack[d] # 0 /\ slack'[d] = slack[d] - 1
  BY <1>1 DEF TimePasses
<1>3. lease'.holder = d /\ lease'.left = lease.left - 1
  BY <1>1, <1>2, LeaseAssumption DEF TimePasses, TypeOK
<1>4. lease.left \in Int /\ MaxAhead \in Nat
  BY LeaseAssumption DEF TypeOK
<1> QED
  BY <1>1, <1>2, <1>3, <1>4

LEMMA NextEntitled ==
    ASSUME TypeOK, Entitled, [Next]_vars
    PROVE  Entitled'
<1>1. CASE TimePasses
  BY <1>1, TimeEntitled
<1>2. ASSUME NEW d \in Daemon, Loop(d)
      PROVE  Entitled'
  BY <1>2, LoopEntitled
<1>3. ASSUME NEW d \in Daemon, NEW f \in Fire, Coroutine(d, f)
      PROVE  Entitled'
  <2>1. UNCHANGED <<lease, pc, slack>>
    BY <1>3 DEF Coroutine, Start, Finish, SequenceNext
  <2> QED
    BY <2>1, EntitledFrame DEF Scheduling
<1>4. ASSUME NEW d \in Daemon,
             Boot(d) \/ StoreFails(d) \/ RequestDrain(d) \/ Crash(d) \/ Suspend(d)
      PROVE  Entitled'
  <2>1. /\ UNCHANGED lease
        /\ \A e \in Daemon : Scheduling(e)' => Scheduling(e) /\ slack'[e] = slack[e]
    BY <1>4 DEF Boot, StoreFails, RequestDrain, Crash, Forget, Suspend, Enter,
                Scheduling, TypeOK
  <2> QED
    BY <2>1, EntitledFrame
<1>5. CASE UNCHANGED vars
  BY <1>5, EntitledFrame DEF vars, Scheduling
<1> QED
  BY <1>1, <1>2, <1>3, <1>4, <1>5 DEF Next

\* DESIGN O13, for any number of daemons and any lengths of lease, sleep and
\* pass: exactly one schedules at a time, as long as no pass lasts longer than
\* the lease less the difference of the clocks.
THEOREM OneSchedulerCorrect == Spec => []OneScheduler
<1>1. Init => Entitled
  BY DEF Init, Entitled, Scheduling
<1>2. TypeOK /\ Entitled /\ [Next]_vars => Entitled'
  BY NextEntitled
<1>3. Entitled => OneScheduler
  BY DEF Entitled, OneScheduler
<1> QED
  BY <1>1, <1>2, <1>3, TypesCorrect, PTL DEF Spec

-----------------------------------------------------------------------------
(* What a handover leaves alone.                                           *)

\* No coroutine of any daemon is at work on the row.
Quiet(f) == \A d \in Daemon : queued[d][f] = 0 /\ running[d][f] = 0

\* Work in flight belongs to the holder of the lease, who begins with none.
WorkIsHeld == \A d \in Daemon : InFlight(d) => lease.holder = d
ElectedIsIdle == \A d \in Daemon : pc[d] = "elected" => ~InFlight(d)

\* A row that recovery has yet to visit is still as it was read, and nobody's.
AsRead ==
    \A d \in Daemon, f \in Fire :
        todo[d][f] # "absent" => pc[d] = "recover" /\ row[f] = todo[d][f] /\ Quiet(f)

\* A row has one task at most, in the stage its state says.
OneTask ==
    \A f \in Fire :
        /\ row[f] \in {"absent", "over", "lost"} => Quiet(f)
        /\ row[f] \in {"absent", "claimed"} => starts[f] = 0
        /\ row[f] = "claimed" =>
              \A d \in Daemon : queued[d][f] \in {0, 1} /\ running[d][f] = 0
        /\ row[f] = "running" =>
              \A d \in Daemon : queued[d][f] = 0 /\ running[d][f] \in {0, 1}
        /\ starts[f] \in {0, 1}

Undisturbed == WorkIsHeld /\ ElectedIsIdle /\ AsRead /\ OneTask

LEMMA IdleIsQuiet ==
    ASSUME TypeOK, NEW d \in Daemon, ~InFlight(d), NEW f \in Fire
    PROVE  queued[d][f] = 0 /\ running[d][f] = 0 /\ seq[d] = {}
<1>1. queued[d][f] \in Nat /\ running[d][f] \in Nat
  BY DEF TypeOK
<1>2. ~(queued[d][f] + running[d][f] > 0) /\ seq[d] = {}
  BY DEF InFlight
<1> QED
  BY <1>1, <1>2

\* Whoever else holds the lease has all the work there is.
LEMMA NobodyElse ==
    ASSUME TypeOK, Undisturbed, NEW d \in Daemon, lease.holder = d,
           NEW e \in Daemon, e # d, NEW f \in Fire
    PROVE  queued[e][f] = 0 /\ running[e][f] = 0 /\ seq[e] = {}
<1>1. ~InFlight(e)
  BY DEF Undisturbed, WorkIsHeld
<1> QED
  BY <1>1, IdleIsQuiet

\* A step that leaves the rows and the work alone, elects nobody and lets
\* nobody leave recovery with rows to visit changes nothing here.
LEMMA UndisturbedFrame ==
    ASSUME Undisturbed, UNCHANGED <<table, work>>,
           lease'.holder = lease.holder,
           \A d \in Daemon : pc'[d] = "elected" => pc[d] = "elected",
           \A d \in Daemon : pc[d] = "recover" => pc'[d] = "recover" \/ todo[d] = NoRows
    PROVE  Undisturbed'
<1>1. \A d \in Daemon : InFlight(d)' <=> InFlight(d)
  BY DEF InFlight, work
<1>2. \A f \in Fire : Quiet(f)' <=> Quiet(f)
  BY DEF Quiet, work
<1>3. WorkIsHeld' /\ ElectedIsIdle'
  BY <1>1 DEF Undisturbed, WorkIsHeld, ElectedIsIdle
<1>4. AsRead'
  BY <1>2 DEF Undisturbed, AsRead, work, table, NoRows
<1>5. OneTask'
  BY <1>2 DEF Undisturbed, OneTask, work, table
<1> QED
  BY <1>3, <1>4, <1>5 DEF Undisturbed

\* A step that starts, ends or claims one row, in the daemon that holds the
\* lease and in which nobody recovers that row, need only see to that row.
LEMMA OneRow ==
    ASSUME TypeOK, Undisturbed, NEW d \in Daemon, NEW f \in Fire,
           lease.holder = d, lease'.holder = d, pc' = pc, pc[d] # "elected",
           \A e \in Daemon \ {d} :
               /\ queued'[e] = queued[e] /\ running'[e] = running[e]
               /\ seq'[e] = seq[e] /\ todo'[e] = todo[e],
           \A g \in Fire \ {f} :
               /\ row'[g] = row[g] /\ starts'[g] = starts[g]
               /\ queued'[d][g] = queued[d][g] /\ running'[d][g] = running[d][g]
               /\ todo'[d][g] = todo[d][g],
           \A e \in Daemon : todo'[e][f] = "absent",
           \/ queued'[d][f] = 1 /\ running'[d][f] = 0 /\ row'[f] = "claimed" /\ starts'[f] = 0
           \/ queued'[d][f] = 0 /\ running'[d][f] = 1 /\ row'[f] = "running" /\ starts'[f] = 1
           \/ queued'[d][f] = 0 /\ running'[d][f] = 0 /\ row'[f] \in {"over", "lost"}
                 /\ starts'[f] \in {0, 1}
    PROVE  Undisturbed'
<1>1. \A e \in Daemon : e # d => ~InFlight(e)'
  <2> SUFFICES ASSUME NEW e \in Daemon, e # d PROVE ~InFlight(e)'
    OBVIOUS
  <2>1. ~InFlight(e)
    BY DEF Undisturbed, WorkIsHeld
  <2> QED
    BY <2>1 DEF InFlight
<1>2. WorkIsHeld' /\ ElectedIsIdle'
  BY <1>1 DEF WorkIsHeld, ElectedIsIdle
<1>3. \A g \in Fire : g # f => (Quiet(g)' <=> Quiet(g))
  BY DEF Quiet
<1>4. \A e \in Daemon : e # d => queued'[e][f] = 0 /\ running'[e][f] = 0
  BY NobodyElse
<1>5. AsRead'
  <2> SUFFICES ASSUME NEW e \in Daemon, NEW g \in Fire, todo'[e][g] # "absent"
               PROVE  pc'[e] = "recover" /\ row'[g] = todo'[e][g] /\ Quiet(g)'
    BY DEF AsRead
  <2>1. g # f /\ todo[e][g] # "absent" /\ todo'[e][g] = todo[e][g]
    OBVIOUS
  <2> QED
    BY <2>1, <1>3 DEF Undisturbed, AsRead
<1>6. OneTask'
  <2> SUFFICES ASSUME NEW g \in Fire
               PROVE  /\ row'[g] \in {"absent", "over", "lost"} => Quiet(g)'
                      /\ row'[g] \in {"absent", "claimed"} => starts'[g] = 0
                      /\ row'[g] = "claimed" =>
                            \A e \in Daemon : queued'[e][g] \in {0, 1} /\ running'[e][g] = 0
                      /\ row'[g] = "running" =>
                            \A e \in Daemon : queued'[e][g] = 0 /\ running'[e][g] \in {0, 1}
                      /\ starts'[g] \in {0, 1}
    BY DEF OneTask
  <2>1. CASE g = f
    BY <2>1, <1>4 DEF Quiet
  <2>2. CASE g # f
    <3>1. \A e \in Daemon : queued'[e][g] = queued[e][g] /\ running'[e][g] = running[e][g]
      BY <2>2
    <3> QED
      BY <2>2, <3>1, <1>3 DEF Undisturbed, OneTask
  <2> QED
    BY <2>1, <2>2
<1> QED
  BY <1>2, <1>5, <1>6 DEF Undisturbed

LEMMA RecoveryUndisturbed ==
    ASSUME TypeOK, Entitled, Undisturbed, NEW d \in Daemon,
           \/ OpenRuns(d)
           \/ RecoverDone(d)
           \/ \E f \in Fire : RecoverClaimed(d, f) \/ RecoverRunning(d, f)
    PROVE  Undisturbed'
<1>1. lease.holder = d
  BY DEF OpenRuns, RecoverDone, RecoverClaimed, RecoverRunning, Entitled, Scheduling
<1>2. CASE OpenRuns(d)
  <2>1. \A f \in Fire : Quiet(f)
    <3> SUFFICES ASSUME NEW f \in Fire, NEW e \in Daemon
                 PROVE  queued[e][f] = 0 /\ running[e][f] = 0
      BY DEF Quiet
    <3>1. CASE e = d
      BY <1>2, <3>1, IdleIsQuiet DEF OpenRuns, Undisturbed, ElectedIsIdle
    <3>2. CASE e # d
      BY <1>1, <3>2, NobodyElse
    <3> QED
      BY <3>1, <3>2
  <2>2. /\ UNCHANGED <<lease, table, seq, queued, running>>
        /\ pc' = [pc EXCEPT ![d] = "recover"]
    BY <1>2 DEF OpenRuns
  <2>3. \A f \in Fire : Quiet(f)'
    BY <2>1, <2>2 DEF Quiet
  <2>4. WorkIsHeld' /\ ElectedIsIdle'
    BY <2>2 DEF Undisturbed, WorkIsHeld, ElectedIsIdle, InFlight, TypeOK
  <2>5. AsRead'
    <3> SUFFICES ASSUME NEW e \in Daemon, NEW f \in Fire, todo'[e][f] # "absent"
                 PROVE  pc'[e] = "recover" /\ row'[f] = todo'[e][f] /\ Quiet(f)'
      BY DEF AsRead
    <3>1. CASE e = d
      BY <1>2, <2>2, <2>3, <3>1 DEF OpenRuns, TypeOK, table
    <3>2. CASE e # d
      BY <1>2, <2>2, <2>3, <3>2 DEF OpenRuns, TypeOK, table, Undisturbed, AsRead
    <3> QED
      BY <3>1, <3>2
  <2>6. OneTask'
    BY <2>2, <2>3 DEF Undisturbed, OneTask, table, Quiet
  <2> QED
    BY <2>4, <2>5, <2>6 DEF Undisturbed
<1>3. CASE RecoverDone(d)
  <2>1. /\ UNCHANGED <<lease, table, todo, queued, running>>
        /\ pc' = [pc EXCEPT ![d] = "renew"]
        /\ \A e \in Daemon : e # d => seq'[e] = seq[e]
        /\ todo[d] = NoRows
    BY <1>3 DEF RecoverDone, Enter, TypeOK
  <2>2. \A f \in Fire : Quiet(f)' <=> Quiet(f)
    BY <2>1 DEF Quiet
  <2>3. \A e \in Daemon : e # d => (InFlight(e)' <=> InFlight(e))
    BY <2>1 DEF InFlight
  <2>4. WorkIsHeld' /\ ElectedIsIdle'
    BY <1>1, <2>1, <2>3 DEF Undisturbed, WorkIsHeld, ElectedIsIdle, TypeOK
  <2>5. AsRead'
    BY <2>1, <2>2 DEF Undisturbed, AsRead, TypeOK, table, NoRows
  <2>6. OneTask'
    BY <2>1, <2>2 DEF Undisturbed, OneTask, table
  <2> QED
    BY <2>4, <2>5, <2>6 DEF Undisturbed
<1>4. ASSUME NEW f \in Fire, RecoverClaimed(d, f) \/ RecoverRunning(d, f)
      PROVE  Undisturbed'
  <2>1. pc[d] = "recover" /\ todo[d][f] # "absent" /\ row[f] = todo[d][f] /\ Quiet(f)
    BY <1>4 DEF RecoverClaimed, RecoverRunning, Undisturbed, AsRead
  <2>2. \A e \in Daemon : e # d => todo[e][f] = "absent"
    BY <1>1, <2>1 DEF Undisturbed, AsRead, Entitled, Scheduling
  <2>3. starts[f] \in {0, 1} /\ (row[f] = "claimed" => starts[f] = 0)
    BY DEF Undisturbed, OneTask
  <2>4. todo' = [todo EXCEPT ![d][f] = "absent"] /\ UNCHANGED <<lease, pc, seq, running, starts>>
    BY <1>4 DEF RecoverClaimed, RecoverRunning, table
  <2>5. \A e \in Daemon : todo'[e][f] = "absent"
    BY <2>2, <2>4 DEF TypeOK
  <2>6. /\ \A e \in Daemon \ {d} : queued'[e] = queued[e] /\ todo'[e] = todo[e]
        /\ \A g \in Fire \ {f} : /\ queued'[d][g] = queued[d][g]
                                 /\ row'[g] = row[g]
                                 /\ todo'[d][g] = todo[d][g]
    BY <1>4 DEF RecoverClaimed, RecoverRunning, table, TypeOK
  <2>7. \/ queued'[d][f] = 1 /\ running'[d][f] = 0 /\ row'[f] = "claimed" /\ starts'[f] = 0
        \/ queued'[d][f] = 0 /\ running'[d][f] = 0 /\ row'[f] \in {"over", "lost"}
              /\ starts'[f] \in {0, 1}
    <3>1. CASE RecoverClaimed(d, f)
      <4>1. row' = row /\ starts' = starts /\ running' = running /\ row[f] = "claimed"
        BY <2>1, <3>1 DEF RecoverClaimed, table
      <4>2. queued[d][f] = 0 /\ running[d][f] = 0
        BY <2>1 DEF Quiet
      <4>3. queued'[d][f] = 1
        BY <3>1, <4>2 DEF RecoverClaimed, TypeOK
      <4> QED
        BY <2>3, <4>1, <4>2, <4>3
    <3>2. CASE RecoverRunning(d, f)
      <4>1. row'[f] \in {"over", "lost"}
        BY <3>2 DEF RecoverRunning, TypeOK
      <4>2. queued' = queued
        BY <3>2 DEF RecoverRunning
      <4> QED
        BY <2>1, <2>3, <2>4, <4>1, <4>2 DEF Quiet
    <3> QED
      BY <1>4, <3>1, <3>2
  <2>8. \A e \in Daemon \ {d} :
           /\ queued'[e] = queued[e] /\ running'[e] = running[e]
           /\ seq'[e] = seq[e] /\ todo'[e] = todo[e]
    BY <2>4, <2>6
  <2>9. \A g \in Fire \ {f} :
           /\ row'[g] = row[g] /\ starts'[g] = starts[g]
           /\ queued'[d][g] = queued[d][g] /\ running'[d][g] = running[d][g]
           /\ todo'[d][g] = todo[d][g]
    BY <2>4, <2>6
  <2>10. lease'.holder = d /\ pc' = pc /\ pc[d] # "elected"
    BY <1>1, <2>1, <2>4
  <2> QED
    BY <1>1, <2>5, <2>7, <2>8, <2>9, <2>10, OneRow
<1> QED
  BY <1>2, <1>3, <1>4

LEMMA TasksUndisturbed ==
    ASSUME TypeOK, Entitled, Undisturbed, NEW d \in Daemon, NEW f \in Fire,
           Dispatch(d, f) \/ Coroutine(d, f)
    PROVE  Undisturbed'
<1>1. lease.holder = d
  <2>1. CASE Dispatch(d, f)
    BY <2>1 DEF Dispatch, Entitled, Scheduling
  <2>2. CASE Coroutine(d, f)
    <3>1. queued[d][f] \in Nat /\ running[d][f] \in Nat
      BY DEF TypeOK
    <3>2. InFlight(d)
      BY <2>2, <3>1 DEF Coroutine, Start, Finish, SequenceNext, InFlight
    <3> QED
      BY <3>2 DEF Undisturbed, WorkIsHeld
  <2> QED
    BY <2>1, <2>2
<1>2. /\ UNCHANGED <<lease, pc, todo>>
      /\ pc[d] \notin {"elected", "recover"}
  BY DEF Dispatch, Coroutine, Start, Finish, SequenceNext, Yielding
<1>3. \A e \in Daemon : e # d => queued[e][f] = 0 /\ running[e][f] = 0
  BY <1>1, NobodyElse
<1>4. /\ \A e \in Daemon \ {d} :
            queued'[e] = queued[e] /\ running'[e] = running[e] /\ seq'[e] = seq[e]
      /\ \A g \in Fire \ {f} :
            /\ row'[g] = row[g] /\ starts'[g] = starts[g]
            /\ queued'[d][g] = queued[d][g] /\ running'[d][g] = running[d][g]
  BY DEF Dispatch, Coroutine, Start, Finish, SequenceNext, ClaimRow, MarkRunning,
         TypeOK
<1>5. CASE UNCHANGED <<row, starts, queued, running>>
  <2>1. /\ \A g \in Fire : Quiet(g)' <=> Quiet(g)
        /\ \A e \in Daemon : e # d => (InFlight(e)' <=> InFlight(e))
    BY <1>4, <1>5 DEF Quiet, InFlight
  <2> QED
    BY <1>1, <1>2, <1>5, <2>1 DEF Undisturbed, WorkIsHeld, ElectedIsIdle, AsRead, OneTask
<1>6. CASE ~UNCHANGED <<row, starts, queued, running>>
  <2>1. /\ OneTask /\ AsRead
        /\ queued[d][f] \in Nat /\ running[d][f] \in Nat /\ row[f] \in RowState
    BY DEF Undisturbed, TypeOK
  <2>2. ASSUME NEW e \in Daemon
        PROVE  todo[e][f] = "absent"
    <3>1. todo[e][f] # "absent" => pc[e] = "recover"
      BY <2>1 DEF AsRead
    <3>2. e # d => pc[e] # "recover" \/ lease.holder = e
      BY DEF Entitled, Scheduling
    <3> QED
      BY <1>1, <1>2, <3>1, <3>2
  <2>3. \/ queued'[d][f] = 1 /\ running'[d][f] = 0 /\ row'[f] = "claimed" /\ starts'[f] = 0
        \/ queued'[d][f] = 0 /\ running'[d][f] = 1 /\ row'[f] = "running" /\ starts'[f] = 1
        \/ queued'[d][f] = 0 /\ running'[d][f] = 0 /\ row'[f] \in {"over", "lost"}
              /\ starts'[f] \in {0, 1}
    <3>1. CASE row[f] = "absent" /\ ClaimRow(d, f) /\ UNCHANGED <<starts, running>>
      <4>1. queued[d][f] = 0 /\ running[d][f] = 0 /\ starts[f] = 0
        BY <2>1, <3>1 DEF OneTask, Quiet
      <4> QED
        BY <3>1, <4>1 DEF ClaimRow, TypeOK
    <3>2. CASE Start(d, f)
      <4>1. row[f] = "claimed"
        BY <2>1, <3>2 DEF Start, OneTask, Quiet, RowState
      <4>2. queued[d][f] = 1 /\ running[d][f] = 0 /\ starts[f] = 0
        BY <2>1, <3>2, <4>1 DEF Start, OneTask
      <4> QED
        BY <3>2, <4>2 DEF Start, MarkRunning, TypeOK
    <3>3. CASE Finish(d, f)
      <4>1. row[f] = "running"
        BY <2>1, <3>3 DEF Finish, OneTask, Quiet, RowState
      <4>2. queued[d][f] = 0 /\ running[d][f] = 1 /\ starts[f] \in {0, 1}
        BY <2>1, <3>3, <4>1 DEF Finish, OneTask
      <4> QED
        BY <3>3, <4>2 DEF Finish, TypeOK
    <3> QED
      BY <1>6, <3>1, <3>2, <3>3 DEF Dispatch, Coroutine, SequenceNext, ClaimRow
  <2>4. \A e \in Daemon \ {d} :
           /\ queued'[e] = queued[e] /\ running'[e] = running[e]
           /\ seq'[e] = seq[e] /\ todo'[e] = todo[e]
    BY <1>2, <1>4
  <2>5. \A g \in Fire \ {f} :
           /\ row'[g] = row[g] /\ starts'[g] = starts[g]
           /\ queued'[d][g] = queued[d][g] /\ running'[d][g] = running[d][g]
           /\ todo'[d][g] = todo[d][g]
    BY <1>2, <1>4
  <2>6. lease'.holder = d /\ pc' = pc /\ pc[d] # "elected"
    BY <1>1, <1>2
  <2>7. \A e \in Daemon : todo'[e][f] = "absent"
    BY <1>2, <2>2
  <2> QED
    BY <1>1, <2>3, <2>4, <2>5, <2>6, <2>7, OneRow
<1> QED
  BY <1>5, <1>6

\* What takes the tasks of one daemon away leaves the rest alone.
LEMMA ForgetUndisturbed ==
    ASSUME TypeOK, Undisturbed, NEW d \in Daemon, Forget(d), UNCHANGED table,
           lease'.holder = lease.holder \/ (~InFlight(d) /\ lease.holder = d)
    PROVE  Undisturbed'
<1>1. /\ \A f \in Fire : queued'[d][f] = 0 /\ running'[d][f] = 0 /\ todo'[d][f] = "absent"
      /\ seq'[d] = {} /\ pc'[d] = "down"
      /\ \A e \in Daemon \ {d} : /\ queued'[e] = queued[e] /\ running'[e] = running[e]
                                 /\ todo'[e] = todo[e] /\ seq'[e] = seq[e]
                                 /\ pc'[e] = pc[e]
  BY DEF Forget, Enter, NoRows, NoTasks, TypeOK
<1>2. ~InFlight(d)' /\ \A e \in Daemon \ {d} : InFlight(e)' <=> InFlight(e)
  BY <1>1 DEF InFlight
<1>3. \A f \in Fire : Quiet(f) => Quiet(f)'
  BY <1>1 DEF Quiet
<1>4. WorkIsHeld' /\ ElectedIsIdle'
  BY <1>1, <1>2 DEF Undisturbed, WorkIsHeld, ElectedIsIdle
<1>5. AsRead'
  BY <1>1, <1>3 DEF Undisturbed, AsRead, table
<1>6. OneTask'
  BY <1>1, <1>3 DEF Undisturbed, OneTask, table
<1> QED
  BY <1>4, <1>5, <1>6 DEF Undisturbed

LEMMA TakeUndisturbed ==
    ASSUME TypeOK, Undisturbed, NEW d \in Daemon, Take(d), ~displaced'
    PROVE  Undisturbed'
<1>1. \A e \in Daemon : ~InFlight(e)
  BY DEF Take, Undisturbed, WorkIsHeld
<1>2. UNCHANGED <<table, work>> /\ pc' = [pc EXCEPT ![d] = "elected"] /\ pc[d] = "contend"
  BY DEF Take, Enter
<1>3. \A e \in Daemon : ~InFlight(e)'
  BY <1>1, <1>2 DEF InFlight, work
<1>4. \A f \in Fire : Quiet(f)' <=> Quiet(f)
  BY <1>2 DEF Quiet, work
<1>5. WorkIsHeld' /\ ElectedIsIdle'
  BY <1>3 DEF WorkIsHeld, ElectedIsIdle
<1>6. AsRead'
  BY <1>2, <1>4 DEF Undisturbed, AsRead, work, table, TypeOK
<1>7. OneTask'
  BY <1>2, <1>4 DEF Undisturbed, OneTask, work, table
<1> QED
  BY <1>5, <1>6, <1>7 DEF Undisturbed

LEMMA NextUndisturbed ==
    ASSUME TypeOK, Entitled, ~displaced => Undisturbed, [Next]_vars, ~displaced'
    PROVE  Undisturbed'
<1>1. ASSUME NEW d \in Daemon, Take(d)
      PROVE  Undisturbed'
  <2>1. ~displaced
    BY <1>1 DEF Take
  <2> QED
    BY <1>1, <2>1, TakeUndisturbed
<1>2. ASSUME ~\E d \in Daemon : Take(d)
      PROVE  Undisturbed /\ displaced' = displaced
  BY <1>2 DEF Next, vars, TimePasses, Boot, Loop, Lose, OpenRuns, RecoverDone, RenewLease,
              StepDown, Sleep, Wake, Stop, RecoverClaimed, RecoverRunning, Dispatch,
              Coroutine, Start, Finish, SequenceNext, StoreFails, RequestDrain, Crash,
              Suspend
<1>3. CASE \E d \in Daemon : Take(d)
  BY <1>1, <1>3
<1>4. CASE ~\E d \in Daemon : Take(d)
  <2> USE <1>2, <1>4
  <2>1. ASSUME NEW d \in Daemon,
               \/ OpenRuns(d) \/ RecoverDone(d)
               \/ \E f \in Fire : RecoverClaimed(d, f) \/ RecoverRunning(d, f)
        PROVE  Undisturbed'
    BY <2>1, RecoveryUndisturbed
  <2>2. ASSUME NEW d \in Daemon, NEW f \in Fire, Dispatch(d, f) \/ Coroutine(d, f)
        PROVE  Undisturbed'
    BY <2>2, TasksUndisturbed
  <2>3. ASSUME NEW d \in Daemon, Stop(d)
        PROVE  Undisturbed'
    <3>1. lease'.holder = lease.holder \/ (~InFlight(d) /\ lease.holder = d)
      BY <2>3 DEF Stop, Release
    <3>2. Forget(d) /\ UNCHANGED table
      BY <2>3 DEF Stop
    <3> QED
      BY <3>1, <3>2, ForgetUndisturbed
  <2>4. ASSUME NEW d \in Daemon, Crash(d)
        PROVE  Undisturbed'
    BY <2>4, ForgetUndisturbed DEF Crash
  <2>5. ASSUME NEW d \in Daemon,
               \/ Boot(d) \/ Lose(d) \/ RenewLease(d) \/ StepDown(d) \/ Sleep(d)
               \/ Wake(d) \/ StoreFails(d) \/ RequestDrain(d) \/ Suspend(d)
        PROVE  Undisturbed'
    <3>1. UNCHANGED <<table, work>> /\ lease'.holder = lease.holder
      BY <2>5 DEF Boot, Lose, RenewLease, Renewable, Held, StepDown, Sleep, Wake,
                  StoreFails, RequestDrain, Suspend
    <3>2. /\ pc[d] # "recover"
          /\ pc'[d] # "elected" \/ pc' = pc
          /\ \A e \in Daemon \ {d} : pc'[e] = pc[e]
      BY <2>5 DEF Boot, Lose, RenewLease, StepDown, Sleep, Wake, StoreFails,
                  RequestDrain, Suspend, Enter, TypeOK
    <3> QED
      BY <3>1, <3>2, UndisturbedFrame
  <2>6. CASE TimePasses
    BY <2>6, UndisturbedFrame DEF TimePasses, TypeOK
  <2>7. CASE UNCHANGED vars
    BY <2>7, UndisturbedFrame DEF vars, table, work
  <2> QED
    BY <2>1, <2>2, <2>3, <2>4, <2>5, <2>6, <2>7 DEF Next, Loop
<1> QED
  BY <1>3, <1>4

\* For any number of daemons and fires: unless the lease is taken from a daemon
\* that has work in flight, a change of leader starts no run twice and declares
\* none LOST that a daemon is running.
THEOREM HandoverIsCleanCorrect == Spec => []HandoverIsClean
<1>1. Init => Entitled /\ (~displaced => Undisturbed)
  BY DEF Init, Entitled, Scheduling, Undisturbed, WorkIsHeld, ElectedIsIdle, AsRead,
         OneTask, Quiet, InFlight, NoRows, NoTasks
<1>2. TypeOK /\ Entitled /\ (~displaced => Undisturbed) /\ [Next]_vars
         => Entitled' /\ (~displaced => Undisturbed)'
  BY NextEntitled, NextUndisturbed
<1>3. TypeOK /\ (~displaced => Undisturbed) => HandoverIsClean
  <2> SUFFICES ASSUME TypeOK, OneTask, NEW f \in Fire
               PROVE  /\ starts[f] <= 1
                      /\ row[f] = "lost" => \A d \in Daemon : running[d][f] = 0
    BY DEF Undisturbed, HandoverIsClean
  <2>1. starts[f] = 0 \/ starts[f] = 1
    BY DEF OneTask
  <2>2. row[f] = "lost" => Quiet(f)
    BY DEF OneTask
  <2> QED
    BY <2>1, <2>2 DEF Quiet
<1> QED
  BY <1>1, <1>2, <1>3, TypesCorrect, PTL DEF Spec
=============================================================================
