--------------------------- MODULE ExecutorProofs ---------------------------
(***************************************************************************)
(* Proofs about Executor, and about Processes, where it stands beside      *)
(* Control.  ExecutorInv is inductive: it relates where execute() stands   *)
(* to what is left of the wrapper, the command and its child, and to what  *)
(* they have left behind.                                                  *)
(***************************************************************************)
EXTENDS Processes, ControlProofs

-----------------------------------------------------------------------------
(* The invariant.                                                          *)

\* Nothing exists before what starts it.
Births ==
    /\ call = "new" => wrapper = "none" /\ status = "none"
    /\ call \in X!Calling => wrapper # "none"
    /\ wrapper \in {"none", "boot"} => command = "none"
    /\ command = "none" => child = "none" /\ sentinel = "none"

\* What the wrapper leaves behind is about a command that is over, and good news
\* is never made up.
Deaths ==
    /\ wrapper \in {"write", "exit"} => command \in X!Ended
    /\ X!WrapperLives => status = "none"
    /\ sentinel # "none" => sentinel = command /\ wrapper \in {"exit", "gone"}
    /\ status = "ok" => command = "ok"
    /\ reaped => wrapper = "gone"

\* How execute() got where it is; only a timeout, a cancellation or an operator
\* kills a wrapper that has written that all went well.
Ways ==
    /\ call \in {"new", "wait"} => ~timedOut /\ ~cancelled
    /\ call \in {"grace", "killed"} => timedOut \/ cancelled
    /\ call = "flush" => timedOut /\ ~cancelled /\ reaped
    /\ call = "returned" => ~cancelled
    /\ wrapper = "gone" /\ sentinel = "ok" /\ status # "ok" =>
          timedOut \/ cancelled \/ kills > 0

\* SIGTERM has reached who is there, and nobody comes after it.
Warned ==
    termed =>
        /\ wrapper \notin {"none", "boot", "bare"}
        /\ traits.stubborn = {} => /\ command # "alive"
                                   /\ child = "alive" => traits.detached

ExecutorInv == X!TypeOK /\ Births /\ Deaths /\ Ways /\ Warned /\ X!NobodyWrites

-----------------------------------------------------------------------------
(* Every step keeps it.                                                    *)

LEMMA RunInit == X!Init => ExecutorInv
<1>1. X!Init => X!TypeOK
  <2> SUFFICES ASSUME X!Init PROVE X!TypeOK
    OBVIOUS
  <2>1. traits \in X!Traits /\ timedOut \in BOOLEAN /\ cancelled \in BOOLEAN
        /\ reaped \in BOOLEAN /\ termed \in BOOLEAN
    BY DEF X!Init
  <2>2. kills \in Nat
    BY DEF X!Init
  <2> QED BY <2>1, <2>2 DEF X!Init, X!TypeOK
<1>2. X!Init => Births /\ Deaths /\ Ways /\ Warned /\ X!NobodyWrites
  BY DEF X!Init, Births, Deaths, Ways, Warned, X!NobodyWrites, X!WrapperLives, X!Calling
<1> QED BY <1>1, <1>2 DEF ExecutorInv

\* A signal leaves every process in a state of its type.
LEMMA SignalTypes ==
    ASSUME X!TypeOK, X!Term \/ X!Kill
    PROVE  /\ wrapper' \in {"none", "boot", "bare", "serve", "write", "exit", "gone"}
           /\ command' \in {"none", "alive"} \cup X!Ended
           /\ child' \in {"none", "alive", "gone"}
           /\ status' \in {"none"} \cup X!Ended
           /\ sentinel' \in {"none"} \cup X!Ended
<1>1. CASE X!Term
  BY <1>1 DEF X!TypeOK, X!Term, X!Ended
<1>2. CASE X!Kill
  BY <1>2 DEF X!TypeOK, X!Kill, X!Ended
<1> QED BY <1>1, <1>2

LEMMA EnterKillTypes ==
    ASSUME X!TypeOK, X!EnterKill("flush") \/ X!EnterKill("raised")
    PROVE  /\ wrapper' \in {"none", "boot", "bare", "serve", "write", "exit", "gone"}
           /\ command' \in {"none", "alive"} \cup X!Ended
           /\ child' \in {"none", "alive", "gone"}
           /\ status' \in {"none"} \cup X!Ended
           /\ sentinel' \in {"none"} \cup X!Ended
           /\ call' \in {"flush", "raised", "grace"} /\ termed' \in BOOLEAN
           /\ kills' = kills
<1>1. CASE reaped
  BY <1>1 DEF X!TypeOK, X!EnterKill, X!processes, X!hist
<1>2. CASE ~reaped
  <2>1. X!Term /\ call' = "grace" /\ termed' = TRUE /\ kills' = kills
    BY <1>2 DEF X!EnterKill
  <2> QED BY <2>1, SignalTypes
<1> QED BY <1>1, <1>2

\* What is written to the sentinel is the end of the command, so Deaths is needed.
LEMMA RunTypes == X!TypeOK /\ Deaths /\ [X!Next]_X!vars => X!TypeOK'
<1> SUFFICES ASSUME X!TypeOK, Deaths, [X!Next]_X!vars
             PROVE  X!TypeOK'
  OBVIOUS
<1> USE DEF X!TypeOK, X!Calling, X!Ended, X!processes, X!flags, X!hist
<1>1. CASE X!Execute
  BY <1>1 DEF X!Execute, X!Spawn, X!SpawnFails, X!Return, X!GraceOver, X!KillDone,
              X!FlushDone, X!Kill
<1>2. CASE X!TimeoutFires
  BY <1>2, EnterKillTypes DEF X!TimeoutFires
<1>3. CASE X!Cancel
  BY <1>3, EnterKillTypes DEF X!Cancel
<1>4. CASE X!StopKill
  BY <1>4 DEF X!StopKill, X!Kill
<1>5. CASE X!Runner
  <2>1. CASE X!StartCommand
    BY <2>1 DEF X!StartCommand
  <2>2. CASE X!InstallHandlers \/ X!WaitReturns
    BY <2>2 DEF X!InstallHandlers, X!WaitReturns
  <2>5. CASE X!Reap
    BY <2>5 DEF X!Reap
  <2>3. CASE X!WriteSentinel
    BY <2>3 DEF X!WriteSentinel, Deaths
  <2>4. CASE X!WrapperExits
    BY <2>4 DEF X!WrapperExits, X!ExitCode, Deaths
  <2> QED BY <1>5, <2>1, <2>2, <2>3, <2>4, <2>5 DEF X!Runner
<1>6. CASE X!Job
  BY <1>6 DEF X!Job, X!CommandEnds, X!Fork, X!ChildEnds
<1>7. CASE UNCHANGED X!vars
  BY <1>7 DEF X!vars
<1> QED BY <1>1, <1>2, <1>3, <1>4, <1>5, <1>6, <1>7 DEF X!Next

\* What SIGTERM and SIGKILL to the group do.
LEMMA TermKeeps ==
    ASSUME X!TypeOK, Births, Deaths, X!Term, wrapper # "none", ~reaped
    PROVE  /\ wrapper' \notin {"none", "boot", "bare"}
           /\ wrapper' = "boot" => command' = "none"
           /\ command' = "none" => child' = "none" /\ sentinel' = "none"
           /\ traits.stubborn = {} => /\ command' # "alive"
                                      /\ child' = "alive" => traits.detached
           /\ wrapper' \in {"write", "exit"} => command' \in X!Ended
           /\ wrapper' \in {"serve", "write", "exit"} => status' = "none"
           /\ sentinel' # "none" => sentinel' = command' /\ wrapper' \in {"exit", "gone"}
           /\ status' = "ok" => command' = "ok"
           /\ wrapper' = "gone" /\ sentinel' = "ok" /\ status' # "ok" =>
                 wrapper = "gone" /\ sentinel = "ok" /\ status # "ok"
BY DEF X!TypeOK, Births, Deaths, X!Term, X!WrapperLives, X!Ended

LEMMA KillKeeps ==
    ASSUME X!TypeOK, Births, Deaths, X!Kill
    PROVE  /\ wrapper' = "gone"
           /\ command' = "none" => child' = "none" /\ sentinel' = "none"
           /\ command' = IF command = "alive" THEN "signal" ELSE command
           /\ child' = "alive" => child = "alive"
           /\ sentinel' # "none" => sentinel' = command'
           /\ status' = "ok" => command' = "ok"
BY DEF X!TypeOK, Births, Deaths, X!Kill, X!WrapperLives, X!Ended

LEMMA EnterKillKeeps ==
    ASSUME ExecutorInv, [X!Next]_X!vars, X!TimeoutFires \/ X!Cancel
    PROVE  Births' /\ Deaths' /\ Ways' /\ Warned' /\ X!NobodyWrites'
<1>0. X!TypeOK /\ X!TypeOK'
  BY RunTypes DEF ExecutorInv
<1>1. wrapper # "none" /\ traits' = traits /\ call \in X!Calling /\ reaped' = reaped
  BY DEF ExecutorInv, Births, X!TimeoutFires, X!Cancel, X!Calling
<1>2. CASE ~reaped
  <2>1. X!Term /\ call' = "grace" /\ (timedOut' \/ cancelled') /\ termed' = TRUE
    BY <1>2 DEF X!TimeoutFires, X!Cancel, X!EnterKill
  <2>2. kills' = kills
    BY <1>2 DEF X!TimeoutFires, X!Cancel, X!EnterKill
  <2> QED
    BY <1>0, <1>1, <1>2, <2>1, <2>2, TermKeeps
    DEF ExecutorInv, Births, Deaths, Ways, Warned, X!NobodyWrites, X!Calling,
        X!WrapperLives
<1>3. CASE reaped
  <2>1. /\ UNCHANGED <<wrapper, command, child, status, sentinel, termed, kills>>
        /\ call' \in {"flush", "raised"}
        /\ call' = "flush" => timedOut' /\ ~cancelled'
        /\ timedOut \/ cancelled => timedOut' \/ cancelled'
    <3>1. CASE X!TimeoutFires
      BY <1>3, <3>1 DEF ExecutorInv, Ways, X!TimeoutFires, X!EnterKill, X!processes, X!hist
    <3>2. CASE X!Cancel
      BY <1>3, <3>2 DEF ExecutorInv, Ways, X!Cancel, X!EnterKill, X!processes, X!hist
    <3> QED BY <3>1, <3>2
  <2> QED
    BY <1>1, <1>3, <2>1
    DEF ExecutorInv, Births, Deaths, Ways, Warned, X!NobodyWrites, X!Calling,
        X!WrapperLives, X!PipesOpen
<1> QED BY <1>2, <1>3

LEMMA RunStep == ExecutorInv /\ [X!Next]_X!vars => ExecutorInv'
<1> SUFFICES ASSUME ExecutorInv, [X!Next]_X!vars
             PROVE  Births' /\ Deaths' /\ Ways' /\ Warned' /\ X!NobodyWrites'
  BY RunTypes DEF ExecutorInv
<1>0. X!TypeOK /\ Births /\ Deaths /\ Ways /\ Warned /\ X!NobodyWrites
  BY DEF ExecutorInv
<1> USE <1>0
<1>1. CASE X!GraceOver
  <2>1. /\ X!Kill /\ call = "grace" /\ call' = "killed" /\ traits' = traits
        /\ UNCHANGED <<timedOut, cancelled, termed, kills, reaped>>
    BY <1>1 DEF X!GraceOver, X!flags, X!hist
  <2> QED
    BY <2>1, KillKeeps
    DEF Births, Deaths, Ways, Warned, X!NobodyWrites, X!Calling, X!WrapperLives
<1>2. CASE X!StopKill /\ ~reaped
  <2>1. /\ X!Kill /\ call \in X!Calling /\ call' = call /\ kills' > 0
        /\ UNCHANGED <<timedOut, cancelled, termed, reaped, traits>>
    BY <1>2 DEF X!StopKill, X!flags, X!TypeOK
  <2> QED
    BY <2>1, KillKeeps
    DEF Births, Deaths, Ways, Warned, X!NobodyWrites, X!Calling, X!WrapperLives
<1>3. CASE X!StopKill /\ reaped
  BY <1>3 DEF X!StopKill, X!flags, X!processes, X!TypeOK, Births, Deaths, Ways, Warned,
              X!NobodyWrites, X!Calling, X!WrapperLives, X!PipesOpen
<1>4. CASE X!Spawn \/ X!SpawnFails \/ X!Return \/ X!KillDone \/ X!FlushDone
  BY <1>4 DEF X!Spawn, X!SpawnFails, X!Return, X!KillDone, X!FlushDone, X!Flushed,
              X!flags, X!hist, X!processes, Births, Deaths, Ways, Warned,
              X!NobodyWrites, X!Calling, X!WrapperLives, X!PipesOpen
<1>5. CASE X!StartCommand \/ X!InstallHandlers \/ X!WaitReturns
  BY <1>5 DEF X!StartCommand, X!InstallHandlers, X!WaitReturns,
              X!flags, X!hist, Births, Deaths, Ways, Warned,
              X!NobodyWrites, X!Calling, X!Ended, X!WrapperLives, X!PipesOpen
<1>6. CASE X!WriteSentinel \/ X!WrapperExits \/ X!Reap
  BY <1>6 DEF X!WriteSentinel, X!WrapperExits, X!Reap, X!ExitCode, X!processes,
              X!flags, X!hist, Births, Deaths, Ways, Warned,
              X!NobodyWrites, X!Calling, X!Ended, X!WrapperLives, X!PipesOpen
<1>7. CASE X!CommandEnds
  BY <1>7 DEF X!CommandEnds, X!TypeOK, X!flags, X!hist, Births, Deaths, Ways, Warned,
              X!NobodyWrites, X!Calling, X!Ended, X!WrapperLives, X!PipesOpen
<1>9. CASE X!Fork \/ X!ChildEnds
  BY <1>9 DEF X!Fork, X!ChildEnds, X!flags, X!hist, Births, Deaths, Ways, Warned,
              X!NobodyWrites, X!Calling, X!Ended, X!WrapperLives, X!PipesOpen
<1>8. CASE UNCHANGED X!vars
  BY <1>8 DEF X!vars, Births, Deaths, Ways, Warned,
              X!NobodyWrites, X!Calling, X!WrapperLives, X!PipesOpen
<1> QED
  BY <1>1, <1>2, <1>3, <1>4, <1>5, <1>6, <1>7, <1>8, <1>9, EnterKillKeeps
  DEF X!Next, X!Execute, X!Runner, X!Job

LEMMA RunHolds == X!Spec => []ExecutorInv
BY RunInit, RunStep, PTL DEF X!Spec

-----------------------------------------------------------------------------
(* The theorems.                                                           *)

\* Status 0 and a sentinel of 0 are about a command that ended well; they differ
\* only if the wrapper was killed in between.
THEOREM OutcomeIsRealCorrect == X!Spec => []OutcomeIsReal
<1>1. ExecutorInv => OutcomeIsReal
  BY DEF ExecutorInv, OutcomeIsReal, X!OutcomeIsReal, Deaths, Ways, X!TypeOK, Births,
         X!NobodyWrites, X!PipesOpen, X!WrapperLives, X!Ended
<1> QED BY <1>1, RunHolds, PTL

\* Nobody holds the pipes of a run that execute() has returned from.
THEOREM NobodyWritesCorrect == X!Spec => []NobodyWrites
<1>1. ExecutorInv => NobodyWrites
  BY DEF ExecutorInv, NobodyWrites
<1> QED BY <1>1, RunHolds, PTL

\* Whoever survives a timeout or a cancellation in the group ignores SIGTERM.
THEOREM SurvivorsIgnoreTermCorrect == X!Spec => []SurvivorsIgnoreTerm
<1>1. ExecutorInv => SurvivorsIgnoreTerm
  BY DEF ExecutorInv, SurvivorsIgnoreTerm, X!SurvivorsIgnoreTerm, Warned
<1> QED BY <1>1, RunHolds, PTL

-----------------------------------------------------------------------------
(* Processes: one part moves, the other one stays where it is.             *)

LEMMA IdlePartsFit == (IdleControl => Inv) /\ (IdleExecutor => ExecutorInv)
<1>1. ASSUME IdleControl PROVE Inv
  <2>1. TypeOK
    BY <1>1 DEF IdleControl, TypeOK
  <2>2. Counted
    <3>1. flight = [d \in Daemon |-> 0] /\ launched = [d \in Daemon |-> 0]
      BY <1>1 DEF IdleControl
    <3> QED BY <3>1, ControlAssumption DEF Counted
  <2> QED
    BY <1>1, <2>1, <2>2
    DEF IdleControl, Inv, AtPath, LeftIdle, Talking, Awaited, Serving, Listening, From,
        StoppedMeansIdle, NoticesGoOut
<1>2. ASSUME IdleExecutor PROVE ExecutorInv
  <2>1. X!TypeOK
    <3>1. traits \in X!Traits
      BY <1>2 DEF IdleExecutor, X!Traits
    <3>2. kills \in Nat
      BY <1>2 DEF IdleExecutor
    <3> QED BY <1>2, <3>1, <3>2 DEF IdleExecutor, X!TypeOK, X!Ended
  <2> QED
    BY <1>2, <2>1
    DEF IdleExecutor, ExecutorInv, Births, Deaths, Ways, Warned, X!NobodyWrites,
        X!PipesOpen, X!WrapperLives, X!Calling, X!Ended
<1> QED BY <1>1, <1>2

LEMMA ProcessesStep ==
    Inv /\ ExecutorInv /\ [ProcessesNext]_allVars => Inv' /\ ExecutorInv'
<1>1. [ProcessesNext]_allVars => [Next]_vars /\ [X!Next]_X!vars
  BY DEF ProcessesNext, allVars, xVars, X!vars
<1> QED BY <1>1, InvStep, RunStep

\* Every variable of the daemons, of their client and of a run keeps its type.
THEOREM TypesOKCorrect == ProcessesSpec => []TypesOK
<1>1. ProcessesInit => Inv /\ ExecutorInv
  BY IdlePartsFit, InvInit, RunInit DEF ProcessesInit
<1>2. Inv /\ ExecutorInv => TypesOK
  BY DEF Inv, ExecutorInv, TypesOK
<1> QED BY <1>1, <1>2, ProcessesStep, PTL DEF ProcessesSpec
=============================================================================
