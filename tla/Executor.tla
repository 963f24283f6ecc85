------------------------------ MODULE Executor ------------------------------
(***************************************************************************)
(* One run, below the scheduler: execute() of executor.py, the _runner     *)
(* wrapper it spawns, the job's command, and a child the command may fork. *)
(* The three processes share a process group (start_new_session) unless    *)
(* the child leaves it, and hold the pipes execute() drains.               *)
(*                                                                         *)
(* Scheduler takes from here that a run ends with an outcome and leaves a  *)
(* sentinel behind; what the outcome means for the processes is checked    *)
(* here.  Output bytes are left out; an open pipe is kept.                 *)
(***************************************************************************)
EXTENDS Naturals, FiniteSets

CONSTANTS MaxKills     \* bound: times `stop --kill` signals the run

MaxKillsAssumption == MaxKills \in Nat

VARIABLES
    call,      \* where execute() stands
    timedOut,
    cancelled, \* the CancelledError that is on its way out
    wrapper,   \* where _runner.main() stands
    command,   \* the command, or how it ended
    child,
    status,    \* the exit status of the wrapper
    reaped,    \* proc.returncode is set
    sentinel,  \* <run_dir>/exit
    traits,    \* what kind of processes these are
    \* history
    asked,     \* the group has been sent SIGTERM
    kills

vars == <<call, timedOut, cancelled, wrapper, command, child, status, sentinel,
          reaped, traits, asked, kills>>

-----------------------------------------------------------------------------

Ended == {"ok", "fail", "signal"}

Calling == {"wait", "grace", "killed", "flush"}
WrapperLives == wrapper \in {"boot", "bare", "serve", "write", "exit"}

\* Somebody still holds the pipes.
PipesOpen == \/ WrapperLives
             \/ command = "alive"
             \/ child = "alive" /\ traits.holds

\* timeout: the job has one; exists: the command can be spawned; stubborn: who
\* ignores SIGTERM; detached: the child leaves the group; holds: the child keeps
\* the inherited pipes.
Traits == [timeout : BOOLEAN, exists : BOOLEAN, detached : BOOLEAN,
           holds : BOOLEAN, stubborn : SUBSET {"command", "child"}]

TypeOK ==
    /\ call \in {"new", "returned", "raised"} \cup Calling
    /\ timedOut \in BOOLEAN
    /\ cancelled \in BOOLEAN
    /\ wrapper \in {"none", "boot", "bare", "serve", "write", "exit", "gone"}
    /\ command \in {"none", "alive"} \cup Ended
    /\ child \in {"none", "alive", "gone"}
    /\ status \in {"none"} \cup Ended
    /\ sentinel \in {"none"} \cup Ended
    /\ reaped \in BOOLEAN
    /\ traits \in Traits
    /\ asked \in BOOLEAN
    /\ kills \in Nat

Init ==
    /\ call = "new"
    /\ timedOut = FALSE /\ cancelled = FALSE
    /\ wrapper = "none" /\ command = "none" /\ child = "none"
    /\ status = "none" /\ sentinel = "none"
    /\ reaped = FALSE
    /\ traits \in Traits
    /\ asked = FALSE /\ kills = 0

processes == <<wrapper, command, child, status, sentinel>>
flags     == <<timedOut, cancelled>>
hist      == <<asked, kills>>

-----------------------------------------------------------------------------
(* Signals to the group: kill_group().                                     *)

\* The wrapper dies of SIGTERM until its handlers are in place; then it hands
\* the signal on to the command, which has it already.
TermWrapper ==                             \* mutant: the pid, not the group
    /\ wrapper' = IF wrapper \in {"boot", "bare"} THEN "gone" ELSE wrapper
    /\ status' = IF wrapper \in {"boot", "bare"} THEN "signal" ELSE status
    /\ command' = IF command = "alive" /\ wrapper = "serve"
                     /\ "command" \notin traits.stubborn
                    THEN "signal" ELSE command
    /\ UNCHANGED <<child, sentinel>>
Term ==
    /\ wrapper' = IF wrapper \in {"boot", "bare"} THEN "gone" ELSE wrapper
    /\ status' = IF wrapper \in {"boot", "bare"} THEN "signal" ELSE status
    /\ command' = IF command = "alive" /\ "command" \notin traits.stubborn
                    THEN "signal" ELSE command
    /\ child' = IF child = "alive" /\ ~traits.detached /\ "child" \notin traits.stubborn
                  THEN "gone" ELSE child
    /\ UNCHANGED sentinel

KillRaw ==                                 \* mutant: a status of its own
    /\ wrapper' = "gone"
    /\ status' = IF WrapperLives THEN "killed" ELSE status
    /\ UNCHANGED <<command, child, sentinel>>
Kill ==
    /\ wrapper' = "gone"
    /\ status' = IF WrapperLives THEN "signal" ELSE status
    /\ command' = IF command = "alive" THEN "signal" ELSE command
    /\ child' = IF child = "alive" /\ ~traits.detached THEN "gone" ELSE child
    /\ UNCHANGED sentinel

ReapInWait ==                              \* mutant: only while gather() waits
    /\ call = "wait" /\ wrapper = "gone" /\ ~reaped
    /\ reaped' = TRUE
    /\ UNCHANGED <<call, flags, processes, traits, hist>>
\* The child watcher of the event loop.
Reap ==
    /\ wrapper = "gone" /\ ~reaped
    /\ reaped' = TRUE
    /\ UNCHANGED <<call, flags, processes, traits, hist>>

-----------------------------------------------------------------------------
(* execute().                                                              *)

Spawn ==
    /\ call = "new"
    /\ call' = "wait"
    /\ wrapper' = "boot"
    /\ UNCHANGED <<flags, command, child, status, sentinel, reaped, traits, hist>>

\* No such workdir: there is no process, and the outcome is 127.
SpawnFails ==
    /\ call = "new"
    /\ call' = "returned"
    /\ status' = "fail"
    /\ UNCHANGED <<flags, wrapper, command, child, sentinel, reaped, traits, hist>>

\* gather(): the wrapper has been waited for and both drains hit their end.
Return ==
    /\ call = "wait" /\ reaped /\ ~PipesOpen
    /\ call' = "returned"
    /\ UNCHANGED <<flags, processes, reaped, traits, hist>>

\* _kill, which does nothing to a wrapper that has been reaped.
EnterKill(next) ==
    IF reaped
      THEN /\ call' = next
           /\ UNCHANGED <<processes, hist>>
      ELSE /\ call' = "grace"
           /\ Term
           /\ asked' = TRUE
           /\ UNCHANGED kills

TimeoutFires ==
    /\ call = "wait" /\ traits.timeout
    /\ timedOut' = TRUE
    /\ EnterKill("flush")
    /\ UNCHANGED <<cancelled, reaped, traits>>

\* The task is cancelled: the TaskGroup goes down.
Cancel ==
    /\ call \in Calling /\ ~cancelled
    /\ cancelled' = TRUE
    /\ EnterKill("raised")
    /\ UNCHANGED <<timedOut, reaped, traits>>

GraceOver ==
    /\ call = "grace" /\ ~reaped
    /\ call' = "killed"
    /\ Kill
    /\ UNCHANGED <<flags, reaped, traits, hist>>

\* _kill returns: flush what is left in the pipes, or re-raise.
KillDone ==
    /\ call \in {"grace", "killed"} /\ reaped
    /\ call' = IF cancelled THEN "raised" ELSE "flush"
    /\ UNCHANGED <<flags, processes, reaped, traits, hist>>

FlushBlindly == call = "flush"               \* mutant: does not drain
Flushed == call = "flush" /\ ~PipesOpen

FlushDone ==
    /\ Flushed
    /\ call' = "returned"
    /\ UNCHANGED <<flags, processes, reaped, traits, hist>>

\* request_kill() of the scheduler: SIGKILL to the group of a recorded pid.
StopKill ==
    /\ call \in Calling /\ kills < MaxKills
    /\ kills' = kills + 1
    /\ IF reaped THEN UNCHANGED processes ELSE Kill
    /\ UNCHANGED <<call, flags, reaped, traits, asked>>

-----------------------------------------------------------------------------
(* _runner.main().                                                         *)

\* Popen, which raises for a command that cannot be spawned: a traceback and
\* status 1, and no sentinel.
StartCommand ==
    /\ wrapper = "boot"
    /\ IF traits.exists
         THEN /\ wrapper' = "bare" /\ command' = "alive"
              /\ UNCHANGED status
         ELSE /\ wrapper' = "gone" /\ status' = "fail"
              /\ UNCHANGED command
    /\ UNCHANGED <<call, flags, child, sentinel, reaped, traits, hist>>

InstallHandlers ==
    /\ wrapper = "bare"
    /\ wrapper' = "serve"
    /\ UNCHANGED <<call, flags, command, child, status, sentinel, reaped, traits, hist>>

\* child.wait() returns.
WaitReturns ==
    /\ wrapper = "serve" /\ command \in Ended
    /\ wrapper' = "write"
    /\ UNCHANGED <<call, flags, command, child, status, sentinel, reaped, traits, hist>>

\* os.replace, so all of it or nothing; an OSError is suppressed.
WriteSentinel ==
    /\ wrapper = "write"
    /\ wrapper' = "exit"
    /\ sentinel' \in {command, sentinel}
    /\ UNCHANGED <<call, flags, command, child, status, reaped, traits, hist>>

\* 128 + the signal, or the code of the command.
RawCode(c) == IF c = "signal" THEN "ok" ELSE c   \* mutant: max(rc, 0)
ExitCode(c) == IF c = "signal" THEN "fail" ELSE c

WrapperExits ==
    /\ wrapper = "exit"
    /\ wrapper' = "gone"
    /\ status' = ExitCode(command)
    /\ UNCHANGED <<call, flags, command, child, sentinel, reaped, traits, hist>>

-----------------------------------------------------------------------------
(* The job itself.                                                         *)

CommandEnds ==
    /\ command = "alive"
    /\ command' \in Ended
    /\ UNCHANGED <<call, flags, wrapper, child, status, sentinel, reaped, traits, hist>>

Fork ==
    /\ command = "alive" /\ child = "none"
    /\ child' = "alive"
    /\ UNCHANGED <<call, flags, wrapper, command, status, sentinel, reaped, traits, hist>>

ChildEnds ==
    /\ child = "alive"
    /\ child' = "gone"
    /\ UNCHANGED <<call, flags, wrapper, command, status, sentinel, reaped, traits, hist>>

-----------------------------------------------------------------------------

Execute == Spawn \/ SpawnFails \/ Return \/ GraceOver \/ KillDone \/ FlushDone
Runner == StartCommand \/ InstallHandlers \/ WaitReturns \/ WriteSentinel
            \/ WrapperExits \/ Reap
Job == CommandEnds \/ Fork \/ ChildEnds

Next == Execute \/ TimeoutFires \/ Cancel \/ StopKill \/ Runner \/ Job

\* The loop and the wrapper go on, a timeout fires; nothing makes a job end.
Fairness == WF_vars(Execute) /\ WF_vars(Runner) /\ WF_vars(TimeoutFires)
Spec == Init /\ [][Next]_vars
FairSpec == Spec /\ Fairness

-----------------------------------------------------------------------------

\* What execute() returns is what happened: status 0 means that the command
\* ended well, and the sentinel, from which a later daemon would conclude,
\* says the same - unless the wrapper was killed after it had written it.
OutcomeIsReal ==
    /\ sentinel \in {"none", command}
    /\ call = "returned" /\ status = "ok" => command = "ok"
    /\ call = "returned" /\ sentinel = "ok" /\ status # "ok" => timedOut \/ kills > 0

\* Nothing that still runs writes to pipes nobody reads once execute() has
\* returned.
NobodyWrites == call = "returned" => ~PipesOpen

Over == call \in {"returned", "raised"}

\* "a timeout or a `stop --kill` can take down the whole tree" (executor.py):
\* whoever survives in the group after it was asked to end ignores SIGTERM.
SurvivorsIgnoreTerm ==
    Over /\ asked /\ traits.stubborn = {} =>
        /\ command # "alive"
        /\ child = "alive" => traits.detached

\* execute() does not outlive its processes.
ReturnsInTheEnd == (call # "new" /\ ~PipesOpen) ~> Over

\* DESIGN, on `timeout`: "kill + mark failed after this".  With a tree that
\* obeys SIGTERM and stays in its group, a run that has a timeout ends.
TimeoutEnds == (traits.timeout /\ ~traits.detached /\ traits.stubborn = {}) ~> Over
=============================================================================
