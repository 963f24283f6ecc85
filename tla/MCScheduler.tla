---------------------------- MODULE MCScheduler ----------------------------
(* Small instances of Scheduler for TLC.                                   *)
EXTENDS Scheduler, TLC

Basic == [enabled |-> TRUE, schedule |-> Time \ {0}, missed |-> "run_latest",
          cap |-> 0, retries |-> 0, delay |-> 0, timeout |-> FALSE,
          idempotent |-> FALSE, onLost |-> "derive", concurrency |-> 1,
          quarantineAfter |-> 0, cooldown |-> NoTime]

\* Retried once and quarantined by the first fire that fails for good.
Breaker == [Basic EXCEPT !.retries = 1, !.quarantineAfter = 1, !.cooldown = 1]
\* Idempotent, so retried when lost; replays every missed fire, at most two.
Replayer == [Basic EXCEPT !.idempotent = TRUE, !.missed = "run_each", !.cap = 2]
\* Has a timeout and an explicit on_lost; does not replay.
Skipper == [Basic EXCEPT !.missed = "skip", !.timeout = TRUE, !.onLost = "retry"]
\* Its retry backs off, to an instant at which nothing else is due.
Patient == [Breaker EXCEPT !.delay = 1, !.cooldown = NoTime, !.schedule = {1}]
\* A retry of the one fire may be left behind when the other opens the breaker.
Stuck == [Breaker EXCEPT !.cooldown = NoTime]

RestartConfigs == {Replayer, Skipper}
LiveConfigs == {Replayer, Patient, Stuck}
AlwaysAll == {Job}
MayBeRemoved == {{}, Job}

BreakerOnly == {Breaker}
=============================================================================
