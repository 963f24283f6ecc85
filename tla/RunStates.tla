----------------------------- MODULE RunStates -----------------------------
(***************************************************************************)
(* The run state machine of models.py: the states a row of the `runs`      *)
(* table can be in, the transitions Run.transition_to allows, and the      *)
(* outcome classes the scheduler branches on.                              *)
(***************************************************************************)

RunState == {"pending", "claimed", "running", "succeeded", "failed",
             "timed_out", "lost", "retrying", "skipped", "quarantined"}

\* _TRANSITIONS: whatever is not listed raises InvalidTransition.
Transitions ==
    [s \in RunState |->
        CASE s = "pending"   -> {"claimed", "skipped"}
          [] s = "claimed"   -> {"running", "lost"}
          [] s = "running"   -> {"succeeded", "failed", "timed_out", "lost"}
          [] s = "failed"    -> {"retrying", "quarantined"}
          [] s = "timed_out" -> {"retrying", "quarantined"}
          [] s = "lost"      -> {"retrying", "quarantined", "skipped"}
          [] s = "retrying"  -> {"claimed"}
          [] OTHER           -> {}]

Retryable == {"failed", "timed_out"}
Failure   == {"failed", "timed_out", "lost"}

\* What one execution of a RUNNING row can end in.
Outcome == {"succeeded", "failed", "timed_out", "lost"}
=============================================================================
