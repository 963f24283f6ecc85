---------------------------- MODULE RunLifecycle ----------------------------
(***************************************************************************)
(* What the store promises about the attempts of a fire, whatever daemon   *)
(* is up and however often it dies: the life of one `runs` row, and of the *)
(* process it stands for.  Scheduler implements this.                      *)
(***************************************************************************)
EXTENDS RunStates, Naturals

CONSTANTS Attempt,      \* every attempt of every fire
          Number(_),    \* 1 for the first try of a fire
          After(_)      \* the attempt that would retry this one

VARIABLES state,    \* what the row of an attempt says
          spawns    \* processes started for it

vars == <<state, spawns>>

Init == /\ state = [a \in Attempt |-> "absent"]
        /\ spawns = [a \in Attempt |-> 0]

Move(a, from, to) == /\ state[a] \in from
                     /\ state' = [state EXCEPT ![a] = to]

\* A fire is claimed: its first attempt comes into being.
Claim(a) == Number(a) = 1 /\ Move(a, {"absent"}, "claimed")
            /\ UNCHANGED spawns

\* A retry is scheduled, of an attempt that is over without success.
Retry(a) == state[a] \in Failure /\ After(a) \in Attempt
            /\ Move(After(a), {"absent"}, "retrying")
            /\ UNCHANGED spawns

Reclaim(a) == Move(a, {"retrying"}, "claimed") /\ UNCHANGED spawns

Start(a) == Move(a, {"claimed"}, "running") /\ UNCHANGED spawns

\* The one process of the attempt.
Spawn(a) == /\ state[a] = "running"
            /\ spawns[a] = 0
            /\ spawns' = [spawns EXCEPT ![a] = 1]
            /\ UNCHANGED state

Succeed(a) == /\ spawns[a] = 1
              /\ Move(a, {"running"}, "succeeded")
              /\ UNCHANGED spawns

\* Without success: also a spawn that failed, or a daemon that lost it.
Fail(a) == /\ \E o \in Failure : Move(a, {"running"}, o)
           /\ UNCHANGED spawns

\* Nothing was spawned, and the job is gone from the config.
Abandon(a) == Move(a, {"claimed"}, "lost") /\ UNCHANGED spawns

Next == \E a \in Attempt :
            \/ Claim(a) \/ Retry(a) \/ Reclaim(a) \/ Start(a) \/ Spawn(a)
            \/ Succeed(a) \/ Fail(a) \/ Abandon(a)

Spec == Init /\ [][Next]_vars
=============================================================================
