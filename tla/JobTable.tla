------------------------------ MODULE JobTable ------------------------------
(***************************************************************************)
(* What loading a config promises about the jobs in force, however the     *)
(* file and the modules are read and the search for cycles goes: a table   *)
(* of jobs is accepted if it has no cycle, and refused if it has one; only *)
(* an accepted one changes the jobs in force.  Config implements this.     *)
(***************************************************************************)
CONSTANTS Name,
          Definition    \* what a job may be; its upstreams are .after

VARIABLES candidate,    \* the jobs that were loaded and not yet judged
          jobs,         \* the jobs in force
          stale         \* those of them whose new definition was not taken

vars == <<candidate, jobs, stale>>

Nobody == [n \in {} |-> {}]
IsTable(g) == DOMAIN g \subseteq Name /\ g \in [DOMAIN g -> Definition]
KnowsUpstreams(g) == \A n \in DOMAIN g : g[n].after \subseteq DOMAIN g

\* Some of the jobs wait for each other.
Circle(g) == \E N \in SUBSET DOMAIN g :
                 N # {} /\ \A n \in N : g[n].after \cap N # {}

Init == candidate = Nobody /\ jobs = Nobody /\ stale = {}

\* Every table with a job in it and no unknown upstream is searched.
Propose ==
    /\ candidate = Nobody
    /\ candidate' # Nobody /\ IsTable(candidate') /\ KnowsUpstreams(candidate')
    /\ UNCHANGED <<jobs, stale>>

\* Jobs come and go by name; one that stays is left as it is.
Kept == DOMAIN candidate \cap DOMAIN jobs
Accept ==
    /\ candidate # Nobody /\ candidate' = Nobody
    /\ ~Circle(candidate)
    /\ jobs' = [n \in DOMAIN candidate |-> IF n \in Kept THEN jobs[n] ELSE candidate[n]]
    /\ stale' = {n \in Kept : jobs[n] # candidate[n]}

Refuse ==
    /\ candidate # Nobody /\ candidate' = Nobody
    /\ Circle(candidate)
    /\ UNCHANGED <<jobs, stale>>

\* The daemon ends; it does not end while it judges.
Stop == candidate = Nobody /\ jobs' = Nobody /\ stale' = {} /\ UNCHANGED candidate

Next == Propose \/ Accept \/ Refuse \/ Stop

Spec == Init /\ [][Next]_vars
=============================================================================
