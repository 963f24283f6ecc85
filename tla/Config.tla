------------------------------- MODULE Config -------------------------------
(***************************************************************************)
(* Where the job table comes from: load_config with its depth-first search *)
(* for cycles (_reject_cycles), the registry of @punctual.job functions    *)
(* that lives as long as the process, and Scheduler.reload, which merges   *)
(* what it has loaded into the jobs in force.                              *)
(*                                                                         *)
(* Of a job's definition only its upstreams and its origin are kept, and   *)
(* the checks of single tables (_build_job) are one bit of the file.  A    *)
(* module may lie in packages ("pkg.sub" in "pkg"), which Python imports   *)
(* before it; packages that import their own submodules are left out.      *)
(***************************************************************************)
EXTENDS Naturals, Sequences

CONSTANTS Name,      \* names of jobs
          Module,    \* names of Python modules
          Around,    \* the packages a module lies in: mod.startswith(f"{w}.")
          Toml,      \* the origin of a job that is not from a module
          Disks,     \* what the config and the modules may hold
          MaxEdits   \* bound: times they are edited

Definition == [after : SUBSET Name, from : Module \cup {Toml}]
IsTable(g) == DOMAIN g \subseteq Name /\ g \in [DOMAIN g -> Definition]
NoJobs == [n \in {} |-> {}]

\* jobs: the [job.*] tables; modules: [python] modules; code: what importing a
\* module declares; valid: the file parses and every table builds.
IsDisk(d) ==
    /\ d = [jobs |-> d.jobs, modules |-> d.modules, code |-> d.code, valid |-> d.valid]
    /\ IsTable(d.jobs) /\ \A n \in DOMAIN d.jobs : d.jobs[n].from = Toml
    /\ d.modules \subseteq Module
    /\ d.code = [m \in Module |-> d.code[m]] /\ \A m \in Module : IsTable(d.code[m])
    /\ d.valid \in BOOLEAN

ConfigAssumption ==
    /\ Toml \notin Module
    /\ Around \in [Module -> SUBSET Module]
    /\ \A m \in Module : m \notin Around[m] /\ \A w \in Around[m] : Around[w] \subseteq Around[m]
    /\ MaxEdits \in Nat
    /\ \A d \in Disks : IsDisk(d)

VARIABLES
    disk,
    pc,        \* down, up, or a stage of load_config
    registry,  \* _REGISTERED
    imported,  \* sys.modules
    graph,     \* the jobs load_config is about
    colour, stack,  \* of _reject_cycles; a frame is a node and what it has left
    jobs,      \* Scheduler.jobs, in force
    \* history
    stale,     \* jobs the last reload kept though the file changed them
    edits

load == <<registry, imported>>
dfs  == <<graph, colour, stack>>
vars == <<disk, pc, registry, imported, graph, colour, stack, jobs, stale, edits>>

TypeOK ==
    /\ disk \in Disks
    /\ pc \in {"down", "up", "import", "visit"}
    /\ IsTable(registry)
    /\ imported \in SUBSET Module
    /\ IsTable(graph)
    /\ colour \in [DOMAIN graph -> {"white", "grey", "black"}]
    /\ \A i \in DOMAIN stack : stack[i] \in [node : DOMAIN graph, left : SUBSET Name]
    /\ IsTable(jobs)
    /\ stale \in SUBSET Name
    /\ edits \in Nat

Init ==
    /\ disk \in Disks
    /\ pc = "down"
    /\ registry = NoJobs /\ imported = {}
    /\ graph = NoJobs /\ colour = NoJobs /\ stack = <<>>
    /\ jobs = NoJobs
    /\ stale = {}
    /\ edits = 0

-----------------------------------------------------------------------------

\* What a refused load leads to: the process exits, or the daemon goes on.
Refused == IF DOMAIN jobs = {}
             THEN /\ pc' = "down"
                  /\ registry' = NoJobs /\ imported' = {}
             ELSE pc' = "up"

\* The command line, or `punctual reload`; tomllib comes first.
Load ==
    /\ pc \in {"down", "up"} /\ disk.valid
    /\ pc' = "import"
    /\ UNCHANGED <<disk, load, dfs, jobs, stale, edits>>

-----------------------------------------------------------------------------
(* _load_python_jobs and the decorator.                                    *)

Declares(m) == DOMAIN disk.code[m]
Register(m, N) ==
    registry' = [n \in DOMAIN registry \cup N |->
                   IF n \in N THEN disk.code[m][n] ELSE registry[n]]

\* importlib imports a listed module and before it the packages it lies in, and
\* runs none again that is imported.
Needed == disk.modules \cup UNION {Around[m] : m \in disk.modules}
Importable(m) ==
    /\ pc = "import" /\ m \in Needed \ imported
    /\ Around[m] \subseteq imported

\* Nobody may register a name twice.
Import(m) ==
    /\ Importable(m)
    /\ Declares(m) \cap DOMAIN registry = {}
    /\ Register(m, Declares(m))
    /\ imported' = imported \cup {m}
    /\ UNCHANGED <<disk, pc, dfs, jobs, stale, edits>>

\* The module raises, for a name that is taken or on its own: what it has
\* registered by then stays, unless the process goes.
ImportFails(m) ==
    /\ Importable(m)
    /\ IF DOMAIN jobs = {} THEN Refused
       ELSE /\ Refused
            /\ \E N \in SUBSET (Declares(m) \ DOMAIN registry) : Register(m, N)
            /\ UNCHANGED imported
    /\ UNCHANGED <<disk, dfs, jobs, stale, edits>>

Anybody(n) == TRUE                  \* mutant: whatever module it came from
Wanted(n) == LET mod == registry[n].from
             IN  mod \in disk.modules \/ Around[mod] \cap disk.modules # {}
PythonJobs == {n \in DOMAIN registry : Wanted(n)}

-----------------------------------------------------------------------------
(* load_config, once the modules are imported.                             *)

Merged == [n \in PythonJobs \cup DOMAIN disk.jobs |->
             IF n \in PythonJobs THEN registry[n] ELSE disk.jobs[n]]
DefinedTwice == PythonJobs \cap DOMAIN disk.jobs # {}
UnknownUpstream == \E n \in DOMAIN Merged : ~(Merged[n].after \subseteq DOMAIN Merged)

Imported == pc = "import" /\ Needed \subseteq imported
Sensible == DOMAIN Merged # {} /\ ~DefinedTwice /\ ~UnknownUpstream

Reject ==
    /\ Imported /\ ~Sensible
    /\ Refused
    /\ DOMAIN jobs # {} => UNCHANGED load
    /\ UNCHANGED <<disk, dfs, jobs, stale, edits>>

Collect ==
    /\ Imported /\ Sensible
    /\ pc' = "visit"
    /\ graph' = Merged
    /\ colour' = [n \in DOMAIN Merged |-> "white"]
    /\ stack' = <<>>
    /\ UNCHANGED <<disk, load, jobs, stale, edits>>

-----------------------------------------------------------------------------
(* _reject_cycles: the stack of visit() calls, the last one first.         *)

Frame(n) == [node |-> n, left |-> graph[n].after]
Enter(n, below) ==
    /\ stack' = <<Frame(n)>> \o below
    /\ colour' = [colour EXCEPT ![n] = "grey"]

Top == Head(stack)
InVisit == pc = "visit" /\ stack # <<>>

NotNew(n) == colour[n] # "white"    \* mutant: a diamond is a cycle
ItselfOnly(n) == n = Top.node       \* mutant: a longer cycle is none
OnPath(n) == colour[n] = "grey"
White == {n \in DOMAIN graph : colour[n] = "white"}

StartVisit(n) ==
    /\ pc = "visit" /\ stack = <<>>
    /\ n \in White
    /\ Enter(n, <<>>)
    /\ UNCHANGED <<disk, pc, load, graph, jobs, stale, edits>>

Look(up) ==
    /\ InVisit /\ up \in Top.left
    /\ ~OnPath(up)
    /\ LET rest == <<[Top EXCEPT !.left = @ \ {up}]>> \o Tail(stack)
       IN  IF up \in White THEN Enter(up, rest)
           ELSE stack' = rest /\ UNCHANGED colour
    /\ UNCHANGED <<disk, pc, load, graph, jobs, stale, edits>>

Leave ==
    /\ InVisit /\ Top.left = {}
    /\ colour' = [colour EXCEPT ![Top.node] = "black"]
    /\ stack' = Tail(stack)
    /\ UNCHANGED <<disk, pc, load, graph, jobs, stale, edits>>

CycleAhead == InVisit /\ \E up \in Top.left : OnPath(up)
Searched == pc = "visit" /\ stack = <<>> /\ White = {}

RejectCycle ==
    /\ CycleAhead
    /\ Refused
    /\ DOMAIN jobs # {} => UNCHANGED load
    /\ graph' = NoJobs /\ colour' = NoJobs /\ stack' = <<>>
    /\ UNCHANGED <<disk, jobs, stale, edits>>

\* reload(): drop and add by name, keep the definition of what stays.
Anonymous ==                        \* mutant: the origin is lost
    [n \in DOMAIN graph |-> [graph[n] EXCEPT !.from = "reload"]]
Reloaded == [n \in DOMAIN graph |->
               IF n \in DOMAIN jobs THEN jobs[n] ELSE graph[n]]

Apply ==
    /\ Searched
    /\ pc' = "up"
    /\ jobs' = Reloaded
    /\ stale' = {n \in DOMAIN graph \cap DOMAIN jobs : jobs[n] # graph[n]}
    /\ graph' = NoJobs /\ colour' = NoJobs /\ stack' = <<>>
    /\ UNCHANGED <<disk, load, edits>>

-----------------------------------------------------------------------------

\* Somebody edits the config or a module.
Edit ==
    /\ pc \in {"down", "up"} /\ edits < MaxEdits
    /\ edits' = edits + 1
    /\ disk' \in Disks
    /\ UNCHANGED <<pc, load, dfs, jobs, stale>>

\* The daemon ends.
Stop ==
    /\ pc = "up"
    /\ pc' = "down"
    /\ registry' = NoJobs /\ imported' = {}
    /\ jobs' = NoJobs /\ stale' = {}
    /\ UNCHANGED <<disk, dfs, edits>>

Next == \/ Load \/ Reject \/ Collect \/ Leave \/ RejectCycle \/ Apply \/ Edit \/ Stop
        \/ \E m \in Module : Import(m) \/ ImportFails(m)
        \/ \E n \in Name : StartVisit(n) \/ Look(n)

Spec == Init /\ [][Next]_vars

-----------------------------------------------------------------------------

\* No set of jobs in which each waits for another of the set.
Acyclic(g) == \A N \in SUBSET DOMAIN g :
                  N # {} => \E n \in N : g[n].after \cap N = {}
Closed(g) == \A n \in DOMAIN g : g[n].after \subseteq DOMAIN g

\* The search accepts just the graphs without a cycle ("raise on the first
\* cycle found", config.py), in whatever order it goes.
VerdictIsRight ==
    /\ Searched => Acyclic(graph)
    /\ CycleAhead => ~Acyclic(graph)

\* The jobs in force are a table load_config would accept, as long as no reload
\* has kept a definition that the file has changed.
MergedIsSound == pc = "up" /\ stale = {} => Acyclic(jobs) /\ Closed(jobs)

\* A job that a Python module declares is in force only if all of that module was
\* imported, however often loading it has failed before, or of a package around
\* it: _load_python_jobs takes whatever is registered below a listed package, the
\* part of a submodule that an import which failed has registered included.
NoHalfModules ==
    \A n \in DOMAIN jobs :
        LET mod == jobs[n].from
        IN  mod # Toml => mod \in imported \/ Around[mod] \cap imported # {}
=============================================================================
