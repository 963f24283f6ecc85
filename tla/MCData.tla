------------------------------- MODULE MCData -------------------------------
(***************************************************************************)
(* Small instances of the parts of Data: a fire of two steps; the `after`  *)
(* graphs over three names, and a Python package beside a file; the         *)
(* database with two of its tables and a column added to each.             *)
(***************************************************************************)
EXTENDS Data, TLC, FiniteSets

CONSTANTS a, b, c, pkg, sub, d1, d2, p1, p2

StepNames == <<"fetch", "load">>

Names == {a, b, c}
Modules == {pkg, sub}
Packages == (pkg :> {}) @@ (sub :> {pkg})
Table(H, origin) == [n \in DOMAIN H |-> [after |-> H[n], from |-> origin]]
\* A job that is alone may come after one that is not there, and one of two
\* after itself.
Graphs == {H \in UNION {[N -> SUBSET Names] : N \in SUBSET Names} :
             /\ Cardinality(DOMAIN H) > 1 => \A n \in DOMAIN H : H[n] \subseteq DOMAIN H
             /\ DOMAIN H = Names => \A n \in Names : n \notin H[n]}
NoCode == [m \in Modules |-> [n \in {} |-> {}]]

TomlDisks == {[jobs |-> Table(H, Toml), modules |-> {}, code |-> NoCode,
               valid |-> TRUE] : H \in Graphs}
\* A file with a job, and jobs that come after it: those of a package, or one of
\* a submodule of an empty package.
PythonDisk(x, m, N, M) ==
    [jobs |-> Table(x :> {}, Toml), modules |-> M,
     code |-> [NoCode EXCEPT ![m] = Table([n \in N |-> {x}], m)], valid |-> TRUE]
Distinct == {q \in Names \X Names : q[1] # q[2]}
PythonDisks ==
    {PythonDisk(x, pkg, N, M) : x \in Names, N \in SUBSET Names, M \in SUBSET {pkg}}
        \cup {PythonDisk(q[1], sub, {q[2]}, M) : q \in Distinct, M \in SUBSET Modules \ {{}}}
BadDisk == [jobs |-> [n \in {} |-> {}], modules |-> {}, code |-> NoCode, valid |-> FALSE]

AnyDisk == TomlDisks \cup PythonDisks \cup {BadDisk}
NameSymmetry == Permutations(Names)

TwoDaemons == {d1, d2}
TwoOpeners == {p1, p2}
TwoTables == {"runs", "job_clock"}
TwoColumns == {<<"runs", "pid">>, <<"job_clock", "resume">>}
=============================================================================
