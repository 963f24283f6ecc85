------------------------------- MODULE Schema -------------------------------
(***************************************************************************)
(* How processes open one database at the same time: _init_schema and      *)
(* _migrate of store.py.  Daemons, every CLI command and every job that    *)
(* calls step() open the store; any of them may find a fresh database, or  *)
(* one that an older version of the program left, and may die half-way.    *)
(* Every statement autocommits, so the steps of two openings interleave.   *)
(***************************************************************************)
EXTENDS Naturals, FiniteSets

CONSTANTS Opener,
          SchemaTable, \* the tables of SCHEMA
          Added,     \* _ADDED_COLUMNS: columns of tables, as pairs
          Version    \* SCHEMA_VERSION

Old == {c[1] : c \in Added}
SchemaAssumption ==
    /\ Version \in Nat \ {0}
    /\ \A c \in Added : c = <<c[1], c[2]>>
    /\ Old \subseteq SchemaTable

VARIABLES
    postgres,  \* the backend
    tables,    \* the tables that exist
    columns,   \* the added columns that exist
    version,   \* user_version; 0 when schema_meta has no row
    pc,        \* where each opening stands
    found,     \* _existing_tables() as it read it
    have,      \* _existing_columns() of the tables looked at so far
    todo,      \* the tables not looked at yet
    \* history
    rival      \* the openings that added a column while another was open

vars == <<postgres, tables, columns, version, pc, found, have, todo, rival>>
local == <<found, have, todo>>

-----------------------------------------------------------------------------

Of(t) == {c \in Added : c[1] = t}
Busy == {"version", "tables", "columns", "alter", "stamp", "insert", "script"}

TypeOK ==
    /\ postgres \in BOOLEAN
    /\ tables \in SUBSET SchemaTable
    /\ columns \in SUBSET Added
    /\ version \in 0 .. Version
    /\ pc \in [Opener -> {"none", "open", "failed", "dead"} \cup Busy]
    /\ found \in [Opener -> SUBSET SchemaTable]
    /\ have \in [Opener -> SUBSET Added]
    /\ todo \in [Opener -> SUBSET Old]
    /\ rival \in SUBSET Opener

\* A fresh database has no table; an older one has some, with the columns its
\* version knew.
Init ==
    /\ postgres \in BOOLEAN
    /\ tables \in SUBSET SchemaTable
    /\ columns \in SUBSET Added
    /\ version \in 0 .. Version - 1
    /\ \A c \in columns : c[1] \in tables
    /\ pc = [p \in Opener |-> "none"]
    /\ found = [p \in Opener |-> {}]
    /\ have = [p \in Opener |-> {}]
    /\ todo = [p \in Opener |-> {}]
    /\ rival = {}

-----------------------------------------------------------------------------

Goes(p, stage) == pc' = [pc EXCEPT ![p] = stage]

Open(p) ==
    /\ pc[p] = "none"
    /\ Goes(p, "version")
    /\ UNCHANGED <<postgres, tables, columns, version, local, rival>>

OutdatedNonzero(v) == v # 0 /\ v < Version     \* mutant: 0 means fresh
Outdated(v) == v < Version

ReadVersion(p) ==
    /\ pc[p] = "version"
    /\ Goes(p, IF Outdated(version) THEN "tables" ELSE "script")
    /\ UNCHANGED <<postgres, tables, columns, version, local, rival>>

ReadTables(p) ==
    /\ pc[p] = "tables"
    /\ Goes(p, "columns")
    /\ found' = [found EXCEPT ![p] = tables]
    /\ todo' = [todo EXCEPT ![p] = Old \cap tables]
    /\ UNCHANGED <<postgres, tables, columns, version, have, rival>>

ReadColumns(p, t) ==
    /\ pc[p] = "columns" /\ t \in todo[p]
    /\ Goes(p, "alter")
    /\ todo' = [todo EXCEPT ![p] = @ \ {t}]
    /\ have' = [have EXCEPT ![p] = @ \cup (columns \cap Of(t))]
    /\ UNCHANGED <<postgres, tables, columns, version, found, rival>>

\* What is left to add to the tables that were looked at.
Missing(p) == {c \in Added : c[1] \in found[p] \ todo[p]} \ have[p]

Others(p) == {q \in Opener \ {p} : pc[q] \in Busy}

\* ALTER TABLE ... ADD COLUMN, which fails if the column is there by now.
Alter(p, c) ==
    /\ pc[p] = "alter" /\ c \in Missing(p)
    /\ IF c \in columns
         THEN Goes(p, "failed") /\ UNCHANGED <<columns, have, rival>>
         ELSE /\ columns' = columns \cup {c}
              /\ have' = [have EXCEPT ![p] = @ \cup {c}]
              /\ rival' = rival \cup Others(p)
              /\ UNCHANGED pc
    /\ UNCHANGED <<postgres, tables, version, found, todo>>

TableDone(p) ==
    /\ pc[p] = "alter" /\ Missing(p) = {}
    /\ Goes(p, "columns")
    /\ UNCHANGED <<postgres, tables, columns, version, local, rival>>

\* PRAGMA user_version, or DELETE and INSERT in schema_meta.
SetVersion(p) ==
    /\ pc[p] = "columns" /\ todo[p] = {}
    /\ IF postgres THEN version' = 0 /\ Goes(p, "insert")
       ELSE version' = Version /\ Goes(p, "script")
    /\ UNCHANGED <<postgres, tables, columns, local, rival>>

InsertVersion(p) ==
    /\ pc[p] = "insert"
    /\ version' = Version
    /\ Goes(p, "script")
    /\ UNCHANGED <<postgres, tables, columns, local, rival>>

\* CREATE TABLE IF NOT EXISTS, complete with the columns.
CreateTable(p, t) ==
    /\ pc[p] = "script" /\ t \in SchemaTable \ tables
    /\ tables' = tables \cup {t}
    /\ columns' = columns \cup Of(t)
    /\ UNCHANGED <<postgres, version, pc, local, rival>>

ScriptDone(p) ==
    /\ pc[p] = "script" /\ tables = SchemaTable
    /\ Goes(p, "open")
    /\ UNCHANGED <<postgres, tables, columns, version, local, rival>>

Die(p) ==
    /\ pc[p] \in Busy
    /\ Goes(p, "dead")
    /\ UNCHANGED <<postgres, tables, columns, version, local, rival>>

Next == \E p \in Opener :
    \/ Open(p) \/ ReadVersion(p) \/ ReadTables(p) \/ TableDone(p)
    \/ SetVersion(p) \/ InsertVersion(p) \/ ScriptDone(p) \/ Die(p)
    \/ \E t \in SchemaTable : ReadColumns(p, t) \/ CreateTable(p, t)
    \/ \E c \in Added : Alter(p, c)

Spec == Init /\ [][Next]_vars

-----------------------------------------------------------------------------

\* A store that was opened has every table and every column, whoever else was
\* opening it, or died over it.
OpenedIsComplete ==
    (\E p \in Opener : pc[p] = "open") => tables = SchemaTable /\ columns = Added

\* An opening fails only if another process that was still at it added a column
\* under its eyes: what a process that died half-way left behind never makes the
\* next one fail.
FailsOnlyInRaces == \A p \in Opener : pc[p] = "failed" => p \in rival
=============================================================================
