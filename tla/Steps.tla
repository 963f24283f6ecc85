------------------------------- MODULE Steps -------------------------------
(***************************************************************************)
(* The durable steps of one fire: step() of steps.py and the `steps` table *)
(* of store.py, under attempts that fail, are killed, are left behind by a *)
(* daemon that died, and are retried.                                      *)
(*                                                                         *)
(* Every attempt runs the same job body: "control flow between steps must  *)
(* be deterministic" (steps.py).  Of a value the model keeps which attempt *)
(* computed it and whether it is a tuple, which JSON turns into a list.    *)
(* Which run is retried when, and the breaker, are Scheduler's part.       *)
(***************************************************************************)
EXTENDS Naturals, Sequences

CONSTANTS Body,        \* the names of the steps, as the job calls them
          MaxAttempt,  \* bound: the attempts of the fire
          MaxCrashes   \* bound: times the daemon dies

ASSUME StepsAssumption ==
    /\ Body \in Seq(STRING) /\ Body # <<>>
    /\ MaxAttempt \in Nat \ {0} /\ MaxCrashes \in Nat

Attempt == 1 .. MaxAttempt
Name == {Body[i] : i \in 1 .. Len(Body)}
Shape == {"plain", "tuple", "opaque"}       \* opaque: not JSON-serialisable
Value == [by : Attempt, shape : Shape]
Nothing == [by |-> 0, shape |-> "none"]

VARIABLES
    table,    \* the `steps` table
    row,      \* the `runs` row of each attempt
    pid,      \* the attempts whose row holds a pid
    policy,   \* of the job: is it idempotent, is a LOST run retried
    up,       \* the daemon runs
    \* the job process of each attempt
    at,       \* where it stands
    pos,      \* the step of the body it is at
    result,   \* what fn() returned, until it is recorded
    got,      \* what step() returned so far
    \* history
    ran,      \* the attempts in which fn() of a name returned
    together, \* the pairs of attempts that were alive at once
    crashes

vars == <<table, row, pid, policy, up, at, pos, result, got, ran, together, crashes>>
job  == <<at, pos, result, got, ran, together>>
runs == <<row, pid, policy, up, crashes>>

-----------------------------------------------------------------------------

\* json.loads(json.dumps(v)).
Json(v) == IF v.shape = "tuple" THEN [v EXCEPT !.shape = "plain"] ELSE v

Alive(a) == at[a] \in {"lookup", "call", "record"}
Here(a) == Body[pos[a]]
Past(a) == 1 .. (pos[a] - 1)

TypeOK ==
    /\ table \in [Name -> Value \cup {Nothing}]
    /\ row \in [Attempt -> {"absent", "waiting", "running", "succeeded", "failed", "lost"}]
    /\ pid \in SUBSET Attempt
    /\ policy \in [idempotent : BOOLEAN, retried : BOOLEAN]
    /\ up \in BOOLEAN
    /\ at \in [Attempt -> {"none", "lookup", "call", "record", "done", "dead"}]
    /\ pos \in [Attempt -> 1 .. Len(Body) + 1]
    /\ result \in [Attempt -> Value \cup {Nothing}]
    /\ got \in [Attempt -> [1 .. Len(Body) -> Value \cup {Nothing}]]
    /\ ran \in [Name -> SUBSET Attempt]
    /\ together \in SUBSET (Attempt \X Attempt)
    /\ crashes \in Nat

Init ==
    /\ table = [n \in Name |-> Nothing]
    /\ row = [a \in Attempt |-> IF a = 1 THEN "waiting" ELSE "absent"]
    /\ pid = {}
    /\ policy \in [idempotent : BOOLEAN, retried : BOOLEAN]
    /\ up = TRUE
    /\ at = [a \in Attempt |-> "none"]
    /\ pos = [a \in Attempt |-> 1]
    /\ result = [a \in Attempt |-> Nothing]
    /\ got = [a \in Attempt |-> [i \in 1 .. Len(Body) |-> Nothing]]
    /\ ran = [n \in Name |-> {}]
    /\ together = {}
    /\ crashes = 0

-----------------------------------------------------------------------------
(* step(), in the process of attempt a.                                    *)

\* The step returns v and the body goes on to the next one, or to its end,
\* which may raise too.
Returns(a, v) ==
    /\ got' = [got EXCEPT ![a][pos[a]] = v]
    /\ pos' = [pos EXCEPT ![a] = @ + 1]
    /\ \E next \in IF pos[a] = Len(Body) THEN {"done", "dead"} ELSE {"lookup"} :
          at' = [at EXCEPT ![a] = next]

\* get_step(): a hit is replayed.
Replay(a) ==
    /\ at[a] = "lookup" /\ table[Here(a)] # Nothing
    /\ Returns(a, table[Here(a)])
    /\ UNCHANGED <<table, runs, result, ran, together>>

CallAlways(a) ==                            \* mutant: the lookup is skipped
    /\ at[a] = "lookup"
    /\ at' = [at EXCEPT ![a] = "call"]
    /\ UNCHANGED <<table, runs, pos, result, got, ran, together>>
Call(a) ==
    /\ at[a] = "lookup" /\ table[Here(a)] = Nothing
    /\ at' = [at EXCEPT ![a] = "call"]
    /\ UNCHANGED <<table, runs, pos, result, got, ran, together>>

\* fn() returns; json.dumps() may refuse what it returned, and then the
\* exception ends the process.
FnReturns(a, shape) ==
    /\ at[a] = "call"
    /\ result' = [result EXCEPT ![a] = [by |-> a, shape |-> shape]]
    /\ ran' = [ran EXCEPT ![Here(a)] = @ \cup {a}]
    /\ at' = [at EXCEPT ![a] = IF shape = "opaque" THEN "dead" ELSE "record"]
    /\ UNCHANGED <<table, runs, pos, got, together>>

\* INSERT ... ON CONFLICT DO NOTHING.
Upserted(t, n, v) == [t EXCEPT ![n] = v]    \* mutant: ON CONFLICT DO UPDATE
Recorded(t, n, v) == IF t[n] = Nothing THEN [t EXCEPT ![n] = v] ELSE t

\* record_step(); what is returned is the caller's own value, after JSON.
Record(a) ==
    /\ at[a] = "record"
    /\ table' = Recorded(table, Here(a), Json(result[a]))
    /\ Returns(a, Json(result[a]))
    /\ result' = [result EXCEPT ![a] = Nothing]
    /\ UNCHANGED <<runs, ran, together>>

\* fn(), the store or the body between two steps raises, the timeout or
\* `stop --kill` strikes, the machine kills it.
Die(a) ==
    /\ Alive(a)
    /\ at' = [at EXCEPT ![a] = "dead"]
    /\ UNCHANGED <<table, runs, pos, result, got, ran, together>>

-----------------------------------------------------------------------------
(* The attempts, in the daemon.                                            *)

Others(a) == {b \in Attempt \ {a} : Alive(b)}

\* The row is RUNNING and the process starts at the first step.
Launch(a) ==
    /\ up /\ row[a] = "waiting"
    /\ row' = [row EXCEPT ![a] = "running"]
    /\ at' = [at EXCEPT ![a] = "lookup"]
    /\ together' = together \cup (Others(a) \X {a})
    /\ UNCHANGED <<table, pid, policy, up, crashes, pos, result, got, ran>>

\* on_start: the pid of the process goes into its row.
RecordPid(a) ==
    /\ up /\ row[a] = "running" /\ a \notin pid
    /\ pid' = pid \cup {a}
    /\ UNCHANGED <<table, row, policy, up, crashes, job>>

\* The row gets its outcome ("failed" stands for TIMED_OUT too); the next
\* attempt waits for its time, if there is one left.
Retries(state) == state = "failed" \/ (state = "lost" /\ policy.retried)
Ends(a, state) ==
    row' = [b \in Attempt |-> IF b = a THEN state
                              ELSE IF b = a + 1 /\ Retries(state) THEN "waiting"
                              ELSE row[b]]

Verdict(a) == IF at[a] = "done" THEN "succeeded" ELSE "failed"

Watched(a) ==
    /\ up /\ row[a] = "running" /\ at[a] \in {"done", "dead"}
    /\ Ends(a, Verdict(a))
    /\ UNCHANGED <<table, pid, policy, up, crashes, job>>

\* The processes of the job outlive the daemon.
Crash ==
    /\ up /\ crashes < MaxCrashes
    /\ up' = FALSE
    /\ crashes' = crashes + 1
    /\ UNCHANGED <<table, row, pid, policy, job>>

\* _recover_running() for the row that is open.  A process that ended left a
\* sentinel, or did not; one that lives and whose pid is known is killed unless
\* the job is idempotent; LOST is retried at once.
Sentinel(a) ==
    /\ at[a] \in {"done", "dead"}
    /\ Ends(a, Verdict(a))
    /\ UNCHANGED at

Unkilled(a) == Alive(a) /\ (policy.idempotent \/ a \notin pid)
Lose(a) ==
    /\ Ends(a, "lost")
    /\ at' = IF Alive(a) /\ ~Unkilled(a) THEN [at EXCEPT ![a] = "dead"] ELSE at

Restart ==
    /\ ~up
    /\ up' = TRUE
    /\ \/ /\ \A a \in Attempt : row[a] # "running"
          /\ UNCHANGED <<row, at>>
       \/ \E a \in Attempt : row[a] = "running" /\ (Sentinel(a) \/ Lose(a))
    /\ UNCHANGED <<table, pid, policy, crashes, pos, result, got, ran, together>>

-----------------------------------------------------------------------------

Step(a) == \/ Replay(a) \/ Call(a) \/ Record(a) \/ Die(a)
           \/ \E shape \in Shape : FnReturns(a, shape)

Next == \/ \E a \in Attempt : Step(a) \/ Launch(a) \/ RecordPid(a) \/ Watched(a)
        \/ Crash \/ Restart

Spec == Init /\ [][Next]_vars

-----------------------------------------------------------------------------

Pair(a, b) == <<a, b>> \in together \/ <<b, a>> \in together

\* "a step returns the same thing whether it ran or replayed" (steps.py): what
\* an attempt was given is what the table holds now, whoever else has recorded,
\* replayed or died since.  Only an attempt that called fn() itself while
\* another attempt of the fire was alive may have been given something else.
ReplaysAgree ==
    \A a \in Attempt : \A i \in Past(a) :
        \/ got[a][i] = table[Body[i]] /\ got[a][i] # Nothing
        \/ a \in ran[Body[i]] /\ \E b \in Attempt : Pair(a, b)

\* The result of fn() for step n was lost with its attempt.
Unsaved(a, n) == at[a] = "dead" /\ result[a] # Nothing /\ Here(a) = n

\* "A step runs its function once per fire" (steps.py): fn() returns in a second
\* attempt only if one of the two ended before it could record the result (or
\* could not), or if they were alive at once.
RerunsAreExplained ==
    \A n \in Name : \A a, b \in ran[n] :
        a # b => Unsaved(a, n) \/ Unsaved(b, n) \/ Pair(a, b)
=============================================================================
