--------------------------- MODULE MCDependencies ---------------------------
(* Small instances of Dependencies for TLC: fan-ins and a chain.           *)
EXTENDS Dependencies, TLC

CONSTANTS a, b, c

Clock == [after |-> {}, policy |-> "skip", wait |-> NoTime, retries |-> 0,
          lost |-> FALSE, breaker |-> FALSE, concurrency |-> 1]
Retried == [Clock EXCEPT !.retries = 1]
Lossy == [Clock EXCEPT !.lost = TRUE]
After(ups, policy) == [Clock EXCEPT !.after = ups, !.policy = policy, !.breaker = TRUE]

FanIn == (a :> Retried @@ b :> Clock
            @@ c :> [After({a, b}, "skip") EXCEPT !.breaker = FALSE])
Chain == (a :> Lossy @@ b :> After({a}, "run") @@ c :> After({b}, "skip"))
Impatient == (a :> Clock @@ b :> Clock
                @@ c :> [After({a, b}, "wait") EXCEPT !.wait = 1])

PassTables == {FanIn, Chain, Impatient}

\* The downstream is retried.
RetryTables ==
    {(a :> Clock @@ b :> Clock @@ c :> [After({a, b}, "skip") EXCEPT !.retries = 1])}
=============================================================================
