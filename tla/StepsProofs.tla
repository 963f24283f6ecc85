---------------------------- MODULE StepsProofs ----------------------------
(***************************************************************************)
(* Theorems about Steps: for any job body, number of attempts and crashes, *)
(* a step returns what the store holds, and its function is called again   *)
(* only when its result was lost or two attempts were alive at once.       *)
(***************************************************************************)
EXTENDS Steps, TLAPS

-----------------------------------------------------------------------------
(* The inductive invariant.                                                *)

Pending == {"absent", "waiting", "running"}

\* There is one open row at most, and nothing behind it.
Chain == \A a, b \in Attempt : a < b /\ row[a] \in Pending => row[b] = "absent"

\* An attempt that was not launched has done nothing.
Fresh ==
    \A a \in Attempt :
        /\ row[a] \in {"absent", "waiting"} => at[a] = "none"
        /\ at[a] = "none" => pos[a] = 1 /\ result[a] = Nothing
        /\ at[a] = "none" => \A n \in Name : a \notin ran[n]

\* A process that lives is at a step of the body.
Position == \A a \in Attempt : Alive(a) => pos[a] <= Len(Body)

\* Two that live have met.
Met == \A a, b \in Attempt : a # b /\ Alive(a) /\ Alive(b) => Pair(a, b)

\* What is about to be recorded was just computed.
Computed ==
    \A a \in Attempt : at[a] = "record" =>
        result[a] # Nothing /\ a \in ran[Here(a)]

\* A value that was computed is in the table, or still on its way, or lost.
Holds(a, n) == at[a] \in {"record", "dead"} /\ result[a] # Nothing /\ Here(a) = n
Kept == \A n \in Name : \A a \in ran[n] : table[n] # Nothing \/ Holds(a, n)

\* Whoever is about to call fn() has reason to.
Allowed ==
    \A a \in Attempt : at[a] = "call" =>
        \A b \in ran[Here(a)] : a # b => Unsaved(b, Here(a)) \/ Pair(a, b)

\* Whoever is about to record after somebody else has met that one.
Overtaken ==
    \A a \in Attempt : at[a] \in {"call", "record"} /\ table[Here(a)] # Nothing =>
        \E b \in Attempt : Pair(a, b)

\* All of it, given the types.
StepsInv == /\ Met /\ Computed /\ Kept /\ Allowed /\ Overtaken
            /\ ReplaysAgree /\ RerunsAreExplained

-----------------------------------------------------------------------------
(* Values and names.                                                       *)

\* What was computed, and what JSON makes of it, is a value.
LEMMA Values ==
    /\ Nothing \notin Value
    /\ Json(Nothing) = Nothing
    /\ \A v \in Value : Json(v) \in Value
<1>1. Nothing \notin Value
  BY StepsAssumption DEF Nothing, Value, Attempt, Shape
<1>2. ASSUME NEW v \in Value
      PROVE  Json(v) \in Value
  BY <1>2 DEF Json, Value, Shape
<1>3. Json(Nothing) = Nothing
  BY DEF Json, Nothing
<1> QED
  BY <1>1, <1>2, <1>3

\* The body has a first step.
LEMMA BodyNotEmpty == Len(Body) \in Nat /\ Len(Body) >= 1
BY StepsAssumption

\* A position in the body names a step.
LEMMA HereIsAName ==
    ASSUME TypeOK, NEW a \in Attempt, pos[a] <= Len(Body)
    PROVE  pos[a] \in 1 .. Len(Body) /\ Here(a) \in Name
BY BodyNotEmpty DEF TypeOK, Here, Name

-----------------------------------------------------------------------------
(* Type correctness.                                                       *)

\* What the types need.
TypeInv == TypeOK /\ Chain /\ Fresh /\ Position

\* Going on to the next step of the body.
LEMMA ReturnsTypes ==
    ASSUME TypeOK, Position, NEW a \in Attempt, Alive(a),
           NEW v \in Value \cup {Nothing}, Returns(a, v)
    PROVE  /\ got' \in [Attempt -> [1 .. Len(Body) -> Value \cup {Nothing}]]
           /\ pos' \in [Attempt -> 1 .. Len(Body) + 1]
           /\ at' \in [Attempt -> {"none", "lookup", "call", "record", "done", "dead"}]
           /\ Position'
<1>1. pos[a] \in 1 .. Len(Body)
  BY HereIsAName DEF Position
<1>2. got' = [got EXCEPT ![a] = [got[a] EXCEPT ![pos[a]] = v]]
  BY DEF Returns, TypeOK
<1>3. got' \in [Attempt -> [1 .. Len(Body) -> Value \cup {Nothing}]]
  BY <1>1, <1>2 DEF TypeOK
<1>4. pos' = [pos EXCEPT ![a] = pos[a] + 1]
  BY DEF Returns, TypeOK
<1>5. PICK next \in IF pos[a] = Len(Body) THEN {"done", "dead"} ELSE {"lookup"} :
          at' = [at EXCEPT ![a] = next]
  BY DEF Returns
<1>6. Position'
  BY <1>1, <1>4, <1>5, BodyNotEmpty DEF Position, Alive, TypeOK
<1> QED
  BY <1>1, <1>3, <1>4, <1>5, <1>6, BodyNotEmpty DEF TypeOK

\* What a process does leaves the rows alone, and the attempts that were not
\* launched.
LEMMA StepFrame ==
    ASSUME TypeOK, Chain, Fresh, NEW a \in Attempt, Alive(a),
           UNCHANGED runs,
           \A b \in Attempt \ {a} : at'[b] = at[b],
           at'[a] # "none",
           \A b \in Attempt \ {a} : pos'[b] = pos[b] /\ result'[b] = result[b],
           \A n \in Name : ran'[n] \subseteq ran[n] \cup {a}
    PROVE  Chain' /\ Fresh'
BY DEF Chain, Fresh, Alive, TypeOK, runs, Pending

LEMMA StepTypes ==
    ASSUME TypeInv, NEW a \in Attempt, Step(a)
    PROVE  TypeInv'
<1> USE DEF TypeInv
<1>1. CASE Replay(a)
  <2>1. Alive(a) /\ table[Here(a)] \in Value \cup {Nothing}
    BY <1>1, HereIsAName DEF Replay, Alive, Position, TypeOK
  <2>2. TypeOK' /\ Position'
    BY <1>1, <2>1, ReturnsTypes DEF Replay, runs, TypeOK
  <2>3. Chain' /\ Fresh'
    BY <1>1, <2>1, StepFrame DEF Replay, Returns, TypeOK
  <2> QED
    BY <2>2, <2>3
<1>2. CASE Call(a)
  <2>1. TypeOK' /\ Position'
    BY <1>2 DEF Call, Alive, Position, runs, TypeOK
  <2>2. Chain' /\ Fresh'
    BY <1>2, StepFrame DEF Call, Alive, TypeOK
  <2> QED
    BY <2>1, <2>2
<1>3. CASE Record(a)
  <2>1. Alive(a) /\ Here(a) \in Name
    BY <1>3, HereIsAName DEF Record, Alive, Position
  <2>2. Json(result[a]) \in Value \cup {Nothing}
    BY Values DEF TypeOK
  <2>3. table' \in [Name -> Value \cup {Nothing}]
    BY <1>3, <2>1, <2>2 DEF Record, Recorded, TypeOK
  <2>4. TypeOK' /\ Position'
    BY <1>3, <2>1, <2>2, <2>3, ReturnsTypes DEF Record, runs, TypeOK
  <2>5. Chain' /\ Fresh'
    BY <1>3, <2>1, StepFrame DEF Record, Returns, TypeOK
  <2> QED
    BY <2>4, <2>5
<1>4. CASE Die(a)
  <2>1. TypeOK' /\ Position'
    BY <1>4 DEF Die, Alive, Position, runs, TypeOK
  <2>2. Chain' /\ Fresh'
    BY <1>4, StepFrame DEF Die, TypeOK
  <2> QED
    BY <2>1, <2>2
<1>5. ASSUME NEW shape \in Shape, FnReturns(a, shape)
      PROVE  TypeInv'
  <2>1. Alive(a) /\ Here(a) \in Name
    BY <1>5, HereIsAName DEF FnReturns, Alive, Position
  <2>2. [by |-> a, shape |-> shape] \in Value
    BY DEF Value
  <2>3. TypeOK' /\ Position'
    BY <1>5, <2>1, <2>2 DEF FnReturns, Alive, Position, runs, TypeOK
  <2>4. Chain' /\ Fresh'
    BY <1>5, <2>1, <2>3, StepFrame DEF FnReturns, TypeOK
  <2> QED
    BY <2>3, <2>4
<1> QED
  BY <1>1, <1>2, <1>3, <1>4, <1>5 DEF Step

\* An open row gets its outcome; what was waiting behind it was absent.
LEMMA EndsTypes ==
    ASSUME TypeOK, Chain, Fresh, NEW a \in Attempt, row[a] = "running",
           NEW state \in {"succeeded", "failed", "lost"}, Ends(a, state),
           \A b \in Attempt : at'[b] = at[b] \/ (Alive(b) /\ at'[b] = "dead"),
           UNCHANGED <<pos, result, ran>>
    PROVE  /\ row' \in [Attempt -> {"absent", "waiting", "running", "succeeded", "failed", "lost"}]
           /\ Chain' /\ Fresh'
<1>1. /\ \A b \in Attempt : row'[b] = IF b = a THEN state
                                       ELSE IF b = a + 1 /\ Retries(state) THEN "waiting"
                                       ELSE row[b]
      /\ row' \in [Attempt -> {"absent", "waiting", "running", "succeeded", "failed", "lost"}]
  BY DEF Ends, TypeOK
<1>2. \A b \in Attempt : a < b => row[b] = "absent"
  BY DEF Chain, Pending
<1>3. \A b \in Attempt : b < a => row[b] \notin Pending
  BY DEF Chain, Pending
<1>4. Chain'
  BY <1>1, <1>2, <1>3 DEF Chain, Pending, Attempt
<1>5. \A b \in Attempt : row'[b] \in {"absent", "waiting"} => row[b] \in {"absent", "waiting"}
  BY <1>1, <1>2 DEF Attempt
<1>6. Fresh'
  BY <1>5 DEF Fresh, Alive
<1> QED
  BY <1>1, <1>4, <1>6

LEMMA LaunchTypes ==
    ASSUME TypeInv, NEW a \in Attempt, Launch(a)
    PROVE  TypeInv'
<1> USE DEF TypeInv
<1>1. pos[a] = 1 /\ at[a] = "none"
  BY DEF Launch, Fresh
<1>2. TypeOK'
  BY DEF Launch, Others, TypeOK
<1>3. Position'
  BY <1>1, BodyNotEmpty DEF Launch, Position, Alive, TypeOK
<1>4. Chain' /\ Fresh'
  BY <1>1 DEF Launch, Chain, Fresh, Pending, TypeOK
<1> QED
  BY <1>2, <1>3, <1>4

LEMMA WatchedTypes ==
    ASSUME TypeInv, NEW a \in Attempt, Watched(a)
    PROVE  TypeInv'
<1> USE DEF TypeInv
<1>1. Verdict(a) \in {"succeeded", "failed"}
  BY DEF Verdict
<1>2. UNCHANGED <<at, pos, result, ran>>
  BY DEF Watched, job
<1>3. row' \in [Attempt -> {"absent", "waiting", "running", "succeeded", "failed", "lost"}]
      /\ Chain' /\ Fresh'
  BY <1>1, <1>2, EndsTypes DEF Watched
<1> QED
  BY <1>2, <1>3 DEF Watched, job, TypeOK, Position, Alive

LEMMA RestartTypes ==
    ASSUME TypeInv, Restart
    PROVE  TypeInv'
<1> USE DEF TypeInv
<1>1. UNCHANGED <<pos, result, ran, table, pid, policy, crashes, got, together>> /\ up' = TRUE
  BY DEF Restart
<1>2. CASE UNCHANGED <<row, at>>
  BY <1>1, <1>2 DEF TypeOK, Chain, Fresh, Position, Alive, Pending
<1>3. ASSUME NEW a \in Attempt, row[a] = "running", Sentinel(a) \/ Lose(a)
      PROVE  TypeInv'
  <2>1. PICK state \in {"succeeded", "failed", "lost"} : Ends(a, state)
    BY <1>3 DEF Sentinel, Lose, Verdict
  <2>2. /\ \A b \in Attempt : at'[b] = at[b] \/ (Alive(b) /\ at'[b] = "dead")
        /\ at' \in [Attempt -> {"none", "lookup", "call", "record", "done", "dead"}]
    BY <1>3 DEF Sentinel, Lose, TypeOK
  <2>3. row' \in [Attempt -> {"absent", "waiting", "running", "succeeded", "failed", "lost"}]
        /\ Chain' /\ Fresh'
    BY <1>1, <1>3, <2>1, <2>2, EndsTypes
  <2> QED
    BY <1>1, <2>2, <2>3 DEF TypeOK, Position, Alive
<1> QED
  BY <1>2, <1>3 DEF Restart

\* Every variable keeps its type; what step() is called with is a step of the
\* body, and there is one open attempt at most.
LEMMA TypesStep == TypeInv /\ [Next]_vars => TypeInv'
<1> SUFFICES ASSUME TypeInv, [Next]_vars
             PROVE  TypeInv'
  OBVIOUS
<1>1. ASSUME NEW a \in Attempt, RecordPid(a)
      PROVE  TypeInv'
  BY <1>1 DEF RecordPid, job, TypeInv, TypeOK, Chain, Fresh, Position, Alive, Pending
<1>2. CASE Crash
  <2>1. crashes \in Nat
    BY DEF TypeInv, TypeOK
  <2>2. crashes' \in Nat
    BY <1>2, <2>1 DEF Crash
  <2>3. up' \in BOOLEAN
    BY <1>2 DEF Crash
  <2> QED
    BY <1>2, <2>2, <2>3 DEF Crash, job, TypeInv, TypeOK, Chain, Fresh, Position, Alive, Pending
<1>3. CASE UNCHANGED vars
  BY <1>3 DEF vars, TypeInv, TypeOK, Chain, Fresh, Position, Alive, Pending
<1> QED
  BY <1>1, <1>2, <1>3, StepTypes, LaunchTypes, WatchedTypes, RestartTypes DEF Next

LEMMA TypesInit == Init => TypeInv
<1> SUFFICES ASSUME Init PROVE TypeInv
  OBVIOUS
<1>1. TypeOK
  <2>1. /\ table \in [Name -> Value \cup {Nothing}] /\ ran \in [Name -> SUBSET Attempt]
        /\ row \in [Attempt -> {"absent", "waiting", "running", "succeeded", "failed", "lost"}]
        /\ at \in [Attempt -> {"none", "lookup", "call", "record", "done", "dead"}]
    BY DEF Init
  <2>2. pos \in [Attempt -> 1 .. Len(Body) + 1]
    BY BodyNotEmpty DEF Init
  <2>3. /\ result \in [Attempt -> Value \cup {Nothing}]
        /\ got \in [Attempt -> [1 .. Len(Body) -> Value \cup {Nothing}]]
    BY DEF Init
  <2>4. /\ pid \in SUBSET Attempt /\ together \in SUBSET (Attempt \X Attempt)
        /\ policy \in [idempotent : BOOLEAN, retried : BOOLEAN]
        /\ up \in BOOLEAN /\ crashes \in Nat
    BY DEF Init
  <2> QED
    BY <2>1, <2>2, <2>3, <2>4 DEF TypeOK
<1>2. Chain /\ Fresh /\ Position
  BY BodyNotEmpty DEF Init, Chain, Fresh, Position, Alive, Pending, Attempt
<1> QED
  BY <1>1, <1>2 DEF TypeInv

THEOREM AttemptsTyped == Spec => []TypeInv
<1> QED
  BY TypesInit, TypesStep, PTL DEF Spec

-----------------------------------------------------------------------------
(* What steps return, and how often their functions are called.            *)

\* As long as nothing is computed or recorded, what explains a second call stays.
LEMMA ExcusesStay ==
    ASSUME TypeInv, StepsInv, UNCHANGED <<table, ran>>,
           \A b \in Attempt, n \in Name : Holds(b, n) => Holds(b, n)',
           \A b \in Attempt, n \in Name : Unsaved(b, n) => Unsaved(b, n)',
           \A b, c \in Attempt : Pair(b, c) => Pair(b, c)'
    PROVE  /\ Kept' /\ RerunsAreExplained'
           /\ \A b \in Attempt : at[b] = "call" /\ at'[b] = "call" /\ pos'[b] = pos[b] =>
                  \A c \in ran[Here(b)]' : b # c => Unsaved(c, Here(b))' \/ Pair(b, c)'
<1>1. \A n \in Name : ran[n] \subseteq Attempt
  BY DEF TypeInv, TypeOK
<1>2. Kept'
  BY <1>1 DEF StepsInv, Kept
<1>3. RerunsAreExplained'
  BY <1>1 DEF StepsInv, RerunsAreExplained
<1>4. ASSUME NEW b \in Attempt, at[b] = "call", pos'[b] = pos[b]
      PROVE  \A c \in ran[Here(b)]' : b # c => Unsaved(c, Here(b))' \/ Pair(b, c)'
  <2>1. Here(b) \in Name
    BY <1>4, HereIsAName DEF TypeInv, Position, Alive
  <2>2. Here(b)' = Here(b)
    BY <1>4 DEF Here
  <2>3. \A c \in ran[Here(b)] : b # c => Unsaved(c, Here(b)) \/ Pair(b, c)
    BY <1>4 DEF StepsInv, Allowed
  <2> QED
    BY <1>1, <2>1, <2>2, <2>3
<1> QED
  BY <1>2, <1>3, <1>4

\* Nothing but deaths: of a process, or of several, or of none.
LEMMA DeathKeeps ==
    ASSUME TypeInv, StepsInv,
           \A b \in Attempt : at'[b] = at[b] \/ (Alive(b) /\ at'[b] = "dead"),
           UNCHANGED <<table, pos, result, got, ran, together>>
    PROVE  StepsInv'
<1> USE DEF StepsInv, Alive, Here, Pair
<1>1. Met' /\ Computed' /\ Overtaken'
  BY DEF Met, Computed, Overtaken
<1>2. /\ \A b \in Attempt, n \in Name : Holds(b, n) => Holds(b, n)'
      /\ \A b \in Attempt, n \in Name : Unsaved(b, n) => Unsaved(b, n)'
  BY DEF Holds, Unsaved
<1>3. Kept' /\ RerunsAreExplained' /\ Allowed'
  BY <1>2, ExcusesStay DEF Allowed
<1>4. ReplaysAgree'
  BY DEF ReplaysAgree, Past
<1> QED
  BY <1>1, <1>3, <1>4

\* The new process meets those that are alive.
LEMMA LaunchKeeps ==
    ASSUME TypeInv, StepsInv, NEW a \in Attempt, Launch(a)
    PROVE  StepsInv'
<1> USE DEF StepsInv
<1>1. /\ at[a] = "none" /\ \A n \in Name : a \notin ran[n]
      /\ \A b \in Attempt \ {a} : at'[b] = at[b]
      /\ at'[a] = "lookup"
      /\ UNCHANGED <<table, pos, result, got, ran>>
  BY DEF TypeInv, TypeOK, Fresh, Launch
<1>2. \A b, c \in Attempt : Pair(b, c) => Pair(b, c)'
  BY DEF Launch, Pair
<1>3. \A b \in Attempt \ {a} : Alive(b) => Pair(a, b)' /\ Pair(b, a)'
  BY DEF Launch, Pair, Others
<1>4. Met'
  BY <1>1, <1>2, <1>3 DEF Met, Alive
<1>5. Computed'
  BY <1>1 DEF Computed, Here
<1>6. /\ \A b \in Attempt, n \in Name : Holds(b, n) => Holds(b, n)'
      /\ \A b \in Attempt, n \in Name : Unsaved(b, n) => Unsaved(b, n)'
  BY <1>1 DEF Holds, Unsaved, Here
<1>7. Kept' /\ RerunsAreExplained' /\ Allowed'
  BY <1>1, <1>2, <1>6, ExcusesStay DEF Allowed
<1>8. Overtaken'
  BY <1>1, <1>2 DEF Overtaken, Here
<1>9. ReplaysAgree'
  BY <1>1, <1>2 DEF ReplaysAgree, Past
<1> QED
  BY <1>4, <1>5, <1>7, <1>8, <1>9

\* Who finds no result calls the function: whoever has computed one before has
\* not recorded it, so it is lost, or still alive.
LEMMA CallKeeps ==
    ASSUME TypeInv, StepsInv, NEW a \in Attempt, Call(a)
    PROVE  StepsInv'
<1> USE DEF StepsInv, Pair
<1>1. /\ at[a] = "lookup" /\ table[Here(a)] = Nothing /\ at'[a] = "call"
      /\ \A b \in Attempt \ {a} : at'[b] = at[b]
      /\ UNCHANGED <<table, pos, result, got, ran, together>>
  BY DEF Call, TypeInv, TypeOK
<1>2. Here(a) \in Name
  BY <1>1, HereIsAName DEF TypeInv, Position, Alive
<1>3. Met'
  BY <1>1 DEF Met, Alive
<1>4. Computed' /\ Overtaken'
  BY <1>1 DEF Computed, Overtaken, Here
<1>5. /\ \A b \in Attempt, n \in Name : Holds(b, n) => Holds(b, n)'
      /\ \A b \in Attempt, n \in Name : Unsaved(b, n) => Unsaved(b, n)'
  BY <1>1 DEF Holds, Unsaved, Here
<1>6. ASSUME NEW b \in ran[Here(a)], a # b
      PROVE  Unsaved(b, Here(a)) \/ Pair(a, b)
  <2>1. b \in Attempt
    BY <1>2, <1>6 DEF TypeInv, TypeOK
  <2>2. Holds(b, Here(a))
    BY <1>1, <1>2, <1>6 DEF Kept
  <2> QED
    BY <1>1, <1>6, <2>1, <2>2 DEF Holds, Unsaved, Met, Alive
<1>7. \A b \in ran[Here(a)]' : a # b => Unsaved(b, Here(a))' \/ Pair(a, b)'
  <2>1. Here(a)' = Here(a) /\ ran[Here(a)] \subseteq Attempt
    BY <1>1, <1>2 DEF Here, TypeInv, TypeOK
  <2> QED
    BY <1>1, <1>2, <1>5, <1>6, <2>1
<1>8. Kept' /\ RerunsAreExplained' /\ Allowed'
  BY <1>1, <1>5, <1>7, ExcusesStay DEF Allowed
<1>9. ReplaysAgree'
  BY <1>1 DEF ReplaysAgree, Past
<1> QED
  BY <1>3, <1>4, <1>8, <1>9

\* A hit is what the table holds.
LEMMA ReplayKeeps ==
    ASSUME TypeInv, StepsInv, NEW a \in Attempt, Replay(a)
    PROVE  StepsInv'
<1> USE DEF StepsInv, Pair
<1>1. /\ at[a] = "lookup" /\ table[Here(a)] # Nothing
      /\ at'[a] \in {"lookup", "done", "dead"}
      /\ \A b \in Attempt \ {a} : at'[b] = at[b] /\ pos'[b] = pos[b]
      /\ pos'[a] = pos[a] + 1
      /\ \A b \in Attempt \ {a} : got'[b] = got[b]
      /\ UNCHANGED <<table, result, ran, together>>
  BY DEF Replay, Returns, TypeInv, TypeOK
<1>2. pos[a] \in 1 .. Len(Body)
  BY <1>1, HereIsAName DEF TypeInv, Position, Alive
<1>3. got'[a] = [got[a] EXCEPT ![pos[a]] = table[Here(a)]]
  BY DEF Replay, Returns, TypeInv, TypeOK
<1>4. Met'
  BY <1>1 DEF Met, Alive
<1>5. Computed' /\ Overtaken'
  BY <1>1 DEF Computed, Overtaken, Here
<1>6. /\ \A b \in Attempt, n \in Name : Holds(b, n) => Holds(b, n)'
      /\ \A b \in Attempt, n \in Name : Unsaved(b, n) => Unsaved(b, n)'
  BY <1>1 DEF Holds, Unsaved, Here
<1>7. Kept' /\ RerunsAreExplained' /\ Allowed'
  BY <1>1, <1>6, ExcusesStay DEF Allowed
<1>8. ReplaysAgree'
  <2>1. ASSUME NEW i \in Past(a)' PROVE
          \/ got'[a][i] = table[Body[i]] /\ got'[a][i] # Nothing
          \/ a \in ran[Body[i]] /\ \E b \in Attempt : Pair(a, b)
    <3>1. CASE i = pos[a]
      BY <1>1, <1>2, <1>3, <3>1 DEF Here, TypeInv, TypeOK
    <3>2. CASE i # pos[a]
      <4>1. i \in Past(a)
        BY <1>1, <1>2, <3>2 DEF Past
      <4>2. got'[a][i] = got[a][i]
        BY <1>2, <1>3, <3>2, <4>1 DEF Past, TypeInv, TypeOK
      <4> QED
        BY <4>1, <4>2 DEF ReplaysAgree
    <3> QED
      BY <3>1, <3>2
  <2>2. ASSUME NEW b \in Attempt, b # a
        PROVE  Past(b)' = Past(b) /\ got'[b] = got[b]
    BY <1>1, <2>2 DEF Past
  <2> QED
    BY <1>1, <2>1, <2>2 DEF ReplaysAgree
<1> QED
  BY <1>4, <1>5, <1>7, <1>8

\* The function is done: with Allowed, the call was no surprise.
LEMMA FnReturnsKeeps ==
    ASSUME TypeInv, StepsInv, NEW a \in Attempt, NEW shape \in Shape,
           FnReturns(a, shape)
    PROVE  StepsInv'
<1> USE DEF StepsInv, Pair
<1> DEFINE n == Here(a)
<1>1. /\ at[a] = "call" /\ at'[a] \in {"record", "dead"}
      /\ result'[a] = [by |-> a, shape |-> shape]
      /\ \A b \in Attempt \ {a} : at'[b] = at[b] /\ result'[b] = result[b]
      /\ UNCHANGED <<table, pos, got, together>>
  BY DEF FnReturns, TypeInv, TypeOK
<1>2. result'[a] # Nothing
  <2>1. result'[a] \in Value
    BY <1>1 DEF Value
  <2> QED
    BY <2>1, Values
<1>3. n \in Name /\ \A m \in Name : ran[m] \subseteq Attempt
  BY <1>1, HereIsAName DEF TypeInv, TypeOK, Position, Alive
<1>4. ran' = [ran EXCEPT ![n] = ran[n] \cup {a}]
  BY DEF FnReturns
<1>5. /\ ran'[n] = ran[n] \cup {a}
      /\ \A m \in Name : m # n => ran'[m] = ran[m]
      /\ \A m \in Name : ran[m] \subseteq ran'[m] /\ ran'[m] \subseteq ran[m] \cup {a}
  BY <1>3, <1>4 DEF TypeInv, TypeOK
<1> HIDE DEF n
<1>6. Met'
  BY <1>1 DEF Met, Alive
<1>7. ASSUME NEW b \in Attempt, at'[b] = "record"
      PROVE  result'[b] # Nothing /\ b \in ran'[Here(b)]
  <2>1. CASE b = a
    BY <1>2, <1>5, <2>1 DEF n
  <2>2. CASE b # a
    <3>1. at[b] = "record" /\ result'[b] = result[b]
      BY <1>1, <1>7, <2>2
    <3>2. Here(b) \in Name
      BY <3>1, HereIsAName DEF TypeInv, Position, Alive
    <3> QED
      BY <1>5, <3>1, <3>2 DEF Computed
  <2> QED
    BY <2>1, <2>2
<1>8. \A b \in Attempt : Here(b)' = Here(b)
  BY <1>1 DEF Here
<1>9. Computed'
  BY <1>7, <1>8 DEF Computed
<1>10. ASSUME NEW m \in Name, NEW b \in ran'[m]
       PROVE  table[m] # Nothing \/ Holds(b, m)'
  <2>1. CASE b = a /\ m = n
    BY <1>1, <1>2, <1>8, <2>1 DEF Holds, n
  <2>2. CASE ~(b = a /\ m = n)
    <3>1. b \in ran[m] /\ b \in Attempt
      BY <1>3, <1>5, <1>10, <2>2
    <3>2. table[m] # Nothing \/ Holds(b, m)
      BY <3>1 DEF Kept
    <3> QED
      BY <1>1, <1>8, <3>1, <3>2 DEF Holds
  <2> QED
    BY <2>1, <2>2
<1>11. Kept'
  BY <1>1, <1>10 DEF Kept
<1>12. /\ \A b \in Attempt, m \in Name : Unsaved(b, m) => Unsaved(b, m)'
       /\ \A b, c \in Attempt : Pair(b, c) <=> Pair(b, c)'
  BY <1>1, <1>8 DEF Unsaved
<1>13. ASSUME NEW b \in Attempt, at'[b] = "call",
              NEW c \in ran'[Here(b)], b # c
       PROVE  Unsaved(c, Here(b))' \/ Pair(b, c)'
  <2>1. b # a /\ at[b] = "call"
    BY <1>1, <1>13
  <2>2. Here(b) \in Name
    BY <2>1, HereIsAName DEF TypeInv, Position, Alive
  <2>3. CASE c = a
    BY <1>1, <1>12, <2>1, <2>3 DEF Met, Alive
  <2>4. CASE c # a
    <3>1. c \in ran[Here(b)] /\ c \in Attempt
      BY <1>3, <1>5, <1>13, <2>2, <2>4
    <3> QED
      BY <1>8, <1>12, <1>13, <2>1, <2>2, <3>1 DEF Allowed
  <2> QED
    BY <2>3, <2>4
<1>14. Allowed'
  BY <1>8, <1>13 DEF Allowed
<1>15. Overtaken'
  BY <1>1, <1>8, <1>12 DEF Overtaken
<1>16. ReplaysAgree'
  <2>1. \A b \in Attempt : \A i \in Past(b) : b \in ran[Body[i]] => b \in ran'[Body[i]]
    <3>1. ASSUME NEW b \in Attempt, NEW i \in Past(b)
          PROVE  Body[i] \in Name
      BY <3>1, BodyNotEmpty DEF Past, Name, TypeInv, TypeOK
    <3> QED
      BY <1>5, <3>1
  <2> QED
    BY <1>1, <1>12, <2>1 DEF ReplaysAgree, Past
<1>17. ASSUME NEW m \in Name, NEW b \in ran'[m], NEW c \in ran'[m], b # c
       PROVE  Unsaved(b, m)' \/ Unsaved(c, m)' \/ Pair(b, c)'
  <2>1. b \in Attempt /\ c \in Attempt
    BY <1>3, <1>5, <1>17
  <2>2. CASE b \in ran[m] /\ c \in ran[m]
    BY <1>12, <1>17, <2>1, <2>2 DEF RerunsAreExplained
  <2>3. CASE b \notin ran[m]
    <3>1. b = a /\ m = n /\ c \in ran[n]
      BY <1>5, <1>17, <2>3
    <3> QED
      BY <1>1, <1>12, <1>17, <2>1, <3>1 DEF Allowed, n
  <2>4. CASE c \notin ran[m]
    <3>1. c = a /\ m = n /\ b \in ran[n]
      BY <1>5, <1>17, <2>4
    <3> QED
      BY <1>1, <1>12, <1>17, <2>1, <3>1 DEF Allowed, n
  <2> QED
    BY <2>2, <2>3, <2>4
<1>18. RerunsAreExplained'
  BY <1>17 DEF RerunsAreExplained
<1> QED
  BY <1>6, <1>9, <1>11, <1>14, <1>15, <1>16, <1>18

\* A result gets into the table once, and whoever comes late has met somebody.
LEMMA RecordKeeps ==
    ASSUME TypeInv, StepsInv, NEW a \in Attempt, Record(a)
    PROVE  StepsInv'
<1> USE DEF StepsInv, Pair
<1> DEFINE n == Here(a)
           v == Json(result[a])
<1>1. /\ at[a] = "record" /\ at'[a] \in {"lookup", "done", "dead"}
      /\ result[a] # Nothing /\ a \in ran[n]
      /\ \A b \in Attempt \ {a} : /\ at'[b] = at[b] /\ pos'[b] = pos[b]
                                 /\ got'[b] = got[b] /\ result'[b] = result[b]
      /\ pos'[a] = pos[a] + 1
      /\ got'[a] = [got[a] EXCEPT ![pos[a]] = v]
      /\ UNCHANGED <<ran, together>>
  BY DEF Record, Returns, Computed, TypeInv, TypeOK
<1>2. pos[a] \in 1 .. Len(Body) /\ n \in Name
  BY <1>1, HereIsAName DEF TypeInv, Position, Alive
<1>3. v # Nothing
  BY <1>1, Values DEF TypeInv, TypeOK
<1>4. /\ table'[n] = IF table[n] = Nothing THEN v ELSE table[n]
      /\ \A m \in Name : table[m] # Nothing \/ m # n => table'[m] = table[m]
      /\ table'[n] # Nothing
  <2>1. table' = IF table[n] = Nothing THEN [table EXCEPT ![n] = v] ELSE table
    BY DEF Record, Recorded
  <2> QED
    BY <1>2, <1>3, <2>1 DEF TypeInv, TypeOK
<1>5. \A m \in Name : ran[m] \subseteq Attempt
  BY DEF TypeInv, TypeOK
<1>6. /\ \A b \in Attempt \ {a} : Here(b)' = Here(b)
      /\ \A b, c \in Attempt : Pair(b, c) <=> Pair(b, c)'
      /\ \A b \in Attempt, m \in Name : Unsaved(b, m) => Unsaved(b, m)'
  BY <1>1 DEF Here, Unsaved
<1> HIDE DEF n, v
<1>7. Met'
  BY <1>1 DEF Met, Alive
<1>8. Computed'
  BY <1>1, <1>6 DEF Computed
<1>9. ASSUME NEW m \in Name, NEW b \in ran[m]
      PROVE  table'[m] # Nothing \/ Holds(b, m)'
  <2>1. b \in Attempt /\ (table[m] # Nothing \/ Holds(b, m))
    BY <1>5 DEF Kept
  <2>2. CASE m = n
    BY <1>4, <2>2
  <2>3. CASE m # n
    BY <1>1, <1>4, <1>6, <2>1, <2>3 DEF Holds, n
  <2> QED
    BY <2>2, <2>3
<1>10. Kept'
  BY <1>1, <1>9 DEF Kept
<1>11. ASSUME NEW b \in Attempt, at'[b] = "call",
              NEW c \in ran[Here(b)], b # c
       PROVE  Unsaved(c, Here(b))' \/ Pair(b, c)'
  <2>1. b # a /\ at[b] = "call"
    BY <1>1, <1>11
  <2>2. Here(b) \in Name
    BY <2>1, HereIsAName DEF TypeInv, Position, Alive
  <2>3. c \in Attempt
    BY <1>5, <1>11, <2>2
  <2> QED
    BY <1>6, <1>11, <2>1, <2>2, <2>3 DEF Allowed
<1>12. Allowed'
  BY <1>1, <1>6, <1>11 DEF Allowed
<1>13. ASSUME NEW b \in Attempt, at'[b] \in {"call", "record"}, table'[Here(b)] # Nothing
       PROVE  \E c \in Attempt : Pair(b, c)'
  <2>1. b # a /\ at[b] \in {"call", "record"}
    BY <1>1, <1>13
  <2>2. Here(b) \in Name
    BY <2>1, HereIsAName DEF TypeInv, Position, Alive
  <2>3. CASE table[Here(b)] # Nothing
    BY <1>6, <2>1, <2>3 DEF Overtaken
  <2>4. CASE table[Here(b)] = Nothing
    <3>1. Pair(b, a)
      BY <1>1, <2>1 DEF Met, Alive
    <3> QED
      BY <1>6, <3>1
  <2> QED
    BY <2>3, <2>4
<1>14. Overtaken'
  BY <1>1, <1>6, <1>13 DEF Overtaken
<1>15. ASSUME NEW b \in Attempt, NEW i \in Past(b)'
       PROVE  \/ got'[b][i] = table'[Body[i]] /\ got'[b][i] # Nothing
              \/ b \in ran[Body[i]] /\ \E c \in Attempt : Pair(b, c)
  <2>1. CASE b = a /\ i = pos[a]
    <3>1. got'[b][i] = v /\ Body[i] = n
      BY <1>1, <1>2, <2>1 DEF Here, n, TypeInv, TypeOK
    <3>2. CASE table[n] = Nothing
      BY <1>3, <1>4, <3>1, <3>2
    <3>3. CASE table[n] # Nothing
      BY <1>1, <2>1, <3>1, <3>3 DEF Overtaken, n
    <3> QED
      BY <3>2, <3>3
  <2>2. CASE ~(b = a /\ i = pos[a])
    <3>1. i \in Past(b) /\ got'[b][i] = got[b][i]
      BY <1>1, <1>2, <1>15, <2>2 DEF Past, TypeInv, TypeOK
    <3>2. Body[i] \in Name
      BY <3>1, BodyNotEmpty DEF Past, Name, TypeInv, TypeOK
    <3> QED
      BY <1>4, <3>1, <3>2 DEF ReplaysAgree
  <2> QED
    BY <2>1, <2>2
<1>16. ReplaysAgree'
  BY <1>1, <1>6, <1>15 DEF ReplaysAgree
<1>17. RerunsAreExplained'
  BY <1>1, <1>5, <1>6 DEF RerunsAreExplained
<1> QED
  BY <1>7, <1>8, <1>10, <1>12, <1>14, <1>16, <1>17

LEMMA InvInit == Init => StepsInv
BY DEF Init, StepsInv, Met, Alive, Computed, Kept, Allowed, Overtaken, ReplaysAgree,
       Past, RerunsAreExplained

LEMMA InvStep == TypeInv /\ StepsInv /\ [Next]_vars => StepsInv'
<1> SUFFICES ASSUME TypeInv, StepsInv, [Next]_vars
             PROVE  StepsInv'
  OBVIOUS
<1>1. ASSUME NEW a \in Attempt, Step(a)
      PROVE  StepsInv'
  <2>1. CASE Die(a)
    BY <2>1, DeathKeeps DEF Die, TypeInv, TypeOK
  <2> QED
    BY <1>1, <2>1, ReplayKeeps, CallKeeps, RecordKeeps, FnReturnsKeeps DEF Step
<1>2. ASSUME NEW a \in Attempt, RecordPid(a) \/ Watched(a)
      PROVE  StepsInv'
  BY <1>2, DeathKeeps DEF RecordPid, Watched, job
<1>3. CASE Crash
  BY <1>3, DeathKeeps DEF Crash, job
<1>4. CASE Restart
  BY <1>4, DeathKeeps DEF Restart, Sentinel, Lose, TypeInv, TypeOK
<1>5. CASE UNCHANGED vars
  BY <1>5, DeathKeeps DEF vars
<1> QED
  BY <1>1, <1>2, <1>3, <1>4, <1>5, LaunchKeeps DEF Next

-----------------------------------------------------------------------------

\* The invariant of this module.
LEMMA InvHolds == Spec => [](TypeInv /\ StepsInv)
<1> QED
  BY TypesInit, TypesStep, InvInit, InvStep, PTL DEF Spec

\* "A step returns the same thing whether it ran or replayed": for any body and
\* any number of attempts and crashes, an attempt that was not alive beside
\* another one was given what the table holds.
THEOREM ReplaysAgreeCorrect == Spec => []ReplaysAgree
<1>1. StepsInv => ReplaysAgree
  BY DEF StepsInv
<1> QED
  BY <1>1, InvHolds, PTL

\* The function of a step returns in two attempts of a fire only if one of them
\* was stopped before its result was recorded, or if both were alive at once.
THEOREM RerunsAreExplainedCorrect == Spec => []RerunsAreExplained
<1>1. StepsInv => RerunsAreExplained
  BY DEF StepsInv
<1> QED
  BY <1>1, InvHolds, PTL
=============================================================================
