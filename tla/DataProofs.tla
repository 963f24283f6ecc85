----------------------------- MODULE DataProofs -----------------------------
(***************************************************************************)
(* Proofs about Breaker, Schema and Config, and about Data, where they     *)
(* stand beside Steps.  Each part has an inductive invariant of its own.   *)
(***************************************************************************)
EXTENDS Data, StepsProofs, SequenceTheorems

-----------------------------------------------------------------------------
(* Breaker.                                                                *)

\* What a daemon is about to write keeps the flag it has read, unless it clears
\* the quarantine; and a resume is only asked of a quarantine that was seen.
Clears(d) == B!Quarantined(seen[d]) /\ ~B!Quarantined(doing[d].to)
Intent ==
    /\ \A d \in Daemon : doing[d].then # "idle" =>
          (doing[d].to.resume <=> seen[d].resume /\ ~Clears(d))
    /\ cli = "write" => B!Quarantined(seen["cli"])

BreakerInv == B!TypeOK /\ Intent /\ B!ResumeIsHeard /\ B!ResumeIsFresh

LEMMA ClockTypes ==
    /\ B!Blank \in B!Clock
    /\ \A s \in B!Clock : /\ [s EXCEPT !.skipped = TRUE] \in B!Clock
                          /\ [s EXCEPT !.fails = 0] \in B!Clock
                          /\ [s EXCEPT !.resume = TRUE] \in B!Clock
                          /\ B!FailedOnce(s) \in B!Clock
                          /\ B!Older(s) \in B!Clock
<1>1. B!Blank \in B!Clock
  BY DEF B!Clock, B!Blank
<1>2. ASSUME NEW s \in B!Clock
      PROVE  /\ [s EXCEPT !.skipped = TRUE] \in B!Clock
             /\ [s EXCEPT !.fails = 0] \in B!Clock
             /\ [s EXCEPT !.resume = TRUE] \in B!Clock
             /\ B!Older(s) \in B!Clock
  BY DEF B!Clock, B!Older
<1>3. ASSUME NEW s \in B!Clock
      PROVE  B!FailedOnce(s) \in B!Clock
  <2>1. s.fails + 1 \in Nat
    BY DEF B!Clock
  <2>2. PICK since \in {"fresh", s.since} :
           B!FailedOnce(s) = [s EXCEPT !.fails = s.fails + 1, !.since = since]
    BY DEF B!FailedOnce
  <2> QED BY <2>1, <2>2 DEF B!Clock
<1> QED BY <1>1, <1>2, <1>3

LEMMA BreakerInit == B!Init => BreakerInv
<1> SUFFICES ASSUME B!Init PROVE BreakerInv
  OBVIOUS
<1>1. B!TypeOK
  BY ClockTypes DEF B!Init, B!TypeOK, B!Idle
<1> QED
  BY <1>1 DEF B!Init, BreakerInv, Intent, B!Idle, B!Blank, B!ResumeIsHeard, B!ResumeIsFresh

\* What a daemon decides to write is a row, and in line with Intent.
LEMMA DecideKeeps ==
    ASSUME BreakerInv, NEW d \in Daemon, NEW s \in B!Clock, NEW then \in {"launch", "done"},
           B!Decide(d, s, then),
           s.resume <=> /\ clock.resume
                        /\ ~(B!Quarantined(clock) /\ ~B!Quarantined(s))
    PROVE  /\ Intent' /\ B!ResumeIsHeard' /\ B!ResumeIsFresh'
           /\ doing' \in [Daemon -> [to : B!Clock, then : {"idle", "launch", "done"}]]
           /\ seen' \in [B!Process -> B!Clock]
           /\ UNCHANGED <<clock, cooldown, leader, cli, stomped, asked, pending,
                          resumes, faults>>
<1> USE DEF BreakerInv
<1>0. d \in B!Process /\ d # "cli" /\ "cli" \in B!Process
  BY DataAssumption DEF B!BreakerAssumption, B!Process
<1>1. /\ doing' = [doing EXCEPT ![d] = [to |-> s, then |-> then]]
      /\ seen' = [seen EXCEPT ![d] = clock]
      /\ UNCHANGED <<clock, cooldown, leader, cli, stomped, asked, pending,
                     resumes, faults>>
  BY DEF B!Decide, B!Read
<1>2. /\ doing' \in [Daemon -> [to : B!Clock, then : {"idle", "launch", "done"}]]
      /\ seen' \in [B!Process -> B!Clock]
  BY <1>0, <1>1 DEF B!TypeOK
<1>3. \A e \in Daemon \ {d} : doing'[e] = doing[e] /\ seen'[e] = seen[e]
  BY <1>0, <1>1 DEF B!TypeOK, B!Process
<1>4. doing'[d].to = s /\ seen'[d] = clock /\ seen'["cli"] = seen["cli"]
  BY <1>0, <1>1 DEF B!TypeOK
<1>5. Intent'
  <2>1. ASSUME NEW e \in Daemon \ {d}, doing'[e].then # "idle"
        PROVE  doing'[e].to.resume <=> seen'[e].resume /\ ~Clears(e)'
    BY <1>3, <2>1 DEF Intent, Clears
  <2>2. doing'[d].to.resume <=> seen'[d].resume /\ ~Clears(d)'
    BY <1>4 DEF Clears
  <2>3. cli' = "write" => B!Quarantined(seen'["cli"])
    BY <1>1, <1>4 DEF Intent
  <2> QED BY <2>1, <2>2, <2>3 DEF Intent
<1> QED
  BY <1>1, <1>2, <1>5 DEF B!ResumeIsHeard, B!ResumeIsFresh

Resumption == Intent /\ B!ResumeIsHeard /\ B!ResumeIsFresh

\* The decisions of a daemon, one by one.
LEMMA Decisions ==
    ASSUME BreakerInv, NEW d \in Daemon,
           B!Resumed(d) \/ B!Skip(d) \/ B!Fails(d) \/ B!Succeeds(d)
    PROVE  BreakerInv'
<1> USE DEF BreakerInv
<1>1. clock \in B!Clock
  BY DEF B!TypeOK
<1>2. /\ Resumption'
      /\ doing' \in [Daemon -> [to : B!Clock, then : {"idle", "launch", "done"}]]
      /\ seen' \in [B!Process -> B!Clock]
      /\ UNCHANGED <<clock, cooldown, leader, cli, stomped, asked, pending,
                     resumes, faults>>
  <2>1. CASE B!Resumed(d)
    <3>1. PICK then \in {"launch", "done"} : B!Decide(d, B!Blank, then)
      BY <2>1 DEF B!Resumed, B!ClearQuarantine
    <3>2. B!Quarantined(clock) /\ ~B!Quarantined(B!Blank) /\ ~B!Blank.resume
      BY <2>1 DEF B!Resumed, B!Quarantined, B!Blank
    <3> QED BY <3>1, <3>2, ClockTypes, DecideKeeps DEF Resumption
  <2>2. CASE B!Skip(d)
    <3>1. B!Decide(d, [clock EXCEPT !.skipped = TRUE], "done")
      BY <2>2 DEF B!Skip
    <3>2. /\ [clock EXCEPT !.skipped = TRUE].resume = clock.resume
          /\ B!Quarantined([clock EXCEPT !.skipped = TRUE]) <=> B!Quarantined(clock)
      BY <1>1 DEF B!Clock, B!Quarantined
    <3> QED BY <1>1, <3>1, <3>2, ClockTypes, DecideKeeps DEF Resumption
  <2>3. CASE B!Fails(d)
    <3>1. B!Decide(d, B!FailedOnce(clock), "done")
      BY <2>3 DEF B!Fails
    <3>2. /\ B!FailedOnce(clock).resume = clock.resume
          /\ B!Quarantined(clock) => B!Quarantined(B!FailedOnce(clock))
      BY <1>1 DEF B!Clock, B!Quarantined, B!FailedOnce
    <3> QED BY <1>1, <3>1, <3>2, ClockTypes, DecideKeeps DEF Resumption
  <2>4. CASE B!Succeeds(d) /\ B!Quarantined(clock)
    <3>1. B!Decide(d, B!Blank, "done")
      BY <2>4 DEF B!Succeeds, B!ClearQuarantine
    <3>2. ~B!Quarantined(B!Blank) /\ ~B!Blank.resume
      BY DEF B!Quarantined, B!Blank
    <3> QED BY <2>4, <3>1, <3>2, ClockTypes, DecideKeeps DEF Resumption
  <2>5. CASE B!Succeeds(d) /\ ~B!Quarantined(clock)
    <3>1. B!Decide(d, [clock EXCEPT !.fails = 0], "done")
      BY <2>5 DEF B!Succeeds
    <3>2. [clock EXCEPT !.fails = 0].resume = clock.resume
      BY <1>1 DEF B!Clock
    <3> QED BY <1>1, <2>5, <3>1, <3>2, ClockTypes, DecideKeeps DEF Resumption
  <2> QED BY <2>1, <2>2, <2>3, <2>4, <2>5
<1>3. running' \in [Daemon -> Nat] /\ launched' \in Nat
  <2>1. CASE B!Resumed(d) \/ B!Skip(d)
    BY <2>1 DEF B!TypeOK, B!Resumed, B!Skip
  <2>2. CASE B!End(d)
    BY <2>2 DEF B!TypeOK, B!End
  <2> QED BY <2>1, <2>2 DEF B!Fails, B!Succeeds
<1> QED
  BY <1>2, <1>3 DEF B!TypeOK, Resumption

\* All of the row is written back; what happens to the flag is up to whether the
\* row is still the one that was read.
LEMMA SaveKeeps ==
    ASSUME BreakerInv, NEW d \in Daemon, B!Save(d)
    PROVE  BreakerInv'
<1> USE DEF BreakerInv
<1>0. d \in B!Process /\ d # "cli" /\ "cli" \in B!Process
  BY DataAssumption DEF B!BreakerAssumption, B!Process
<1> DEFINE s == doing[d].to
<1>1. s \in B!Clock /\ seen[d] \in B!Clock /\ doing[d].then # "idle"
  BY <1>0 DEF B!TypeOK, B!Save
<1>2. s.resume <=> seen[d].resume /\ ~Clears(d)
  BY <1>1 DEF Intent
<1>3. /\ clock' = s
      /\ stomped' = (stomped \/ clock # seen[d])
      /\ asked' = (asked /\ ~(~B!Quarantined(seen[d]) /\ B!Quarantined(s)))
      /\ pending' = (pending /\ ~Clears(d))
      /\ doing' = [doing EXCEPT ![d] = B!Idle]
      /\ seen' = [seen EXCEPT ![d] = B!Blank]
      /\ UNCHANGED <<cooldown, leader, cli, launched, resumes, faults>>
  BY DEF B!Save, B!Forget, Clears, B!bounds
<1>4. B!TypeOK'
  <2>1. running' \in [Daemon -> Nat]
    BY DEF B!TypeOK, B!Save
  <2>2. doing' \in [Daemon -> [to : B!Clock, then : {"idle", "launch", "done"}]]
    BY <1>3, ClockTypes DEF B!TypeOK, B!Idle
  <2>3. seen' \in [B!Process -> B!Clock] /\ clock' \in B!Clock
    BY <1>1, <1>3, ClockTypes DEF B!TypeOK
  <2>4. stomped' \in BOOLEAN /\ asked' \in BOOLEAN /\ pending' \in BOOLEAN
    BY <1>3
  <2> QED BY <1>3, <2>1, <2>2, <2>3, <2>4 DEF B!TypeOK
<1>5. Intent'
  <2>1. ASSUME NEW e \in Daemon \ {d}
        PROVE  doing'[e] = doing[e] /\ seen'[e] = seen[e]
    BY <1>0, <1>3 DEF B!TypeOK, B!Process
  <2>2. doing'[d].then = "idle" /\ seen'["cli"] = seen["cli"]
    BY <1>0, <1>3 DEF B!TypeOK, B!Idle
  <2> QED BY <1>3, <2>1, <2>2 DEF Intent, Clears
<1>6. ASSUME ~stomped'
      PROVE  /\ clock'.resume <=> pending'
             /\ clock'.resume => B!Quarantined(clock') /\ asked'
  <2>1. ~stomped /\ clock = seen[d]
    BY <1>3, <1>6
  <2>2. (clock.resume <=> pending) /\ (clock.resume => B!Quarantined(clock) /\ asked)
    BY <2>1 DEF B!ResumeIsHeard, B!ResumeIsFresh
  <2> QED BY <1>2, <1>3, <2>1, <2>2 DEF Clears
<1>7. clock' \in B!Clock /\ pending' \in BOOLEAN
  BY <1>4 DEF B!TypeOK
<1>8. clock'.resume \in BOOLEAN
  BY <1>7 DEF B!Clock
<1> QED
  BY <1>4, <1>5, <1>6, <1>7, <1>8 DEF B!ResumeIsHeard, B!ResumeIsFresh

\* `punctual resume` in its two steps, and the cooldown.
LEMMA ResumeKeeps ==
    ASSUME BreakerInv, B!ResumeReads \/ B!ResumeWrites
    PROVE  BreakerInv'
<1> USE DEF BreakerInv
<1>0. "cli" \in B!Process /\ \A d \in Daemon : d \in B!Process /\ d # "cli"
  BY DataAssumption DEF B!BreakerAssumption, B!Process
<1>1. CASE B!ResumeReads
  <2>1. /\ UNCHANGED <<clock, cooldown, leader, running, doing, stomped, asked,
                       pending, launched, faults>>
        /\ resumes' = resumes + 1
        /\ \/ cli' = "write" /\ seen' = [seen EXCEPT !["cli"] = clock]
              /\ B!Quarantined(clock)
           \/ cli' = cli /\ seen' = seen
    BY <1>1 DEF B!ResumeReads, B!Read
  <2>2. B!TypeOK'
    BY <1>0, <2>1 DEF B!TypeOK
  <2>3. \A d \in Daemon : seen'[d] = seen[d]
    BY <1>0, <2>1 DEF B!TypeOK
  <2>4. cli' = "write" => B!Quarantined(seen'["cli"])
    BY <1>0, <2>1 DEF B!TypeOK, Intent
  <2> QED
    BY <2>1, <2>2, <2>3, <2>4 DEF Intent, Clears, B!ResumeIsHeard, B!ResumeIsFresh
<1>2. CASE B!ResumeWrites
  <2>1. /\ UNCHANGED <<cooldown, leader, running, doing, launched, resumes, faults>>
        /\ cli = "write" /\ cli' = "idle"
        /\ clock' = [clock EXCEPT !.resume = TRUE]
        /\ stomped' = (stomped \/ B!Quarantined(clock) # B!Quarantined(seen["cli"]))
        /\ asked' = TRUE /\ pending' = TRUE
        /\ seen' = [seen EXCEPT !["cli"] = B!Blank]
    BY <1>2 DEF B!ResumeWrites, B!Forget, B!bounds
  <2>2. B!TypeOK'
    <3>1. clock' \in B!Clock /\ seen' \in [B!Process -> B!Clock]
      BY <2>1, ClockTypes DEF B!TypeOK
    <3> QED BY <2>1, <3>1 DEF B!TypeOK
  <2>3. \A d \in Daemon : seen'[d] = seen[d]
    BY <1>0, <2>1 DEF B!TypeOK
  <2>4. Intent'
    BY <2>1, <2>3 DEF Intent, Clears
  <2>5. clock'.resume = TRUE /\ (B!Quarantined(clock') <=> B!Quarantined(clock))
    BY <2>1 DEF B!TypeOK, B!Clock, B!Quarantined
  <2>6. B!Quarantined(seen["cli"])
    BY <2>1 DEF Intent
  <2>7. ~stomped' => B!Quarantined(clock)
    BY <2>1, <2>6
  <2> QED
    BY <2>1, <2>2, <2>4, <2>5, <2>7 DEF B!ResumeIsHeard, B!ResumeIsFresh
<1> QED BY <1>1, <1>2

LEMMA CoolKeeps ==
    ASSUME BreakerInv, B!Cool
    PROVE  BreakerInv'
<1> USE DEF BreakerInv
<1>0. "cli" \in B!Process /\ \A d \in Daemon : d \in B!Process
  BY DEF B!Process
<1>1. /\ clock' = B!Older(clock)
      /\ seen' = [p \in B!Process |-> B!Older(seen[p])]
      /\ doing' = [d \in Daemon |-> [doing[d] EXCEPT !.to = B!Older(doing[d].to)]]
      /\ UNCHANGED <<cooldown, leader, running, cli, stomped, asked, pending,
                     launched, resumes, faults>>
  BY DEF B!Cool, B!bounds
<1>2. \A s \in B!Clock : /\ B!Older(s).resume <=> s.resume
                         /\ B!Older(s).since = "no" <=> s.since = "no"
  BY DEF B!Clock, B!Older
<1>3. ASSUME NEW d \in Daemon
      PROVE  /\ doing'[d].then = doing[d].then /\ doing'[d].to = B!Older(doing[d].to)
             /\ doing'[d] \in [to : B!Clock, then : {"idle", "launch", "done"}]
             /\ doing[d].to \in B!Clock /\ seen[d] \in B!Clock
             /\ seen'[d] = B!Older(seen[d])
  BY <1>0, <1>1, ClockTypes DEF B!TypeOK
<1>4. B!TypeOK'
  <2>1. doing' \in [Daemon -> [to : B!Clock, then : {"idle", "launch", "done"}]]
    BY <1>1, <1>3
  <2>2. seen' \in [B!Process -> B!Clock] /\ clock' \in B!Clock
    BY <1>1, ClockTypes DEF B!TypeOK
  <2> QED BY <1>1, <2>1, <2>2 DEF B!TypeOK
<1>5. Intent'
  <2>1. seen["cli"] \in B!Clock /\ seen'["cli"] = B!Older(seen["cli"])
    BY <1>0, <1>1 DEF B!TypeOK
  <2>2. cli' = "write" => B!Quarantined(seen'["cli"])
    BY <1>1, <1>2, <2>1 DEF Intent, B!Quarantined
  <2>3. ASSUME NEW d \in Daemon, doing'[d].then # "idle"
        PROVE  doing'[d].to.resume <=> seen'[d].resume /\ ~Clears(d)'
    <3>1. /\ doing'[d].to.resume <=> doing[d].to.resume
          /\ doing'[d].to.since = "no" <=> doing[d].to.since = "no"
      <4>1. doing[d].to \in B!Clock /\ doing'[d].to = B!Older(doing[d].to)
        BY <1>3
      <4> QED BY <1>2, <4>1
    <3>3. /\ seen'[d].resume <=> seen[d].resume
          /\ seen'[d].since = "no" <=> seen[d].since = "no"
      <4>1. seen[d] \in B!Clock /\ seen'[d] = B!Older(seen[d])
        BY <1>3
      <4> QED BY <1>2, <4>1
    <3>2. doing[d].to.resume <=> seen[d].resume /\ ~Clears(d)
      BY <1>3, <2>3 DEF Intent
    <3> QED BY <3>1, <3>2, <3>3 DEF Clears, B!Quarantined
  <2> QED BY <2>2, <2>3 DEF Intent
<1>6. /\ clock'.resume <=> clock.resume
      /\ clock'.since = "no" <=> clock.since = "no"
  <2>1. clock \in B!Clock
    BY DEF B!TypeOK
  <2> QED BY <1>1, <1>2, <2>1
<1>7. clock'.resume \in BOOLEAN /\ clock.resume \in BOOLEAN
  <2>1. clock \in B!Clock /\ clock' \in B!Clock
    BY <1>4 DEF B!TypeOK
  <2> QED BY <2>1 DEF B!Clock
<1>8. (B!ResumeIsHeard /\ B!ResumeIsFresh)'
  BY <1>1, <1>6, <1>7 DEF B!ResumeIsHeard, B!ResumeIsFresh, B!Quarantined
<1> QED
  BY <1>4, <1>5, <1>8

LEMMA BreakerStep == BreakerInv /\ [B!Next]_B!vars => BreakerInv'
<1> SUFFICES ASSUME BreakerInv, [B!Next]_B!vars
             PROVE  BreakerInv'
  OBVIOUS
<1>0. /\ clock \in B!Clock /\ cooldown \in BOOLEAN /\ leader \in Daemon
      /\ running \in [Daemon -> Nat]
      /\ doing \in [Daemon -> [to : B!Clock, then : {"idle", "launch", "done"}]]
      /\ cli \in {"idle", "write"} /\ seen \in [B!Process -> B!Clock]
      /\ stomped \in BOOLEAN /\ asked \in BOOLEAN /\ pending \in BOOLEAN
      /\ launched \in Nat /\ resumes \in Nat /\ faults \in Nat
  BY DEF BreakerInv, B!TypeOK
<1>1. ASSUME UNCHANGED <<clock, doing, cli, seen, stomped, asked, pending>>
      PROVE  Resumption'
  BY <1>1 DEF BreakerInv, Resumption, Intent, Clears, B!ResumeIsHeard, B!ResumeIsFresh
<1>2. ASSUME NEW d \in Daemon,
             B!Healthy(d) \/ B!Probe(d) \/ B!Trigger(d) \/ B!StaysWell(d) \/ B!Handover(d)
      PROVE  BreakerInv'
  <2>1. UNCHANGED <<clock, doing, cli, seen, stomped, asked, pending>>
    BY <1>2 DEF B!Healthy, B!Probe, B!Trigger, B!StaysWell, B!Handover, B!Launch, B!history
  <2>2. ASSUME B!Launch(d) PROVE B!TypeOK'
    <3>1. running' \in [Daemon -> Nat] /\ launched' \in Nat
      BY <1>0, <2>2 DEF B!Launch
    <3> QED BY <1>0, <2>1, <2>2, <3>1 DEF B!TypeOK, B!Launch
  <2>3. ASSUME B!StaysWell(d) PROVE B!TypeOK'
    <3>1. running' \in [Daemon -> Nat]
      BY <1>0, <2>3 DEF B!StaysWell, B!End
    <3> QED BY <1>0, <2>1, <2>3, <3>1 DEF B!TypeOK, B!StaysWell, B!End
  <2>4. ASSUME B!Handover(d) PROVE B!TypeOK'
    <3>1. faults' \in Nat
      BY <1>0, <2>4 DEF B!Handover
    <3> QED BY <1>0, <2>1, <2>4, <3>1 DEF B!TypeOK, B!Handover
  <2>5. B!TypeOK'
    BY <1>2, <2>2, <2>3, <2>4 DEF B!Healthy, B!Probe, B!Trigger
  <2> QED BY <1>1, <2>1, <2>5 DEF BreakerInv, Resumption
<1>3. ASSUME NEW d \in Daemon, B!Crash(d)
      PROVE  BreakerInv'
  <2>0. d \in B!Process /\ d # "cli" /\ "cli" \in B!Process
    BY DataAssumption DEF B!BreakerAssumption, B!Process
  <2>1. /\ doing' = [doing EXCEPT ![d] = B!Idle] /\ seen' = [seen EXCEPT ![d] = B!Blank]
        /\ UNCHANGED <<clock, cooldown, leader, running, cli, stomped, asked,
                       pending, launched, resumes>>
        /\ faults' = faults + 1
    BY <1>3 DEF B!Crash, B!Forget
  <2>2. B!TypeOK'
    <3>1. doing' \in [Daemon -> [to : B!Clock, then : {"idle", "launch", "done"}]]
      BY <1>0, <2>1, ClockTypes DEF B!Idle
    <3>2. seen' \in [B!Process -> B!Clock]
      BY <1>0, <2>0, <2>1, ClockTypes
    <3>3. faults' \in Nat
      BY <1>0, <2>1
    <3> QED BY <1>0, <2>1, <3>1, <3>2, <3>3 DEF B!TypeOK
  <2>3. ASSUME NEW e \in Daemon \ {d}
        PROVE  doing'[e] = doing[e] /\ seen'[e] = seen[e]
    BY <1>0, <2>0, <2>1 DEF B!Process
  <2>4. doing'[d].then = "idle" /\ seen'["cli"] = seen["cli"]
    BY <1>0, <2>0, <2>1 DEF B!Idle
  <2>5. Intent'
    BY <2>1, <2>3, <2>4 DEF BreakerInv, Intent, Clears
  <2> QED BY <2>1, <2>2, <2>5 DEF BreakerInv, B!ResumeIsHeard, B!ResumeIsFresh
<1>4. CASE UNCHANGED B!vars
  <2>1. B!TypeOK'
    BY <1>0, <1>4 DEF B!vars, B!TypeOK
  <2> QED BY <1>1, <1>4, <2>1 DEF B!vars, BreakerInv, Resumption
<1> QED
  BY <1>2, <1>3, <1>4, Decisions, SaveKeeps, ResumeKeeps, CoolKeeps DEF B!Next, B!Fire

LEMMA BreakerHolds == B!Spec => []BreakerInv
BY BreakerInit, BreakerStep, PTL DEF B!Spec

\* `punctual resume` is heard, by any number of daemons that read and write the
\* row: its flag stays until the quarantine is cleared.
THEOREM ResumeIsHeardCorrect == B!Spec => []ResumeIsHeard
<1>1. BreakerInv => ResumeIsHeard
  BY DEF BreakerInv, ResumeIsHeard
<1> QED BY <1>1, BreakerHolds, PTL

\* A flag in the row was asked for in the quarantine that is open.
THEOREM ResumeIsFreshCorrect == B!Spec => []ResumeIsFresh
<1>1. BreakerInv => ResumeIsFresh
  BY DEF BreakerInv, ResumeIsFresh
<1> QED BY <1>1, BreakerHolds, PTL

-----------------------------------------------------------------------------
(* Schema.                                                                 *)

\* The tables that exist have all of their added columns.
Upgraded == \A c \in Added : c[1] \in tables => c \in columns

\* What an opening knows: of the tables it has found it has looked at all but
\* todo, and a column of those that it does not know of was added by a rival.
\* The tables it has not found were created since, complete.
Opening(p) ==
    /\ have[p] \subseteq columns
    /\ opening[p] \in {"columns", "alter"} =>
          /\ found[p] \subseteq tables
          /\ \A c \in Added : c[1] \in tables \ found[p] => c \in columns
          /\ \A c \in columns : c[1] \in found[p] \ todo[p] => c \in have[p] \/ p \in rival
    /\ opening[p] = "columns" =>
          \A c \in Added : c[1] \in found[p] \ todo[p] => c \in have[p]
    /\ opening[p] \in {"insert", "script", "open"} => Upgraded
    /\ opening[p] = "open" => tables = SchemaTable
    /\ opening[p] = "failed" => p \in rival

SchemaInv == /\ D!TypeOK
             /\ version = Version => Upgraded
             /\ \A p \in Opener : Opening(p)

LEMMA SchemaInit == D!Init => SchemaInv
<1> SUFFICES ASSUME D!Init PROVE SchemaInv
  OBVIOUS
<1>1. version \in 0 .. Version /\ version # Version
  BY DataAssumption DEF D!SchemaAssumption, D!Init
<1>2. D!TypeOK
  BY <1>1 DEF D!Init, D!TypeOK
<1>3. \A p \in Opener : Opening(p)
  BY DEF D!Init, Opening
<1> QED BY <1>1, <1>2, <1>3 DEF SchemaInv

\* Tables and columns only come; a table comes complete, and a column comes to
\* a table that was there only by an opening that is the rival of the others.
Grows(p) ==
    /\ tables \subseteq tables' /\ columns \subseteq columns' /\ rival \subseteq rival'
    /\ tables' \subseteq SchemaTable
    /\ \A c \in Added : c[1] \in tables' \ tables => c \in columns'
    /\ \A c \in columns' \ columns :
          c[1] \in tables => \A q \in Opener \ {p} : opening[q] \in D!Busy => q \in rival'
Bystander(q) == /\ opening'[q] = opening[q] /\ found'[q] = found[q]
                /\ have'[q] = have[q] /\ todo'[q] = todo[q]

LEMMA BystandersKeep ==
    ASSUME SchemaInv, NEW p \in Opener, NEW q \in Opener \ {p}, Grows(p), Bystander(q)
    PROVE  Opening(q)'
<1>1. Opening(q) /\ tables \subseteq SchemaTable
  BY DEF SchemaInv, D!TypeOK
<1>2. (have[q] \subseteq columns)'
  BY <1>1 DEF Opening, Grows, Bystander
<1>3. Upgraded => Upgraded'
  BY DEF Upgraded, Grows
<1>4. ASSUME opening[q] \in {"columns", "alter"}
      PROVE  /\ found[q] \subseteq tables'
             /\ \A c \in Added : c[1] \in tables' \ found[q] => c \in columns'
             /\ \A c \in columns' : c[1] \in found[q] \ todo[q] =>
                                       c \in have[q] \/ q \in rival'
  <2>1. /\ found[q] \subseteq tables
        /\ \A c \in Added : c[1] \in tables \ found[q] => c \in columns
        /\ \A c \in columns : c[1] \in found[q] \ todo[q] => c \in have[q] \/ q \in rival
    BY <1>1, <1>4 DEF Opening
  <2>2. ASSUME NEW c \in columns' \ columns, c[1] \in found[q]
        PROVE  q \in rival'
    BY <1>4, <2>1, <2>2 DEF Grows, D!Busy
  <2> QED BY <2>1, <2>2 DEF Grows
<1>5. opening[q] = "open" => tables' = SchemaTable
  BY <1>1 DEF Opening, Grows
<1> QED BY <1>1, <1>2, <1>3, <1>4, <1>5 DEF Opening, Grows, Bystander

\* A step of one opening keeps SchemaInv if it keeps the types, and what the
\* opening itself knows.
LEMMA OpeningKeeps ==
    ASSUME SchemaInv, NEW p \in Opener, Grows(p), D!TypeOK',
           \A q \in Opener \ {p} : Bystander(q),
           Opening(p)', version' = Version => version = Version \/ Upgraded
    PROVE  SchemaInv'
<1>1. Upgraded => Upgraded'
  BY DEF Upgraded, Grows
<1> QED BY <1>1, BystandersKeep DEF SchemaInv

LEMMA SchemaStep == SchemaInv /\ [D!Next]_D!vars => SchemaInv'
<1> SUFFICES ASSUME SchemaInv, [D!Next]_D!vars PROVE SchemaInv'
  OBVIOUS
<1>0. /\ postgres \in BOOLEAN /\ tables \in SUBSET SchemaTable /\ columns \in SUBSET Added
      /\ version \in 0 .. Version
      /\ opening \in [Opener -> {"none", "open", "failed", "dead"} \cup D!Busy]
      /\ found \in [Opener -> SUBSET SchemaTable] /\ have \in [Opener -> SUBSET Added]
      /\ todo \in [Opener -> SUBSET D!Old] /\ rival \in SUBSET Opener
      /\ Version \in Nat \ {0} /\ D!Old \subseteq SchemaTable
  BY DataAssumption DEF SchemaInv, D!TypeOK, D!SchemaAssumption
<1>1. \A c \in Added : c[1] \in D!Old
  BY DEF D!Old
<1>2. \A p \in Opener : Opening(p)
  BY DEF SchemaInv
<1>3. ASSUME NEW p \in Opener, NEW stage \in {"none", "open", "failed", "dead"} \cup D!Busy,
             D!Goes(p, stage), UNCHANGED <<tables, columns, rival, found, have, todo>>
      PROVE  /\ Grows(p) /\ \A q \in Opener \ {p} : Bystander(q)
             /\ opening'[p] = stage
             /\ opening' \in [Opener -> {"none", "open", "failed", "dead"} \cup D!Busy]
  BY <1>0, <1>3 DEF D!Goes, Grows, Bystander
\* A step that only goes on.
<1>4. ASSUME NEW p \in Opener,
             NEW stage \in {"version", "tables", "script", "columns", "open", "dead"},
             D!Goes(p, stage),
             UNCHANGED <<postgres, tables, columns, version, found, have, todo, rival>>,
             stage \in {"columns"} => /\ opening[p] \in {"columns", "alter"}
                                      /\ \A c \in Added : c[1] \in found[p] \ todo[p]
                                                             => c \in have[p],
             stage \in {"script", "open"} => Upgraded,
             stage = "open" => tables = SchemaTable
      PROVE  SchemaInv'
  <2>1. stage \in {"none", "open", "failed", "dead"} \cup D!Busy
    BY DEF D!Busy
  <2>2. /\ Grows(p) /\ \A q \in Opener \ {p} : Bystander(q)
        /\ opening'[p] = stage
        /\ opening' \in [Opener -> {"none", "open", "failed", "dead"} \cup D!Busy]
    BY <1>3, <1>4, <2>1
  <2>3. D!TypeOK'
    BY <1>0, <1>4, <2>2 DEF D!TypeOK
  <2>4. Opening(p)'
    BY <1>2, <1>4, <2>2 DEF Opening, Upgraded
  <2> QED BY <1>4, <2>2, <2>3, <2>4, OpeningKeeps
<1>5. ASSUME NEW p \in Opener, D!Open(p) \/ D!TableDone(p) \/ D!ScriptDone(p) \/ D!Die(p)
      PROVE  SchemaInv'
  <2>1. CASE D!Open(p)
    BY <1>4, <2>1 DEF D!Open, D!local
  <2>2. CASE D!TableDone(p)
    <3>1. opening[p] = "alter" /\ \A c \in Added : c[1] \in found[p] \ todo[p] => c \in have[p]
      BY <2>2 DEF D!TableDone, D!Missing
    <3> QED BY <1>4, <2>2, <3>1 DEF D!TableDone, D!local
  <2>3. CASE D!ScriptDone(p)
    <3>1. Upgraded /\ tables = SchemaTable
      BY <1>2, <2>3 DEF D!ScriptDone, Opening
    <3> QED BY <1>4, <2>3, <3>1 DEF D!ScriptDone, D!local
  <2>4. CASE D!Die(p)
    BY <1>4, <2>4 DEF D!Die, D!local
  <2> QED BY <1>5, <2>1, <2>2, <2>3, <2>4
<1>6. ASSUME NEW p \in Opener, D!ReadVersion(p)
      PROVE  SchemaInv'
  <2>1. CASE version = Version
    <3>1. Upgraded /\ D!Goes(p, "script")
      BY <1>0, <1>6, <2>1 DEF SchemaInv, D!ReadVersion, D!Outdated
    <3> QED BY <1>4, <1>6, <3>1 DEF D!ReadVersion, D!local
  <2>2. CASE version # Version
    <3>1. D!Goes(p, "tables")
      BY <1>0, <1>6, <2>2 DEF D!ReadVersion, D!Outdated
    <3> QED BY <1>4, <1>6, <3>1 DEF D!ReadVersion, D!local
  <2> QED BY <2>1, <2>2
<1>7. ASSUME NEW p \in Opener, D!ReadTables(p)
      PROVE  SchemaInv'
  <2>1. /\ D!Goes(p, "columns")
        /\ found' = [found EXCEPT ![p] = tables]
        /\ todo' = [todo EXCEPT ![p] = D!Old \cap tables]
        /\ UNCHANGED <<postgres, tables, columns, version, have, rival>>
    BY <1>7 DEF D!ReadTables
  <2>2. Grows(p) /\ \A q \in Opener \ {p} : Bystander(q)
    BY <1>0, <2>1 DEF D!Goes, Grows, Bystander
  <2>3. opening'[p] = "columns" /\ found'[p] = tables /\ todo'[p] = D!Old \cap tables
    BY <1>0, <2>1 DEF D!Goes
  <2>4. D!TypeOK'
    <3>1. opening' \in [Opener -> {"none", "open", "failed", "dead"} \cup D!Busy]
      BY <1>0, <2>1 DEF D!Goes, D!Busy
    <3>2. found' \in [Opener -> SUBSET SchemaTable] /\ todo' \in [Opener -> SUBSET D!Old]
      BY <1>0, <2>1
    <3> QED BY <1>0, <2>1, <3>1, <3>2 DEF D!TypeOK
  <2>5. Opening(p)'
    BY <1>0, <1>1, <1>2, <2>1, <2>3 DEF Opening
  <2> QED BY <2>1, <2>2, <2>4, <2>5, OpeningKeeps
<1>8. ASSUME NEW p \in Opener, NEW t \in SchemaTable, D!ReadColumns(p, t)
      PROVE  SchemaInv'
  <2>1. /\ opening[p] = "columns" /\ t \in todo[p] /\ D!Goes(p, "alter")
        /\ todo' = [todo EXCEPT ![p] = todo[p] \ {t}]
        /\ have' = [have EXCEPT ![p] = have[p] \cup (columns \cap D!Of(t))]
        /\ UNCHANGED <<postgres, tables, columns, version, found, rival>>
    BY <1>8 DEF D!ReadColumns
  <2>2. Grows(p) /\ \A q \in Opener \ {p} : Bystander(q)
    BY <1>0, <2>1 DEF D!Goes, Grows, Bystander
  <2>3. /\ opening'[p] = "alter" /\ todo'[p] = todo[p] \ {t}
        /\ have'[p] = have[p] \cup (columns \cap D!Of(t))
    BY <1>0, <2>1 DEF D!Goes
  <2>4. D!TypeOK'
    <3>1. opening' \in [Opener -> {"none", "open", "failed", "dead"} \cup D!Busy]
      BY <1>0, <2>1 DEF D!Goes, D!Busy
    <3>2. have' \in [Opener -> SUBSET Added] /\ todo' \in [Opener -> SUBSET D!Old]
      BY <1>0, <2>1
    <3> QED BY <1>0, <2>1, <3>1, <3>2 DEF D!TypeOK
  <2>5. ASSUME NEW c \in columns, c[1] \in found[p] \ (todo[p] \ {t})
        PROVE  c \in have[p] \cup (columns \cap D!Of(t))
    <3>1. c \in Added
      BY <1>0
    <3>2. CASE c[1] = t
      BY <3>1, <3>2 DEF D!Of
    <3>3. CASE c[1] \in found[p] \ todo[p]
      BY <1>2, <2>1, <3>1, <3>3 DEF Opening
    <3> QED BY <2>5, <3>2, <3>3
  <2>6. Opening(p)'
    BY <1>0, <1>2, <2>1, <2>3, <2>5 DEF Opening
  <2> QED BY <2>1, <2>2, <2>4, <2>6, OpeningKeeps
<1>9. ASSUME NEW p \in Opener, NEW c \in Added, D!Alter(p, c)
      PROVE  SchemaInv'
  <2>1. opening[p] = "alter" /\ c[1] \in found[p] \ todo[p] /\ c \notin have[p]
    BY <1>9 DEF D!Alter, D!Missing
  <2>2. CASE c \in columns
    <3>1. /\ D!Goes(p, "failed")
          /\ UNCHANGED <<postgres, tables, columns, version, found, have, todo, rival>>
      BY <1>9, <2>2 DEF D!Alter
    <3>2. p \in rival
      BY <1>2, <2>1, <2>2 DEF Opening
    <3>3. /\ Grows(p) /\ \A q \in Opener \ {p} : Bystander(q)
          /\ opening'[p] = "failed"
          /\ opening' \in [Opener -> {"none", "open", "failed", "dead"} \cup D!Busy]
      BY <1>3, <3>1
    <3>4. D!TypeOK'
      BY <1>0, <3>1, <3>3 DEF D!TypeOK
    <3>5. Opening(p)'
      BY <1>2, <3>1, <3>2, <3>3 DEF Opening
    <3> QED BY <3>1, <3>3, <3>4, <3>5, OpeningKeeps
  <2>3. CASE c \notin columns
    <3>1. /\ columns' = columns \cup {c}
          /\ have' = [have EXCEPT ![p] = have[p] \cup {c}]
          /\ rival' = rival \cup D!Others(p)
          /\ UNCHANGED <<postgres, tables, version, opening, found, todo>>
      BY <1>9, <2>3 DEF D!Alter
    <3>2. \A q \in Opener \ {p} : Bystander(q)
      BY <1>0, <3>1 DEF Bystander
    <3>3. Grows(p)
      BY <1>0, <3>1 DEF Grows, D!Others
    <3>4. D!TypeOK'
      <4>1. have' \in [Opener -> SUBSET Added] /\ rival' \in SUBSET Opener
        BY <1>0, <3>1 DEF D!Others
      <4> QED BY <1>0, <3>1, <4>1 DEF D!TypeOK
    <3>5. have'[p] = have[p] \cup {c}
      BY <1>0, <3>1
    <3>6. Opening(p)'
      BY <1>2, <2>1, <3>1, <3>5 DEF Opening
    <3> QED BY <3>1, <3>2, <3>3, <3>4, <3>6, OpeningKeeps
  <2> QED BY <2>2, <2>3
<1>10. ASSUME NEW p \in Opener, D!SetVersion(p)
       PROVE  SchemaInv'
  <2>1. opening[p] = "columns" /\ todo[p] = {}
    BY <1>10 DEF D!SetVersion
  <2>2. Upgraded
    <3>1. ASSUME NEW c \in Added, c[1] \in tables
          PROVE  c \in columns
      BY <1>2, <2>1, <3>1 DEF Opening
    <3> QED BY <3>1 DEF Upgraded
  <2>3. PICK stage \in {"insert", "script"} :
           /\ D!Goes(p, stage) /\ version' \in 0 .. Version
           /\ UNCHANGED <<postgres, tables, columns, found, have, todo, rival>>
    BY <1>0, <1>10 DEF D!SetVersion, D!local
  <2>4. /\ Grows(p) /\ \A q \in Opener \ {p} : Bystander(q)
        /\ opening'[p] = stage
        /\ opening' \in [Opener -> {"none", "open", "failed", "dead"} \cup D!Busy]
    BY <1>3, <2>3 DEF D!Busy
  <2>5. D!TypeOK'
    BY <1>0, <2>3, <2>4 DEF D!TypeOK
  <2>6. Opening(p)'
    BY <1>2, <2>2, <2>3, <2>4 DEF Opening, Upgraded
  <2> QED BY <2>2, <2>4, <2>5, <2>6, OpeningKeeps
<1>11. ASSUME NEW p \in Opener, D!InsertVersion(p)
       PROVE  SchemaInv'
  <2>1. /\ Upgraded /\ D!Goes(p, "script") /\ version' = Version
        /\ UNCHANGED <<postgres, tables, columns, found, have, todo, rival>>
    BY <1>2, <1>11 DEF D!InsertVersion, D!local, Opening
  <2>2. /\ Grows(p) /\ \A q \in Opener \ {p} : Bystander(q)
        /\ opening'[p] = "script"
        /\ opening' \in [Opener -> {"none", "open", "failed", "dead"} \cup D!Busy]
    BY <1>3, <2>1 DEF D!Busy
  <2>3. D!TypeOK'
    BY <1>0, <2>1, <2>2 DEF D!TypeOK
  <2>4. Opening(p)'
    BY <1>2, <2>1, <2>2 DEF Opening, Upgraded
  <2> QED BY <2>1, <2>2, <2>3, <2>4, OpeningKeeps
<1>12. ASSUME NEW p \in Opener, NEW t \in SchemaTable, D!CreateTable(p, t)
       PROVE  SchemaInv'
  <2>1. /\ opening[p] = "script" /\ t \notin tables
        /\ tables' = tables \cup {t} /\ columns' = columns \cup D!Of(t)
        /\ UNCHANGED <<postgres, version, opening, found, have, todo, rival>>
    BY <1>12 DEF D!CreateTable, D!local
  <2>2. \A q \in Opener \ {p} : Bystander(q)
    BY <2>1 DEF Bystander
  <2>3. Grows(p)
    BY <1>0, <2>1 DEF Grows, D!Of
  <2>4. D!TypeOK'
    BY <1>0, <2>1 DEF D!TypeOK, D!Of
  <2>5. Opening(p)'
    <3>1. Upgraded'
      BY <1>2, <2>1 DEF Opening, Upgraded, D!Of
    <3> QED BY <1>2, <2>1, <3>1 DEF Opening
  <2> QED BY <2>1, <2>2, <2>3, <2>4, <2>5, OpeningKeeps
<1>13. CASE UNCHANGED D!vars
  BY <1>13 DEF D!vars, SchemaInv, D!TypeOK, Opening, Upgraded
<1> QED
  BY <1>5, <1>6, <1>7, <1>8, <1>9, <1>10, <1>11, <1>12, <1>13 DEF D!Next

LEMMA SchemaHolds == D!Spec => []SchemaInv
BY SchemaInit, SchemaStep, PTL DEF D!Spec

\* Whoever opens a database, whatever version it was left by and whoever died
\* over it: an opening that succeeds has every table and every column, and one
\* fails only by the side of a rival.
THEOREM OpeningsAreSafeCorrect == D!Spec => []OpeningsAreSafe
<1>1. SchemaInv => OpeningsAreSafe
  <2> SUFFICES ASSUME SchemaInv PROVE OpeningsAreSafe
    OBVIOUS
  <2>1. columns \subseteq Added /\ \A p \in Opener : Opening(p)
    BY DEF SchemaInv, D!TypeOK
  <2>2. \A c \in Added : c[1] \in SchemaTable
    BY DataAssumption DEF D!SchemaAssumption, D!Old
  <2>3. D!OpenedIsComplete
    BY <2>1, <2>2 DEF Opening, Upgraded, D!OpenedIsComplete
  <2>4. D!FailsOnlyInRaces
    BY <2>1 DEF Opening, D!FailsOnlyInRaces
  <2> QED BY <2>3, <2>4 DEF OpeningsAreSafe
<1> QED BY <1>1, SchemaHolds, PTL

-----------------------------------------------------------------------------
(* Config: the search for cycles, of a graph g with colours k and stack s. *)

FramesOf(g) == [node : DOMAIN g, left : SUBSET JobName]
Black(k) == {n \in DOMAIN k : k[n] = "black"}

\* The stack is a path of the grey jobs: each node waits for the node above it,
\* and what else a frame is through with is black.
Path(g, k, s) ==
    /\ s \in Seq(FramesOf(g))
    /\ \A i \in 1 .. Len(s), j \in 1 .. Len(s) : s[i].node = s[j].node => i = j
    /\ \A n \in DOMAIN g : k[n] = "grey" <=> \E i \in 1 .. Len(s) : s[i].node = n
    /\ \A i \in 1 .. Len(s) : s[i].left \subseteq g[s[i].node].after
    /\ \A i \in 1 .. Len(s) - 1 : s[i].node \in g[s[i + 1].node].after
    /\ \A i \in 1 .. Len(s) : \A u \in g[s[i].node].after \ s[i].left :
          u \in Black(k) \/ (i > 1 /\ u = s[i - 1].node)

\* The black jobs wait for black jobs only, and not in a circle.
Finished(g, k) ==
    /\ \A n \in Black(k) : g[n].after \subseteq Black(k)
    /\ \A N \in SUBSET Black(k) : N # {} => \E n \in N : g[n].after \cap N = {}

Search(g, k, s) ==
    /\ G!IsTable(g) /\ G!Closed(g)
    /\ k \in [DOMAIN g -> {"white", "grey", "black"}]
    /\ Path(g, k, s) /\ Finished(g, k)

\* What putting a frame on a stack, and taking one off, do.
LEMMA PushIs ==
    ASSUME NEW S, NEW x \in S, NEW s \in Seq(S)
    PROVE  LET t == <<x>> \o s
           IN  /\ t \in Seq(S) /\ Len(t) = Len(s) + 1 /\ t[1] = x /\ t # <<>>
               /\ \A i \in 1 .. Len(s) : t[i + 1] = s[i]
<1> DEFINE t == <<x>> \o s
<1>1. <<x>> \in Seq(S) /\ Len(<<x>>) = 1 /\ Len(s) \in Nat /\ <<x>>[1] = x
  OBVIOUS
<1>2. t \in Seq(S) /\ Len(t) = Len(s) + 1
  BY <1>1, ConcatProperties
<1>3. t[1] = x
  BY <1>1, ConcatProperties
<1>4. \A i \in 1 .. Len(s) : t[i + 1] = s[i]
  BY <1>1, ConcatProperties
<1>5. t # <<>>
  BY <1>1, <1>2
<1> QED BY <1>2, <1>3, <1>4, <1>5

LEMMA PopIs ==
    ASSUME NEW S, NEW s \in Seq(S), s # <<>>
    PROVE  /\ Tail(s) \in Seq(S) /\ Len(Tail(s)) = Len(s) - 1 /\ Len(s) \in Nat \ {0}
           /\ Head(s) = s[1] /\ s[1] \in S
           /\ \A i \in 1 .. Len(s) - 1 : Tail(s)[i] = s[i + 1]
<1>1. Len(s) \in Nat \ {0}
  BY EmptySeq
<1> QED BY <1>1, HeadTailProperties

\* Tables of jobs, and the empty one.
LEMMA TableIs ==
    ASSUME NEW g, G!IsTable(g)
    PROVE  /\ DOMAIN g \subseteq JobName
           /\ \A n \in DOMAIN g : g[n].after \subseteq JobName /\ g[n] \in G!Definition
BY DEF G!IsTable, G!Definition

LEMMA FreshSearch ==
    ASSUME NEW g, G!IsTable(g), G!Closed(g)
    PROVE  Search(g, [n \in DOMAIN g |-> "white"], <<>>)
<1> DEFINE k == [n \in DOMAIN g |-> "white"]
<1>1. Black(k) = {} /\ \A n \in DOMAIN g : k[n] # "grey"
  BY DEF Black
<1>2. <<>> \in Seq(FramesOf(g)) /\ Len(<<>>) = 0
  OBVIOUS
<1>3. Path(g, k, <<>>)
  BY <1>1, <1>2 DEF Path
<1>4. Finished(g, k)
  BY <1>1 DEF Finished
<1> QED BY <1>3, <1>4 DEF Search

LEMMA EmptySearch ==
    /\ G!IsTable(G!NoJobs) /\ G!Closed(G!NoJobs) /\ G!Acyclic(G!NoJobs)
    /\ DOMAIN G!NoJobs = {}
    /\ Search(G!NoJobs, G!NoJobs, <<>>)
<1>1. DOMAIN G!NoJobs = {}
  BY DEF G!NoJobs
<1>2. G!IsTable(G!NoJobs) /\ G!Closed(G!NoJobs) /\ G!Acyclic(G!NoJobs)
  BY <1>1 DEF G!NoJobs, G!IsTable, G!Closed, G!Acyclic
<1>3. G!NoJobs = [n \in DOMAIN G!NoJobs |-> "white"]
  BY <1>1 DEF G!NoJobs
<1> QED BY <1>1, <1>2, <1>3, FreshSearch

\* visit() is entered for a white job that the job on top, if any, waits for.
LEMMA EnterKeeps ==
    ASSUME NEW g, NEW k, NEW s, Search(g, k, s), NEW n \in DOMAIN g, k[n] = "white",
           NEW below \in Seq(FramesOf(g)), Len(below) = Len(s),
           s # <<>> => n \in s[1].left,
           \A i \in 1 .. Len(s) : /\ below[i].node = s[i].node
                                  /\ below[i].left \subseteq s[i].left
                                  /\ s[i].left \ below[i].left \subseteq {n}
                                  /\ i > 1 => below[i].left = s[i].left
    PROVE  Search(g, [k EXCEPT ![n] = "grey"], <<[node |-> n, left |-> g[n].after]>> \o below)
<1> DEFINE k2 == [k EXCEPT ![n] = "grey"]
           x == [node |-> n, left |-> g[n].after]
           t == <<x>> \o below
<1>0. /\ s \in Seq(FramesOf(g)) /\ Len(s) \in Nat
      /\ k \in [DOMAIN g -> {"white", "grey", "black"}]
      /\ G!IsTable(g) /\ G!Closed(g)
  BY LenProperties DEF Search, Path
<1>1. x \in FramesOf(g)
  BY <1>0, TableIs DEF FramesOf
<1>2. /\ t \in Seq(FramesOf(g)) /\ Len(t) = Len(s) + 1 /\ t[1] = x
      /\ \A i \in 1 .. Len(s) : t[i + 1] = below[i]
  BY <1>1, PushIs
<1>3. \A i \in 1 .. Len(t) : i = 1 \/ (i - 1 \in 1 .. Len(s) /\ t[i] = below[i - 1])
  <2> SUFFICES ASSUME NEW i \in 1 .. Len(t), i # 1
               PROVE  i - 1 \in 1 .. Len(s) /\ t[i] = below[i - 1]
    OBVIOUS
  <2>1. i - 1 \in 1 .. Len(s) /\ (i - 1) + 1 = i
    BY <1>0, <1>2
  <2> QED BY <1>2, <2>1
<1>4. /\ k2 \in [DOMAIN g -> {"white", "grey", "black"}]
      /\ k2[n] = "grey" /\ \A m \in DOMAIN g \ {n} : k2[m] = k[m]
      /\ Black(k2) = Black(k)
  BY <1>0 DEF Black
<1>5. \A i \in 1 .. Len(s) : s[i].node # n /\ s[i].node \in DOMAIN g
  <2> SUFFICES ASSUME NEW i \in 1 .. Len(s)
               PROVE  s[i].node # n /\ s[i].node \in DOMAIN g
    OBVIOUS
  <2>1. s[i] \in FramesOf(g)
    BY <1>0, LenProperties
  <2>2. s[i].node \in DOMAIN g
    BY <2>1 DEF FramesOf
  <2>3. k[s[i].node] = "grey"
    BY <2>2 DEF Search, Path
  <2> QED BY <2>2, <2>3
<1>6. Path(g, k2, t)
  <2>1. ASSUME NEW i \in 1 .. Len(t), NEW j \in 1 .. Len(t), t[i].node = t[j].node
        PROVE  i = j
    <3>1. \A h \in 1 .. Len(t) : h # 1 => h - 1 \in 1 .. Len(s) /\ t[h].node = s[h - 1].node
      BY <1>3
    <3>2. CASE i = 1 \/ j = 1
      <4>1. t[1].node = n
        BY <1>2
      <4>2. \A h \in 1 .. Len(t) : h # 1 => t[h].node # n
        BY <1>5, <3>1
      <4> QED BY <2>1, <3>2, <4>1, <4>2
    <3>3. CASE i # 1 /\ j # 1
      <4>1. i - 1 = j - 1
        BY <2>1, <3>1, <3>3 DEF Search, Path
      <4> QED BY <4>1
    <3> QED BY <3>2, <3>3
  <2>2. ASSUME NEW m \in DOMAIN g
        PROVE  k2[m] = "grey" <=> \E i \in 1 .. Len(t) : t[i].node = m
    <3>1. CASE m = n
      BY <1>0, <1>2, <1>4, <3>1
    <3>2. CASE m # n
      <4>1. k2[m] = "grey" <=> \E i \in 1 .. Len(s) : s[i].node = m
        BY <1>4, <3>2 DEF Search, Path
      <4>2. ASSUME NEW i \in 1 .. Len(s), s[i].node = m
            PROVE  i + 1 \in 1 .. Len(t) /\ t[i + 1].node = m
        BY <1>0, <1>2, <4>2
      <4>3. ASSUME NEW i \in 1 .. Len(t), t[i].node = m
            PROVE  i - 1 \in 1 .. Len(s) /\ s[i - 1].node = m
        BY <1>2, <1>3, <3>2, <4>3
      <4> QED BY <4>1, <4>2, <4>3
    <3> QED BY <3>1, <3>2
  <2>3. ASSUME NEW i \in 1 .. Len(t)
        PROVE  t[i].left \subseteq g[t[i].node].after
    <3>1. CASE i = 1
      BY <1>2, <3>1
    <3>2. CASE i # 1
      <4>1. i - 1 \in 1 .. Len(s) /\ t[i] = below[i - 1]
        BY <1>3, <3>2
      <4> QED BY <4>1 DEF Search, Path
    <3> QED BY <3>1, <3>2
  <2>4. ASSUME NEW i \in 1 .. Len(t) - 1
        PROVE  t[i].node \in g[t[i + 1].node].after
    <3>0. i \in 1 .. Len(s) /\ t[i + 1].node = s[i].node
      BY <1>0, <1>2
    <3>1. CASE i = 1
      <4>1. n \in s[1].left
        BY <1>0, <3>0, <3>1, EmptySeq
      <4> QED BY <1>2, <3>0, <3>1, <4>1 DEF Search, Path
    <3>2. CASE i # 1
      <4>0. i - 1 \in 1 .. Len(s) - 1 /\ (i - 1) + 1 = i /\ i \in 1 .. Len(t)
        BY <1>0, <1>2, <3>0, <3>2
      <4>1. t[i].node = s[i - 1].node
        BY <1>3, <3>2, <4>0
      <4>2. s[i - 1].node \in g[s[(i - 1) + 1].node].after
        BY <4>0 DEF Search, Path
      <4> QED BY <3>0, <4>0, <4>1, <4>2
    <3> QED BY <3>1, <3>2
  <2>5. ASSUME NEW i \in 1 .. Len(t), NEW u \in g[t[i].node].after \ t[i].left
        PROVE  u \in Black(k2) \/ (i > 1 /\ u = t[i - 1].node)
    <3>0. i # 1
      BY <1>2
    <3>1. /\ i - 1 \in 1 .. Len(s) /\ t[i] = below[i - 1] /\ i > 1
          /\ t[i].node = s[i - 1].node
      BY <1>3, <3>0
    <3>2. CASE u \in s[i - 1].left
      <4>1. u = n /\ ~(i - 1 > 1)
        BY <3>1, <3>2
      <4>2. i = 2
        BY <3>1, <4>1
      <4> QED BY <1>2, <4>1, <4>2
    <3>3. CASE u \notin s[i - 1].left
      <4>1. u \in Black(k) \/ (i - 1 > 1 /\ u = s[(i - 1) - 1].node)
        BY <3>1, <3>3 DEF Search, Path
      <4>2. CASE i - 1 > 1
        <5>1. i - 1 \in 1 .. Len(t) /\ i - 1 # 1
          BY <1>0, <1>2, <3>1, <4>2
        <5>2. t[i - 1].node = s[(i - 1) - 1].node
          BY <1>3, <5>1
        <5> QED BY <1>4, <3>1, <4>1, <5>2
      <4> QED BY <1>4, <4>1, <4>2
    <3> QED BY <3>2, <3>3
  <2> QED BY <1>2, <2>1, <2>2, <2>3, <2>4, <2>5 DEF Path
<1>7. Finished(g, k2)
  BY <1>4 DEF Search, Finished
<1> QED BY <1>0, <1>4, <1>6, <1>7 DEF Search

\* The job on top has one upstream less to look at.
LEMMA RestIs ==
    ASSUME NEW g, NEW s \in Seq(FramesOf(g)), s # <<>>, NEW u,
           NEW x \in FramesOf(g), x.node = s[1].node, x.left = s[1].left \ {u}
    PROVE  LET t == <<x>> \o Tail(s)
           IN  /\ t \in Seq(FramesOf(g)) /\ Len(t) = Len(s)
               /\ \A i \in 1 .. Len(s) : /\ t[i].node = s[i].node
                                         /\ t[i].left \subseteq s[i].left
                                         /\ s[i].left \ t[i].left \subseteq {u}
                                         /\ i > 1 => t[i].left = s[i].left
<1> DEFINE t == <<x>> \o Tail(s)
<1>1. /\ Tail(s) \in Seq(FramesOf(g)) /\ Len(Tail(s)) = Len(s) - 1
      /\ Len(s) \in Nat \ {0} /\ s[1] \in FramesOf(g)
      /\ \A i \in 1 .. Len(s) - 1 : Tail(s)[i] = s[i + 1]
  BY PopIs
<1>3. /\ t \in Seq(FramesOf(g)) /\ Len(t) = (Len(s) - 1) + 1 /\ t[1] = x
      /\ \A i \in 1 .. Len(s) - 1 : t[i + 1] = Tail(s)[i]
  BY <1>1, PushIs
<1>4. Len(t) = Len(s)
  BY <1>1, <1>3
<1> HIDE DEF t
<1>5. ASSUME NEW i \in 1 .. Len(s)
      PROVE  /\ t[i].node = s[i].node /\ t[i].left \subseteq s[i].left
             /\ s[i].left \ t[i].left \subseteq {u}
             /\ i > 1 => t[i].left = s[i].left
  <2>1. CASE i = 1
    BY <1>3, <2>1
  <2>2. CASE i # 1
    <3>1. i - 1 \in 1 .. Len(s) - 1 /\ (i - 1) + 1 = i
      BY <1>1, <2>2
    <3>2. t[i] = s[i]
      BY <1>1, <1>3, <3>1
    <3> QED BY <3>2
  <2> QED BY <2>1, <2>2
<1> QED BY <1>3, <1>4, <1>5 DEF t

LEMMA PassKeeps ==
    ASSUME NEW g, NEW k, NEW s, Search(g, k, s), s # <<>>, NEW u \in Black(k),
           NEW x \in FramesOf(g), x.node = s[1].node, x.left = s[1].left \ {u}
    PROVE  Search(g, k, <<x>> \o Tail(s))
<1> DEFINE t == <<x>> \o Tail(s)
<1>1. s \in Seq(FramesOf(g)) /\ Len(s) \in Nat
  BY LenProperties DEF Search, Path
<1>2. /\ t \in Seq(FramesOf(g)) /\ Len(t) = Len(s)
      /\ \A i \in 1 .. Len(s) : /\ t[i].node = s[i].node
                                /\ t[i].left \subseteq s[i].left
                                /\ s[i].left \ t[i].left \subseteq {u}
                                /\ i > 1 => t[i].left = s[i].left
  BY <1>1, RestIs
<1> HIDE DEF t
<1>3. \A i \in 1 .. Len(t), j \in 1 .. Len(t) : t[i].node = t[j].node => i = j
  BY <1>2 DEF Search, Path
<1>4. \A n \in DOMAIN g : k[n] = "grey" <=> \E i \in 1 .. Len(t) : t[i].node = n
  BY <1>2 DEF Search, Path
<1>5. \A i \in 1 .. Len(t) : t[i].left \subseteq g[t[i].node].after
  <2> SUFFICES ASSUME NEW i \in 1 .. Len(t)
               PROVE  t[i].left \subseteq g[t[i].node].after
    OBVIOUS
  <2> QED BY <1>2 DEF Search, Path
<1>6. \A i \in 1 .. Len(t) - 1 : t[i].node \in g[t[i + 1].node].after
  <2> SUFFICES ASSUME NEW i \in 1 .. Len(t) - 1
               PROVE  t[i].node \in g[t[i + 1].node].after
    OBVIOUS
  <2>1. i \in 1 .. Len(s) /\ i + 1 \in 1 .. Len(s) /\ i \in 1 .. Len(s) - 1
    BY <1>1, <1>2
  <2> QED BY <1>2, <2>1 DEF Search, Path
<1>7. ASSUME NEW i \in 1 .. Len(t), NEW v \in g[t[i].node].after \ t[i].left
      PROVE  v \in Black(k) \/ (i > 1 /\ v = t[i - 1].node)
  <2>1. i \in 1 .. Len(s) /\ t[i].node = s[i].node
    BY <1>2
  <2>2. CASE v \in s[i].left
    BY <1>2, <2>1, <2>2
  <2>3. CASE v \notin s[i].left
    <3>1. v \in Black(k) \/ (i > 1 /\ v = s[i - 1].node)
      BY <2>1, <2>3 DEF Search, Path
    <3>2. i > 1 => t[i - 1].node = s[i - 1].node
      BY <1>1, <1>2, <2>1
    <3> QED BY <3>1, <3>2
  <2> QED BY <2>2, <2>3
<1>8. Path(g, k, t)
  BY <1>2, <1>3, <1>4, <1>5, <1>6, <1>7 DEF Path
<1> QED BY <1>8 DEF Search, t

\* visit() returns when the job on top has no upstream left to look at.
LEMMA LeaveKeeps ==
    ASSUME NEW g, NEW k, NEW s, Search(g, k, s), s # <<>>, s[1].left = {}
    PROVE  Search(g, [k EXCEPT ![s[1].node] = "black"], Tail(s))
<1> DEFINE n == s[1].node
           k2 == [k EXCEPT ![n] = "black"]
           t == Tail(s)
<1>1. s \in Seq(FramesOf(g)) /\ k \in [DOMAIN g -> {"white", "grey", "black"}]
  BY DEF Search, Path
<1>2. /\ t \in Seq(FramesOf(g)) /\ Len(t) = Len(s) - 1 /\ Len(s) \in Nat \ {0}
      /\ s[1] \in FramesOf(g)
      /\ \A i \in 1 .. Len(s) - 1 : t[i] = s[i + 1]
  BY <1>1, PopIs
<1>3. n \in DOMAIN g /\ 1 \in 1 .. Len(s)
  BY <1>2 DEF FramesOf
<1>4. k[n] = "grey"
  BY <1>3 DEF Search, Path
<1>5. g[n].after \subseteq Black(k)
  BY <1>3 DEF Search, Path
<1>6. /\ k2 \in [DOMAIN g -> {"white", "grey", "black"}]
      /\ Black(k2) = Black(k) \cup {n} /\ n \notin Black(k)
      /\ k2[n] = "black" /\ \A m \in DOMAIN g \ {n} : k2[m] = k[m]
  BY <1>1, <1>3, <1>4 DEF Black
<1> HIDE DEF t, k2
<1>7. Path(g, k2, t)
  <2>0. \A i \in 1 .. Len(t) : i \in 1 .. Len(s) - 1 /\ i \in 1 .. Len(s)
                               /\ i + 1 \in 1 .. Len(s) /\ t[i] = s[i + 1]
    BY <1>2
  <2>1. ASSUME NEW i \in 1 .. Len(t), NEW j \in 1 .. Len(t), t[i].node = t[j].node
        PROVE  i = j
    <3>1. i + 1 = j + 1
      BY <2>0, <2>1 DEF Search, Path
    <3> QED BY <3>1
  <2>2. ASSUME NEW m \in DOMAIN g
        PROVE  k2[m] = "grey" <=> \E i \in 1 .. Len(t) : t[i].node = m
    <3>1. CASE m = n
      <4>1. ASSUME NEW i \in 1 .. Len(t), t[i].node = n
            PROVE  FALSE
        <5>1. i + 1 = 1
          BY <1>3, <2>0, <4>1 DEF Search, Path
        <5> QED BY <5>1
      <4> QED BY <1>6, <3>1, <4>1
    <3>2. CASE m # n
      <4>1. k2[m] = "grey" <=> \E i \in 1 .. Len(s) : s[i].node = m
        BY <1>6, <3>2 DEF Search, Path
      <4>2. ASSUME NEW i \in 1 .. Len(s), s[i].node = m
            PROVE  i - 1 \in 1 .. Len(t) /\ t[i - 1].node = m
        <5>1. i # 1
          BY <3>2, <4>2
        <5>2. i - 1 \in 1 .. Len(t) /\ (i - 1) + 1 = i
          BY <1>2, <5>1
        <5> QED BY <2>0, <4>2, <5>2
      <4>3. ASSUME NEW i \in 1 .. Len(t), t[i].node = m
            PROVE  i + 1 \in 1 .. Len(s) /\ s[i + 1].node = m
        BY <2>0, <4>3
      <4> QED BY <4>1, <4>2, <4>3
    <3> QED BY <3>1, <3>2
  <2>3. ASSUME NEW i \in 1 .. Len(t)
        PROVE  t[i].left \subseteq g[t[i].node].after
    BY <2>0 DEF Search, Path
  <2>4. ASSUME NEW i \in 1 .. Len(t) - 1
        PROVE  t[i].node \in g[t[i + 1].node].after
    <3>1. i \in 1 .. Len(t) /\ i + 1 \in 1 .. Len(t) /\ i + 1 \in 1 .. Len(s) - 1
      BY <1>2
    <3> QED BY <2>0, <3>1 DEF Search, Path
  <2>5. ASSUME NEW i \in 1 .. Len(t), NEW u \in g[t[i].node].after \ t[i].left
        PROVE  u \in Black(k2) \/ (i > 1 /\ u = t[i - 1].node)
    <3>1. i + 1 \in 1 .. Len(s) /\ t[i] = s[i + 1] /\ (i + 1) - 1 = i
      BY <2>0
    <3>2. u \in Black(k) \/ u = s[i].node
      <4>1. u \in Black(k) \/ (i + 1 > 1 /\ u = s[(i + 1) - 1].node)
        BY <3>1 DEF Search, Path
      <4> QED BY <3>1, <4>1
    <3>3. CASE i = 1
      BY <1>6, <3>2, <3>3
    <3>4. CASE i # 1
      <4>1. i > 1 /\ i - 1 \in 1 .. Len(t) /\ (i - 1) + 1 = i
        BY <1>2, <3>4
      <4>2. t[i - 1] = s[i]
        BY <2>0, <4>1
      <4> QED BY <1>6, <3>2, <4>1, <4>2
    <3> QED BY <3>3, <3>4
  <2> QED BY <1>2, <2>1, <2>2, <2>3, <2>4, <2>5 DEF Path
<1>8. Finished(g, k2)
  <2>1. \A m \in Black(k2) : g[m].after \subseteq Black(k2)
    BY <1>5, <1>6 DEF Search, Finished
  <2>2. ASSUME NEW N \in SUBSET Black(k2), N # {}
        PROVE  \E m \in N : g[m].after \cap N = {}
    <3>1. CASE N \ {n} = {}
      <4>1. N = {n} /\ g[n].after \cap {n} = {}
        BY <1>5, <1>6, <2>2, <3>1
      <4> QED BY <4>1
    <3>2. CASE N \ {n} # {}
      <4>1. N \ {n} \in SUBSET Black(k)
        BY <1>6
      <4>2. PICK m \in N \ {n} : g[m].after \cap (N \ {n}) = {}
        BY <3>2, <4>1 DEF Search, Finished
      <4>3. g[m].after \subseteq Black(k)
        BY <4>1 DEF Search, Finished
      <4> QED BY <1>6, <4>2, <4>3
    <3> QED BY <3>1, <3>2
  <2> QED BY <2>1, <2>2 DEF Finished
<1> QED BY <1>6, <1>7, <1>8 DEF Search, t, k2

\* The verdicts: a grey upstream closes a circle of the path above it, and when
\* all is black there is none.
LEMMA CycleIsOne ==
    ASSUME NEW g, NEW k, NEW s, Search(g, k, s), s # <<>>,
           NEW u \in s[1].left, k[u] = "grey"
    PROVE  ~G!Acyclic(g)
<1>1. s \in Seq(FramesOf(g)) /\ Len(s) \in Nat \ {0} /\ s[1] \in FramesOf(g)
  BY PopIs DEF Search, Path
<1>2. u \in g[s[1].node].after /\ u \in DOMAIN g
  <2>1. u \in g[s[1].node].after /\ s[1].node \in DOMAIN g
    BY <1>1 DEF Search, Path, FramesOf
  <2> QED BY <2>1 DEF Search, G!Closed
<1>3. PICK h \in 1 .. Len(s) : s[h].node = u
  BY <1>2 DEF Search, Path
<1> DEFINE N == {s[i].node : i \in 1 .. h}
<1>4. N # {} /\ N \in SUBSET DOMAIN g
  <2>1. ASSUME NEW i \in 1 .. h PROVE s[i].node \in DOMAIN g
    <3>1. i \in 1 .. Len(s)
      BY <1>1
    <3>2. s[i] \in FramesOf(g)
      BY <1>1, <3>1, LenProperties
    <3> QED BY <3>2 DEF FramesOf
  <2>2. s[h].node \in N
    BY <1>3
  <2> QED BY <2>1, <2>2
<1>5. ASSUME NEW i \in 1 .. h PROVE g[s[i].node].after \cap N # {}
  <2>1. CASE i = 1
    <3>1. s[h].node \in N
      OBVIOUS
    <3> QED BY <1>2, <1>3, <2>1, <3>1
  <2>2. CASE i # 1
    <3>1. i - 1 \in 1 .. Len(s) - 1 /\ (i - 1) + 1 = i /\ i - 1 \in 1 .. h
      BY <1>1, <2>2
    <3>2. s[i - 1].node \in g[s[i].node].after
      BY <3>1 DEF Search, Path
    <3> QED BY <3>1, <3>2
  <2> QED BY <2>1, <2>2
<1>6. \A n \in N : g[n].after \cap N # {}
  BY <1>5
<1> HIDE DEF N
<1> QED BY <1>4, <1>6 DEF G!Acyclic

LEMMA SearchedIsAcyclic ==
    ASSUME NEW g, NEW k, Search(g, k, <<>>), \A n \in DOMAIN g : k[n] # "white"
    PROVE  G!Acyclic(g) /\ G!Closed(g)
<1>1. Len(<<>>) = 0
  OBVIOUS
<1>2. \A n \in DOMAIN g : k[n] = "black"
  BY <1>1 DEF Search, Path
<1>3. Black(k) = DOMAIN g
  BY <1>2 DEF Search, Black
<1> QED BY <1>3 DEF Search, Finished, G!Acyclic

-----------------------------------------------------------------------------
(* Config: the loads and reloads.                                          *)

\* A module that is in M, or lies in a package of M.
Within(mod, M) == mod \in M \/ Around[mod] \cap M # {}
Imports(g, M) == \A n \in DOMAIN g : g[n].from # Toml => Within(g[n].from, M)

Tables ==
    /\ disk \in Disks /\ edits \in Nat
    /\ loading \in {"down", "up", "import", "visit"}
    /\ G!IsTable(registry) /\ G!IsTable(jobs)
    /\ imported \in SUBSET Module /\ stale \in SUBSET JobName

\* There is a search only while a config is loaded, about jobs whose modules are
\* imported; the jobs in force are sound unless a reload kept an old definition.
ConfigInv ==
    /\ Tables
    /\ Search(graph, colour, stack)
    /\ loading # "visit" => graph = G!NoJobs /\ colour = G!NoJobs /\ stack = <<>>
    /\ loading = "visit" => DOMAIN graph # {}
    /\ Imports(graph, imported) /\ Imports(jobs, imported)
    /\ stale = {} => G!Acyclic(jobs) /\ G!Closed(jobs)

LEMMA ConfigTypes == ConfigInv => G!TypeOK
<1> SUFFICES ASSUME ConfigInv PROVE G!TypeOK
  OBVIOUS
<1>1. stack \in Seq(FramesOf(graph))
  BY DEF ConfigInv, Search, Path
<1>2. \A i \in DOMAIN stack : stack[i] \in FramesOf(graph)
  BY <1>1, LenProperties
<1> QED BY <1>2 DEF ConfigInv, Tables, Search, FramesOf, G!TypeOK

LEMMA ConfigInit == G!Init => ConfigInv
<1> SUFFICES ASSUME G!Init PROVE ConfigInv
  OBVIOUS
<1>1. Tables
  BY EmptySearch DEF G!Init, Tables
<1>2. Imports(graph, imported) /\ Imports(jobs, imported)
  BY EmptySearch DEF G!Init, Imports
<1> QED BY <1>1, <1>2, EmptySearch DEF G!Init, ConfigInv

LEMMA DiskIs ==
    ASSUME disk \in Disks
    PROVE  /\ G!IsTable(disk.jobs) /\ \A n \in DOMAIN disk.jobs : disk.jobs[n].from = Toml
           /\ \A m \in Module : G!IsTable(disk.code[m])
           /\ disk.modules \subseteq Module
BY DataAssumption DEF G!ConfigAssumption, G!IsDisk

LEMMA RegisterKeeps ==
    ASSUME Tables, NEW m \in Module, NEW N \in SUBSET G!Declares(m), G!Register(m, N)
    PROVE  G!IsTable(registry')
<1> DEFINE R == DOMAIN registry \cup N
           f == [n \in R |-> IF n \in N THEN disk.code[m][n] ELSE registry[n]]
<1>1. G!IsTable(disk.code[m]) /\ G!IsTable(registry) /\ N \subseteq DOMAIN disk.code[m]
  BY DiskIs DEF Tables, G!Declares
<1>2. R \subseteq JobName /\ \A n \in R : f[n] \in G!Definition
  BY <1>1, TableIs
<1>3. registry' = f
  BY DEF G!Register
<1> HIDE DEF f
<1>4. DOMAIN f = R /\ f = [n \in R |-> f[n]]
  BY DEF f
<1> QED BY <1>2, <1>3, <1>4 DEF G!IsTable

\* A load that is refused goes on with the jobs that were in force, if any.
LEMMA RefusedKeeps ==
    ASSUME ConfigInv, G!Refused, UNCHANGED <<disk, jobs, stale, edits>>,
           DOMAIN jobs # {} => imported' = imported /\ G!IsTable(registry')
    PROVE  /\ Tables' /\ Imports(jobs, imported)' /\ loading' \in {"down", "up"}
           /\ (stale = {} => G!Acyclic(jobs) /\ G!Closed(jobs))'
<1>1. CASE DOMAIN jobs = {}
  <2>1. loading' = "down" /\ registry' = G!NoJobs /\ imported' = {}
    BY <1>1 DEF G!Refused
  <2>2. Tables'
    BY <2>1, EmptySearch DEF ConfigInv, Tables
  <2>3. Imports(jobs, imported)'
    BY <1>1 DEF Imports
  <2> QED BY <2>1, <2>2, <2>3 DEF ConfigInv, G!Acyclic, G!Closed
<1>2. CASE DOMAIN jobs # {}
  <2>1. loading' = "up" /\ imported' = imported /\ G!IsTable(registry')
    BY <1>2 DEF G!Refused
  <2>2. Tables'
    BY <2>1 DEF ConfigInv, Tables
  <2>3. Imports(jobs, imported)'
    BY <2>1 DEF ConfigInv, Imports
  <2> QED BY <2>1, <2>2, <2>3 DEF ConfigInv, G!Acyclic, G!Closed
<1> QED BY <1>1, <1>2

\* The steps outside the search.
LEMMA LoadingKeeps ==
    ASSUME ConfigInv,
           \/ G!Load \/ G!Reject \/ G!Edit \/ G!Stop
           \/ \E m \in Module : G!Import(m) \/ G!ImportFails(m)
    PROVE  ConfigInv'
<1>1. /\ loading' # "visit" /\ UNCHANGED <<graph, colour, stack>>
      /\ graph = G!NoJobs /\ colour = G!NoJobs /\ stack = <<>>
  <2>1. loading # "visit" /\ loading' # "visit"
    BY DEF G!Load, G!Reject, G!Edit, G!Stop, G!Import, G!ImportFails, G!Importable,
           G!Imported, G!Refused
  <2>2. UNCHANGED <<graph, colour, stack>>
    BY DEF G!Load, G!Reject, G!Edit, G!Stop, G!Import, G!ImportFails, G!dfs
  <2> QED BY <2>1, <2>2 DEF ConfigInv
<1>2. Search(graph, colour, stack)' /\ Imports(graph, imported)'
  BY <1>1, EmptySearch DEF Imports
<1>3. ASSUME Tables', Imports(jobs, imported)',
             (stale = {} => G!Acyclic(jobs) /\ G!Closed(jobs))'
      PROVE  ConfigInv'
  BY <1>1, <1>2, <1>3 DEF ConfigInv
<1>4. ASSUME UNCHANGED <<jobs, stale>>
      PROVE  (stale = {} => G!Acyclic(jobs) /\ G!Closed(jobs))'
  BY <1>4 DEF ConfigInv, G!Acyclic, G!Closed
<1>5. CASE G!Load \/ G!Edit
  <2>1. Tables'
    BY <1>5 DEF ConfigInv, Tables, G!Load, G!Edit, G!load
  <2>2. UNCHANGED <<jobs, stale, imported>>
    BY <1>5 DEF G!Load, G!Edit, G!load
  <2> QED BY <1>3, <1>4, <2>1, <2>2 DEF ConfigInv, Imports
<1>6. CASE G!Stop
  <2>1. /\ loading' = "down" /\ registry' = G!NoJobs /\ imported' = {}
        /\ jobs' = G!NoJobs /\ stale' = {} /\ UNCHANGED <<disk, edits>>
    BY <1>6 DEF G!Stop
  <2>2. Tables'
    BY <2>1, EmptySearch DEF ConfigInv, Tables
  <2>3. Imports(jobs, imported)'
    BY <2>1, EmptySearch DEF Imports
  <2>4. G!Acyclic(jobs') /\ G!Closed(jobs')
    BY <2>1, EmptySearch
  <2>5. (stale = {} => G!Acyclic(jobs) /\ G!Closed(jobs))'
    BY <2>4 DEF G!Acyclic, G!Closed
  <2> QED BY <1>3, <2>2, <2>3, <2>5
<1>7. CASE G!Reject
  <2>1. /\ G!Refused /\ UNCHANGED <<disk, jobs, stale, edits>>
        /\ DOMAIN jobs # {} => imported' = imported /\ registry' = registry
    BY <1>7 DEF G!Reject, G!load
  <2>2. G!IsTable(registry)
    BY DEF ConfigInv, Tables
  <2>3. /\ Tables' /\ Imports(jobs, imported)'
        /\ (stale = {} => G!Acyclic(jobs) /\ G!Closed(jobs))'
    BY <2>1, <2>2, RefusedKeeps
  <2> QED BY <1>3, <2>3
<1>8. ASSUME NEW m \in Module, G!Import(m)
      PROVE  ConfigInv'
  <2>1. /\ G!Register(m, G!Declares(m)) /\ imported' = imported \cup {m}
        /\ UNCHANGED <<disk, loading, jobs, stale, edits>>
    BY <1>8 DEF G!Import
  <2>2. G!IsTable(registry')
    BY <2>1, RegisterKeeps DEF ConfigInv
  <2>3. Tables'
    BY <2>1, <2>2 DEF ConfigInv, Tables
  <2>4. Imports(jobs, imported)'
    <3>1. \A mod : Within(mod, imported) => Within(mod, imported')
      BY <2>1 DEF Within
    <3> QED BY <2>1, <3>1 DEF ConfigInv, Imports
  <2> QED BY <1>3, <1>4, <2>1, <2>3, <2>4
<1>9. ASSUME NEW m \in Module, G!ImportFails(m)
      PROVE  ConfigInv'
  <2>1. /\ G!Refused /\ UNCHANGED <<disk, jobs, stale, edits>>
        /\ DOMAIN jobs # {} =>
              /\ imported' = imported
              /\ \E N \in SUBSET (G!Declares(m) \ DOMAIN registry) : G!Register(m, N)
    BY <1>9 DEF G!ImportFails
  <2>2. DOMAIN jobs # {} => G!IsTable(registry')
    BY <2>1, RegisterKeeps DEF ConfigInv
  <2>3. /\ Tables' /\ Imports(jobs, imported)'
        /\ (stale = {} => G!Acyclic(jobs) /\ G!Closed(jobs))'
    BY <2>1, <2>2, RefusedKeeps
  <2> QED BY <1>3, <2>3
<1> QED BY <1>5, <1>6, <1>7, <1>8, <1>9

\* Of what is merged, the Python jobs come from modules that were imported.
LEMMA MergedIs ==
    ASSUME Tables, G!Imported, G!Sensible
    PROVE  G!IsTable(G!Merged) /\ G!Closed(G!Merged) /\ Imports(G!Merged, imported)
<1> DEFINE g == G!Merged
           R == G!PythonJobs \cup DOMAIN disk.jobs
           f == [n \in R |-> IF n \in G!PythonJobs THEN registry[n] ELSE disk.jobs[n]]
<1>1. /\ G!IsTable(disk.jobs) /\ G!IsTable(registry)
      /\ \A n \in DOMAIN disk.jobs : disk.jobs[n].from = Toml
      /\ disk.modules \subseteq imported
  BY DiskIs DEF Tables, G!Imported, G!Needed
<1>2. G!PythonJobs \subseteq DOMAIN registry
      /\ \A n \in G!PythonJobs : Within(registry[n].from, disk.modules)
  BY DEF G!PythonJobs, G!Wanted, Within
<1>3. R \subseteq JobName /\ \A n \in R : f[n] \in G!Definition
  BY <1>1, <1>2, TableIs
<1>4. g = f
  BY DEF G!Merged
<1>5. \A n \in R : f[n].from # Toml => Within(f[n].from, imported)
  <2>1. \A mod : Within(mod, disk.modules) => Within(mod, imported)
    BY <1>1 DEF Within
  <2> QED BY <1>1, <1>2, <2>1
<1>6. G!Closed(g)
  BY DEF G!Sensible, G!UnknownUpstream, G!Closed
<1> HIDE DEF f
<1>7. DOMAIN f = R /\ f = [n \in R |-> f[n]]
  BY DEF f
<1> HIDE DEF g
<1>8. G!IsTable(g) /\ Imports(g, imported)
  BY <1>3, <1>4, <1>5, <1>7 DEF G!IsTable, Imports
<1> QED BY <1>6, <1>8 DEF g

\* The steps of a search.
LEMMA VisitKeeps ==
    ASSUME ConfigInv, G!Leave \/ \E n \in JobName : G!StartVisit(n) \/ G!Look(n)
    PROVE  ConfigInv'
<1>1. /\ loading = "visit"
      /\ UNCHANGED <<disk, loading, registry, imported, graph, jobs, stale, edits>>
  BY DEF G!Leave, G!StartVisit, G!Look, G!InVisit, G!load
<1>2. SUFFICES Search(graph, colour', stack')
  <2>1. Search(graph, colour', stack') => Search(graph, colour, stack)'
    BY <1>1
  <2> QED BY <1>1, <2>1 DEF ConfigInv, Tables, Imports, G!Acyclic, G!Closed
<1>3. /\ Search(graph, colour, stack) /\ stack \in Seq(FramesOf(graph))
      /\ G!Closed(graph)
  BY DEF ConfigInv, Search, Path
<1>4. CASE G!Leave
  <2>1. /\ stack # <<>> /\ Head(stack).left = {} /\ stack' = Tail(stack)
        /\ colour' = [colour EXCEPT ![Head(stack).node] = "black"]
    BY <1>4 DEF G!Leave, G!InVisit, G!Top
  <2>2. Head(stack) = stack[1]
    BY <1>3, <2>1, PopIs
  <2> QED BY <1>3, <2>1, <2>2, LeaveKeeps
<1>5. ASSUME NEW n \in JobName, G!StartVisit(n)
      PROVE  Search(graph, colour', stack')
  <2>1. /\ stack = <<>> /\ n \in DOMAIN graph /\ colour[n] = "white"
        /\ stack' = <<[node |-> n, left |-> graph[n].after]>> \o <<>>
        /\ colour' = [colour EXCEPT ![n] = "grey"]
    BY <1>5 DEF G!StartVisit, G!Enter, G!Frame, G!White
  <2>2. <<>> \in Seq(FramesOf(graph)) /\ Len(<<>>) = 0 /\ Len(stack) = 0
    BY <2>1
  <2> QED BY <1>3, <2>1, <2>2, EnterKeeps
<1>6. ASSUME NEW u \in JobName, G!Look(u)
      PROVE  Search(graph, colour', stack')
  <2> DEFINE x == [Head(stack) EXCEPT !.left = Head(stack).left \ {u}]
             rest == <<x>> \o Tail(stack)
  <2>1. stack # <<>> /\ u \in Head(stack).left /\ colour[u] # "grey"
    BY <1>6 DEF G!Look, G!InVisit, G!Top, G!OnPath
  <2>2. \/ /\ u \in DOMAIN graph /\ colour[u] = "white"
           /\ stack' = <<[node |-> u, left |-> graph[u].after]>> \o rest
           /\ colour' = [colour EXCEPT ![u] = "grey"]
        \/ ~(u \in DOMAIN graph /\ colour[u] = "white") /\ stack' = rest /\ colour' = colour
    BY <1>6 DEF G!Look, G!Enter, G!Frame, G!White, G!Top
  <2>3. /\ Head(stack) = stack[1] /\ stack[1] \in FramesOf(graph)
        /\ Len(stack) \in Nat \ {0}
    BY <1>3, <2>1, PopIs
  <2>4. x \in FramesOf(graph) /\ x.node = stack[1].node /\ x.left = stack[1].left \ {u}
    BY <2>3 DEF FramesOf
  <2>5. u \in DOMAIN graph
    <3>1. stack[1].left \subseteq graph[stack[1].node].after
      BY <1>3, <2>3 DEF Search, Path
    <3>2. stack[1].node \in DOMAIN graph
      BY <2>3 DEF FramesOf
    <3> QED BY <1>3, <2>1, <2>3, <3>1, <3>2 DEF G!Closed
  <2> HIDE DEF x
  <2>6. /\ rest \in Seq(FramesOf(graph)) /\ Len(rest) = Len(stack)
        /\ \A i \in 1 .. Len(stack) : /\ rest[i].node = stack[i].node
                                      /\ rest[i].left \subseteq stack[i].left
                                      /\ stack[i].left \ rest[i].left \subseteq {u}
                                      /\ i > 1 => rest[i].left = stack[i].left
    BY <1>3, <2>1, <2>4, RestIs
  <2>7. CASE colour[u] = "white"
    <3>1. /\ stack' = <<[node |-> u, left |-> graph[u].after]>> \o rest
          /\ colour' = [colour EXCEPT ![u] = "grey"]
      BY <2>2, <2>5, <2>7
    <3> HIDE DEF rest
    <3> QED BY <1>3, <2>1, <2>3, <2>5, <2>6, <2>7, <3>1, EnterKeeps
  <2>8. CASE colour[u] # "white"
    <3>1. stack' = rest /\ colour' = colour
      BY <2>2, <2>8
    <3>2. u \in Black(colour)
      BY <1>3, <2>1, <2>5, <2>8 DEF Search, Black
    <3> QED BY <1>3, <2>1, <2>4, <3>1, <3>2, PassKeeps
  <2> QED BY <2>7, <2>8
<1> QED BY <1>4, <1>5, <1>6

LEMMA ConfigStep == ConfigInv /\ [G!Next]_G!vars => ConfigInv'
<1> SUFFICES ASSUME ConfigInv, [G!Next]_G!vars PROVE ConfigInv'
  OBVIOUS
<1>1. CASE G!Collect
  <2>1. /\ Search(graph', colour', stack') /\ Imports(graph', imported)
        /\ loading' = "visit" /\ DOMAIN graph' # {}
        /\ UNCHANGED <<disk, registry, imported, jobs, stale, edits>>
    <3>1. /\ G!Imported /\ G!Sensible /\ loading' = "visit" /\ graph' = G!Merged
          /\ colour' = [n \in DOMAIN G!Merged |-> "white"] /\ stack' = <<>>
          /\ UNCHANGED <<disk, registry, imported, jobs, stale, edits>>
      BY <1>1 DEF G!Collect, G!load
    <3>2. G!IsTable(G!Merged) /\ G!Closed(G!Merged) /\ Imports(G!Merged, imported)
      BY <3>1, MergedIs DEF ConfigInv
    <3>3. DOMAIN graph' # {}
      BY <3>1 DEF G!Sensible
    <3> QED BY <3>1, <3>2, <3>3, FreshSearch
  <2>2. Tables' /\ Imports(jobs, imported)'
    BY <2>1 DEF ConfigInv, Tables, Imports
  <2>3. (stale = {} => G!Acyclic(jobs) /\ G!Closed(jobs))'
    BY <2>1 DEF ConfigInv, G!Acyclic, G!Closed
  <2>4. Search(graph, colour, stack)' /\ DOMAIN graph' # {} /\ loading' = "visit"
    BY <2>1
  <2>5. Imports(graph, imported)'
    BY <2>1 DEF Imports
  <2> QED BY <2>1, <2>2, <2>3, <2>4 DEF ConfigInv
<1>2. CASE G!RejectCycle
  <2>1. /\ G!Refused /\ UNCHANGED <<disk, jobs, stale, edits>>
        /\ DOMAIN jobs # {} => imported' = imported /\ registry' = registry
        /\ graph' = G!NoJobs /\ colour' = G!NoJobs /\ stack' = <<>>
    BY <1>2 DEF G!RejectCycle, G!load
  <2>2. G!IsTable(registry)
    BY DEF ConfigInv, Tables
  <2>3. /\ Tables' /\ Imports(jobs, imported)' /\ loading' \in {"down", "up"}
        /\ (stale = {} => G!Acyclic(jobs) /\ G!Closed(jobs))'
    BY <2>1, <2>2, RefusedKeeps
  <2>4. Search(graph, colour, stack)' /\ Imports(graph, imported)'
    BY <2>1, EmptySearch DEF Imports
  <2> QED BY <2>1, <2>3, <2>4 DEF ConfigInv
<1>3. CASE G!Apply
  <2>1. /\ loading = "visit" /\ stack = <<>> /\ G!White = {} /\ loading' = "up"
        /\ jobs' = G!Reloaded
        /\ stale' = {n \in DOMAIN graph \cap DOMAIN jobs : jobs[n] # graph[n]}
        /\ graph' = G!NoJobs /\ colour' = G!NoJobs /\ stack' = <<>>
        /\ UNCHANGED <<disk, registry, imported, edits>>
    BY <1>3 DEF G!Apply, G!Searched, G!load
  <2>2. G!Acyclic(graph) /\ G!Closed(graph)
    BY <2>1, SearchedIsAcyclic DEF ConfigInv, G!White
  <2>3. G!IsTable(graph) /\ G!IsTable(jobs)
    BY DEF ConfigInv, Search, Tables
  <2> DEFINE f == [n \in DOMAIN graph |-> IF n \in DOMAIN jobs THEN jobs[n] ELSE graph[n]]
  <2>4. jobs' = f
    BY <2>1 DEF G!Reloaded
  <2>5. \A n \in DOMAIN graph : /\ f[n] \in G!Definition
                                /\ f[n].from # Toml => Within(f[n].from, imported)
    BY <2>3, TableIs DEF ConfigInv, Imports
  <2>6. stale' = {} => \A n \in DOMAIN graph : f[n] = graph[n]
    BY <2>1
  <2> HIDE DEF f
  <2>7. DOMAIN f = DOMAIN graph /\ f = [n \in DOMAIN graph |-> f[n]]
    BY DEF f
  <2>8. G!IsTable(jobs') /\ Imports(jobs', imported')
    BY <2>1, <2>3, <2>4, <2>5, <2>7 DEF G!IsTable, Imports
  <2>9. stale' = {} => G!Acyclic(jobs') /\ G!Closed(jobs')
    <3> SUFFICES ASSUME stale' = {} PROVE G!Acyclic(jobs') /\ G!Closed(jobs')
      OBVIOUS
    <3>1. \A n \in DOMAIN graph : f[n] = graph[n]
      BY <2>6
    <3> QED BY <2>2, <2>4, <2>7, <3>1 DEF G!Acyclic, G!Closed
  <2>10. Tables'
    <3>1. stale' \in SUBSET JobName
      BY <2>1, <2>3, TableIs
    <3> QED BY <2>1, <2>8, <3>1 DEF ConfigInv, Tables
  <2>11. Search(graph, colour, stack)' /\ Imports(graph, imported)'
    BY <2>1, EmptySearch DEF Imports
  <2> QED BY <2>1, <2>8, <2>9, <2>10, <2>11 DEF ConfigInv
<1>4. CASE UNCHANGED G!vars
  BY <1>4 DEF G!vars, ConfigInv, Tables, Imports, G!Acyclic, G!Closed
<1> QED
  BY <1>1, <1>2, <1>3, <1>4, LoadingKeeps, VisitKeeps DEF G!Next

LEMMA ConfigHolds == G!Spec => []ConfigInv
BY ConfigInit, ConfigStep, PTL DEF G!Spec

LEMMA SearchDecides ==
    ASSUME ConfigInv
    PROVE  /\ G!Searched => G!Acyclic(graph)
           /\ G!CycleAhead => ~G!Acyclic(graph)
<1>1. Search(graph, colour, stack) /\ stack \in Seq(FramesOf(graph))
  BY DEF ConfigInv, Search, Path
<1>2. G!Searched => G!Acyclic(graph)
  BY <1>1, SearchedIsAcyclic DEF G!Searched, G!White
<1>3. ASSUME G!CycleAhead PROVE ~G!Acyclic(graph)
  <2>1. PICK u \in Head(stack).left : stack # <<>> /\ colour[u] = "grey"
    BY <1>3 DEF G!CycleAhead, G!InVisit, G!Top, G!OnPath
  <2>2. Head(stack) = stack[1]
    BY <1>1, <2>1, PopIs
  <2> QED BY <1>1, <2>1, <2>2, CycleIsOne
<1> QED BY <1>2, <1>3

\* The search for cycles accepts just the graphs without one, however many jobs
\* there are and in whatever order it visits them.
THEOREM VerdictIsRightCorrect == G!Spec => []VerdictIsRight
<1>1. ConfigInv => VerdictIsRight
  BY SearchDecides DEF VerdictIsRight, G!VerdictIsRight
<1> QED BY <1>1, ConfigHolds, PTL

\* The jobs in force have no cycle and no unknown upstream, after any reloads
\* that kept no definition which the file had changed.
THEOREM MergedIsSoundCorrect == G!Spec => []MergedIsSound
<1>1. ConfigInv => MergedIsSound
  BY DEF ConfigInv, MergedIsSound, G!MergedIsSound
<1> QED BY <1>1, ConfigHolds, PTL

\* Every Python job in force is from a module that was imported, or from one in a
\* package that was, however often loads have failed half-way.
THEOREM NoHalfModulesCorrect == G!Spec => []NoHalfModules
<1>1. ConfigInv => NoHalfModules
  BY DEF ConfigInv, Imports, Within, NoHalfModules, G!NoHalfModules
<1> QED BY <1>1, ConfigHolds, PTL

-----------------------------------------------------------------------------
(* Config implements JobTable.                                             *)

LEMMA CircleIs ==
    /\ J!Nobody = G!NoJobs
    /\ \A g : J!Circle(g) <=> ~G!Acyclic(g)
BY DEF J!Nobody, G!NoJobs, J!Circle, G!Acyclic

\* A search begins over what could be merged, and proposes it; every verdict on
\* the way is JobTable's, by the invariant of the search.
LEMMA VerdictsImplement ==
    ASSUME ConfigInv, G!Collect \/ G!RejectCycle \/ G!Apply
    PROVE  J!Next
<1>1. CASE G!Collect
  <2>1. /\ G!Imported /\ G!Sensible /\ graph' = G!Merged /\ UNCHANGED <<jobs, stale>>
    BY <1>1 DEF G!Collect
  <2>2. graph = G!NoJobs
    BY <2>1 DEF ConfigInv, G!Imported
  <2>3. G!IsTable(G!Merged) /\ G!Closed(G!Merged)
    BY <2>1, MergedIs DEF ConfigInv
  <2>4. G!Merged # G!NoJobs
    BY <2>1, EmptySearch DEF G!Sensible
  <2>5. J!IsTable(graph') /\ J!KnowsUpstreams(graph')
    BY <2>1, <2>3 DEF J!IsTable, J!KnowsUpstreams, G!IsTable, G!Closed
  <2> QED BY <2>1, <2>2, <2>4, <2>5, CircleIs DEF J!Next, J!Propose
<1>2. CASE G!RejectCycle
  <2>1. /\ G!CycleAhead /\ loading = "visit" /\ graph' = G!NoJobs
        /\ UNCHANGED <<jobs, stale>>
    BY <1>2 DEF G!RejectCycle, G!CycleAhead, G!InVisit
  <2>2. ~G!Acyclic(graph)
    BY <2>1, SearchDecides
  <2>3. graph # G!NoJobs
    BY <2>1, EmptySearch DEF ConfigInv
  <2> QED BY <2>1, <2>2, <2>3, CircleIs DEF J!Next, J!Refuse
<1>3. CASE G!Apply
  <2>1. /\ G!Searched /\ loading = "visit" /\ graph' = G!NoJobs /\ jobs' = G!Reloaded
        /\ stale' = {n \in DOMAIN graph \cap DOMAIN jobs : jobs[n] # graph[n]}
    BY <1>3 DEF G!Apply, G!Searched
  <2>2. G!Acyclic(graph)
    BY <2>1, SearchDecides
  <2>3. graph # G!NoJobs
    BY <2>1, EmptySearch DEF ConfigInv
  <2>4. jobs' = [n \in DOMAIN graph |-> IF n \in J!Kept THEN jobs[n] ELSE graph[n]]
    BY <2>1 DEF G!Reloaded, J!Kept
  <2>5. stale' = {n \in J!Kept : jobs[n] # graph[n]}
    BY <2>1 DEF J!Kept
  <2> QED BY <2>1, <2>2, <2>3, <2>4, <2>5, CircleIs DEF J!Next, J!Accept
<1> QED BY <1>1, <1>2, <1>3

\* Reading the file, importing modules and searching change none of the three.
LEMMA LoadingStutters ==
    ASSUME \/ G!Load \/ G!Reject \/ G!Leave \/ G!Edit
           \/ \E m \in Module : G!Import(m) \/ G!ImportFails(m)
           \/ \E n \in JobName : G!StartVisit(n) \/ G!Look(n)
    PROVE  UNCHANGED <<graph, jobs, stale>>
BY DEF G!Load, G!Reject, G!Leave, G!Edit, G!Import, G!ImportFails, G!StartVisit,
       G!Look, G!dfs

LEMMA StepImplements == ConfigInv /\ [G!Next]_G!vars => [J!Next]_J!vars
<1> SUFFICES ASSUME ConfigInv, [G!Next]_G!vars PROVE [J!Next]_J!vars
  OBVIOUS
<1>1. CASE G!Collect \/ G!RejectCycle \/ G!Apply
  BY <1>1, VerdictsImplement
<1>2. CASE G!Stop
  <2>1. /\ loading = "up" /\ jobs' = G!NoJobs /\ stale' = {} /\ UNCHANGED graph
    BY <1>2 DEF G!Stop, G!dfs
  <2>2. graph = G!NoJobs
    BY <2>1 DEF ConfigInv
  <2> QED BY <2>1, <2>2, CircleIs DEF J!Next, J!Stop
<1>3. CASE UNCHANGED G!vars
  BY <1>3 DEF G!vars, J!vars
<1>4. UNCHANGED <<graph, jobs, stale>> => UNCHANGED J!vars
  BY DEF J!vars
<1> QED
  BY <1>1, <1>2, <1>3, <1>4, LoadingStutters DEF G!Next

\* load_config and reload judge a table as a whole: what they accept, refuse and
\* put in force, through any search, imports and edits, is what JobTable does.
THEOREM LoadsImplementJobTable == G!Spec => ImplementsJobTable
<1>1. G!Init => J!Init
  BY CircleIs DEF G!Init, J!Init
<1> QED BY <1>1, ConfigHolds, StepImplements, PTL DEF ImplementsJobTable, J!Spec, G!Spec

-----------------------------------------------------------------------------
(* All of it: the state in which a part is left alone is one of its own.   *)

DataInv == TypeInv /\ StepsInv /\ ConfigInv /\ BreakerInv /\ SchemaInv

LEMMA IdleStepsIsOne == IdleSteps => TypeInv /\ StepsInv
<1> SUFFICES ASSUME IdleSteps PROVE TypeInv /\ StepsInv
  OBVIOUS
<1>1. /\ 1 \in Attempt /\ MaxAttempt \in Nat \ {0} /\ MaxCrashes \in Nat
      /\ Len(Body) \in Nat /\ Len(Body) >= 1
  BY StepsAssumption, BodyNotEmpty DEF Attempt
<1>2. Saved \in Value /\ Saved # Nothing
  BY <1>1 DEF Saved, Value, Shape, Nothing
<1>3. \A a \in Attempt : a # 1 => at[a] = "none" /\ row[a] = "absent" /\ pos[a] = 1
                                  /\ result[a] = Nothing
  BY DEF IdleSteps
<1>4. at[1] = "done" /\ row[1] = "succeeded" /\ pos[1] = Len(Body) + 1
      /\ result[1] = Nothing /\ got[1] = [i \in 1 .. Len(Body) |-> Saved]
  BY <1>1 DEF IdleSteps
<1>5. /\ table = [n \in Name |-> Saved] /\ ran = [n \in Name |-> {1}]
      /\ \A n \in Name : table[n] = Saved /\ ran[n] = {1}
  BY DEF IdleSteps
<1>6. TypeOK
  <2>1. /\ table \in [Name -> Value \cup {Nothing}] /\ ran \in [Name -> SUBSET Attempt]
    BY <1>1, <1>2, <1>5
  <2>2. /\ row \in [Attempt -> {"absent", "waiting", "running", "succeeded", "failed", "lost"}]
        /\ at \in [Attempt -> {"none", "lookup", "call", "record", "done", "dead"}]
        /\ pid \in SUBSET Attempt /\ policy \in [idempotent : BOOLEAN, retried : BOOLEAN]
        /\ up \in BOOLEAN
    BY <1>1 DEF IdleSteps
  <2>3. /\ pos \in [Attempt -> 1 .. Len(Body) + 1]
        /\ result \in [Attempt -> Value \cup {Nothing}]
    BY <1>1 DEF IdleSteps
  <2>4. got \in [Attempt -> [1 .. Len(Body) -> Value \cup {Nothing}]]
    BY <1>2 DEF IdleSteps
  <2>5. together \in SUBSET (Attempt \X Attempt) /\ crashes \in Nat
    BY <1>1 DEF IdleSteps
  <2> QED BY <2>1, <2>2, <2>3, <2>4, <2>5 DEF TypeOK
<1>7. \A a \in Attempt : /\ ~Alive(a) /\ at[a] \notin {"call", "record", "dead"}
                         /\ at[a] = "none" <=> a # 1
  BY <1>3, <1>4 DEF Alive
<1>8. Chain /\ Fresh /\ Position
  <2>1. \A a \in Attempt : row[a] \notin Pending \/ row[a] = "absent"
    BY <1>3, <1>4 DEF Pending
  <2>2. Chain
    <3> SUFFICES ASSUME NEW a \in Attempt, NEW b \in Attempt, a < b PROVE row[b] = "absent"
      BY DEF Chain
    <3>1. b # 1
      BY <1>1 DEF Attempt
    <3> QED BY <1>3, <3>1
  <2>3. Fresh
    BY <1>3, <1>4, <1>5, <1>7 DEF Fresh
  <2> QED BY <1>7, <2>2, <2>3 DEF Position
<1>9. Met /\ Computed /\ Kept /\ Allowed /\ Overtaken
  BY <1>2, <1>5, <1>7 DEF Met, Computed, Kept, Allowed, Overtaken
<1>10. ReplaysAgree
  <2> SUFFICES ASSUME NEW a \in Attempt, NEW i \in Past(a)
               PROVE  got[a][i] = table[Body[i]] /\ got[a][i] # Nothing
    BY DEF ReplaysAgree
  <2>1. a = 1
    BY <1>3 DEF Past
  <2>2. i \in 1 .. Len(Body)
    BY <1>1, <1>4, <2>1 DEF Past
  <2>3. Body[i] \in Name
    BY <2>2 DEF Name
  <2> QED BY <1>2, <1>4, <1>5, <2>1, <2>2, <2>3
<1>11. RerunsAreExplained
  BY <1>5 DEF RerunsAreExplained
<1> QED BY <1>6, <1>8, <1>9, <1>10, <1>11 DEF TypeInv, StepsInv

LEMMA IdleConfigIsOne == IdleConfig => ConfigInv
<1> SUFFICES ASSUME IdleConfig PROVE ConfigInv
  OBVIOUS
<1>1. Tables
  BY DataAssumption, EmptySearch DEF IdleConfig, Tables, G!ConfigAssumption
<1>2. Imports(graph, imported) /\ Imports(jobs, imported)
  BY EmptySearch DEF IdleConfig, Imports
<1> QED BY <1>1, <1>2, EmptySearch DEF IdleConfig, ConfigInv

LEMMA IdleBreakerIsOne == IdleBreaker => BreakerInv
<1> SUFFICES ASSUME IdleBreaker PROVE BreakerInv
  OBVIOUS
<1>1. leader \in Daemon /\ MaxRuns \in Nat /\ MaxResumes \in Nat /\ MaxFaults \in Nat
  BY DataAssumption DEF IdleBreaker, B!BreakerAssumption
<1>2. B!TypeOK
  <2>1. doing \in [Daemon -> [to : B!Clock, then : {"idle", "launch", "done"}]]
    BY ClockTypes DEF IdleBreaker, B!Idle
  <2>2. /\ seen \in [B!Process -> B!Clock] /\ clock \in B!Clock
        /\ running \in [Daemon -> Nat]
    BY ClockTypes DEF IdleBreaker
  <2> QED BY <1>1, <2>1, <2>2 DEF IdleBreaker, B!TypeOK
<1>3. Intent
  BY DEF IdleBreaker, Intent, B!Idle
<1>4. B!ResumeIsHeard /\ B!ResumeIsFresh
  BY DEF IdleBreaker, B!Blank, B!ResumeIsHeard, B!ResumeIsFresh
<1> QED BY <1>2, <1>3, <1>4 DEF BreakerInv

LEMMA IdleSchemaIsOne == IdleSchema => SchemaInv
<1> SUFFICES ASSUME IdleSchema PROVE SchemaInv
  OBVIOUS
<1>1. 0 \in 0 .. Version /\ Version # 0
  BY DataAssumption DEF D!SchemaAssumption
<1>2. D!TypeOK
  BY <1>1 DEF IdleSchema, D!TypeOK
<1>3. \A p \in Opener : Opening(p)
  BY DEF IdleSchema, Opening
<1> QED BY <1>1, <1>2, <1>3 DEF IdleSchema, SchemaInv

LEMMA DataHolds == DataSpec => []DataInv
<1>1. DataInit => DataInv
  BY IdleStepsIsOne, IdleConfigIsOne, IdleBreakerIsOne, IdleSchemaIsOne,
     TypesInit, InvInit, ConfigInit, BreakerInit, SchemaInit DEF DataInit, DataInv
<1>2. DataInv /\ [DataNext]_allVars => DataInv'
  <2> SUFFICES ASSUME DataInv, [DataNext]_allVars PROVE DataInv'
    OBVIOUS
  <2>1. /\ [Next]_vars /\ [G!Next]_G!vars /\ [B!Next]_B!vars /\ [D!Next]_D!vars
    BY DEF DataNext, allVars, gVars, bVars, dVars, G!vars, B!vars, D!vars
  <2>2. (TypeInv /\ StepsInv)'
    BY <2>1, TypesStep, InvStep DEF DataInv
  <2>3. ConfigInv'
    BY <2>1, ConfigStep DEF DataInv
  <2>4. BreakerInv'
    BY <2>1, BreakerStep DEF DataInv
  <2>5. SchemaInv'
    BY <2>1, SchemaStep DEF DataInv
  <2> QED BY <2>2, <2>3, <2>4, <2>5 DEF DataInv
<1> QED BY <1>1, <1>2, PTL DEF DataSpec

\* Every variable of the four parts keeps its type: the rows of `steps`, the job
\* table and the stack of the search, the job_clock row, the schema.
THEOREM DataTypesCorrect == DataSpec => []TypesOK
<1>1. DataInv => TypesOK
  BY ConfigTypes DEF DataInv, TypeInv, BreakerInv, SchemaInv, TypesOK
<1> QED BY <1>1, DataHolds, PTL
=============================================================================
