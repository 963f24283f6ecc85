--------------------------- MODULE ControlProofs ---------------------------
(***************************************************************************)
(* Theorems about Control: what `punctual stop` may conclude from a socket *)
(* nobody answers on, and that the notices are waited for, for any number  *)
(* of daemons that share a socket path.                                    *)
(***************************************************************************)
EXTENDS Control, TLAPS

-----------------------------------------------------------------------------
(* The inductive invariant.                                                *)

Life == {"off", "bind", "up", "http", "close", "unlink", "notify", "gone", "crashed"}

\* Started, and listening since.
Met(d) == life[d] \notin {"off", "bind"}

\* The daemons that are past their TaskGroup.
Leaving == {"http", "close", "unlink", "notify", "gone"}

\* No more runs in flight than were launched.
Counted == \A d \in Daemon : flight[d] <= launched[d] /\ launched[d] <= MaxRuns

\* Whoever listens is at the path, unless the path was taken from it.
AtPath == \A d \in Daemon : Serving(d) => path = d \/ d \in taken

\* A daemon leaves the TaskGroup once, with no run in flight.
LeftIdle == \A d \in Daemon : life[d] \in Leaving => flight[d] = 0

\* The client talks to a daemon that was up.
Talking ==
    /\ client \in {"stop", "ping"} => asked \in Daemon /\ Met(asked)
    /\ client \in {"wait", "ping", "stopped"} => target \in Daemon /\ Met(target)

\* notify.drain() waits for all that is being sent: no run is left to add to it.
Awaited == \A d \in Daemon : life[d] = "notify" => From(d) \subseteq awaited

Inv == /\ TypeOK /\ Counted /\ AtPath /\ LeftIdle /\ Talking /\ Awaited
       /\ StoppedMeansIdle /\ NoticesGoOut

-----------------------------------------------------------------------------
(* Type correctness.                                                       *)

\* The notices of the runs a daemon launches are all different.
LEMMA NoticeOfARun ==
    ASSUME TypeOK, Counted, NEW d \in Daemon, flight[d] > 0
    PROVE  <<d, launched[d] - flight[d] + 1>> \in Notice
<1>1. flight[d] \in Nat /\ launched[d] \in Nat /\ MaxRuns \in Nat
  BY ControlAssumption DEF TypeOK
<1>2. flight[d] <= launched[d] /\ launched[d] <= MaxRuns
  BY DEF Counted
<1>3. launched[d] - flight[d] + 1 \in 1 .. MaxRuns
  BY <1>1, <1>2
<1> QED
  BY <1>3 DEF Notice

LEMMA PathTypes ==
    ASSUME TypeOK, NEW d \in Daemon, Unlinked(d)
    PROVE  path' \in Daemon \cup {None} /\ taken' \in SUBSET Daemon
BY DEF TypeOK, Unlinked

LEMMA LaunchTypes ==
    ASSUME TypeOK, Counted, NEW d \in Daemon, Launch(d)
    PROVE  TypeOK' /\ Counted'
<1>1. flight[d] \in Nat /\ launched[d] \in Nat /\ MaxRuns \in Nat
  BY ControlAssumption DEF TypeOK
<1>2. flight[d] <= launched[d] /\ launched[d] < MaxRuns
  BY DEF Counted, Launch
<1>3. /\ flight[d] + 1 \in Nat /\ launched[d] + 1 \in Nat
      /\ flight[d] + 1 <= launched[d] + 1 /\ launched[d] + 1 <= MaxRuns
  BY <1>1, <1>2
<1>4. /\ flight' = [flight EXCEPT ![d] = flight[d] + 1]
      /\ launched' = [launched EXCEPT ![d] = launched[d] + 1]
  BY DEF Launch
<1>5. flight' \in [Daemon -> Nat] /\ launched' \in [Daemon -> Nat]
  BY <1>3, <1>4 DEF TypeOK
<1>6. Counted'
  BY <1>3, <1>4 DEF TypeOK, Counted
<1> QED
  BY <1>5, <1>6 DEF Launch, notices, TypeOK

LEMMA RunEndsTypes ==
    ASSUME TypeOK, Counted, NEW d \in Daemon, RunEnds(d)
    PROVE  TypeOK' /\ Counted'
<1>1. flight[d] \in Nat /\ launched[d] \in Nat
  BY DEF TypeOK
<1>2. flight[d] > 0
  BY DEF RunEnds
<1>3. flight[d] - 1 \in Nat /\ (flight[d] <= launched[d] => flight[d] - 1 <= launched[d])
  BY <1>1, <1>2
<1>4. flight' = [flight EXCEPT ![d] = flight[d] - 1] /\ UNCHANGED launched
  BY DEF RunEnds, counters
<1>5. flight' \in [Daemon -> Nat]
  BY <1>3, <1>4 DEF TypeOK
<1>6. Counted'
  BY <1>3, <1>4 DEF TypeOK, Counted
<1>7. sending' = sending \/ sending' = sending \cup {<<d, launched[d] - flight[d] + 1>>}
  BY DEF RunEnds
<1>8. sending' \in SUBSET Notice
  <2>1. <<d, launched[d] - flight[d] + 1>> \in Notice
    BY <1>2, NoticeOfARun
  <2>2. sending \in SUBSET Notice
    BY DEF TypeOK
  <2> QED
    BY <1>7, <2>1, <2>2
<1> QED
  BY <1>5, <1>6, <1>8 DEF RunEnds, counters, TypeOK

LEMMA ScrapeTypes ==
    ASSUME TypeOK, Counted, NEW d \in Daemon, Scrape(d)
    PROVE  TypeOK' /\ Counted'
<1>1. scrapes \in Nat
  BY DEF TypeOK
<1>2. scrapes' \in Nat
  BY <1>1 DEF Scrape
<1> QED
  BY <1>2 DEF Scrape, notices, TypeOK, Counted

LEMMA DaemonTypes ==
    ASSUME TypeOK, Counted, NEW d \in Daemon,
           Start(d) \/ Launch(d) \/ RunEnds(d) \/ Scrape(d) \/ ScrapeEnds(d)
               \/ Drain(d) \/ Down(d) \/ Crash(d)
    PROVE  TypeOK' /\ Counted'
<1> USE DEF TypeOK, Counted, Goes, notices, counters
<1>1. CASE Start(d)
  BY <1>1, PathTypes DEF Start
<1>2. CASE Launch(d)
  BY <1>2, LaunchTypes
<1>3. CASE RunEnds(d)
  BY <1>3, RunEndsTypes
<1>4. CASE Scrape(d)
  BY <1>4, ScrapeTypes
<1>5. CASE ScrapeEnds(d)
  BY <1>5 DEF ScrapeEnds
<1>6. CASE Drain(d)
  BY <1>6 DEF Drain
<1>7. CASE Bind(d)
  BY <1>7 DEF Bind
<1>8. CASE LeaveTaskGroup(d)
  BY <1>8 DEF LeaveTaskGroup
<1>9. CASE HttpClosed(d)
  BY <1>9 DEF HttpClosed
<1>10. CASE HandlersDone(d)
  BY <1>10 DEF HandlersDone
<1>11. CASE Unlink(d)
  BY <1>11, PathTypes DEF Unlink, From
<1>12. CASE Exit(d)
  BY <1>12 DEF Exit, From
<1>13. CASE Crash(d)
  BY <1>13 DEF Crash
<1> QED
  BY <1>1, <1>2, <1>3, <1>4, <1>5, <1>6, <1>7, <1>8, <1>9, <1>10, <1>11, <1>12, <1>13
     DEF Down

LEMMA StopTypes ==
    ASSUME TypeOK, Counted, Talking, Stop
    PROVE  TypeOK' /\ Counted'
<1> USE DEF TypeOK, Counted, notices, counters, Conclude, Connect
<1>1. CASE AskStop
  BY <1>1 DEF AskStop
<1>2. CASE NotRunning
  BY <1>2 DEF NotRunning
<1>3. CASE StopHandled
  BY <1>3 DEF StopHandled, Talking
<1>4. CASE Ping
  BY <1>4 DEF Ping
<1>5. CASE Pong
  BY <1>5 DEF Pong
<1>6. CASE Lost
  BY <1>6 DEF Lost, Talking
<1>7. CASE Gone
  BY <1>7 DEF Gone
<1>8. CASE GiveUp
  BY <1>8 DEF GiveUp
<1> QED
  BY <1>1, <1>2, <1>3, <1>4, <1>5, <1>6, <1>7, <1>8 DEF Stop

-----------------------------------------------------------------------------
(* The path, the client and the notices.                                   *)

\* Whoever removes or replaces the file takes the path from its owner.
LEMMA TakenWhenUnlinked ==
    ASSUME AtPath, NEW d \in Daemon, Unlinked(d),
           \A c \in Daemon : Serving(c)' => Serving(c), ~Serving(d)
    PROVE  AtPath' /\ taken \subseteq taken'
BY DEF AtPath, Unlinked, Serving

\* What a daemon does while the path, the client and the notices stay as they
\* are: it starts nothing anew, and counts its runs right.
Quiet == UNCHANGED <<path, client, asked, target, taken, notices>>

LEMMA QuietKeeps ==
    ASSUME Inv, Quiet,
           \A c \in Daemon : Serving(c)' => Serving(c),
           \A c \in Daemon : Met(c) => Met(c)',
           \A c \in Daemon : life'[c] \in Leaving =>
               /\ flight'[c] = 0
               /\ life'[c] \in {"notify", "gone"} => life'[c] = life[c],
           \A c \in Daemon : life[c] = "crashed" => life'[c] = "crashed",
           \A c \in Daemon : flight[c] = 0 /\ Met(c) /\ ~Serving(c) => flight'[c] = 0
    PROVE  AtPath' /\ LeftIdle' /\ Talking' /\ Awaited' /\ StoppedMeansIdle' /\ NoticesGoOut'
<1> USE DEF Quiet, notices
<1>1. AtPath' /\ LeftIdle' /\ Talking'
  BY DEF Inv, AtPath, LeftIdle, Talking
<1>2. Awaited'
  BY DEF Inv, Awaited, From, Leaving
<1>3. StoppedMeansIdle'
  BY DEF Inv, StoppedMeansIdle, Talking, Serving
<1>4. NoticesGoOut'
  BY DEF Inv, NoticesGoOut, TypeOK, Notice, Leaving
<1> QED
  BY <1>1, <1>2, <1>3, <1>4

Rest == AtPath' /\ LeftIdle' /\ Talking' /\ Awaited' /\ StoppedMeansIdle' /\ NoticesGoOut'

LEMMA QuietActions ==
    ASSUME Inv, NEW d \in Daemon,
           Launch(d) \/ Scrape(d) \/ ScrapeEnds(d) \/ Drain(d) \/ Crash(d)
               \/ LeaveTaskGroup(d) \/ HttpClosed(d) \/ HandlersDone(d)
    PROVE  Rest
<1> USE DEF Quiet, Goes, Serving, Listening, Met, Leaving
<1>1. TypeOK /\ LeftIdle
  BY DEF Inv
<1>2. CASE Launch(d)
  BY <1>1, <1>2, QuietKeeps DEF Launch, TypeOK, LeftIdle, Rest
<1>3. CASE Scrape(d) \/ ScrapeEnds(d)
  BY <1>1, <1>3, QuietKeeps DEF Scrape, ScrapeEnds, counters, LeftIdle, Rest
<1>4. CASE Drain(d)
  BY <1>1, <1>4, QuietKeeps DEF Drain, LeftIdle, Rest
<1>5. CASE Crash(d)
  BY <1>1, <1>5, QuietKeeps DEF Crash, TypeOK, LeftIdle, Rest
<1>6. CASE LeaveTaskGroup(d)
  BY <1>1, <1>6, QuietKeeps DEF LeaveTaskGroup, Drained, TypeOK, LeftIdle, Rest
<1>7. CASE HttpClosed(d)
  BY <1>1, <1>7, QuietKeeps DEF HttpClosed, TypeOK, LeftIdle, Rest
<1>8. CASE HandlersDone(d)
  BY <1>1, <1>8, QuietKeeps DEF HandlersDone, TypeOK, LeftIdle, Rest
<1> QED
  BY <1>2, <1>3, <1>4, <1>5, <1>6, <1>7, <1>8

LEMMA StartKeeps ==
    ASSUME Inv, NEW d \in Daemon, Start(d)
    PROVE  Rest
<1> USE DEF Inv, Start, Goes, Serving, Listening, Met, Leaving
<1>1. AtPath' /\ taken \subseteq taken'
  BY TakenWhenUnlinked DEF TypeOK
<1>2. LeftIdle' /\ Talking' /\ StoppedMeansIdle'
  BY <1>1 DEF LeftIdle, Talking, StoppedMeansIdle, TypeOK
<1>3. Awaited' /\ NoticesGoOut'
  BY DEF Awaited, From, NoticesGoOut, Notice, notices, TypeOK
<1> QED
  BY <1>1, <1>2, <1>3 DEF Rest

LEMMA BindKeeps ==
    ASSUME Inv, NEW d \in Daemon, Bind(d)
    PROVE  Rest
<1> USE DEF Inv, Bind, Goes, Serving, Listening, Met, Leaving
<1>1. AtPath' /\ taken \subseteq taken'
  BY ControlAssumption DEF AtPath, TypeOK
<1>2. LeftIdle' /\ Talking' /\ StoppedMeansIdle'
  BY <1>1 DEF LeftIdle, Talking, StoppedMeansIdle, TypeOK
<1>3. Awaited' /\ NoticesGoOut'
  BY DEF Awaited, From, NoticesGoOut, Notice, notices, TypeOK
<1> QED
  BY <1>1, <1>2, <1>3 DEF Rest

LEMMA UnlinkKeeps ==
    ASSUME Inv, NEW d \in Daemon, Unlink(d)
    PROVE  Rest
<1> USE DEF Inv, Unlink, Goes, Serving, Listening, Met, Leaving
<1>1. AtPath' /\ taken \subseteq taken'
  BY TakenWhenUnlinked DEF TypeOK
<1>2. LeftIdle' /\ Talking' /\ StoppedMeansIdle'
  BY <1>1 DEF LeftIdle, Talking, StoppedMeansIdle, TypeOK
<1>3. Awaited'
  BY DEF Awaited, From, TypeOK
<1>4. NoticesGoOut'
  BY DEF NoticesGoOut, Notice, TypeOK
<1> QED
  BY <1>1, <1>2, <1>3, <1>4 DEF Rest

\* What is still being sent has been waited for.
LEMMA ExitKeeps ==
    ASSUME Inv, NEW d \in Daemon, Exit(d)
    PROVE  Rest
<1> USE DEF Inv, Exit, Goes, Serving, Listening, Met, Leaving
<1>1. AtPath' /\ LeftIdle' /\ Talking' /\ StoppedMeansIdle'
  BY DEF AtPath, LeftIdle, Talking, StoppedMeansIdle, TypeOK
<1>2. Awaited'
  BY DEF Awaited, From, TypeOK
<1>3. From(d) \subseteq cutoff' /\ cutoff \subseteq cutoff'
  BY DEF Awaited
<1>4. NoticesGoOut'
  BY <1>3 DEF NoticesGoOut, From, Notice, TypeOK
<1> QED
  BY <1>1, <1>2, <1>4 DEF Rest

\* A run that ends belongs to a daemon that is still in its TaskGroup.
LEMMA RunEndsKeeps ==
    ASSUME Inv, NEW d \in Daemon, RunEnds(d)
    PROVE  Rest
<1>1. /\ flight[d] > 0 /\ life[d] \notin Leaving
      /\ life[d] \notin {"notify", "gone"}
  <2>1. flight[d] > 0
    BY DEF RunEnds
  <2>2. flight[d] # 0
    BY <2>1
  <2> QED
    BY <2>1, <2>2 DEF Inv, LeftIdle, Leaving
<1>2. flight' = [flight EXCEPT ![d] = flight[d] - 1]
      /\ UNCHANGED <<life, path, client, asked, target, taken, awaited, cutoff>>
  BY DEF RunEnds
<1>3. AtPath' /\ LeftIdle' /\ Talking'
  BY <1>1, <1>2 DEF Inv, AtPath, LeftIdle, Talking, TypeOK, Serving, Met
<1>4. StoppedMeansIdle'
  BY <1>1, <1>2 DEF Inv, StoppedMeansIdle, Talking, TypeOK, Serving, Met
<1>5. \A n \in sending' : n \in sending \/ n[1] = d
  BY DEF RunEnds
<1>6. Awaited'
  BY <1>1, <1>2, <1>5 DEF Inv, Awaited, From
<1>7. NoticesGoOut'
  BY <1>1, <1>2, <1>5 DEF Inv, NoticesGoOut
<1> QED
  BY <1>3, <1>4, <1>6, <1>7 DEF Rest

LEMMA SentKeeps ==
    ASSUME Inv, NEW n \in Notice, Sent(n)
    PROVE  Rest
<1> USE DEF Inv, Sent, Serving, Met, counters
<1>1. AtPath' /\ LeftIdle' /\ Talking' /\ StoppedMeansIdle'
  BY DEF AtPath, LeftIdle, Talking, StoppedMeansIdle
<1>2. Awaited' /\ NoticesGoOut'
  BY DEF Awaited, From, NoticesGoOut
<1> QED
  BY <1>1, <1>2 DEF Rest

\* `punctual stop` concludes from a path nobody answers at: the daemon it talked
\* to has stopped listening, or lost the path.
LEMMA StopKeeps ==
    ASSUME Inv, Stop
    PROVE  Rest
<1> USE DEF Inv, Conclude, Connect, Talking, TypeOK
<1>1. UNCHANGED <<life, flight, path, taken, sending, awaited, cutoff>>
  BY DEF Stop, AskStop, NotRunning, StopHandled, Ping, Pong, Lost, Gone, GiveUp, notices
<1>2. AtPath' /\ LeftIdle' /\ Awaited' /\ NoticesGoOut'
  BY <1>1 DEF AtPath, LeftIdle, Awaited, From, NoticesGoOut, Serving
<1>3. ASSUME NEW d \in Daemon, Reachable(d)
      PROVE  Met(d)
  BY <1>3 DEF Reachable, Serving, Listening, Met
<1>4. Talking'
  BY <1>1, <1>3 DEF Stop, AskStop, NotRunning, StopHandled, Ping, Pong, Lost, Gone,
                    GiveUp, Met
<1>5. StoppedMeansIdle'
  <2>1. CASE Gone
    <3>1. target \in Daemon /\ Met(target) /\ UNCHANGED target
      BY <2>1 DEF Gone
    <3>2. CASE Serving(target)
      BY <1>1, <2>1, <3>1, <3>2 DEF Gone, Nobody, Reachable, AtPath, StoppedMeansIdle
    <3>3. CASE ~Serving(target)
      BY <1>1, <3>1, <3>3 DEF Serving, Listening, Met, LeftIdle, Leaving, StoppedMeansIdle
    <3> QED
      BY <3>2, <3>3
  <2>2. CASE ~Gone
    BY <2>2 DEF Stop, AskStop, NotRunning, StopHandled, Ping, Pong, Lost, GiveUp,
                StoppedMeansIdle
  <2> QED
    BY <2>1, <2>2
<1> QED
  BY <1>2, <1>4, <1>5 DEF Rest

-----------------------------------------------------------------------------

LEMMA InvInit == Init => Inv
<1> SUFFICES ASSUME Init PROVE Inv
  OBVIOUS
<1>1. TypeOK
  BY DEF Init, TypeOK
<1>2. Counted
  BY ControlAssumption DEF Init, Counted
<1>3. AtPath /\ LeftIdle /\ Talking /\ Awaited /\ StoppedMeansIdle /\ NoticesGoOut
  BY DEF Init, AtPath, Serving, Listening, LeftIdle, Leaving, Talking, Awaited,
         StoppedMeansIdle, NoticesGoOut
<1> QED
  BY <1>1, <1>2, <1>3 DEF Inv

LEMMA InvStep == Inv /\ [Next]_vars => Inv'
<1> SUFFICES ASSUME Inv, [Next]_vars
             PROVE  Inv'
  OBVIOUS
<1>1. CASE UNCHANGED vars
  <2>1. TypeOK' /\ Counted'
    BY <1>1 DEF Inv, TypeOK, Counted, vars, notices, counters
  <2>2. Rest
    BY <1>1 DEF Inv, Rest, vars, notices, AtPath, LeftIdle, Talking, Awaited, From,
                StoppedMeansIdle, NoticesGoOut, Serving, Met
  <2> QED
    BY <2>1, <2>2 DEF Inv, Rest
<1>2. ASSUME NEW n \in Notice, Sent(n)
      PROVE  Inv'
  <2>1. TypeOK' /\ Counted'
    BY <1>2 DEF Inv, TypeOK, Counted, Sent, counters
  <2> QED
    BY <1>2, <2>1, SentKeeps DEF Inv, Rest
<1>3. CASE Stop
  BY <1>3, StopTypes, StopKeeps DEF Inv, Rest
<1>4. ASSUME NEW d \in Daemon,
             Start(d) \/ Launch(d) \/ RunEnds(d) \/ Scrape(d) \/ ScrapeEnds(d)
                 \/ Drain(d) \/ Down(d) \/ Crash(d)
      PROVE  Inv'
  <2>1. TypeOK' /\ Counted'
    BY <1>4, DaemonTypes DEF Inv
  <2>2. Rest
    BY <1>4, QuietActions, StartKeeps, BindKeeps, UnlinkKeeps, ExitKeeps, RunEndsKeeps
       DEF Down
  <2> QED
    BY <2>1, <2>2 DEF Inv, Rest
<1> QED
  BY <1>1, <1>2, <1>3, <1>4 DEF Next

LEMMA InvHolds == Spec => []Inv
<1> QED
  BY InvInit, InvStep, PTL DEF Spec

\* "daemon stopped", for any number of daemons on the path: the one that was told
\* to stop has no run in flight, unless it died or lost the path to another.
THEOREM StoppedMeansIdleCorrect == Spec => []StoppedMeansIdle
<1>1. Inv => StoppedMeansIdle
  BY DEF Inv
<1> QED
  BY <1>1, InvHolds, PTL

\* A daemon that has gone has waited for every notice it was sending, or for the
\* time drain() gives them: no run is left to fire one after that.
THEOREM NoticesGoOutCorrect == Spec => []NoticesGoOut
<1>1. Inv => NoticesGoOut
  BY DEF Inv
<1> QED
  BY <1>1, InvHolds, PTL
=============================================================================
