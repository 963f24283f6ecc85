------------------------------ MODULE Control ------------------------------
(***************************************************************************)
(* The control socket of control.py, how a daemon goes down (the contexts  *)
(* run() of scheduler.py nests around its TaskGroup), and `punctual stop`, *)
(* which asks a daemon to drain and polls the socket until nobody answers. *)
(* Daemons started with the same $XDG_RUNTIME_DIR share one socket path.   *)
(*                                                                         *)
(* The other commands of the socket are requests like the ping here; what  *)
(* `drain` and `trigger` do to the schedule is Scheduler's part.           *)
(***************************************************************************)
EXTENDS Naturals, FiniteSets

CONSTANTS Daemon,
          None,        \* no file at the socket path
          MaxRuns,     \* bound: runs each daemon launches
          MaxScrapes   \* bound: HTTP requests for the metrics

ASSUME ControlAssumption ==
    /\ None \notin Daemon
    /\ MaxRuns \in Nat /\ MaxScrapes \in Nat

VARIABLES
    life,      \* where each daemon stands
    stopping,  \* _stopping is set
    flight,    \* its runs in flight
    scraping,  \* an HTTP request is being served
    sending,   \* _inflight of notify.py: notices by the runs they are about
    awaited,   \* those that notify.drain() waits for
    path,      \* whose socket is at the path
    client,    \* where `punctual stop` stands
    asked,     \* the daemon it talks to
    \* history
    target,    \* the daemon that acknowledged the stop
    taken,     \* the daemons that lost the path to another one while they served
    cutoff,    \* the notices that were given up
    launched, scrapes

notices  == <<sending, awaited, cutoff>>
counters == <<launched, scrapes>>
vars     == <<life, stopping, flight, scraping, path, client, asked, target,
              taken, notices, counters>>

-----------------------------------------------------------------------------

\* A socket of a daemon in one of these is listened on.
Listening == {"up", "http"}

\* Everybody who has not called server.close() yet.
Serving(d) == life[d] \in Listening
Off(d) == life[d] \in {"gone", "crashed"}

Notice == Daemon \X (1 .. MaxRuns)
From(d) == {n \in sending : n[1] = d}

TypeOK ==
    /\ life \in [Daemon -> {"off", "bind", "up", "http", "close", "unlink",
                            "notify", "gone", "crashed"}]
    /\ stopping \in [Daemon -> BOOLEAN]
    /\ flight \in [Daemon -> Nat]
    /\ scraping \in SUBSET Daemon
    /\ path \in Daemon \cup {None}
    /\ client \in {"idle", "stop", "wait", "ping", "stopped", "no daemon", "late", "error"}
    /\ asked \in Daemon \cup {None}
    /\ target \in Daemon \cup {None}
    /\ taken \in SUBSET Daemon
    /\ sending \in SUBSET Notice /\ awaited \in SUBSET Notice
    /\ cutoff \in SUBSET Notice
    /\ launched \in [Daemon -> Nat]
    /\ scrapes \in Nat

Init ==
    /\ life = [d \in Daemon |-> "off"]
    /\ stopping = [d \in Daemon |-> FALSE]
    /\ flight = [d \in Daemon |-> 0]
    /\ scraping = {}
    /\ path = None
    /\ client = "idle" /\ asked = None /\ target = None
    /\ taken = {}
    /\ sending = {} /\ awaited = {} /\ cutoff = {}
    /\ launched = [d \in Daemon |-> 0] /\ scrapes = 0

-----------------------------------------------------------------------------
(* The path.                                                               *)

Goes(d, stage) == life' = [life EXCEPT ![d] = stage]

\* The file is gone; who served on it can no longer be reached.
Unlinked(by) ==
    /\ path' = None
    /\ taken' = IF path # None /\ path # by /\ Serving(path)
                  THEN taken \cup {path} ELSE taken

\* __aenter__: what is at the path is taken for "a stale socket from a crashed
\* daemon".
Start(d) ==
    /\ life[d] = "off"
    /\ Goes(d, "bind")
    /\ Unlinked(d)
    /\ UNCHANGED <<stopping, flight, scraping, client, asked, target, notices, counters>>

\* start_unix_server() removes a socket it finds at the path, too.
Bind(d) ==
    /\ life[d] = "bind"
    /\ Goes(d, "up")
    /\ path' = d
    /\ taken' = IF path # None /\ Serving(path) THEN taken \cup {path} ELSE taken
    /\ UNCHANGED <<stopping, flight, scraping, client, asked, target, notices, counters>>

-----------------------------------------------------------------------------
(* The life of a daemon.                                                   *)

Launch(d) ==
    /\ life[d] = "up" /\ ~stopping[d] /\ launched[d] < MaxRuns
    /\ flight' = [flight EXCEPT ![d] = @ + 1]
    /\ launched' = [launched EXCEPT ![d] = @ + 1]
    /\ UNCHANGED <<life, stopping, scraping, path, client, asked, target, taken, notices, scrapes>>

\* _update_health() may fire a notice about the run, in a task of its own.
RunEnds(d) ==
    /\ ~Off(d) /\ flight[d] > 0
    /\ flight' = [flight EXCEPT ![d] = @ - 1]
    /\ \/ UNCHANGED sending
       \/ sending' = sending \cup {<<d, launched[d] - flight[d] + 1>>}
    /\ UNCHANGED <<life, stopping, scraping, path, client, asked, target, taken,
                   awaited, cutoff, counters>>

\* send() is over: the sink took the notice, failed, or ran into its timeout.
Sent(n) ==
    /\ n \in sending /\ ~Off(n[1])
    /\ sending' = sending \ {n}
    /\ UNCHANGED <<life, stopping, flight, scraping, path, client, asked, target, taken,
                   awaited, cutoff, counters>>

\* A request to the metrics port; only its first line is waited for with a
\* timeout.
Scrape(d) ==
    /\ life[d] = "up" /\ d \notin scraping /\ scrapes < MaxScrapes
    /\ scraping' = scraping \cup {d}
    /\ scrapes' = scrapes + 1
    /\ UNCHANGED <<life, stopping, flight, path, client, asked, target, taken, notices, launched>>

ScrapeEnds(d) ==
    /\ d \in scraping
    /\ scraping' = scraping \ {d}
    /\ UNCHANGED <<life, stopping, flight, path, client, asked, target, taken, notices, counters>>

\* SIGTERM or `punctual drain`.
Drain(d) ==
    /\ life[d] \in {"bind", "up"} /\ ~stopping[d]
    /\ stopping' = [stopping EXCEPT ![d] = TRUE]
    /\ UNCHANGED <<life, flight, scraping, path, client, asked, target, taken, notices, counters>>

\* The TaskGroup has waited for its runs.
LeavesAtOnce(d) == stopping[d]               \* mutant: the runs are not awaited
Drained(d) == stopping[d] /\ flight[d] = 0

LeaveTaskGroup(d) ==
    /\ life[d] = "up" /\ Drained(d)
    /\ Goes(d, "http")
    /\ UNCHANGED <<stopping, flight, scraping, path, client, asked, target, taken, notices, counters>>

\* The metrics server is closed once its requests are done; then the control
\* server stops listening.
HttpClosed(d) ==
    /\ life[d] = "http" /\ d \notin scraping
    /\ Goes(d, "close")
    /\ UNCHANGED <<stopping, flight, scraping, path, client, asked, target, taken, notices, counters>>

\* wait_closed(): the connections that were accepted have been served.
ServedLate(d) == client \notin {"stop", "ping", "wait"}  \* mutant: kept open
Served(d) == ~(client \in {"stop", "ping"} /\ asked = d)

HandlersDone(d) ==
    /\ life[d] = "close" /\ Served(d)
    /\ Goes(d, "unlink")
    /\ UNCHANGED <<stopping, flight, scraping, path, client, asked, target, taken, notices, counters>>

\* Whoever's socket it is by now.  notify.drain() takes what is being sent then.
Unlink(d) ==
    /\ life[d] = "unlink"
    /\ Goes(d, "notify")
    /\ Unlinked(d)
    /\ awaited' = awaited \cup From(d)
    /\ UNCHANGED <<stopping, flight, scraping, client, asked, target, sending, cutoff,
                   counters>>

\* drain() has waited for the notices, or for its 10 s (a sink may take longer);
\* release_lease() and the end of the process, and of what it still sends.
Exit(d) ==
    /\ life[d] = "notify"
    /\ Goes(d, "gone")
    /\ cutoff' = cutoff \cup (awaited \cap From(d))
    /\ UNCHANGED <<stopping, flight, scraping, path, client, asked, target, taken,
                   sending, awaited, counters>>

\* The file stays behind.
Crash(d) ==
    /\ life[d] \notin {"off", "gone", "crashed"}
    /\ Goes(d, "crashed")
    /\ scraping' = scraping \ {d}
    /\ UNCHANGED <<stopping, flight, path, client, asked, target, taken, notices, counters>>

-----------------------------------------------------------------------------
(* `punctual stop` : request() once, then wait_until_gone().               *)

Reachable(d) == path = d /\ Serving(d)
NobodyInTime == TRUE                         \* mutant: a slow answer is none
Nobody == \A d \in Daemon : ~Reachable(d)

Connect(next) ==
    \E d \in Daemon :
        /\ Reachable(d)
        /\ asked' = d
        /\ client' = next
        /\ UNCHANGED <<life, stopping, flight, scraping, path, target, taken, notices, counters>>

Conclude(result) ==
    /\ client' = result /\ asked' = None
    /\ UNCHANGED <<life, flight, scraping, path, taken, notices, counters>>

AskStop == client = "idle" /\ Connect("stop")

NotRunning ==
    /\ client = "idle" /\ Nobody
    /\ Conclude("no daemon")
    /\ UNCHANGED <<stopping, target>>

\* _dispatch; the handler of a connection outlives server.close().
Answers(d) == life[d] \in Listening \cup {"close"}

StopHandled ==
    /\ client = "stop" /\ Answers(asked)
    /\ stopping' = [stopping EXCEPT ![asked] = TRUE]
    /\ target' = asked
    /\ Conclude("wait")

Ping == client = "wait" /\ Connect("ping")

Pong ==
    /\ client = "ping" /\ Answers(asked)
    /\ Conclude("wait")
    /\ UNCHANGED <<stopping, target>>

\* The connection was still in the backlog when the daemon stopped listening or
\* died, or the answer takes too long (the request may be served all the same):
\* an exception nobody catches.
Lost ==
    /\ client \in {"stop", "ping"}
    /\ Conclude("error")
    /\ \/ UNCHANGED stopping
       \/ /\ client = "stop" /\ Answers(asked)
          /\ stopping' = [stopping EXCEPT ![asked] = TRUE]
    /\ UNCHANGED target

Gone ==
    /\ client = "wait" /\ Nobody
    /\ Conclude("stopped")
    /\ UNCHANGED <<stopping, target>>

\* The timeout of 60 s.
GiveUp ==
    /\ client = "wait"
    /\ Conclude("late")
    /\ UNCHANGED <<stopping, target>>

-----------------------------------------------------------------------------

Down(d) == \/ Bind(d) \/ LeaveTaskGroup(d) \/ HttpClosed(d) \/ HandlersDone(d)
           \/ Unlink(d) \/ Exit(d)

Stop == \/ AskStop \/ NotRunning \/ StopHandled \/ Ping \/ Pong \/ Lost
        \/ Gone \/ GiveUp

Next == \/ \E d \in Daemon : \/ Start(d) \/ Launch(d) \/ RunEnds(d)
                             \/ Scrape(d) \/ ScrapeEnds(d) \/ Drain(d)
                             \/ Down(d) \/ Crash(d)
        \/ \E n \in Notice : Sent(n)
        \/ Stop

\* A daemon goes on, and handles what it has accepted; jobs end.  Nothing makes
\* a scraper send the rest of its request, or a client go on.
Answering == StopHandled \/ Pong \/ Lost
Fairness == /\ \A d \in Daemon : WF_vars(Down(d)) /\ WF_vars(RunEnds(d))
            /\ WF_vars(Answering)

Spec == Init /\ [][Next]_vars
FairSpec == Spec /\ Fairness

-----------------------------------------------------------------------------

\* "daemon stopped" (cli.py): the daemon that was told to stop has no run in
\* flight any more, unless it died, or another daemon took the path away from
\* under it.
StoppedMeansIdle ==
    client = "stopped" =>
        \/ flight[target] = 0 /\ ~Serving(target)
        \/ life[target] = "crashed"
        \/ target \in taken

\* A daemon that goes down leaves no notice behind that it did not wait for:
\* none is fired once notify.drain() has looked.
NoticesGoOut == \A n \in sending : life[n[1]] = "gone" => n \in cutoff

\* A daemon that is told to stop ends, if no scraper keeps its connection open.
StopEnds ==
    \A d \in Daemon :
        ([]<>(d \notin scraping)) => (stopping[d] ~> Off(d))
=============================================================================
