------------------------------ MODULE Cluster ------------------------------
(***************************************************************************)
(* Several punctual daemons on one store (run --cluster): the scheduler    *)
(* lease of store.py, the loop of Scheduler.run that contends for it, leads *)
(* and steps down, and what a change of leader does to the rows of the     *)
(* runs table that the former leader still has in flight.                  *)
(*                                                                         *)
(* Each daemon is one asyncio thread, but the daemons run concurrently:    *)
(* every statement on the store is a step of its own.  A row stands for    *)
(* one attempt of one fire; which attempts there are is Scheduler's part,  *)
(* so are the steps between CLAIMED and the child's pid (here: Start).     *)
(*                                                                         *)
(* Time is kept as what is left of it, in seconds: of the lease, and of    *)
(* the delay a daemon may take before its next step.                       *)
(***************************************************************************)
EXTENDS Naturals, Integers

CONSTANTS Daemon,     \* the instance ids, host:pid
          NoDaemon,   \* the lease has no row
          Fire,       \* the attempts that come up
          TTL,        \* _LEASE_TTL
          Renew,      \* _LEASE_RENEW
          Stall,      \* bound: how long a daemon takes over one pass
          MaxAhead,   \* bound: how far apart the clocks of the hosts are
          MaxFaults   \* bound: crashes, drains, suspensions, store errors

\* No pass of the loop lasts as long as the lease, by whichever clock.
ASSUME LeaseAssumption ==
    /\ TTL \in Nat /\ Renew \in Nat /\ Stall \in Nat
    /\ MaxAhead \in Nat /\ MaxFaults \in Nat
    /\ Stall + MaxAhead <= TTL
    /\ NoDaemon \notin Daemon

VARIABLES
    lease,     \* the leases row: holder, fence, and what is left until expiry
    row,       \* the state of each row of the runs table
    ahead,     \* how far the clock of each daemon's host is ahead
    missed,    \* the fires that are catch-up's to claim, not the tick loop's
    pc,        \* where the main coroutine of each daemon stands
    slack,     \* how long it may still stand there
    fence,     \* _fence
    stopping,  \* _stopping
    todo,      \* the open rows recovery has read and not visited, as read
    seq,       \* the fires left to the daemon's catch-up sequences
    queued,    \* _execute_run tasks of each row that have not started
    running,   \* and those that have
    \* history
    starts,    \* how often an attempt was started
    displaced, \* the lease was taken from a daemon with work in flight
    faults

table  == <<row, starts>>
work   == <<todo, seq, queued, running>>
given  == <<ahead, missed>>
vars   == <<lease, row, ahead, missed, pc, slack, fence, stopping, todo, seq,
            queued, running, starts, displaced, faults>>

-----------------------------------------------------------------------------

\* Standing in for the seconds of a coroutine nobody waits for.
NoLimit == -1

Free == [holder |-> NoDaemon, fence |-> 0, left |-> 0]

RowState == {"absent", "claimed", "running", "over", "lost"}

Stage == {"down", "contend", "standby", "elected", "recover", "renew", "tick",
          "sleep", "drain"}

\* Recovering or in a pass: what only the leader may do.
Scheduling(d) == pc[d] \in {"elected", "recover", "tick"}
Yielding(d) == pc[d] \in {"sleep", "standby", "drain"}
Up(d) == pc[d] # "down"

InFlight(d) == seq[d] # {} \/ \E f \in Fire : queued[d][f] + running[d][f] > 0

TypeOK ==
    /\ lease \in [holder : Daemon \cup {NoDaemon}, fence : Nat, left : Int]
    /\ row \in [Fire -> RowState]
    /\ ahead \in [Daemon -> 0 .. MaxAhead]
    /\ missed \in SUBSET Fire
    /\ pc \in [Daemon -> Stage]
    /\ slack \in [Daemon -> Nat \cup {NoLimit}]
    /\ fence \in [Daemon -> Nat]
    /\ stopping \in [Daemon -> BOOLEAN]
    /\ todo \in [Daemon -> [Fire -> {"absent", "claimed", "running"}]]
    /\ seq \in [Daemon -> SUBSET Fire]
    /\ queued \in [Daemon -> [Fire -> Nat]]
    /\ running \in [Daemon -> [Fire -> Nat]]
    /\ starts \in [Fire -> Nat]
    /\ displaced \in BOOLEAN
    /\ faults \in Nat

NoRows == [f \in Fire |-> "absent"]
NoTasks == [f \in Fire |-> 0]

Init ==
    /\ lease = Free
    /\ row = NoRows
    /\ ahead \in [Daemon -> 0 .. MaxAhead]
    /\ missed \in SUBSET Fire
    /\ pc = [d \in Daemon |-> "down"]
    /\ slack = [d \in Daemon |-> NoLimit]
    /\ fence = [d \in Daemon |-> 0]
    /\ stopping = [d \in Daemon |-> FALSE]
    /\ todo = [d \in Daemon |-> NoRows]
    /\ seq = [d \in Daemon |-> {}]
    /\ queued = [d \in Daemon |-> NoTasks]
    /\ running = [d \in Daemon |-> NoTasks]
    /\ starts = NoTasks
    /\ displaced = FALSE
    /\ faults = 0

Enter(d, stage, limit) == /\ pc' = [pc EXCEPT ![d] = stage]
                          /\ slack' = [slack EXCEPT ![d] = limit]

-----------------------------------------------------------------------------
(* Contending for the lease (run, _become_leader, acquire_lease).          *)

Boot(d) ==
    /\ pc[d] = "down"
    /\ Enter(d, "contend", Stall)
    /\ UNCHANGED <<lease, table, given, fence, stopping, work, displaced, faults>>

\* Mutant: an expired lease is not free.
WonFree(d) == lease.holder \in {NoDaemon, d}
\* The WHERE of acquire_lease, and the INSERT where there is no row.
Won(d) == \/ lease.holder = NoDaemon
          \/ lease.left < ahead[d]
          \/ lease.holder = d

Held(d, n) == [holder |-> d, fence |-> n, left |-> TTL + ahead[d]]

Take(d) ==
    /\ pc[d] = "contend" /\ Won(d)
    /\ lease' = Held(d, lease.fence + 1)
    /\ fence' = [fence EXCEPT ![d] = lease.fence + 1]
    /\ Enter(d, "elected", Stall)
    /\ displaced' = (displaced \/ \E e \in Daemon : e = lease.holder /\ InFlight(e))
    /\ UNCHANGED <<table, given, stopping, work, faults>>

Lose(d) ==
    /\ pc[d] = "contend" /\ ~Won(d)
    /\ Enter(d, "standby", Renew)
    /\ UNCHANGED <<lease, table, given, fence, stopping, work, displaced, faults>>

\* The store raises: a contender sleeps and retries, a leader steps down.
StoreFails(d) ==
    /\ faults < MaxFaults
    /\ \/ pc[d] = "contend" /\ Enter(d, "standby", Renew)
       \/ pc[d] = "renew" /\ Enter(d, "contend", Stall)
    /\ faults' = faults + 1
    /\ UNCHANGED <<lease, table, given, fence, stopping, work, displaced>>

-----------------------------------------------------------------------------
(* Leading (_lead, _recover).                                              *)

OpenClaims == {"claimed"}                   \* mutant: RUNNING rows left out
Open == {"claimed", "running"}

OpenRuns(d) ==
    /\ pc[d] = "elected"
    /\ todo' = [todo EXCEPT ![d] =
                   [f \in Fire |-> IF row[f] \in Open THEN row[f] ELSE "absent"]]
    /\ pc' = [pc EXCEPT ![d] = "recover"]
    /\ UNCHANGED <<lease, table, given, slack, fence, stopping, seq, queued, running,
                   displaced, faults>>

\* One row of the loop, acted on as it was read: a CLAIMED row is launched.
RecoverClaimed(d, f) ==
    /\ pc[d] = "recover" /\ todo[d][f] = "claimed"
    /\ queued' = [queued EXCEPT ![d][f] = @ + 1]
    /\ todo' = [todo EXCEPT ![d][f] = "absent"]
    /\ UNCHANGED <<lease, table, given, pc, slack, fence, stopping, seq, running,
                   displaced, faults>>

\* A RUNNING row takes the outcome of a sentinel, if its process is over and
\* has left one here, and is LOST otherwise.  mark() asks nothing of the row.
RecoverRunning(d, f) ==
    /\ pc[d] = "recover" /\ todo[d][f] = "running"
    /\ \/ row' = [row EXCEPT ![f] = "lost"]
       \/ /\ \A e \in Daemon : running[e][f] = 0
          /\ row' = [row EXCEPT ![f] = "over"]
    /\ todo' = [todo EXCEPT ![d][f] = "absent"]
    /\ UNCHANGED <<lease, given, pc, slack, fence, stopping, seq, queued, running,
                   starts, displaced, faults>>

\* _plan_catch_up, and the tasks that run the sequences.
RecoverDone(d) ==
    /\ pc[d] = "recover" /\ todo[d] = NoRows
    /\ seq' = [seq EXCEPT ![d] = @ \cup {f \in missed : row[f] = "absent"}]
    /\ Enter(d, "renew", Stall)
    /\ UNCHANGED <<lease, table, given, fence, stopping, todo, queued, running,
                   displaced, faults>>

RenewBlind(d) == TRUE                       \* mutant: WHERE resource=? only
Renewable(d) == lease.holder = d /\ lease.fence = fence[d]

RenewLease(d) ==
    /\ pc[d] = "renew" /\ Renewable(d)
    /\ lease' = Held(d, fence[d])
    /\ Enter(d, "tick", Stall)
    /\ UNCHANGED <<table, given, fence, stopping, work, displaced, faults>>

StepDown(d) ==
    /\ pc[d] = "renew" /\ ~Renewable(d)
    /\ Enter(d, "contend", Stall)
    /\ UNCHANGED <<lease, table, given, fence, stopping, work, displaced, faults>>

\* claim(), by which coroutine ever.
ClaimRow(d, f) ==
    IF row[f] = "absent"
      THEN /\ row' = [row EXCEPT ![f] = "claimed"]
           /\ queued' = [queued EXCEPT ![d][f] = @ + 1]
      ELSE UNCHANGED <<row, queued>>

Dispatch(d, f) ==
    /\ pc[d] = "tick" /\ f \notin missed
    /\ row[f] = "absent"
    /\ ClaimRow(d, f)
    /\ UNCHANGED <<lease, given, pc, slack, fence, stopping, todo, seq, running,
                   starts, displaced, faults>>

Sleep(d) ==
    /\ pc[d] = "tick"
    /\ Enter(d, "sleep", Renew)
    /\ UNCHANGED <<lease, table, given, fence, stopping, work, displaced, faults>>

\* _sleep returns, by its timeout or by _wake.
Wake(d) ==
    /\ pc[d] \in {"sleep", "standby"}
    /\ IF stopping[d] THEN Enter(d, "drain", NoLimit)
       ELSE Enter(d, IF pc[d] = "sleep" THEN "renew" ELSE "contend", Stall)
    /\ UNCHANGED <<lease, table, given, fence, stopping, work, displaced, faults>>

-----------------------------------------------------------------------------
(* The other coroutines; they know nothing of the lease.                   *)

StartUnrecorded(f) == row            \* mutant: RUNNING is not stored first
MarkRunning(f) == [row EXCEPT ![f] = "running"]

Start(d, f) ==
    /\ Yielding(d) /\ queued[d][f] > 0
    /\ queued' = [queued EXCEPT ![d][f] = @ - 1]
    /\ running' = [running EXCEPT ![d][f] = @ + 1]
    /\ row' = MarkRunning(f)
    /\ starts' = [starts EXCEPT ![f] = @ + 1]
    /\ UNCHANGED <<lease, given, pc, slack, fence, stopping, todo, seq, displaced,
                   faults>>

Finish(d, f) ==
    /\ Yielding(d) /\ running[d][f] > 0
    /\ running' = [running EXCEPT ![d][f] = @ - 1]
    /\ row' = [row EXCEPT ![f] = "over"]
    /\ UNCHANGED <<lease, given, pc, slack, fence, stopping, todo, seq, queued, starts,
                   displaced, faults>>

\* A turn of _run_sequence.
SequenceNext(d, f) ==
    /\ Yielding(d) /\ f \in seq[d]
    /\ seq' = [seq EXCEPT ![d] = IF stopping[d] THEN {} ELSE @ \ {f}]
    /\ IF stopping[d] THEN UNCHANGED <<row, queued>> ELSE ClaimRow(d, f)
    /\ UNCHANGED <<lease, given, pc, slack, fence, stopping, todo, running, starts,
                   displaced, faults>>

-----------------------------------------------------------------------------
(* Drains, crashes, suspended hosts, and time.                             *)

RequestDrain(d) ==
    /\ pc[d] \in {"sleep", "standby"} /\ ~stopping[d]
    /\ faults < MaxFaults
    /\ stopping' = [stopping EXCEPT ![d] = TRUE]
    /\ faults' = faults + 1
    /\ UNCHANGED <<lease, table, given, pc, slack, fence, work, displaced>>

Forget(d) ==
    /\ Enter(d, "down", NoLimit)
    /\ fence' = [fence EXCEPT ![d] = 0]
    /\ stopping' = [stopping EXCEPT ![d] = FALSE]
    /\ todo' = [todo EXCEPT ![d] = NoRows]
    /\ seq' = [seq EXCEPT ![d] = {}]
    /\ queued' = [queued EXCEPT ![d] = NoTasks]
    /\ running' = [running EXCEPT ![d] = NoTasks]

\* release_lease deletes the row, if it is ours.
Release(d) == IF lease.holder = d THEN Free ELSE lease

\* The TaskGroup has emptied: run() returns through its finally, which
\* suppresses what release_lease may raise.
Stop(d) ==
    /\ pc[d] = "drain" /\ ~InFlight(d)
    /\ \/ lease' = Release(d) /\ UNCHANGED faults
       \/ faults < MaxFaults /\ faults' = faults + 1 /\ UNCHANGED lease
    /\ Forget(d)
    /\ UNCHANGED <<table, given, displaced>>

Crash(d) ==
    /\ Up(d) /\ faults < MaxFaults
    /\ faults' = faults + 1
    /\ Forget(d)
    /\ UNCHANGED <<lease, table, given, displaced>>

\* The host is suspended, or the event loop blocked, while the daemon sleeps.
Suspend(d) ==
    /\ pc[d] \in {"sleep", "standby"} /\ slack[d] # NoLimit
    /\ faults < MaxFaults
    /\ slack' = [slack EXCEPT ![d] = NoLimit]
    /\ faults' = faults + 1
    /\ UNCHANGED <<lease, table, given, pc, fence, stopping, work, displaced>>

TimePasses ==
    /\ \A d \in Daemon : slack[d] # 0
    /\ slack' = [d \in Daemon |-> IF slack[d] > 0 THEN slack[d] - 1 ELSE slack[d]]
    /\ lease' = [lease EXCEPT !.left = IF @ >= 0 THEN @ - 1 ELSE @]
    /\ UNCHANGED <<table, given, pc, fence, stopping, work, displaced, faults>>

-----------------------------------------------------------------------------

Loop(d) ==
    \/ Take(d) \/ Lose(d) \/ OpenRuns(d) \/ RecoverDone(d) \/ RenewLease(d)
    \/ StepDown(d) \/ Sleep(d) \/ Wake(d) \/ Stop(d)
    \/ \E f \in Fire : \/ RecoverClaimed(d, f) \/ RecoverRunning(d, f)
                       \/ Dispatch(d, f)

Coroutine(d, f) == Start(d, f) \/ Finish(d, f) \/ SequenceNext(d, f)

Next == \/ TimePasses
        \/ \E d \in Daemon :
             \/ Boot(d) \/ Loop(d)
             \/ \E f \in Fire : Coroutine(d, f)
             \/ StoreFails(d) \/ RequestDrain(d) \/ Crash(d) \/ Suspend(d)

Spec == Init /\ [][Next]_vars

\* Every daemon that is up runs its loop.  Its other coroutines run whenever
\* it sleeps, and jobs end; time goes on, however short the sleeps are.  No
\* daemon has to come back.
Fairness == /\ SF_vars(TimePasses)
            /\ \A d \in Daemon : /\ WF_vars(Loop(d))
                                 /\ \A f \in Fire : SF_vars(Coroutine(d, f))

FairSpec == Spec /\ Fairness

-----------------------------------------------------------------------------

\* DESIGN O13: "Exactly one schedules at a time", whatever crashes, drains,
\* suspensions and store errors happen, and though the clocks differ and a
\* renewal asks nothing about expiry.
OneScheduler ==
    \A d, e \in Daemon : Scheduling(d) /\ Scheduling(e) => d = e

\* Unless the lease is taken from a daemon that has work in flight, a change
\* of leader disturbs no run: none is started twice, none is declared LOST
\* while a daemon runs it (_recover launches CLAIMED rows and closes RUNNING
\* ones without asking whose they are).
HandoverIsClean ==
    ~displaced => \A f \in Fire :
        /\ starts[f] <= 1
        /\ row[f] = "lost" => \A d \in Daemon : running[d][f] = 0

\* As long as some daemon is up and not told to stop, a leader is found again,
\* whichever way the former one went: every standby keeps polling, and the
\* lease expires.
Willing(d) == Up(d) /\ ~stopping[d]
FailoverHappens ==
    []<>(\/ \E d \in Daemon : pc[d] = "tick"
         \/ \A d \in Daemon : ~Willing(d))

\* And the new one closes what the former one left open.
RowsEnd ==
    <>[]( \/ displaced
          \/ \A d \in Daemon : ~Willing(d)
          \/ \A f \in Fire : row[f] \notin {"claimed", "running"})

-----------------------------------------------------------------------------
(* What the documentation says and the code does not keep.                 *)

\* models.py: LOST means the row "was RUNNING when the daemon died".
LostMeansDied ==
    \A f \in Fire : row[f] = "lost" => \A d \in Daemon : running[d][f] = 0
=============================================================================
