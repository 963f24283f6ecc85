\* Handovers between two daemons, with two faults at any step.
SPECIFICATION FairSpec
CONSTANTS
    d1 = d1
    d2 = d2
    Daemon <- BothDaemons
    NoDaemon = NoDaemon
    Fire = {f1}
    TTL = 3
    Renew = 1
    Stall = 1
    MaxAhead = 0
    MaxFaults = 2
INVARIANTS
    OneScheduler
    HandoverIsClean
PROPERTIES
    FailoverHappens
    RowsEnd
CHECK_DEADLOCK FALSE
