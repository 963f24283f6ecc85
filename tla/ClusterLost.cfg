\* A leader that steps down for a moment declares its own runs LOST.
SPECIFICATION Spec
CONSTANTS
    d1 = d1
    d2 = d2
    Daemon <- BothDaemons
    NoDaemon = NoDaemon
    Fire = {f1}
    TTL = 4
    Renew = 1
    Stall = 1
    MaxAhead = 1
    MaxFaults = 1
INVARIANTS
    LostMeansDied
CHECK_DEADLOCK FALSE
