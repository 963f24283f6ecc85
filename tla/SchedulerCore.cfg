\* Retries and the breaker over two fires, with one crash or stop.
SPECIFICATION Spec
CONSTANTS
    Job = {j1}
    Horizon = 2
    MaxAttempt = 3
    MaxDowns = 1
    MaxDrains = 2
    MaxAdhoc = 0
    Ends = {"ok", "vanish"}
    JobConfigs <- BreakerOnly
    ConfigSets <- AlwaysAll
INVARIANTS
    SpawnedOnce
    Bookkeeping
    FiresCountedOnce
    QuarantineIsEarned
CHECK_DEADLOCK FALSE
