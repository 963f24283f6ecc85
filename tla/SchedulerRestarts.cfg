\* Recovery: one crash or stop, catch-up, a job that may leave the config.
SPECIFICATION Spec
CONSTANTS
    Job = {j1}
    Horizon = 2
    MaxAttempt = 2
    MaxDowns = 1
    MaxDrains = 1
    MaxAdhoc = 0
    Ends = {"ok", "signal"}
    JobConfigs <- RestartConfigs
    ConfigSets <- MayBeRemoved
INVARIANTS
    RetryFollowsFailure
    SuccessIsReal
    CursorsBehindClock
PROPERTIES
    ImplementsLifecycle
CHECK_DEADLOCK FALSE
