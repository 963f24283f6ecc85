\* Manual triggers beside the schedule, draining, catch-up of a replayed fire.
SPECIFICATION Spec
CONSTANTS
    Job = {j1}
    Horizon = 1
    MaxAttempt = 2
    MaxDowns = 1
    MaxDrains = 2
    MaxAdhoc = 1
    Ends = {"ok"}
    JobConfigs <- RestartConfigs
    ConfigSets <- AlwaysAll
INVARIANTS
    NothingStranded
    NoRecordedOrphan
PROPERTIES
    DrainClaimsNothing
CHECK_DEADLOCK FALSE
