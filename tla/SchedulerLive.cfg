\* What must happen in the end, over one crash or stop.
SPECIFICATION FairSpec
CONSTANTS
    Job = {j1}
    Horizon = 2
    MaxAttempt = 3
    MaxDowns = 1
    MaxDrains = 1
    MaxAdhoc = 0
    Ends = {"fail"}
    JobConfigs <- LiveConfigs
    ConfigSets <- AlwaysAll
PROPERTIES
    EveryRunEnds
    RetriesHappen
    DrainEnds
    ComesToRest
CHECK_DEADLOCK FALSE
