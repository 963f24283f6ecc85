\* A probe that fails with a retry left does not restart the cooldown.
SPECIFICATION Spec
CONSTANTS
    Job = {j1}
    Horizon = 3
    MaxAttempt = 2
    MaxDowns = 0
    MaxDrains = 0
    MaxAdhoc = 0
    Ends = {"fail"}
    JobConfigs <- BreakerOnly
    ConfigSets <- AlwaysAll
INVARIANT
    OneProbe
CHECK_DEADLOCK FALSE
