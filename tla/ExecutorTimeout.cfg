\* One run that has a timeout.
SPECIFICATION FairSpec
CONSTANTS
    MaxKills = 0
PROPERTIES
    TimeoutEnds
CHECK_DEADLOCK FALSE
