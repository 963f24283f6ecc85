\* Two daemons on one socket path, and a client that stops one of them.  One
\* run: every kind of process tree, a timeout, a cancellation, a kill.
SPECIFICATION ProcessesSpec
CONSTANTS
    d1 = d1
    d2 = d2
    Daemon <- BothDaemons
    None = None
    MaxRuns = 1
    MaxScrapes = 1
    MaxKills = 1
INVARIANTS
    TypesOK
    StoppedMeansIdle
    NoticesGoOut
    OutcomeIsReal
    NobodyWrites
    SurvivorsIgnoreTerm
PROPERTIES
    StopEnds
    ReturnsInTheEnd
CHECK_DEADLOCK FALSE
