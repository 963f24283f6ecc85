\* Fan-in, a chain, and a wait with a timeout, over one crash or manual trigger.
SPECIFICATION FairSpec
CONSTANTS
    a = a
    b = b
    c = c
    Job = {a, b, c}
    Tables <- PassTables
    Horizon = 2
    MaxFaults = 1
    NoTime = NoTime
INVARIANTS
    TypeOK
    FreshWhileInOrder
    RowsComeFromUpstream
PROPERTIES
    TriggersHappen
CHECK_DEADLOCK FALSE
