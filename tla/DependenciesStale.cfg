\* A downstream that is retried, without crashes.
SPECIFICATION Spec
CONSTANTS
    a = a
    b = b
    c = c
    Job = {a, b, c}
    Tables <- RetryTables
    Horizon = 3
    MaxFaults = 0
    NoTime = NoTime
INVARIANTS
    FreshInputs
CHECK_DEADLOCK FALSE
