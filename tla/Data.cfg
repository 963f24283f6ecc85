\* A fire of three attempts; every graph over three jobs, a package with a
\* submodule, two edits, reloads and restarts; two daemons and an operator on one row; two openings at once.
SPECIFICATION DataSpec
CONSTANTS
    Body <- StepNames
    MaxAttempt = 3
    MaxCrashes = 1
    a = a
    b = b
    c = c
    pkg = pkg
    sub = sub
    JobName <- Names
    Module <- Modules
    Around <- Packages
    Toml = Toml
    Disks <- AnyDisk
    MaxEdits = 2
    d1 = d1
    d2 = d2
    Daemon <- TwoDaemons
    Threshold = 1
    MaxRuns = 3
    MaxResumes = 1
    MaxFaults = 1
    p1 = p1
    p2 = p2
    Opener <- TwoOpeners
    SchemaTable <- TwoTables
    Added <- TwoColumns
    Version = 2
SYMMETRY NameSymmetry
INVARIANTS
    TypesOK
    VerdictIsRight
    NoHalfModules
    ReplaysAgree
    RerunsAreExplained
    ResumeIsHeard
    ResumeIsFresh
    OpeningsAreSafe
PROPERTY
    ImplementsJobTable
CHECK_DEADLOCK FALSE
