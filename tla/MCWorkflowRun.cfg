SPECIFICATION Spec
CONSTANTS
    py = py
    authored = authored
    saved = saved
    Runs <- MCRuns
    Mode <- MCMode
    Timed = {py}
    N = 2
    Values = {v1, v2}
    NoValue = NoValue
    MaxConcurrent = 1
    Deploys = {"ok", "gone", "rejects"}
    MaxDeliveries = 2
    MaxCrashes = 2
    MaxFaults = 1
INVARIANTS
    TypeOK
    PermitsAccounted
    RunningAccounted
PROPERTIES
    ImplementsLedger
    ResumeOnlyIncomplete
SYMMETRY ValueSymmetry
