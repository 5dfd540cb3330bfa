SPECIFICATION FairSpec
CONSTANTS
    root = root
    x = x
    y = y
    p = p
    q = q
    Branches <- MCBranches
    Root <- root
    Parent <- MixedParent
    Body <- MixedBody
    Collect = {root}
    MaxConcurrency = 2
    MaxSteps = 3
    MaxAttempts = 2
    MaxFailures = 1
    MaxCrashes = 1
INVARIANTS
    SlotsAccounted
    StepBudget
    OutputIsRecord
    NothingLeftBehind
PROPERTY AttemptEnds
