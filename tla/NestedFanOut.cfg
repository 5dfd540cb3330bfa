SPECIFICATION FairSpec
CONSTANTS
    root = root
    x = x
    y = y
    p = p
    q = q
    Branches <- MCBranches
    Root <- root
    Parent <- FactCheckParent
    Body <- FactCheckBody
    Collect = {}
    MaxConcurrency = 2
    MaxSteps = 9
    MaxAttempts = 1
    MaxFailures = 0
    MaxCrashes = 0
INVARIANT NoSlotDeadlock
