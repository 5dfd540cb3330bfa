SPECIFICATION FairSpec
CONSTANTS
    py = py
    authored = authored
    saved = saved
    Runs <- MCLiveRuns
    Mode <- MCLiveMode
    Timed = {py}
    N = 1
    Values = {v1}
    NoValue = NoValue
    MaxConcurrent = 1
    Deploys = {"ok", "gone", "forbidden", "unwired"}
    MaxDeliveries = 2
    MaxCrashes = 1
    MaxFaults = 1
PROPERTIES
    RunsSettle
    StartupCompletes
