SPECIFICATION FairSpec
CONSTANTS
    Replicas = {r1, r2}
    Pipelines = {p1}
    MaxTime = 2
    Firings = {1, 2}
    LegacyRun = 0
    MaxAttemptsPerFiring = 2
    Overruns = FALSE
    MaxFaults = 1
INVARIANTS PublishedOnce ClaimStands BudgetBounds
PROPERTIES EventuallyServed
