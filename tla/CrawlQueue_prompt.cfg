SPECIFICATION FairSpec
CONSTANTS
    Catalogs = {c1, c2}
    Workers = {w1, w2}
    ClaimIds = {k1, k2, k3}
    NoClaim = NoClaim
    MaxAttempts = 2
    MaxParkCount = 1
    MaxVersion = 2
    MaxFailures = 0
    MaxCrashes = 0
    Broken = {c1}
    SlowWorkers = FALSE
    ConditionalGet = TRUE
INVARIANT AbandonedExplained
PROPERTY CursorNeverRegresses
PROPERTY EventuallyAbandoned
