SPECIFICATION FairSpec
CONSTANTS
    Catalogs = {c1}
    Workers = {w1, w2}
    ClaimIds = {k1, k2, k3}
    NoClaim = NoClaim
    MaxAttempts = 2
    MaxParkCount = 1
    MaxVersion = 2
    MaxFailures = 1
    MaxCrashes = 1
    Broken = {}
    SlowWorkers = TRUE
    ConditionalGet = FALSE
INVARIANT LeaseProtectsHolder
INVARIANT SnapshotFresh
PROPERTY Converges
