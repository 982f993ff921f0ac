SPECIFICATION Spec
CONSTANTS
    Catalogs = {c1}
    Workers = {w1}
    ClaimIds = {k1, k2}
    NoClaim = NoClaim
    MaxAttempts = 2
    MaxParkCount = 1
    MaxVersion = 2
    MaxFailures = 0
    MaxCrashes = 0
    Broken = {}
    SlowWorkers = FALSE
    ConditionalGet = TRUE
SYMMETRY Symmetry
INVARIANT NoLostUpdate
