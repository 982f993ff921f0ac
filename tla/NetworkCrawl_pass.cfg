SPECIFICATION CrawlSpec
CONSTANTS
    Ticks = {t1, t2}
    Registry <- MCRegistry
    OurNetworkId = "us"
    Holdings <- MCHoldings
    Pages <- MCPages
    Kind <- MCKinds
    Nameless <- MCNameless
    Size <- MCSize
    Base = 2
    Offers = 2
    Frame = 1
    MaxDocBytes = 9
    PageSize = 3
    Clamp = 2
    Refresh = 2
    MaxTime = 2
    MaxFaults = 1
    MaxOffset = 5
INVARIANTS OnePassAtATime CopiesPermitted WalkCollectsAll AcceptedIsStored BatchesAddUp
PROPERTIES PassEnds
CHECK_DEADLOCK FALSE
