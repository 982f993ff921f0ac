SPECIFICATION CrawlSpec
CONSTANTS
    Ticks = {t1, t2}
    Registry <- MCRegistryOne
    OurNetworkId = "us"
    Holdings <- MCHoldings
    Pages <- MCPages
    Kind <- MCKindsDeaf
    Nameless <- MCNameless
    Size <- MCSize
    Base = 2
    Offers = 2
    Frame = 1
    MaxDocBytes = 0
    PageSize = 2
    Clamp = 2
    Refresh = 2
    MaxTime = 2
    MaxFaults = 0
    MaxOffset = 5
PROPERTIES PassEnds
CHECK_DEADLOCK FALSE
