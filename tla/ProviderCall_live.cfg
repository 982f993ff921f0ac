SPECIFICATION MCSpec
CONSTANTS
    Requests = {r1, r2}
    Refs = {a, b}
    Static = {b}
    None = None
    MaxAttempts = 2
    MaxCacheEntries = 1
    MaxVersion = 2
    MaxTokens = 2
    MaxExpiries = 1
    MaxLeaves = 1
CHECK_DEADLOCK FALSE
INVARIANTS OneExchangeAtATime RefusedTokenNotHeld
PROPERTIES MappingNeverGoesBack RequestsAnswered
