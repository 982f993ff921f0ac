SPECIFICATION Spec
CONSTANTS
    Messages = {m1, m2}
    MaxExchanges = 3
    MaxFaults = 1
    Provided = {m2}
    Published = {m1}
    V2 = TRUE
    SharedCache = FALSE
CHECK_DEADLOCK FALSE
INVARIANTS BoundToOwnRequest  LoneCallbackAccepted
