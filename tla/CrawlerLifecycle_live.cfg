SPECIFICATION FairSpec
CONSTANTS
    Jobs = {j1, j2}
    Requests = {q1}
    HasStore = TRUE
INVARIANT NothingOutlivesStop
PROPERTY ShutdownCompletes
CHECK_DEADLOCK FALSE
