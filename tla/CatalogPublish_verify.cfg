SPECIFICATION Spec
CONSTANTS
    Requests = {"r1", "r2"}
    Catalogs = {"a", "b"}
    Keys = {"k1", "k2"}
    Bodies <- MCBodies
    Attempts = 2
    Lag = TRUE
    MaxFaults = 1
    MaxRotations = 1
INVARIANTS VersionNamesOneContent AcceptedChangeIsServed AnswersAddUp
PROPERTIES RequestsAnswered
CHECK_DEADLOCK FALSE
