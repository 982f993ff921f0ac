SPECIFICATION FairSpec
CONSTANTS
    Files <- MCFiles
    Text <- MCText
    Answer <- MCAnswer
    Weight <- MCWeight
    NoFile = NoFile
    NoItem = NoItem
    KeepDir = TRUE
    MaxReauths = 1
    MaxRuns = 2
    MaxFaults = 2
    MaxLosses = 2
INVARIANTS NoStaleCatalog EveryRecordOnce PartialRunSendsNothing
PROPERTIES KeepsPromise RunsEnd
CHECK_DEADLOCK FALSE
