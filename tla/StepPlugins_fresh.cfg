SPECIFICATION Spec
CONSTANTS
    Clients = {c1, c2}
    KeyTTL = 2
    Wait = 1
    States <- MCStates
    m1 = m1
    Reloader = rl
    Readers <- MCReaders
    DocTTL = 2
    MaxVersion = 2
    MaxFaults = 1
    ForceRefreshOnStart = TRUE
    Requests = {q1}
    Files <- MCFiles
    MayLapse = {1}
    Messages <- MCMessages
    Payloads <- MCPayloads
    Reads <- MCReads
    Outside = {"tag"}
    PositiveTTL = 2
    NegativeTTL = 1
    MaxEntries = 2
INVARIANTS
    SuspensionWindow
    RefusalIsCurrent
    DocumentAge
    SoundPolicySet
    MediatedWhole
PROPERTY
    PolicyCatchesUp
CHECK_DEADLOCK FALSE
