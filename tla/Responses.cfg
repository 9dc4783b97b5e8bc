SPECIFICATION Spec
CONSTANTS
    r1 = r1
    r2 = r2
    p1 = p1
    p2 = p2
    Ids = {r1, r2}
    NoId = NoId
    Processes = {p1, p2}
    Kinds <- MCKinds
    MaxCalls = 2
    MaxEvents = 8
    MaxCrashes = 1
    None = None
INVARIANTS
    TypeOK
    WellBracketed
    EndsFaithful
    StoredAsSent
    Durable
    Listed
    HistoryWhole
CHECK_DEADLOCK FALSE
