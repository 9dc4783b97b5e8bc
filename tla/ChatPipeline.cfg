SPECIFICATION FairSpec
CONSTANTS
    Requests = {r1, r2}
    r1 = r1
    t1 = t1
    t2 = t2
    t3 = t3
    Texts <- MCTexts
    NoText = NoText
    Kinds <- MCKinds
    Similarity <- MCSimilarity
    Threshold = 1
    MaxEntries = 2
    TTL = 2
    FailOpen = TRUE
    MoreTiers = 2
    NoEntry = NoEntry
INVARIANTS
    TypeOK
    NothingUnchecked
    NoOrphan
    ChargedOnce
    ServedFresh
    StreamShape
PROPERTIES
    EveryRequestSettles
