SPECIFICATION FairSpec
CONSTANTS
    Requests = {r1, r2}
    Traffic = "shared"
    Providers <- MCProviders
    Stub = "stub"
    Routes <- MCRoutes
    Scopes <- MCScopes
    Embeddings = "embeddings"
    OcrScopes = {}
    ScopeOf <- MCScopeOf
    Listed <- MCListed
    Calls <- MCCalls
    NoCall = NoCall
    MaxRetries = 1
    BackoffBase = 1
    BackoffCap = 1
    CooldownDefault = 2
    CooldownOcr = 1
    CooldownRateLimited = 3
INVARIANT
    Bookkeeping
PROPERTIES
    EveryCallSettles
    CooldownExpires
