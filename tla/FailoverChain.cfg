SPECIFICATION Spec
CONSTANTS
    Requests = {r1, r2}
    Traffic = "mixed"
    Providers <- MCProviders
    Stub = "stub"
    Routes <- MCRoutes
    Scopes <- MCScopes
    Embeddings = "embeddings"
    OcrScopes = {"ocr"}
    ScopeOf <- MCScopeOf
    Listed <- MCListed
    Calls <- MCCalls
    NoCall = NoCall
    MaxRetries = 1
    BackoffBase = 1
    BackoffCap = 1
    CooldownDefault = 2
    CooldownOcr = 1
    CooldownRateLimited = 3
SYMMETRY Symmetry
INVARIANTS
    TypeOK
    ChainOrder
    Bookkeeping
    FailureReport
    CooldownBounded
PROPERTIES
    CooldownOnlyByFailure
    CooldownNotShortened
    ImplementsBreaker
