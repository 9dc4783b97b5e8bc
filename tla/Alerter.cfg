SPECIFICATION FairSpec
CONSTANTS
    Backends = {b1}
    Failures = {unreachable}
    DownFails = 2
    RecoveryOks = 2
    Windows = 2
    MinRequests = 1
    HighRate <- MCHighRate
    MaxTotal = 2
    MaxCrashes = 1
    Fallback = fallback
    None = None
INVARIANTS
    TypeOK
    Earned
    FallbackJustified
PROPERTIES
    Alternating
    OutageReported
    RecoveryReported
