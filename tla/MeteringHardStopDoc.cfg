SPECIFICATION Spec
CONSTANTS
    Procs = {p1, p2}
    Keys = {k1}
    Requests = {r1, r2}
    StaticKeys = {}
    AdminDailies = {1}
    BootstrapLimits <- MCBootstrapLimits
    Factor = 2
    Costs = {1}
    Degrade = FALSE
    TTL = 1
    DaysPerMonth = 1
    LastDay = 1
    MostTokens = 3
    MostFaults = 0
    NoConfig = NoConfig
    NoRequest = NoRequest
SYMMETRY Symmetry
CHECK_DEADLOCK FALSE
PROPERTIES
    HardStop
