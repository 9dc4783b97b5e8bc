SPECIFICATION Spec
CONSTANTS
    Keys = {k1}
    Limits <- MCLimits
    Minute = 2
    Horizon = 6
    Callers = 2
    LeastBurst = 2
    MostBurst = 3
    LeastRate = 1
    MostRate = 3
INVARIANTS
    TypeOK
    BurstBound
    SlotsMatchHolders
PROPERTIES
    NoNeedlessRefusal
