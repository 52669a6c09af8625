SPECIFICATION Spec
CONSTANTS
    Keys = {k1}
    Handlers = {h1, h2}
    Admins = {s1}
    Rpms = {0, 1}
    Concs = {0, 1}
    Quota = 1
    MaxAttempts = 2
    Window = 2
    MaxSaves = 2
    MaxBurst = 4
    MaxTime = 3
SYMMETRY MCSymmetry
INVARIANTS
    TypeOK
    InFlightExact
    ConcurrencyBound
    SlidingRateBound
    QuotaOvershootBounded
CHECK_DEADLOCK FALSE
PROPERTIES
    UsageNeverLost
