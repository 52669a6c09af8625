SPECIFICATION Spec
CONSTANTS
    Accounts = {a1}
    Calls = {c1, c2, c3}
    NoCall = NoCall
    Limits = {0, 150}
    Readings <- MCReadings
    NoReading = NoReading
    TTL = 2
    MaxTime = 2
INVARIANTS
    TypeOK
    SingleFlight
PROPERTIES
    DecisionMatchesCache
    EveryCallDecides
CHECK_DEADLOCK FALSE
