SPECIFICATION Spec
CONSTANTS
    pool = pool
    solo = solo
    a1 = a1
    a2 = a2
    NoAccount = NoAccount
    Providers <- MCProviders
    Accounts = {a1}
    AccountsOf <- MCAccountsOf
    Codex = {}
    Keyed = {}
    BaseCooldown <- MCBaseCooldown
    Ladder <- MCLadder
    MaxCooldown = 3
    RetryAfters = {0}
    AccountCap = 3
    Reserve = 0
    AttemptLimit = 1
    Requests = {r1, r2}
    Routes <- MCRoutesPair
    StrictModes = {FALSE}
    Leavers = {}
    StoreFaults = FALSE
    Timeout = 2
    MaxTime = 3
    MaxCandidates = 2
SYMMETRY MCSymmetry
INVARIANTS
    TypeOK
    SiblingIsolation
PROPERTIES
    CooldownNeverShortened
    HealthyProviderIsTried
CHECK_DEADLOCK FALSE
