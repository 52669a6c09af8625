SPECIFICATION Spec
CONSTANTS
    pool = pool
    solo = solo
    a1 = a1
    a2 = a2
    NoAccount = NoAccount
    Providers <- MCProviders
    Accounts = {a1, a2}
    AccountsOf <- MCAccountsOf
    Codex <- MCCodex
    Keyed <- MCKeyed
    BaseCooldown <- MCBaseCooldown
    Ladder <- MCLadder
    MaxCooldown = 3
    RetryAfters = {0, 4}
    AccountCap = 3
    Reserve = 1
    AttemptLimit = 2
    Requests = {r1}
    Routes <- MCRoutesAll
    StrictModes = {TRUE, FALSE}
    Leavers = {r1}
    StoreFaults = TRUE
    Timeout = 3
    MaxTime = 4
    MaxCandidates = 4
INVARIANTS
    EveryAttemptAccounted
PROPERTIES
    BudgetReserved
    KeepsPromise
CHECK_DEADLOCK FALSE
