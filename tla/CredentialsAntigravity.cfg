SPECIFICATION OAuthSpec
CONSTANTS
    Providers <- MCProviders
    Accounts = {"a1"}
    Home <- MCHome
    Flavours = {"antigravity"}
    Requests = {"r1"}
    Editors = {"e1"}
    Repetitions <- MCRepetitions
    MaxCalls = 3
    Callbacks = {"c1"}
    MaxSessions = 0
INVARIANTS
    AntigravityKeepsOwn
CHECK_DEADLOCK FALSE
