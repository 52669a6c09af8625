SPECIFICATION OAuthSpec
CONSTANTS
    Providers <- MCProviders
    Accounts = {"a1"}
    Home <- MCHome
    Flavours = {"codex", "antigravity"}
    Requests = {"r1"}
    Editors = {"e1"}
    Repetitions <- MCRepetitions
    MaxCalls = 3
    Callbacks = {"c1"}
    MaxSessions = 2
INVARIANTS
    OwnCredentials
    ExecutorBounded
    DoneMeansSaved
    PendingSessionIsTimed
PROPERTIES
    SessionsEnd
CHECK_DEADLOCK FALSE
