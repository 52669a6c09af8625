\* Two calls and a form on three keys, two orchestrated requests, one stream
\* of three tool calls.
SPECIFICATION Spec
CONSTANTS
    Keys <- MCKeys
    Priority <- MCPriority
    StickyLimit = 2
    HasLegacy = TRUE
    Calls = {c1, c2}
    Forms = {"f1"}
    KeyCooldowns <- MCKeyCooldowns
    MaxKeyRetries = 3
    ProviderRows <- MCRows
    Split <- MCSplit
    DefaultProvider = "p1"
    DefaultCodex = "cx"
    SmallContexts <- MCSmallContexts
    Combos <- MCCombos
    Guardrails <- MCGuardrails
    Fusions <- MCFusions
    Routers <- MCRouters
    Asked = {"guard", "guard2", "fused", "fused2", "routed", "routed2", "combo", "cx/", "cx"}
    Tasks = {t1, t2}
    Tools = {"call_1", "call_2", "call_3"}
    MaxFragments = 2
INVARIANTS
    ExhaustedIsTrue
    TurnsAreFair
    StagesAreCharged
    FailClosedIsValidated
    ComboTurnsAreFair
    BlocksAreWellFormed
    ArgumentsReachTheirTool
    EndedStreamIsBilled
SYMMETRY Symmetric
\* Calls, forms, requests and streams end.
CHECK_DEADLOCK FALSE
