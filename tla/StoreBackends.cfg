SPECIFICATION Spec
CONSTANTS
    SeedProviders <- MCSeedProviders
    IdOrder <- MCIdOrder
    ProviderInputs <- MCProviderInputs
    AccountInputs <- MCAccountInputs
    ProxyInputs <- MCProxyInputs
    InvoiceInputs <- MCInvoiceInputs
    SettingsInputs <- MCSettingsInputs
    UsageKeys = {"id"}
    Cooldowns = {1}
    MaxCalls <- MCMaxCalls
    MaxTotal = 4
    MaxFaults = 1
CHECK_DEADLOCK FALSE
INVARIANTS
    Interchangeable
    PayloadsFollowLogs
PROPERTIES
    RestartKeepsState
    OnlyOldLogsAreTrimmed
    NoNewOrphans
