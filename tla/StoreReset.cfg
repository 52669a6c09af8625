SPECIFICATION Spec
CONSTANTS
    SeedProviders <- MCSeedProviders
    IdOrder <- MCIdOrder
    ProviderInputs = {}
    AccountInputs <- MCAccountInputs
    ProxyInputs = {}
    InvoiceInputs = {}
    SettingsInputs = {}
    UsageKeys = {"id"}
    Cooldowns = {1}
    MaxCalls <- MCMaxCalls
    MaxTotal = 3
    MaxFaults = 0
CHECK_DEADLOCK FALSE
PROPERTIES
    ResetClearsAccounts
