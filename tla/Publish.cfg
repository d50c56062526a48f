\* One org with one secret key, four plans and three releases.
SPECIFICATION Spec
CONSTANTS
    Features = {"sso", "dpop", "coordination", "custom"}
    Secrets <- MCSecrets
    NotAKey <- MCNotAKey
    Symbols <- MCSymbols
    Letters = {"s"}
    Digits = {"9"}
    SECRET_KEY_MAX_LEN = 2
    SnippetMax = 4
    AddressOf <- MCAddressOf
    Texts <- MCTexts
    Urls <- MCUrls
    Inside <- MCInside
    Paths <- MCPaths
    Plugins = {"http", "acp", "saml", "nats", "alias"}
    Coordinator = "nats"
    Coordination = "coordination"
    Custom = "custom"
    Paid = {"acp", "nats"}
    Gated <- MCGated
    Settings = {"new"}
    NoRef = NoRef
    Configs <- MCConfigs
    AllClaims <- MCClaims
    Releases <- MCReleases
    Nothing = Nothing
INVARIANTS TypeOK AdmittedLoads PlatformVouches QuotaCapsWhatLoads SilentRunsAsWritten ValuesAreRead ReachIsRead
PROPERTIES UpgradeKeepsAdmission
