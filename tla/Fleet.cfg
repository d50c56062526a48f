\* One gateway, one first-party plugin and one of the tenant's, three
\* releases of two ABI layouts.
SPECIFICATION Spec
CONSTANTS
    Symbols <- MCSymbols
    PLATFORM_SUFFIX_TOKENS = {"native", "wasi-wasm", "linux-arm64"}
    Unparsed = Unparsed
    NoSuffix = NoSuffix
    References <- MCReferences
    Versions <- MCVersions
    NotAVersion = NotAVersion
    LastBeforeSplit <- MCLastBeforeSplit
    Repositories = {"ours", "theirs"}
    FirstParty = {"ours"}
    Tags = {"protocol-1", "1.0"}
    Platform = "native"
    Portable = "wasi-wasm"
    Gateways = {g1}
    Releases <- MCReleases
    Layouts = {"L1", "L2"}
    Published <- MCPublished
    Configs <- MCConfigs
    NotThere = NotThere
INVARIANTS TypeOK HeldIsDue CleanBoots OrderIsTotal ReferencesAreRead
PROPERTIES UpgradeKeepsFloors UpgradeStaysAdmitted
