\* a managed deployment: encryption is required, keys and Vault come and go
SPECIFICATION Spec
CONSTANTS
    c1 = c1
    c2 = c2
    v1 = v1
    v2 = v2
    k1 = k1
    k2 = k2
    r1 = r1
    r2 = r2
    Unset = Unset
    Blank = Blank
    Malformed = Malformed
    Stopped = Stopped
    NoRow = NoRow
    Nothing = Nothing
    Contexts <- MCContexts
    Values <- MCValues
    Keys <- MCKeys
    Replicas <- MCReplicas
    Required = TRUE
    WithVault = TRUE
    Derived = TRUE
SYMMETRY MCSymmetry
CHECK_DEADLOCK FALSE
INVARIANTS
    TypeOK ReadsAreOwn FailuresAreDue
PROPERTIES
    NothingSavedInTheClear
