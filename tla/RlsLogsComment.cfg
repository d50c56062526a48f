\* the comment on instance_logs about an unset scope
SPECIFICATION Spec
CONSTANTS
    a = a
    w = w
    o1 = o1
    o2 = o2
    NoRow = NoRow
    Unset = Unset
    Empty = Empty
    NoConn = NoConn
    Ids = {1}
    Orgs <- MCOrgs
    Conns <- MCConns
    Role <- MCRole
    Tables <- LogsTables
    Open = {}
    RowTables <- LogsTables
    Migrations <- LogsMigrations
SYMMETRY MCSymmetry
CHECK_DEADLOCK FALSE
INVARIANTS
    UnsetScopeThrows

