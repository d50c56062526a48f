\* tool invocations and their payloads: casts and cascades
SPECIFICATION Spec
CONSTANTS
    a = a
    w = w
    o1 = o1
    o2 = o2
    NoRow = NoRow
    Unset = Unset
    Empty = Empty
    NoConn = NoConn
    Ids = {1, 2}
    Orgs <- MCOrgs
    Conns <- MCConns
    Role <- MCRole
    Tables <- CascadeTables
    Open = {}
    RowTables <- CascadeRowTables
    Migrations <- CascadeMigrations
SYMMETRY MCSymmetry
CHECK_DEADLOCK FALSE
INVARIANTS
    TypeOK FailClosed LoudReuse
PROPERTIES
    WriteIsolation
