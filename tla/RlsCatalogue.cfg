\* every migration, with rows in a chain and in the two tables a backfill rewrites
SPECIFICATION Spec
CONSTANTS
    a = a
    w = w
    o1 = o1
    o2 = o2
    NoRow = NoRow
    Unset = Unset
    Empty = Empty
    NoConn = NoConn
    Ids = {1}
    Orgs <- MCOrgs
    Conns <- MCConns
    Role <- MCRole
    Tables <- CatalogueTables
    Open <- CatalogueOpen
    RowTables <- CatalogueRowTables
    Migrations <- AllMigrations
SYMMETRY MCSymmetry
CHECK_DEADLOCK FALSE
INVARIANTS
    ReadIsolation ChainAirtight RolloutComplete BackfillReachesAll RulesAreKept
PROPERTIES
    NeverLifted
