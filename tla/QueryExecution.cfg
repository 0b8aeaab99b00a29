SPECIFICATION FairSpec
CONSTANTS
    r1 = r1
    r2 = r2
    c1 = c1
    sales = sales
    ops = ops
    NoDb = NoDb
    NoConn = NoConn
    DefaultDb = sales
    ReadOnly = TRUE
    PolicyMaxRows = 2
    ResultRows = 3
    Requests <- MCRequests
    Conns <- MCConns
    Databases <- MCDatabases
    AskedRows <- MCAsked
INVARIANTS
    RunsWhereAsked
    TruncationIsExact
PROPERTIES
    QueryAnswered
