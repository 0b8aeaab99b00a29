SPECIFICATION MCSpec
CONSTANTS
    sales = sales
    ops = ops
    orders = orders
    select = select
    show = show
    blank = blank
    tab = tab
    Tab = tab
    Tabs <- MCTabs
    None = None
    Routes <- MCRoutes
    Catalog <- MCCatalog
    Tables <- MCTables
    Statements <- MCStatements
    Blank = blank
    FirstStatement = show
    Databases <- MCDatabases
    NoDb = NoDb
    NotTyped = NotTyped
    ClientTimeout = 1
    QueryTimeout = 2
    MaxRuns = 2
ACTION_CONSTRAINT Apart
INVARIANTS
    ShownIsTheSelection
    SkeletonMeansLoading
    HeaderAgreesWithPage
    ShownIsTheLastRun
PROPERTIES
    NoFlashBack
    ReloadKeepsTheQuery
    CatchesUp
