SPECIFICATION StorageSpec
CONSTANTS
    orders = orders
    users = users
    NoTable = NoTable
    Nil = Nil
    MaxIds = 3
    MaxTablets = 3
    TableNames <- MCNames
    StatisticDatabases <- MCDatabases
    Counters <- MCCounters
    TabletRows <- MCTabletRows
SYMMETRY MCSymmetry
INVARIANTS
    SteadyDetailIsTheTable
    TabletsOfTheListedTable
    LevelsAndSkewAgree
    CountersOnScreen
    DetailOnScreen
