SPECIFICATION LoadsSpec
CONSTANTS
    sales = sales
    ops = ops
    sys = sys
    job = job
    Marker = Marker
    RatioOne = 10
    Highlight = 1
    Databases <- MCDatabases
    SystemDatabases <- MCSystem
    Names <- MCNames
    Rows <- MCRows
    Policies <- MCPolicies
INVARIANTS
    ReportedOrWarned
    AlertsMatchColumns
    LoadAlertsAreOnThePage
