SPECIFICATION FairSpec
CONSTANTS
    r1 = r1
    r2 = r2
    Requests <- MCRequests
INVARIANTS
    CleanExitDrains
    ServeErrorSurfaces
PROPERTIES
    SignalEndsTheProcess
CHECK_DEADLOCK FALSE
