SPECIFICATION Spec
CONSTANTS
    fe1 = fe1
    fe2 = fe2
    obs = obs
    be1 = be1
    cn1 = cn1
    NoNode = NoNode
    NoRows = NoRows
    FEs <- MCFEs
    Observers <- MCObservers
    BEs <- MCBEs
    CNs <- MCCNs
    ClusterIDs <- MCClusterIDs
    Columns <- MCColumns
    Draining <- MCDraining
    RunModes <- MCRunModes
    Releases <- MCReleases
    MaxLags <- MCMaxLags
    MaxJournal = 2
SYMMETRY Voting
INVARIANTS
    SummaryAgreesWithAlerts
    SteadySnapshotIsAccurate
    EveryAlertIsOnThePage
    ScreensAgree
