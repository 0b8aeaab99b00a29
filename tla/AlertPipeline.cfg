SPECIFICATION FairPollerSpec
CONSTANTS
    cluster = cluster
    loads = loads
    nodeDown = nodeDown
    jobPaused = jobPaused
    Nothing = Nothing
    Collectors <- MCCollectors
    KeysOf <- MCKeysOf
    Cooldown = 1
INVARIANTS
    EvaluationIsExact
PROPERTIES
    PersistentConditionDelivered
