SPECIFICATION Spec
CONSTANTS
    poller = poller
    tester = tester
    leader = leader
    lag = lag
    hookA = hookA
    hookB = hookB
    Log = Log
    NoWebhook = NoWebhook
    Free = Free
    TestKey = TestKey
    Dispatchers <- MCDispatchers
    Testers <- MCTesters
    Keys <- MCKeys
    Webhooks <- MCWebhooks
    Cooldowns <- MCCooldowns
    RecentCapacity = 2
    MaxClock = 3
    MaxAlerts = 3
INVARIANTS
    HistoryTracksFirings
    DispatchedNewestFirst
    RecordOutlivesDelivery
    SwitchTakesEffect
PROPERTIES
    CooldownRespected
SYMMETRY MCSymmetry
