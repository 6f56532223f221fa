SPECIFICATION ServicesSpec
CONSTANTS
    Callers = {alice}
    Mgr = mgr
    Calls = {"start", "stop", "restart"}
    Ids = {i1, i2, i3, i4}
    MockExchange = FALSE
    HasClass = TRUE
    AutoRestart = FALSE
    MaxRuntime = FALSE
    MaxErrors = 3
    NoStack = NoStack
    Requests = {r1, r2, r3}
    Users = {alice, bob}
    MaxTransfers = 2
    Nothing = Nothing
    Settlers = {"daily", "user"}
    Scheduler = "daily"
    SettleBots <- BotsInOrder
    WithProfit = {"b1", "b2"}
    MaxRecords = 2
    MaxCuts = 1
    Bundles = {"x", "y"}
    MaxStarts = 2
    RegBots = {"b"}
    RegAgents = {"a"}
    MaxRedisFaults = 1
INVARIANTS ServicesTypeOK NoStackLeftBehind NothingVanishes  SettlementsAreSound
PROPERTIES ServicesEnd
CHECK_DEADLOCK FALSE
