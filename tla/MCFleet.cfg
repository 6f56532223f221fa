SPECIFICATION FleetSpec
CONSTANTS
    UBots = {b1, b2}
    Operators = {alice, bob}
    MaxDcaCount = 2
    MaxHeld = 4
    LBots = {"dca", "funding"}
    MaxBuys = 1
    Types = {"order", "signal"}
    Callbacks = {f, g}
    Local = {"e1"}
    Foreign = {"f2"}
    TypeOf <- BusTypeOf
    High = {"e1"}
    KafkaEnabled = TRUE
    MaxListeners = 2
    MaxConnects = 2
    Endpoints <- RpcInOrder
    RpcCallers = {x, y}
    MaxFailures = 2
    RecoveryThreshold = 1
    RetryCount = 2
    MaxCount = 2
INVARIANTS FleetTypeOK TasksAreAccounted ShownIsHeld 
PROPERTIES FleetEnds
CHECK_DEADLOCK FALSE
