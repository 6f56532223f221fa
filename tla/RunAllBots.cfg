SPECIFICATION LSpec
CONSTANTS
    LBots = {"dca", "funding"}
    MaxBuys = 1
INVARIANTS OwnCoinsOnly
CHECK_DEADLOCK FALSE
