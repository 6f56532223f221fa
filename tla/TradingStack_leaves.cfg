SPECIFICATION Spec
CONSTANTS
    Tasks = {monitor, bot, operator}
    Monitor = monitor
    Bot = bot
    Killers = {operator}
    RiskLoop = NULL
    OrderIds = {o1, o2, o3}
    BotOrders = {o1, o2}
    Amount = 1
    DryRun = FALSE
    WithMonitor = FALSE
    Faults = {}
    Symbols = {btc}
    MaxBooked = 3
    Gated = TRUE
    LimitEnabled = TRUE
    MaxPosition = 1
    MaxKills = 1
    NULL = NULL
INVARIANTS KillLeavesNothing
CHECK_DEADLOCK FALSE
