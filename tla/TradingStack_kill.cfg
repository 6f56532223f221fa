SPECIFICATION Spec
CONSTANTS
    Tasks = {monitor, bot, operator, risk}
    Monitor = monitor
    Bot = bot
    Killers = {operator, risk}
    RiskLoop = risk
    OrderIds = {o1, o2, o3}
    BotOrders = {o1, o2}
    Amount = 1
    DryRun = FALSE
    WithMonitor = TRUE
    Faults = {"abort"}
    Symbols = {btc}
    MaxBooked = 3
    Gated = FALSE
    LimitEnabled = TRUE
    MaxPosition = 1
    MaxKills = 1
    NULL = NULL
INVARIANTS KillReachesAll
CHECK_DEADLOCK FALSE
