SPECIFICATION FairSpec
CONSTANTS
    Tasks = {monitor, bot, operator}
    Monitor = monitor
    Bot = bot
    Killers = {operator}
    RiskLoop = NULL
    OrderIds = {o1, o2, o3, o4}
    BotOrders = {o1, o2, o3}
    Amount = 1
    DryRun = FALSE
    WithMonitor = FALSE
    Faults = {"fail", "lost"}
    Symbols = {btc}
    MaxBooked = 3
    Gated = TRUE
    LimitEnabled = TRUE
    MaxPosition = 2
    MaxKills = 1
    NULL = NULL
INVARIANTS OnePositionPerSymbol
PROPERTIES NoEntryWhileKilled KillCompletes
CHECK_DEADLOCK FALSE
