SPECIFICATION PartsSpec
CONSTANTS
    Tasks = {monitor, bot, risk, operator}
    Monitor = monitor
    Bot = bot
    Killers = {risk, operator}
    RiskLoop = risk
    OrderIds = {o1, o2, o3, o4, k1, k2}
    BotOrders = {o1, o2, o3, o4}
    Amount = 1
    DryRun = TRUE
    WithMonitor = FALSE
    Faults = {"abort"}
    Symbols = {btc}
    MaxBooked = 3
    Gated = FALSE
    LimitEnabled = TRUE
    MaxPosition = 1
    MaxKills = 2
    NULL = NULL
    Minute = 2
    Day = 5
    MaxPerMinute = 2
    MaxPerDay = 3
    MaxTime = 10
    MaxPerTick = 2
    Exchanges = {binance, bybit}
    Confirmers = {c1}
    Manuals = {m1}
    MaxCrashes = 1
    MaxEarned = 1
    MaxHistory = 4
    GridLevels = 2
    GridCounts = {1, 2}
    MaxGridOrders = 3
    FundExchanges = {"binance", "bybit"}
    FundSymbols = {s1}
    MaxFundHeld = 2
    MaxDailyLoss = 2
    MaxDailyGain = 1
    MaxScalpHeld = 3
    Wallets = {w1, w2}
    MaxMade = 2
    Window = 2
    MaxSeen = 3
    MaxExposure = 3
    Usdt = 6
    Sol = 1
    TriCapital = 2
    MinNotional = 1
    LegCoins = {1, 3}
    NestBots = {"binance", "pump"}
    Direct = {"pump"}
    Base = 5
    MaxRecords = 3
    MaxPasses = 2
    IbkrSymbols = {"s1", "s2"}
    SniperTokens = {"t1", "t2"}
    MaxBuys = 1
    TradeIds = {"a", "b"}
    PnlThreads = {"u", "v"}
    PnlDays = {1, 2}
    TradePnls <- Pnls
INVARIANTS PartsTypeOK   HoldingsAreShown ActsOnce  CountsAreTrue
PROPERTIES SettledOnce
CHECK_DEADLOCK FALSE
