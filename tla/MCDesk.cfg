SPECIFICATION DeskSpec
CONSTANTS
    Data <- SomeData
    Conditions <- SomeConditions
    EnoughHistory = 2
    MaxHistory = 3
    RawSignals <- SomeRaw
    Cooldown = 2
    MaxRaw = 3
    VpMaxTime = 3
    RsiValues <- SomeRsis
    Volatilities <- SomeVolatilities
    MaxEnsembles = 2
    NoisyPrices = {10, 12, 90}
    Span = 3
    Recent = 5
    KalmanRecent = 4
    Threshold = 3
    ProcessVariance = 1
    MeasurementVariance = 2
    MaxPrices = 6
    Loggers = {"a", "b"}
    BufferSize = 2
    MaxEvents = 3
    AuditThreads = {"s", "t"}
    Addresses = {"x"}
    FailureWindow = 2
    TooMany = 2
    KeepFor = 2
    MaxRows = 5
    AtMaxTime = 3
    Vaults = {"a", "b"}
    Secrets = {"k", "n"}
    MasterKeys = {1, 2}
    KeepReplaced = 1
    RotationDays = 1
    MaxStored = 2
    MaxDays = 1
    Contexts <- SomeContexts
    Scores = {0}
    MaxEpisodes = 4
    MaxTrades = 5
    MaxCycles = 2
    StartCapital = 1
    Listening = {"rnd", "service"}
    SrMaxTrades = 1
    SrMaxInvest = 1
    SrMaxStarts = 2
    RpgBots = {"a"}
    Requirement <- SomeRequirement
    TierOf <- SomeTierOf
    Rewarded = {2, 3, 4}
    TradeResults <- SomeDays
    DailyProfits <- SomeProfits
    DayExp = 2
    MaxHp = 100
    RpgMaxSteps = 5
    Returns <- SomeReturns
    HoldingHours = 6
    LastTrades = 2
    Multipliers = {0, 20}
    MaxScored = 3
    MaxPeriods = 1
    DefaultAgents <- AgentsInOrder
    Strangers = {"x"}
    Decisions = {"buy", "sell"}
    Confidences = {50, 90}
    Quorum = 4
    KeepVotes = 1
    MaxVotes = 5
    MaxResults = 2
    Templates <- SomeTemplates
    Results <- SomeBacktests
    EliteParts = 2
    EliteShare = 3
    MaxDrawn = 3
    MaxGenerations = 2
    MaxLab = 2
    Strategies = {"s", "t"}
    DayResults <- SomeDayResults
    RecentDays = 7
    RankedDays = 2
    TopRanks = 1
    LastRanks = 2
    LastDay = 3
    Readings <- SomeReadings
    SlowPeriod = 2
    MaxCandles = 5
    Mids = {0, 100, 200}
    TradeSizes = {40, 80}
    StartQuote = 10000
    BaseSpread = 10
    MinSpread = 5
    MaxSpread = 50
    OrderSize = 1
    MaxCoins = 100
    MmMaxTrades = 3
    MmMaxPasses = 2
    Exchanges = {"binance", "bybit", "okx"}
    Bids = {1000, 1006, 1020}
    Widths = {2}
    MinSpreadBps = 30
    MinProfit = 2
    SlippageBps = 20
    MaxDailyTrades = 1
    AbMaxPasses = 2
    PredMarkets = {"m1", "m2"}
    YesPrices = {0, 40}
    ModelAnswers <- SomeAnswers
    BetCapital = 1985
    MinEdge = 5
    MinBet = 100
    MaxBet = 500
    PoMaxPasses = 2
    MarketReadings <- SomeMarketReadings
    Attempts <- SomeAttempts
    BatchSymbols = 1
    MonitorRuns = 1
    Endpoints = 2
    MaxSlot = 3
    MaxLag = 1
    MaxStarts = 2
    MaxBundles = 1
    NumWorkers = 2
    QueueSize = 2
    MaxReceived = 2
    ShMaxStarts = 2
    Askers = {"a", "b"}
    Kinds = {"quick", "analysis"}
    Prefers <- SomePrefers
    Priority <- SomePriorities
    MaxErrors = 2
    MaxAsked = 3
    MaxRecovered = 1
    Machines <- SomeMachines
    Complaints <- SomeComplaints
    RepairIds = {"r"}
    BoardBots = {"a", "b"}
    BotProfits = {0, 5}
    BoardExchanges = 1
    HealthLimit = 1
    MaxBoardUpdates = 2
    MaxReports = 1
    Checkers = {t1, t2}
    Watched <- DogInOrder
    MaxRestarts = 2
    RestartCooldown = 2
    FailureThreshold = 1
    BreakerCooldown = 1
    MaxClock = 3
    RewardBots = {b1}
    LevelCap = 4
    ExpFor <- ExpTable
    GradeOf <- GradeTable
    Gains = {1, 6}
    HpCap = 4
    HpWin = 1
    HpLoss = 2
    HpBigLoss = 3
    PenaltyAbove = 2
    PenaltyLevels = 1
    MaxUpdates = 5
    FeedTrades = 3
    FeedBuffer = 2
    FailThreshold = 2
    FailWindow = 2
    BlockTime = 2
    RateThreshold = 1
    RateBlock = 1
    BlockTimes = {1, 3}
    AbMaxTime = 6
    TowerExchanges = {"x"}
    MaxCollectors = 4
    ConnExchanges = {"x", "y"}
    ConnTasks = {t1, t2}
    MaxConnectors = 3
    MinedEvents <- SomeMined
    FetchSize = 2
    HandoffLimit = 1
    MaxMined = 3
    StreamTasks = {"fill", "scan"}
    Durations = {0, 9}
    WindowSize = 5
    MinSamples = 3
    FactorSquared = 2
INVARIANTS DeskTypeOK  RecordsAreKept RewardsAreEarned DeskTradesFit RequestsAreServed GuardsHold ReportsAreTrue
 
CHECK_DEADLOCK FALSE
