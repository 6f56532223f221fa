SPECIFICATION OccoreSpec
CONSTANTS
    Ids = {n1, n2, n3}
    Callers = {x, y}
    Operator = operator
    Mgr = mgr
    Calls = {"start", "stop", "pause", "resume", "restart", "delete"}
    MockExchange = TRUE
    HasClass = TRUE
    AutoRestart = TRUE
    MaxRuntime = TRUE
    MaxErrors = 1
    NoStack = NoStack
    OrderIds = {n1, n2, n3}
    Symbols = {x, y}
    Tasks = {monitor, bot, risk}
    Monitor = monitor
    Amount = 1
    DryRun = FALSE
    WithMonitor = FALSE
    Faults = {"fail", "lost", "abort", "expire"}
    MaxBooked = 2
    NULL = NULL
SYMMETRY Interchangeable
INVARIANTS PositionBacked ClosedIsHedged LoopIsAccounted
CHECK_DEADLOCK FALSE
