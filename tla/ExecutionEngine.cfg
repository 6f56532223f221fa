SPECIFICATION EngFairSpec
CONSTANTS
    Tasks = {monitor, bot}
    Monitor = monitor
    OrderIds = {o1, o2}
    Amount = 2
    DryRun = FALSE
    WithMonitor = TRUE
    Faults = {"fail", "lost", "abort", "expire"}
    NULL = NULL
INVARIANTS EngTypeOK SettledIsTrue LiveIsListed
PROPERTIES ViewIsPromised FillIsNoticed
