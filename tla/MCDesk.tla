----------------------------------- MODULE MCDesk -----------------------------------
(* The desk around the trading: what verifies, records, rewards and serves it,  *)
(* and the bots that trade on paper, on small instances.  They share no         *)
(* variable: the initial state chooses the one that runs, and a run of TLC goes *)
(* through them all.                                                            *)
EXTENDS Verification, Security, EventLog, RewardSystem, RewardLearning, StrategyResearch,
        PaperBots, Pipelines, OutsideServices, DevOps, ControlTower

\* Values of constants.
DogInOrder == <<"bot">>
ExpTable == <<2, 3, 4, 5>>
GradeTable == <<"bronze", "bronze", "silver", "gold">>
Ind(rsi, macd, a, b, lo, up, ema, atr, busy) ==
    [rsi |-> rsi, macd |-> macd, sma20 |-> a, sma50 |-> b, lower |-> lo, upper |-> up,
     ema26 |-> ema, atr |-> atr, busy |-> busy]
SomeData ==
    {[price |-> 1030, high |-> 1000, indicators |-> Ind(60, 1, 1000, 980, 970, 1025,
                  1000, 20, TRUE)],
     [price |-> 950, high |-> 1000, indicators |-> Ind(25, -1, 1000, 1010, 960, 1040,
                  990, 66, TRUE)],
     [price |-> 1060, high |-> 1055, indicators |-> Ind(80, 1, 1010, 1000, 960, 1050,
                  1020, 120, FALSE)],
     [price |-> 1003, high |-> 1004, indicators |-> Ind(34, -1, 1000, 1000, 999, 1001,
                  1004, 2, FALSE)]}
Cond(z, age, dev, ratio, spread, back) ==
    [zoned |-> z, age |-> age, deviation |-> dev, ratio |-> ratio, spread |-> spread,
                  backtest |-> back]
SomeConditions ==
    {Cond(FALSE, 0, 0, 100, 0, 60), Cond(FALSE, 0, -1, -1, -1, -1), Cond(FALSE, 450, 3,
                  7, 10, 50),
     Cond(FALSE, 900, 1, 2, 20, 40), Cond(FALSE, 300, 8, 10, 1, -1), Cond(FALSE, 0, 9, 1,
                  40, 80),
     Cond(TRUE, 0, 0, 100, 0, 60)}
SomeRaw ==
    {[key |-> "btc:BUY", action |-> "BUY", source |-> TRUE, price |-> 1, history |-> h,
      rsi |-> 55, band |-> 50, volume |-> 100] : h \in BOOLEAN}
Ctx(p, t) == [market |-> "btc", price |-> p, volatility |-> 2, trend |-> t,
                  regime |-> "normal"]
SomeContexts == {Ctx(100, "up"), Ctx(101, "down"), Ctx(0, "up")}
Mac(n, d, c, me, di, s, cf) ==
    [network |-> n, dns |-> d, cpu |-> c, memory |-> me, disk |-> di, served |-> s,
                  config |-> cf]
SomeMachines ==
    {Mac(TRUE, TRUE, 20, 30, 40, TRUE, TRUE), Mac(FALSE, FALSE, 80, 85, 97, FALSE, FALSE),
     Mac(TRUE, FALSE, 97, 92, 92, TRUE, FALSE)}
SomeComplaints == {{"network"}, {"slow"}, {"oom", "disk full"}, {"config"},
                  {"disk full"}, {"killed"}}
SomeReadings ==
    {[dir |-> "UP", strong |-> TRUE, hist |-> 20], [dir |-> "UP", strong |-> TRUE,
                  hist |-> -5],
     [dir |-> "DOWN", strong |-> TRUE, hist |-> -5], [dir |-> "DOWN", strong |-> FALSE,
                  hist |-> 20]}
SomeAnswers == {-1, 20, 80}
SomeRequirement == <<0, 10, 22, 36, 30>>
SomeTierOf == <<1, 1, 2, 2, 3>>
SomeDays ==
    {[win |-> TRUE, hp |-> 15, exp |-> 12], [win |-> FALSE, hp |-> -60, exp |-> 3],
     [win |-> TRUE, hp |-> 0, exp |-> -4]}
SomeProfits == {-5, 0, 6}
AgentsInOrder == <<"technical", "risk", "macro">>
SomePrefers == [quick |-> <<1>>, analysis |-> <<2, 1>>]
SomePriorities == <<1, 2>>
SomeRsis == {-1, 20, 50, 80}
SomeVolatilities == {-1, 40, 60, 90}
SomeReturns == {-2, -1, 0, 3}
SomeTemplates == [momentum |-> [lookback |-> {10}], reversion |-> [period |-> {14}]]
SomeBacktests == {[return |-> 30, sharpe |-> 150, drawdown |-> 10, wins |-> 55,
                  profit |-> 160]}
SomeDayResults ==
    {[pnl |-> 100, sharpe |-> 100, mdd |-> 5, wins |-> 50, trades |-> 10],
     [pnl |-> 900, sharpe |-> 100, mdd |-> 5, wins |-> 50, trades |-> 2]}
SomeMarketReadings ==
    {[fast |-> 50200, slow |-> 49800, macd |-> 1], [fast |-> 49800, slow |-> 50200,
                  macd |-> 1]}
Mined(task, d, ms, error, h) ==
    [task |-> task, dept |-> d, ms |-> ms, error |-> error, handoff |-> h]
SomeMined ==
    {Mined("fill", "d7", 0, FALSE, TRUE), Mined("fill", "d7", 12, FALSE, FALSE),
     Mined("scan", "d2", 2, TRUE, FALSE), Mined("scan", "d2", 6, FALSE, TRUE)}
SomeAttempts == [collect |-> 1, signal |-> 1, execute |-> 2, save |-> 2]

VARIABLE which

deskVars == <<which, svVars, vpVars, enVars, nfVars, elVars, atVars, vaVars, emVars,
                  srVars, rvVars, rcVars, acVars, slVars, ldVars, tfVars, mmVars, arVars,
                  poVars, tpVars, jeVars, shVars, lgVars, dhVars, sbVars, ctVars, cnVars,
                  mnVars, anVars, kvars, xvars, rfVars, abVars>>

\* The others stay as they are.
Only(part) ==
    /\ which = part /\ UNCHANGED which
    /\ part # "verify"      => UNCHANGED svVars
    /\ part # "signals"     => UNCHANGED vpVars
    /\ part # "ensemble"    => UNCHANGED enVars
    /\ part # "noise"       => UNCHANGED nfVars
    /\ part # "log"         => UNCHANGED elVars
    /\ part # "audit"       => UNCHANGED atVars
    /\ part # "vault"       => UNCHANGED vaVars
    /\ part # "episodes"    => UNCHANGED emVars
    /\ part # "shared"      => UNCHANGED srVars
    /\ part # "levels"      => UNCHANGED rvVars
    /\ part # "scores"      => UNCHANGED rcVars
    /\ part # "agents"      => UNCHANGED acVars
    /\ part # "lab"         => UNCHANGED slVars
    /\ part # "ledger"      => UNCHANGED ldVars
    /\ part # "trend"       => UNCHANGED tfVars
    /\ part # "maker"       => UNCHANGED mmVars
    /\ part # "arbitrage"   => UNCHANGED arVars
    /\ part # "predictions" => UNCHANGED poVars
    /\ part # "pipelines"   => UNCHANGED tpVars
    /\ part # "engine"      => UNCHANGED jeVars
    /\ part # "shreds"      => UNCHANGED shVars
    /\ part # "gateway"     => UNCHANGED lgVars
    /\ part # "healer"      => UNCHANGED dhVars
    /\ part # "board"       => UNCHANGED sbVars
    /\ part # "tower"       => UNCHANGED ctVars
    /\ part # "connectors"  => UNCHANGED cnVars
    /\ part # "miner"       => UNCHANGED mnVars
    /\ part # "analyser"    => UNCHANGED anVars
    /\ part # "watchdog"    => UNCHANGED kvars
    /\ part # "reward"      => UNCHANGED xvars
    /\ part # "feed"        => UNCHANGED rfVars
    /\ part # "blocks"      => UNCHANGED abVars

DeskInit ==
    /\ which \in {"verify", "signals", "ensemble", "noise", "log", "audit", "vault",
                  "episodes", "shared", "levels", "scores", "agents", "lab", "ledger",
                  "trend", "maker", "arbitrage", "predictions", "pipelines", "engine",
                  "shreds", "gateway", "healer", "board", "tower", "connectors", "miner",
                  "analyser", "watchdog", "reward", "feed", "blocks"}
    /\ VerifyInit /\ PipelineInit /\ EnsembleInit /\ NoiseInit /\ LogInit /\ AuditInit
    /\ VaultInit /\ EpisodeInit /\ SharedInit /\ RpgInit /\ ScoresInit
    /\ ConsensusInit /\ LabInit /\ LedgerInit /\ TrendInit /\ MakerInit /\ ArbInit
    /\ PolyInit /\ PipesInit /\ EngineInit /\ ShredInit /\ GatewayInit /\ HealInit
    /\ BoardInit /\ TowerInit /\ ConnInit /\ MineInit /\ AnalyserInit /\ DogInit
    /\ RewardInit /\ FeedInit /\ BlocksInit

DeskNext ==
    \/ Only("verify")      /\ VerifyNext
    \/ Only("signals")     /\ PipelineNext
    \/ Only("ensemble")    /\ EnsembleNext
    \/ Only("noise")       /\ NoiseNext
    \/ Only("log")         /\ LogNext
    \/ Only("audit")       /\ AuditNext
    \/ Only("vault")       /\ VaultNext
    \/ Only("episodes")    /\ EpisodeNext
    \/ Only("shared")      /\ SharedNext
    \/ Only("levels")      /\ RpgNext
    \/ Only("scores")      /\ ScoresNext
    \/ Only("agents")      /\ ConsensusNext
    \/ Only("lab")         /\ LabNext
    \/ Only("ledger")      /\ LedgerNext
    \/ Only("trend")       /\ TrendNext
    \/ Only("maker")       /\ MakerNext
    \/ Only("arbitrage")   /\ ArbNext
    \/ Only("predictions") /\ PolyNext
    \/ Only("pipelines")   /\ PipesNext
    \/ Only("engine")      /\ EngineNext
    \/ Only("shreds")      /\ ShredNext
    \/ Only("gateway")     /\ GatewayNext
    \/ Only("healer")      /\ HealNext
    \/ Only("board")       /\ BoardNext
    \/ Only("tower")       /\ TowerNext
    \/ Only("connectors")  /\ ConnNext
    \/ Only("miner")       /\ MineNext
    \/ Only("analyser")    /\ AnalyserNext
    \/ Only("watchdog")    /\ DogNext
    \/ Only("reward")      /\ RewardNext
    \/ Only("feed")        /\ FeedNext
    \/ Only("blocks")      /\ BlocksNext

DeskSpec == DeskInit /\ [][DeskNext]_deskVars

\* The types of every part.
DeskTypeOK ==
    /\ which = "verify"      => VerifyTypeOK
    /\ which = "signals"     => PipelineTypeOK
    /\ which = "ensemble"    => EnsembleTypeOK
    /\ which = "noise"       => NoiseTypeOK
    /\ which = "log"         => LogTypeOK
    /\ which = "audit"       => AuditTypeOK
    /\ which = "vault"       => VaultTypeOK
    /\ which = "episodes"    => EpisodeTypeOK
    /\ which = "shared"      => SharedTypeOK
    /\ which = "levels"      => RpgTypeOK
    /\ which = "scores"      => ScoresTypeOK
    /\ which = "agents"      => ConsensusTypeOK
    /\ which = "lab"         => LabTypeOK
    /\ which = "ledger"      => LedgerTypeOK
    /\ which = "trend"       => TrendTypeOK
    /\ which = "maker"       => MakerTypeOK
    /\ which = "arbitrage"   => ArbTypeOK
    /\ which = "predictions" => PolyTypeOK
    /\ which = "pipelines"   => PipesTypeOK
    /\ which = "engine"      => EngineTypeOK
    /\ which = "shreds"      => ShredTypeOK
    /\ which = "gateway"     => GatewayTypeOK
    /\ which = "healer"      => HealTypeOK
    /\ which = "board"       => BoardTypeOK
    /\ which = "tower"       => TowerTypeOK
    /\ which = "connectors"  => ConnTypeOK
    /\ which = "miner"       => MineTypeOK
    /\ which = "analyser"    => AnalyserTypeOK
    /\ which = "watchdog"    => DogTypeOK
    /\ which = "reward"      => RewardTypeOK
    /\ which = "feed"        => FeedTypeOK
    /\ which = "blocks"      => BlocksTypeOK

\* A signal says what the data say: every step of its verification is accounted
\* for, on current indicators, it is answered once and not too soon after the
\* last, and the ensemble's follows the market.
SignalsAreSound ==
    /\ which = "verify"   => VerdictFollowsSteps /\ IndicatorsAreCurrent /\ StopsProtect
    /\ which = "signals"  => CooldownKept /\ AnsweredInOrder
    /\ which = "ensemble" => SignalFollowsMarket

\* What is recorded is kept, and kept once: logged events, bursts of failed
\* attempts, secrets, rewards on disk, the trades the reward service counts, the
\* tasks that collect a market; what is not has one named cause.
RecordsAreKept ==
    /\ which = "log"    => LoggedIsKept
    /\ which = "audit"  => BurstIsAlerted
    /\ which = "vault"  => SecretsSurvive /\ CacheIsCurrent /\ RotationIsAsked
    /\ which = "shared" => OnlyStaleSavesLose
    /\ which = "feed"   => CountedOnce /\ ReportsArrive
    /\ which = "tower"  => OneCollectorEach

\* What is rewarded was earned, and what was earned is rewarded: levels over
\* restarts, scores, the agents' standing, the strategies the laboratory keeps.
RewardsAreEarned ==
    /\ which = "reward" => GainsAreKept
    /\ which = "levels" => TierNotAhead /\ GrantedOnce
    /\ which = "scores" => LossIsSeen
    /\ which = "agents" => AgreementEarns /\ StrongIsStable /\ OutcomesShareResults
    /\ which = "lab"    => ScoreIsEarned /\ ParametersFit

\* A trade fits the position and the market it was decided on, and the pipeline
\* sends what it records.
DeskTradesFit ==
    /\ which = "trend"       => SignalsTellPosition
    /\ which = "maker"       => QuotesStraddle
    /\ which = "arbitrage"   => TradesPay
    /\ which = "predictions" => BetsAreBounded
    /\ which = "pipelines"   => CommandsAreBounded /\ RecordedIsSent

\* The services answer truly, over restarts, lagging endpoints and failing
\* providers: blocks, packets, model requests, diagnoses and connections.
RequestsAreServed ==
    /\ which = "engine"     => BlocksChain /\ EngineIsWhole
    /\ which = "shreds"     => StopEndsWorkers /\ ReceivedIsParsed
    /\ which = "gateway"    => FallbackEnds /\ DownIsMarked /\ MissesAreCalls
    /\ which = "healer"     => VerdictIsTrue /\ DiagnosisHolds /\ NothingIsHealed
    /\ which = "connectors" => ConnectionsAreKnown

\* The guards of the system hold: restarts within the cooldown and the circuit
\* breaker, a blocked address outside for the time of its block and no longer
\* than the next cleanup.
GuardsHold ==
    /\ which = "watchdog" => LimitsHold
    /\ which = "blocks"   => BlockHolds /\ BlockIsTracked /\ FailuresBlock

\* What is reported is what happened: the situation reports, the report of a
\* day's events and of the bets, the labels of what an episode led to, and the
\* prices smoothed and the outliers found, with those that few samples hide.
ReportsAreTrue ==
    /\ which = "board"       => ReportAgrees
    /\ which = "miner"       => DayAddsUp
    /\ which = "predictions" => ReportIsWhole
    /\ which = "episodes"    => AgeDecides
    /\ which = "noise"       => SmoothedIsBetween /\ JumpIsNoticed /\ SpikeIsFlattened /\ FewHideOutliers
    /\ which = "analyser"    => FewHideBottlenecks

\* The best strategy of a generation outlives it, and a day's early gain is in
\* the ranks that follow.
LabLearns == BestIsKept /\ EarlyGainsPass
==============================================================================
