---------------------------- MODULE Verification ----------------------------
(* The verification of signals: the nine steps of the verification center, the *)
(* service of department 2 in front of it, the ensemble of agents and the noise *)
(* filter (src/occore/verification, src/department_2).  Four parts, each with *)
(* its own state.                                                            *)
EXTENDS Integers, Sequences, FiniteSets, TLC, SequencesExt, FiniteSetsExt

------------------------------------------------------------------------------
(* The verification center of department 2 (src/occore/verification/           *)
(* reality_check.py) for one symbol, with the indicator engine's cache         *)
(* (indicators.py), the signal generator (signal_generator.py) and the nine    *)
(* steps (verification_pipeline.py).  A datum is the price, the high of the    *)
(* bars before it and the indicators its history would give; prices are parts  *)
(* of a thousand, scores, ratios and weights in percent, spreads in tenths of  *)
(* a percent, and compared exactly.                                            *)

CONSTANTS Data,           \* what arrives, with the indicators it leads to
          Conditions,     \* age, deviation, volume, spread and backtest that go with it
          EnoughHistory,  \* bars before a signal is made, 20 in the code
          MaxHistory      \* _max_history

\* What a condition reports that was not measured.
None == -1
IndicatorValues == [rsi : 0..100, macd : Int, sma20 : Nat, sma50 : Nat, lower : Int, upper : Nat,
             ema26 : Nat, atr : Nat, busy : BOOLEAN]

\* A price is so many parts that a percent of it is one at least.
ASSUME VerificationAssumption ==
    /\ EnoughHistory \in Nat /\ MaxHistory \in Nat /\ EnoughHistory < MaxHistory
    /\ Data \subseteq [price : Nat, high : Nat, indicators : IndicatorValues]
    /\ \A d \in Data : d.price >= 100
    /\ Conditions \subseteq [zoned : BOOLEAN, age : Nat, deviation : Nat \cup {None},
                            ratio : Nat \cup {None}, spread : Nat \cup {None}, backtest : Nat \cup {None}]

VARIABLES svLength,   \* of _price_history
          svCache,    \* _cache of the indicator engine: by the length of the history; {}: not yet
          svUsed,     \* indicators the last signals were made from, and those of their datum
          svStale,    \* history: the history has been full, or was cleared
          svResults   \* the results of the last datum: signal, steps, score, status

svVars == <<svLength, svCache, svUsed, svStale, svResults>>

VerifyInit ==
    /\ svLength = 0 /\ svCache = [n \in EnoughHistory..MaxHistory |-> {}]
    /\ svUsed = <<>> /\ svStale = FALSE /\ svResults = {}

------------------------------------------------------------------------------
(* The generator.                                                              *)

Percent(met, of) == (100 * Cardinality({c \in DOMAIN met : met[c]})) \div of

Signal(type, direction, confidence, price, stop, target, size) ==
    [type |-> type, direction |-> direction, confidence |-> confidence, entry |-> price,
     stop |-> stop, target |-> target, size |-> size]

\* Three of four conditions.
MomentumSignals(price, ind) ==
    LET met == <<ind.rsi > 50, ind.macd > 0, price > ind.sma20, ind.busy>>
        c == Percent(met, 4)
    IN  IF c >= 60
        THEN {Signal("momentum", "long", c, price, (price * 97) \div 100, (price * 106) \div 100, 15)}
        ELSE {}

\* A new high, and two of three more.
BreakoutSignals(price, high, ind) ==
    LET met == <<TRUE, price * 1000 > ind.upper * 995, ind.rsi \in 41..74, ind.atr * 100 < price * 3>>
        c == Percent(met, 4)
    IN  IF price * 100 > high * 101 /\ c >= 60
        THEN {Signal("breakout", "long", c, price, (high * 98) \div 100, (price * 108) \div 100,
                     IF c = 75 THEN 18 ELSE 20)}
        ELSE {}

\* mutant of ReversionSignals: the stop of a short is that of a long
ReversionSignals_LongStop(price, ind) ==
    LET d == Percent(<<ind.rsi > 65, price * 100 > ind.upper * 99, price * 100 > ind.sma20 * 102>>, 3)
    IN  IF d > 60
        THEN {Signal("mean_reversion", "short", d, price, (price * 95) \div 100, ind.sma20, 10)}
        ELSE {}

\* Two of three conditions; the long side first, and the average as the target.
ReversionSignals(price, ind) ==
    LET c == Percent(<<ind.rsi < 35, price * 100 < ind.lower * 101, price * 100 < ind.sma20 * 98>>, 3)
        d == Percent(<<ind.rsi > 65, price * 100 > ind.upper * 99, price * 100 > ind.sma20 * 102>>, 3)
    IN  IF c > 60 /\ c > d
        THEN {Signal("mean_reversion", "long", c, price, (price * 95) \div 100, ind.sma20, 10)}
        ELSE IF d > 60
        THEN {Signal("mean_reversion", "short", d, price, (price * 105) \div 100, ind.sma20, 10)}
        ELSE {}

Generate(datum, ind) ==
    MomentumSignals(datum.price, ind) \cup BreakoutSignals(datum.price, datum.high, ind)
        \cup ReversionSignals(datum.price, ind)

------------------------------------------------------------------------------
(* The nine steps: a score and a status each.                                  *)

Step(score, passed, warned) ==
    [score |-> score, status |-> IF passed THEN "passed" ELSE IF warned THEN "warning" ELSE "failed"]
AtLeastZero(score) == IF score < 0 THEN 0 ELSE score
Capped(score) == IF score > 100 THEN 100 ELSE score
Distance(a, b) == IF a > b THEN a - b ELSE b - a

\* Within a limit, within a multiple of it, or beyond.
Graded(value, limit, wide, inside, beyond) ==
    Step(IF value <= limit THEN inside ELSE IF value <= wide THEN 60 ELSE beyond,
         value <= limit, value <= wide)

Freshness(age) == Graded(age, 300, 600, 100 - (20 * age) \div 300, 0)

PriceConsistency(deviation) ==
    IF deviation = None THEN Step(80, TRUE, FALSE)
    ELSE Graded(deviation, 2, 4, 100 - 10 * deviation, AtLeastZero(100 - 10 * deviation))

VolumeStep(ratio) ==
    IF ratio = None THEN Step(50, FALSE, TRUE)
    ELSE Step(IF ratio >= 10 THEN Capped(ratio) ELSE IF ratio >= 5 THEN 50 ELSE 5 * ratio,
              ratio >= 10, ratio >= 5)

Volatility(signal, ind) ==
    LET ratio == (100 * ind.atr) \div signal.entry
    IN  Graded(ratio, 5, 10, 100 - 6 * ratio, AtLeastZero(100 - 10 * ratio))

Liquidity(spread) ==
    IF spread = None THEN Step(50, FALSE, TRUE)
    ELSE Graded(spread, 5, 15, 100 - 6 * spread, AtLeastZero(100 - 10 * spread))

\* Whatever the direction of the signal.
Trend(signal, ind) ==
    LET score == (IF ind.sma20 > ind.sma50 THEN 40 ELSE 0) + (IF ind.macd > 0 THEN 30 ELSE 0)
                     + (IF signal.entry > ind.ema26 THEN 30 ELSE 0)
    IN  Step(score, score >= 70, score >= 40)

Momentum(signal, ind) ==
    LET long == signal.direction = "long"
        rsi == IF ind.rsi \in 31..69 THEN 50
               ELSE IF (long /\ ind.rsi >= 70) \/ (~long /\ ind.rsi <= 30) THEN 20 ELSE 0
        score == rsi + (IF (long /\ ind.macd > 0) \/ (~long /\ ind.macd < 0) THEN 50 ELSE 0)
    IN  Step(score, score >= 70, score >= 40)

Quality(signal, backtest) ==
    LET score == IF backtest = None THEN signal.confidence
                 ELSE IF backtest >= 55 THEN Capped((signal.confidence + backtest) \div 2)
                 ELSE (signal.confidence * 7) \div 10
    IN  Step(score, score >= 55, score >= 50)

Risk(signal) ==
    LET risk == Distance(signal.entry, signal.stop)
        reward == Distance(signal.target, signal.entry)
        base == 100 - (IF signal.size > 20 THEN 30 ELSE 0) - (IF risk * 100 > signal.entry * 5 THEN 10 ELSE 0)
        score == IF reward >= 2 * risk THEN Capped(base + 10)
                 ELSE IF reward < risk THEN base - 20 ELSE base
    IN  Step(score, score >= 80, score >= 50)

Steps(signal, ind, cond) ==
    <<Freshness(cond.age), PriceConsistency(cond.deviation), VolumeStep(cond.ratio),
      Volatility(signal, ind), Liquidity(cond.spread), Trend(signal, ind), Momentum(signal, ind),
      Quality(signal, cond.backtest), Risk(signal)>>

Weight == <<10, 15, 10, 10, 10, 15, 10, 10, 10>>

\* mutant of Status: the better half is a pass
Status_Generous(score) ==
    IF score >= 5000 THEN "passed" ELSE IF score >= 2500 THEN "warning" ELSE "failed"

Status(score) == IF score >= 7500 THEN "passed" ELSE IF score >= 5000 THEN "warning" ELSE "failed"

Execute(signal, ind, cond) ==
    LET steps == Steps(signal, ind, cond)
        Weighted(i) == Weight[i] * steps[i].score
        score == Weighted(1) + Weighted(2) + Weighted(3) + Weighted(4) + Weighted(5) + Weighted(6)
                     + Weighted(7) + Weighted(8) + Weighted(9)
    IN  [signal |-> signal, steps |-> steps, score |-> score, status |-> Status(score)]

------------------------------------------------------------------------------
\* mutant of Indicators: kept for the symbol, whatever the length
Indicators_First(datum, n) ==
    LET known == UNION {svCache[m] : m \in DOMAIN svCache}
    IN  IF known = {} THEN datum.indicators ELSE CHOOSE ind \in known : TRUE

\* IndicatorEngine.calculate keeps what it has computed for a symbol and a length.
Indicators(datum, n) ==
    IF svCache[n] = {} THEN datum.indicators ELSE CHOOSE ind \in svCache[n] : TRUE

\* process_data with too short a history.
GatherData ==
    /\ svLength + 1 < EnoughHistory
    /\ svLength' = svLength + 1
    /\ UNCHANGED <<svCache, svUsed, svStale, svResults>>

\* process_data: the datum joins the history, which keeps its length when it is
\* full, and every signal is verified.  A timestamp with a zone raises in the
\* first step of the first signal: none is verified.
ProcessData(datum, cond) ==
    LET n == IF svLength = MaxHistory THEN MaxHistory ELSE svLength + 1
        ind == Indicators(datum, n)
        signals == Generate(datum, ind)
        results == IF cond.zoned THEN {} ELSE {Execute(s, ind, cond) : s \in signals}
    IN  /\ n >= EnoughHistory
        /\ svLength' = n
        /\ svCache' = [svCache EXCEPT ![n] = {ind}]
        /\ svUsed' = <<ind, datum.indicators>>
        /\ svStale' = (svStale \/ svLength = MaxHistory)
        /\ svResults' = results

\* clear_history leaves the cache of the engine alone.
ClearHistory ==
    /\ svLength > 0
    /\ svLength' = 0 /\ svStale' = TRUE
    /\ UNCHANGED <<svCache, svUsed, svResults>>

VerifyNext ==
    GatherData \/ ClearHistory \/ \E datum \in Data, cond \in Conditions : ProcessData(datum, cond)

VerifySpec == VerifyInit /\ [][VerifyNext]_svVars

------------------------------------------------------------------------------
VerifyTypeOK ==
    /\ svLength \in 0..MaxHistory /\ svStale \in BOOLEAN
    /\ \A r \in svResults : r.score \in Nat /\ r.score <= 10000 /\ Len(r.steps) = 9

FailedSteps(result) == {i \in 1..9 : result.steps[i].status = "failed"}

\* The verdict of the weighted sum and the verdicts of the steps go together: a
\* signal that passes has no more than three steps that failed, one that is let
\* through with a warning no more than six, and one that is held back has one
\* that failed: warnings alone never hold a signal back.
VerdictFollowsSteps ==
    \A r \in svResults :
        /\ r.status = "passed" => Cardinality(FailedSteps(r)) <= 3
        /\ r.status = "warning" => Cardinality(FailedSteps(r)) <= 6
        /\ r.status = "failed" => FailedSteps(r) # {}

\* Signals are made from the indicators of the datum that makes them, until the
\* history is full or was cleared: from then on the cache gives those of an
\* earlier history of the same length.
IndicatorsAreCurrent == svUsed # <<>> /\ ~svStale => svUsed[1] = svUsed[2]

\* Whatever the indicators, a signal's stop is on the side where it loses, and its
\* target is on the other side unless the bands are so narrow that a price within a
\* percent of them lies beyond the average.
StopsProtect ==
    \A r \in svResults :
        LET s == r.signal IN
        /\ s.direction = "long" => s.stop < s.entry
        /\ s.direction = "short" => s.entry < s.stop
        /\ s.direction = "long" /\ s.target <= s.entry =>
               s.type = "mean_reversion" /\ svUsed[1].lower * 101 > svUsed[1].sma20 * 100
        /\ s.direction = "short" /\ s.target >= s.entry =>
               s.type = "mean_reversion" /\ svUsed[1].upper * 99 < svUsed[1].sma20 * 100

------------------------------------------------------------------------------
(* The verification service of department 2 (department_2/src/                 *)
(* verification_pipeline.py, noise_filter.py): raw signals from MQTT, one at a *)
(* time, through the cooldown, the source and price checks and the noise       *)
(* filter, to the topics of verified and of rejected signals.  The connection  *)
(* may go and come back; what is published meanwhile is lost, as the session   *)
(* is clean.  Time is counted in ticks; ratios are in percent.                 *)

CONSTANTS RawSignals,    \* key, source, price, history, rsi, band and volume of a signal
          Cooldown,      \* cooldown_seconds, in ticks
          MaxRaw,        \* bound: signals published to the service
          VpMaxTime      \* bound: ticks

ASSUME PipelineAssumption == Cooldown \in Nat /\ MaxRaw \in Nat /\ VpMaxTime \in Nat

VARIABLES vpRunning,   \* _running
          vpConnected, \* the loop is inside async with aiomqtt.Client
          vpQueue,     \* messages of the client: signals with their number
          vpSent,      \* how many signals were published to the service
          vpAt,        \* where the handler is, with its signal, and the answer it decided on
          vpRecent,    \* _recent_signals: the tick of the last check that passed, or Never
          vpClock,
          vpAnswers,   \* history: what was published, in order
          vpStopped    \* history: answers published since stop()

vpVars == <<vpRunning, vpConnected, vpQueue, vpSent, vpAt, vpRecent, vpClock, vpAnswers, vpStopped>>

Never == -1
PipelineFree == [pc |-> "free"]
Keys == {s.key : s \in RawSignals}

PipelineInit ==
    /\ vpRunning = TRUE /\ vpConnected = FALSE /\ vpQueue = <<>> /\ vpSent = 0 /\ vpAt = PipelineFree
    /\ vpRecent = [k \in Keys |-> Never] /\ vpClock = 0
    /\ vpAnswers = <<>> /\ vpStopped = 0

------------------------------------------------------------------------------
(* The checks.                                                                 *)

\* A history made up from the price alone rises all the way: no losses, and the
\* price near the upper band.
Reading(s) == IF s.history THEN [rsi |-> s.rsi, band |-> s.band] ELSE [rsi |-> 100, band |-> 91]

Objected(s) ==
    \/ s.action = "BUY" /\ (Reading(s).rsi > 70 \/ Reading(s).band > 100)
    \/ s.action = "SELL" /\ (Reading(s).rsi < 30 \/ Reading(s).band < 0)
    \/ s.volume < 10

Off(x) == IF x > 50 THEN 2 * (x - 50) ELSE 2 * (50 - x)

\* volume is in percent of ten times the least volume.
Confidence(s) ==
    ((100 - Off(Reading(s).rsi)) * 4 + (100 - Off(Reading(s).band)) * 4
        + (IF s.volume > 100 THEN 100 ELSE s.volume) * 2) \div 10

\* filter_signal: excellent and good signals are let through.
FilterSignal(s) == ~Objected(s) /\ Confidence(s) > 60

Cooling(s) == vpRecent[s.key] # Never /\ vpClock - vpRecent[s.key] < Cooldown

\* mutant of Stamp: the time is that of the first signal of the key
Stamp_First(key) ==
    IF vpRecent[key] = Never THEN [vpRecent EXCEPT ![key] = vpClock] ELSE vpRecent

\* The cooldown starts at the check, before the filter and whatever it says.
Stamp(key) == [vpRecent EXCEPT ![key] = vpClock]

------------------------------------------------------------------------------
(* The loop of start and the handler.                                          *)

\* The client connects and subscribes.
PipelineConnects ==
    /\ vpRunning /\ ~vpConnected /\ vpAt = PipelineFree
    /\ vpConnected' = TRUE /\ vpQueue' = <<>>
    /\ UNCHANGED <<vpRunning, vpSent, vpAt, vpRecent, vpClock, vpAnswers, vpStopped>>

\* The next message: the first place where a stop is noticed.
TakeMessage ==
    /\ vpConnected /\ vpAt = PipelineFree /\ vpQueue # <<>>
    /\ IF vpRunning
       THEN /\ vpAt' = [pc |-> "started", signal |-> Head(vpQueue)]
            /\ vpQueue' = Tail(vpQueue) /\ UNCHANGED vpConnected
       ELSE /\ vpConnected' = FALSE /\ vpQueue' = <<>> /\ UNCHANGED vpAt
    /\ UNCHANGED <<vpRunning, vpSent, vpRecent, vpClock, vpAnswers, vpStopped>>

\* _process_signal, after the event was logged: verify_signal, filter_signal, and
\* the publication it leads to, which is awaited.
ProcessSignal ==
    /\ vpAt.pc = "started"
    /\ LET s == vpAt.signal.body
           valid == ~Cooling(s) /\ s.source /\ s.price > 0
       IN  /\ vpRecent' = IF valid THEN Stamp(s.key) ELSE vpRecent
           /\ vpAt' = [pc |-> "publishing", signal |-> vpAt.signal, checked |-> vpClock,
                       answer |-> IF valid /\ FilterSignal(s) THEN "verified" ELSE "rejected"]
    /\ UNCHANGED <<vpRunning, vpConnected, vpQueue, vpSent, vpClock, vpAnswers, vpStopped>>

VerdictGiven ==
    /\ vpAnswers' = Append(vpAnswers, [number |-> vpAt.signal.number, key |-> vpAt.signal.body.key,
                                       answer |-> vpAt.answer, checked |-> vpAt.checked])
    /\ vpStopped' = IF vpRunning THEN 0 ELSE vpStopped + 1

\* The broker acknowledges; Kafka is off, and the last event is logged.
PublishEnds ==
    /\ vpAt.pc = "publishing" /\ vpConnected
    /\ VerdictGiven /\ vpAt' = PipelineFree
    /\ UNCHANGED <<vpRunning, vpConnected, vpQueue, vpSent, vpRecent, vpClock>>

\* publish raises, with the message at the broker or not: _handle_message catches
\* it, and the signal is not looked at again.
PublishFails ==
    /\ vpAt.pc = "publishing"
    /\ VerdictGiven \/ UNCHANGED <<vpAnswers, vpStopped>>
    /\ vpAt' = PipelineFree
    /\ UNCHANGED <<vpRunning, vpConnected, vpQueue, vpSent, vpRecent, vpClock>>

\* The connection goes: the loop notices between two messages and leaves the client.
PipelineLoses ==
    /\ vpConnected /\ vpAt = PipelineFree
    /\ vpConnected' = FALSE /\ vpQueue' = <<>>
    /\ UNCHANGED <<vpRunning, vpSent, vpAt, vpRecent, vpClock, vpAnswers, vpStopped>>

\* stop() only clears the flag.
StopPipeline ==
    /\ vpRunning /\ vpRunning' = FALSE
    /\ UNCHANGED <<vpConnected, vpQueue, vpSent, vpAt, vpRecent, vpClock, vpAnswers, vpStopped>>

\* A raw signal is published by somebody.
RawArrives(s) ==
    /\ vpSent < MaxRaw /\ vpSent' = vpSent + 1
    /\ vpQueue' = IF vpConnected THEN Append(vpQueue, [number |-> vpSent, body |-> s]) ELSE vpQueue
    /\ UNCHANGED <<vpRunning, vpConnected, vpAt, vpRecent, vpClock, vpAnswers, vpStopped>>

VpTick ==
    /\ vpClock < VpMaxTime /\ vpClock' = vpClock + 1
    /\ UNCHANGED <<vpRunning, vpConnected, vpQueue, vpSent, vpAt, vpRecent, vpAnswers, vpStopped>>

PipelineNext ==
    \/ PipelineConnects \/ TakeMessage \/ ProcessSignal \/ PublishEnds \/ PublishFails
    \/ PipelineLoses \/ StopPipeline \/ VpTick
    \/ \E s \in RawSignals : RawArrives(s)

PipelineSpec == PipelineInit /\ [][PipelineNext]_vpVars

------------------------------------------------------------------------------
PipelineTypeOK ==
    /\ vpRunning \in BOOLEAN /\ vpConnected \in BOOLEAN
    /\ vpSent \in 0..MaxRaw /\ vpClock \in 0..VpMaxTime
    /\ vpAt.pc \in {"free", "started", "publishing"}
    /\ vpRecent \in [Keys -> {Never} \cup 0..VpMaxTime]

\* Two verified signals of one key were checked a cooldown apart, over
\* reconnections, failed publications and stops.
CooldownKept ==
    \A i, j \in DOMAIN vpAnswers :
        i < j /\ vpAnswers[i].key = vpAnswers[j].key
              /\ vpAnswers[i].answer = "verified" /\ vpAnswers[j].answer = "verified"
        => vpAnswers[j].checked - vpAnswers[i].checked >= Cooldown

\* Every signal is answered once at most, in the order of arrival, and after a stop
\* only the one that was under way.
AnsweredInOrder ==
    /\ \A i, j \in DOMAIN vpAnswers : i < j => vpAnswers[i].number < vpAnswers[j].number
    /\ vpStopped <= 1

------------------------------------------------------------------------------
(* The ensemble of agents (src/occore/verification/multi_llm_ensemble.py):     *)
(* seven coroutines are gathered, an agent that raises is left out, and the    *)
(* weighted score of the others is the signal.  Five of them answer the same   *)
(* for every market.  Confidences and weights are in percent.                  *)

CONSTANTS RsiValues,     \* values of the RSI; -1: one that cannot be compared, the agent raises
          Volatilities,  \* values of the volatility, in percent, and -1 likewise
          MaxEnsembles   \* bound: signals generated

ASSUME EnsembleAssumption == MaxEnsembles \in Nat /\ RsiValues \subseteq Int /\ Volatilities \subseteq Int

VARIABLES enSignals  \* the signals given out, each with its market
enVars == enSignals

EnsembleInit == enSignals = {}

WeightOf ==
    [fundamental |-> 15, sentiment |-> 15, news |-> 10, technical |-> 20, researcher |-> 15,
     trader |-> 15, risk |-> 10]

\* What each agent says whatever the market is.
Constant ==
    [fundamental |-> <<"hold", 60>>, sentiment |-> <<"buy", 70>>, news |-> <<"hold", 50>>,
     researcher |-> <<"buy", 65>>, trader |-> <<"buy", 70>>]

\* mutant of Technical: the two ends of the scale are taken for each other
Technical_Swapped(rsi) ==
    IF rsi < 30 THEN <<"sell", 80>> ELSE IF rsi > 70 THEN <<"buy", 80>> ELSE <<"hold", 50>>

Technical(rsi) == IF rsi < 30 THEN <<"buy", 80>> ELSE IF rsi > 70 THEN <<"sell", 80>> ELSE <<"hold", 50>>
RiskManager(volatility) ==
    IF volatility > 80 THEN <<"sell", 90>> ELSE IF volatility > 50 THEN <<"hold", 60>> ELSE <<"hold", 80>>

\* gather, without the agents that raised.
Opinions(market) ==
    [a \in DOMAIN Constant \cup (IF market.rsi < 0 THEN {} ELSE {"technical"})
                           \cup (IF market.volatility < 0 THEN {} ELSE {"risk"}) |->
        CASE a = "technical" -> Technical(market.rsi)
          [] a = "risk" -> RiskManager(market.volatility)
          [] OTHER -> Constant[a]]

Says(opinions, signal) == {a \in DOMAIN opinions : opinions[a][1] = signal}

\* What an agent adds to the weighted sum, and to the sum of the weights.
Adds(opinions, a) ==
    CASE a \in Says(opinions, "buy")  -> opinions[a][2] * WeightOf[a]
      [] a \in Says(opinions, "sell") -> -(opinions[a][2] * WeightOf[a])
      [] OTHER                        -> 0
Weighs(opinions, a) == IF a \in DOMAIN opinions THEN WeightOf[a] ELSE 0
OfAll(part) ==
    part.fundamental + part.sentiment + part.news + part.technical + part.researcher + part.trader + part.risk
WeightedScore(opinions) == OfAll([a \in DOMAIN WeightOf |-> Adds(opinions, a)])
TotalWeight(opinions) == OfAll([a \in DOMAIN WeightOf |-> Weighs(opinions, a)])

\* _calculate_ensemble
FinalSignal(opinions) ==
    LET score == WeightedScore(opinions)  bar == 20 * TotalWeight(opinions)
    IN  IF score > bar THEN "buy" ELSE IF score < -bar THEN "sell" ELSE "hold"

\* _calculate_consensus: the votes of the largest group, whatever the final signal is.
ConsensusVotes(opinions) == Max({Cardinality(Says(opinions, s)) : s \in {"buy", "sell", "hold"}})

\* _extract_risk_assessment: the confidence of the manager is taken for the risk.
RiskLevel(opinions) ==
    IF "risk" \notin DOMAIN opinions THEN "unknown"
    ELSE IF opinions["risk"][2] > 70 THEN "high" ELSE IF opinions["risk"][2] > 40 THEN "medium" ELSE "low"

\* generate_signal
GenerateSignal(market) ==
    LET opinions == Opinions(market) IN
    /\ Cardinality(enSignals) < MaxEnsembles
    /\ enSignals' = enSignals \cup
          {[market |-> market, final |-> FinalSignal(opinions), score |-> WeightedScore(opinions),
            weight |-> TotalWeight(opinions), votes |-> ConsensusVotes(opinions), risk |-> RiskLevel(opinions)]}

EnsembleNext ==
    \E rsi \in RsiValues, volatility \in Volatilities :
        GenerateSignal([rsi |-> rsi, volatility |-> volatility])

EnsembleSpec == EnsembleInit /\ [][EnsembleNext]_enVars

------------------------------------------------------------------------------
EnsembleTypeOK ==
    \A s \in enSignals : s.final \in {"buy", "sell", "hold"} /\ s.votes \in 1..7 /\ s.weight \in 70..100

\* The signal follows the market: of two signals whose agents all answered, or
\* failed alike, the one of the market that is less overbought and no more
\* volatile is no nearer to a sell.
SignalFollowsMarket ==
    \A s, t \in enSignals :
        LET Rank == [sell |-> 0, hold |-> 1, buy |-> 2] IN
        s.weight = t.weight /\ s.market.rsi >= t.market.rsi /\ s.market.volatility >= t.market.volatility
        => Rank[s.final] <= Rank[t.final]

------------------------------------------------------------------------------
(* The noise filter (src/occore/verification/noise_filter.py): every price is  *)
(* tested against the prices before it and smoothed with them, by one of two   *)
(* tests and one of three filters.  Averages are exact: values carry their     *)
(* denominator.  The Kalman filter is taken with variances that leave its      *)
(* error estimate, and so its gain, as they are.                               *)

CONSTANTS NoisyPrices,  \* prices that come
          Span,         \* ema_span, 10 in the code
          Recent,       \* prices the tests look at, 20 in the code
          KalmanRecent, \* prices the Kalman filter looks at, 10 in the code
          Threshold,    \* outlier_threshold, 3
          ProcessVariance, MeasurementVariance,
          MaxPrices     \* bound: prices that come

ASSUME NoiseAssumption ==
    /\ NoisyPrices \subseteq Nat \ {0} /\ Span \in Nat \ {0} /\ Recent >= 5 /\ MaxPrices \in Nat
    /\ ProcessVariance * MeasurementVariance = ProcessVariance + 1

VARIABLES nfHistory,  \* the prices before
          nfResult    \* the FilteredData of the last price

nfVars == <<nfHistory, nfResult>>

NoiseInit ==
    /\ nfHistory = <<>>
    /\ nfResult = [price |-> 0, window |-> <<>>, outlier |-> FALSE, test |-> "none", smoothing |-> "none",
                   filtered |-> 0, per |-> 1, confidence |-> 100]

LowestOf(s) == CHOOSE p \in ToSet(s) : \A q \in ToSet(s) : p <= q
HighestOf(s) == CHOOSE p \in ToSet(s) : \A q \in ToSet(s) : p >= q
Total(s) == FoldLeft(LAMBDA a, b : a + b, 0, s)
Sorted(s) == SortSeq(s, LAMBDA a, b : a < b)
LastOnes(s, n) == IF Len(s) > n THEN SubSeq(s, Len(s) - n + 1, Len(s)) ELSE s
Magnitude(x) == IF x < 0 THEN -x ELSE x

\* |price - mean| > threshold * std, both sides times the number of the values,
\* and squared; none deviates from values that are all the same.
DeviatesFrom(price, values) ==
    LET n == Len(values)
        spread == n * Total([i \in 1..n |-> values[i] * values[i]]) - Total(values) * Total(values)
        off == Magnitude(n * price - Total(values))
    IN  spread > 0 /\ off * off > Threshold * Threshold * spread

\* mutant of Reference: the price itself is among those it is compared with
Reference_Itself(price, history) == Append(LastOnes(history, Recent), price)

\* What a price is compared with: the recent prices before it.
Reference(price, history) == LastOnes(history, Recent)

\* _is_outlier_zscore
IsOutlierZscore(price, history) == Len(history) >= 5 /\ DeviatesFrom(price, Reference(price, history))

Quartiles(values) ==
    LET s == Sorted(values)  n == Len(values) IN [low |-> s[n \div 4 + 1], high |-> s[(3 * n) \div 4 + 1]]

\* Outside one and a half times the range between the quartiles.
OutOfRange(price, values) ==
    LET q == Quartiles(values)  iqr == q.high - q.low
    IN  2 * price < 2 * q.low - 3 * iqr \/ 2 * price > 2 * q.high + 3 * iqr

\* _is_outlier_iqr
IsOutlierIqr(price, history) == Len(history) >= 5 /\ OutOfRange(price, Reference(price, history))

\* mutant of Blend: the weights do not add up to one
Blend_Heavy(value, price) == [num |-> 2 * price * value.den + Span * value.num, den |-> value.den * (Span + 1)]

\* alpha * price + (1 - alpha) * value, where alpha is 2 / (span + 1).
Blend(value, price) == [num |-> 2 * price * value.den + (Span - 1) * value.num, den |-> value.den * (Span + 1)]

\* _apply_ema: it starts from the newest price of the history, not the oldest.
ApplyEma(price, history) ==
    FoldLeft(Blend, [num |-> Last(history), den |-> 1], Append(LastOnes(history, Span), price))

\* _apply_kalman: the same with the gain of the filter.
Gained(value, price) ==
    LET gain == 1 + ProcessVariance  all == gain + MeasurementVariance
    IN  [num |-> gain * price * value.den + (all - gain) * value.num, den |-> value.den * all]
ApplyKalman(price, history) ==
    FoldLeft(Gained, [num |-> Last(history), den |-> 1], Append(LastOnes(history, KalmanRecent), price))

\* _apply_median_filter, over this price and the four before it.
MiddleOf(values) == Sorted(values)[Len(values) \div 2 + 1]
ApplyMedian(price, history) == [num |-> MiddleOf(Append(LastOnes(history, 4), price)), den |-> 1]

\* filter_price_data
FilterPrice(price, test, smoothing) ==
    LET outlier == CASE test = "zscore" -> IsOutlierZscore(price, nfHistory)
                     [] test = "iqr"    -> IsOutlierIqr(price, nfHistory)
        smooths == Len(nfHistory) >= 3 /\ smoothing # "none"
        value   == CASE smooths /\ smoothing = "ema"    -> ApplyEma(price, nfHistory)
                     [] smooths /\ smoothing = "kalman" -> ApplyKalman(price, nfHistory)
                     [] smooths /\ smoothing = "median" -> ApplyMedian(price, nfHistory)
                     [] OTHER                           -> [num |-> price, den |-> 1]
    IN  /\ Len(nfHistory) < MaxPrices
        /\ nfResult' = [price |-> price, window |-> nfHistory, outlier |-> outlier, test |-> test,
                        smoothing |-> IF smooths THEN smoothing ELSE "none",
                        filtered |-> value.num, per |-> value.den,
                        confidence |-> IF outlier THEN 50 ELSE 100]
        /\ nfHistory' = Append(nfHistory, price)

NoiseNext ==
    \E price \in NoisyPrices, test \in {"zscore", "iqr"}, smoothing \in {"ema", "kalman", "median", "none"} :
        FilterPrice(price, test, smoothing)

NoiseSpec == NoiseInit /\ [][NoiseNext]_nfVars

\* The functions on whole lists: detect_outliers_zscore, where every price is
\* among those it is compared with, detect_outliers_iqr, and median_filter.
DetectZscore(prices) == {i \in DOMAIN prices : Len(prices) >= 2 /\ DeviatesFrom(prices[i], prices)}
DetectIqr(prices) == {i \in DOMAIN prices : Len(prices) >= 4 /\ OutOfRange(prices[i], prices)}

\* mutant of MedianFilter: the window stops one price short
MedianFilter_Short(prices) ==
    IF Len(prices) < 5 THEN prices
    ELSE [i \in DOMAIN prices |-> MiddleOf(SubSeq(prices, IF i > 2 THEN i - 2 ELSE 1, 
                                                  IF i + 1 > Len(prices) THEN Len(prices) ELSE i + 1))]

MedianFilter(prices) ==
    IF Len(prices) < 5 THEN prices
    ELSE [i \in DOMAIN prices |-> MiddleOf(SubSeq(prices, IF i > 2 THEN i - 2 ELSE 1,
                                                  IF i + 2 > Len(prices) THEN Len(prices) ELSE i + 2))]

------------------------------------------------------------------------------
NoiseTypeOK ==
    /\ nfHistory \in Seq(NoisyPrices) /\ Len(nfHistory) <= MaxPrices
    /\ nfResult.confidence \in {50, 100} /\ nfResult.per > 0

\* What a price is smoothed to lies between the prices it was smoothed with,
\* whichever filter and history.
SmoothedIsBetween ==
    LET all == Append(nfResult.window, nfResult.price) IN
    nfResult.price # 0 =>
        LowestOf(all) * nfResult.per <= nfResult.filtered /\ nfResult.filtered <= HighestOf(all) * nfResult.per

\* A price that leaves the range of the recent ones by more than half as much
\* again is an outlier for either test, unless those were all the same, where the
\* test of the deviation sees none.
JumpIsNoticed ==
    LET w == LastOnes(nfResult.window, Recent)  range == HighestOf(w) - LowestOf(w)
    IN  /\ Len(nfResult.window) >= 5
        /\ 2 * nfResult.price > 2 * HighestOf(w) + 3 * range \/ 2 * nfResult.price < 2 * LowestOf(w) - 3 * range
        /\ nfResult.test = "iqr" \/ range > 0
        => nfResult.outlier

\* The median of a list is free of a single spike, and the quartiles find it:
\* where all prices but one lie together, so does every filtered one, and the one
\* is an outlier if it is far off.
SpikeIsFlattened ==
    \A i \in DOMAIN nfHistory :
        LET others == RemoveAt(nfHistory, i)  range == HighestOf(others) - LowestOf(others)
            f == MedianFilter(nfHistory)
            far == \/ 2 * nfHistory[i] > 2 * HighestOf(others) + 3 * range
                   \/ 2 * nfHistory[i] < 2 * LowestOf(others) - 3 * range
        IN  Len(nfHistory) >= 5 =>
                /\ \A j \in DOMAIN f : f[j] \in LowestOf(others)..HighestOf(others)
                /\ far => i \in DetectIqr(nfHistory)

\* Ten prices hold no outlier by their own deviation, however far one lies off:
\* the deviation a price adds to hides it.
FewHideOutliers == Len(nfHistory) <= Threshold * Threshold + 1 => DetectZscore(nfHistory) = {}
==============================================================================
