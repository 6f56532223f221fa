------------------------------ MODULE PaperBots ------------------------------
(* The bots of department 7 that decide and record trades without sending one *)
(* (src/department_7/src/bot).  Four parts, each with its own state.         *)
EXTENDS Integers, Sequences, FiniteSets, SequencesExt

------------------------------------------------------------------------------
(* The trend follower of department 7 (department_7/src/bot/trend_follower.py) *)
(* as its two threads: paho's network thread, which handles candles and        *)
(* commands and owns the position, and the main thread, which publishes the    *)
(* status every five seconds and reads the same position twice to do so.       *)
(* What the averages and the histogram say is a reading, one of a small set.   *)

CONSTANTS Readings,     \* dir, strong and hist of a trend; hist in tenths of the threshold
          SlowPeriod,   \* EMA_SLOW: candles before the first evaluation
          MaxCandles    \* bound: candles and commands

ASSUME TrendAssumption == SlowPeriod \in Nat /\ MaxCandles \in Nat

VARIABLES tfRunning,    \* self.running
          tfPosition,   \* self.position: side and the number of its candle, or None
          tfHistory,    \* len(price_history)
          tfAt,         \* where the network thread is, with the candle it handles
          tfMain,       \* where the main thread is
          tfSeen,       \* messages received
          tfSignals,    \* history: what publish_signal sent
          tfShown       \* the position in the last status published

tfVars == <<tfRunning, tfPosition, tfHistory, tfAt, tfMain, tfSeen, tfSignals, tfShown>>

NoTrade == [side |-> "none", entry |-> 0]
Holding == tfPosition # NoTrade

TrendInit ==
    /\ tfRunning = TRUE /\ tfPosition = NoTrade /\ tfHistory = 0
    /\ tfAt = "idle" /\ tfMain = "check" /\ tfSeen = 0
    /\ tfSignals = <<>> /\ tfShown = NoTrade

------------------------------------------------------------------------------
(* The network thread.                                                         *)

\* should_enter_long, should_enter_short
Entry(r) == IF r.strong /\ r.dir = "UP" /\ r.hist > 0 THEN "LONG"
            ELSE IF r.strong /\ r.dir = "DOWN" /\ r.hist < 0 THEN "SHORT" ELSE "none"

\* The trend turned, or the histogram did by more than 0.1.  The stop and the
\* target of the position are asked by nobody.
ShouldClose(r) ==
    \/ tfPosition.side = "LONG"  /\ (r.dir = "DOWN" \/ r.hist < -10)
    \/ tfPosition.side = "SHORT" /\ (r.dir = "UP" \/ r.hist > 10)

\* mutant of EvaluateStrategy: a position that is kept does not end the evaluation
EvaluateStrategy_Falls(r) ==
    IF Holding /\ ShouldClose(r)
    THEN /\ tfSignals' = Append(tfSignals, [act |-> "CLOSE", entry |-> tfPosition.entry])
         /\ tfAt' = "closed" /\ UNCHANGED tfPosition
    ELSE /\ Entry(r) # "none"
         /\ tfPosition' = [side |-> Entry(r), entry |-> tfSeen + 1] /\ tfAt' = "entered"
         /\ UNCHANGED tfSignals

\* close_position publishes before it clears, enter_position sets before it
\* publishes: what is left of either is the thread's next step.
EvaluateStrategy(r) ==
    IF Holding
    THEN IF ShouldClose(r)
         THEN /\ tfSignals' = Append(tfSignals, [act |-> "CLOSE", entry |-> tfPosition.entry])
              /\ tfAt' = "closed" /\ UNCHANGED tfPosition
         ELSE UNCHANGED <<tfSignals, tfAt, tfPosition>>
    ELSE IF Entry(r) # "none"
         THEN /\ tfPosition' = [side |-> Entry(r), entry |-> tfSeen + 1] /\ tfAt' = "entered"
              /\ UNCHANGED tfSignals
         ELSE UNCHANGED <<tfSignals, tfAt, tfPosition>>

Receives == tfAt = "idle" /\ tfMain # "ended" /\ tfSeen < MaxCandles /\ tfSeen' = tfSeen + 1

\* A candle: one without a price is not kept, but evaluated all the same.
HandleCandle(priced, r) ==
    /\ Receives
    /\ tfHistory' = IF priced /\ tfHistory < SlowPeriod THEN tfHistory + 1 ELSE tfHistory
    /\ IF tfHistory' = SlowPeriod THEN EvaluateStrategy(r)
       ELSE UNCHANGED <<tfSignals, tfAt, tfPosition>>
    /\ UNCHANGED <<tfRunning, tfMain, tfShown>>

EntryPublished ==
    /\ tfAt = "entered" /\ tfAt' = "idle"
    /\ tfSignals' = Append(tfSignals, [act |-> tfPosition.side, entry |-> tfPosition.entry])
    /\ UNCHANGED <<tfRunning, tfPosition, tfHistory, tfMain, tfSeen, tfShown>>

PositionCleared ==
    /\ tfAt = "closed" /\ tfAt' = "idle" /\ tfPosition' = NoTrade
    /\ UNCHANGED <<tfRunning, tfHistory, tfMain, tfSeen, tfSignals, tfShown>>

\* The command "stop" only clears the flag: the position stays.
StopCommand ==
    /\ Receives /\ tfRunning' = FALSE
    /\ UNCHANGED <<tfPosition, tfHistory, tfAt, tfMain, tfSignals, tfShown>>

StatusCommand ==
    /\ Receives /\ tfShown' = tfPosition
    /\ UNCHANGED <<tfRunning, tfPosition, tfHistory, tfAt, tfMain, tfSignals>>

------------------------------------------------------------------------------
(* The main thread.                                                            *)

ChecksRunning ==
    /\ tfMain = "check"
    /\ tfMain' = IF tfRunning THEN "test" ELSE "leaving"
    /\ UNCHANGED <<tfRunning, tfPosition, tfHistory, tfAt, tfSeen, tfSignals, tfShown>>

\* get_status asks whether there is a position ...
TestsPosition ==
    /\ tfMain = "test"
    /\ IF Holding THEN tfMain' = "read" /\ UNCHANGED tfShown
       ELSE tfMain' = "sleep" /\ tfShown' = NoTrade
    /\ UNCHANGED <<tfRunning, tfPosition, tfHistory, tfAt, tfSeen, tfSignals>>

\* ... and reads it again: asdict(None) raises, and the bot is over.
ReadsPosition ==
    /\ tfMain = "read"
    /\ IF Holding THEN tfMain' = "sleep" /\ tfShown' = tfPosition
       ELSE tfMain' = "leaving" /\ UNCHANGED tfShown
    /\ UNCHANGED <<tfRunning, tfPosition, tfHistory, tfAt, tfSeen, tfSignals>>

Wakes ==
    /\ tfMain = "sleep" /\ tfMain' = "check"
    /\ UNCHANGED <<tfRunning, tfPosition, tfHistory, tfAt, tfSeen, tfSignals, tfShown>>

\* SIGTERM: sys.exit in the main thread, through the finally.
Terminated ==
    /\ tfMain \notin {"leaving", "ended"} /\ tfMain' = "leaving"
    /\ UNCHANGED <<tfRunning, tfPosition, tfHistory, tfAt, tfSeen, tfSignals, tfShown>>

\* loop_stop joins the network thread, which ends the message it handles.
LoopStopped ==
    /\ tfMain = "leaving" /\ tfAt = "idle" /\ tfMain' = "ended"
    /\ UNCHANGED <<tfRunning, tfPosition, tfHistory, tfAt, tfSeen, tfSignals, tfShown>>

TrendNext ==
    \/ \E priced \in BOOLEAN, r \in Readings : HandleCandle(priced, r)
    \/ EntryPublished \/ PositionCleared \/ StopCommand \/ StatusCommand
    \/ ChecksRunning \/ TestsPosition \/ ReadsPosition \/ Wakes \/ Terminated \/ LoopStopped

TrendSpec == TrendInit /\ [][TrendNext]_tfVars

------------------------------------------------------------------------------
TrendTypeOK ==
    /\ tfRunning \in BOOLEAN /\ tfHistory \in 0..SlowPeriod /\ tfSeen \in 0..MaxCandles
    /\ tfAt \in {"idle", "entered", "closed"}
    /\ tfMain \in {"check", "test", "read", "sleep", "leaving", "ended"}

\* The signals on the topic are entries and their closings in turn, and whenever the
\* network thread is idle the position is the one their order leaves open: whoever
\* follows the signals holds what the bot believes it holds, also after its end.
SignalsTellPosition ==
    /\ \A i \in DOMAIN tfSignals :
          IF i % 2 = 1 THEN tfSignals[i].act # "CLOSE"
          ELSE tfSignals[i].act = "CLOSE" /\ tfSignals[i].entry = tfSignals[i-1].entry
    /\ tfAt = "idle" =>
          IF Len(tfSignals) % 2 = 0 THEN ~Holding
          ELSE LET last == tfSignals[Len(tfSignals)]
               IN  tfPosition = [side |-> last.act, entry |-> last.entry]

------------------------------------------------------------------------------
(* The market maker of department 7 (department_7/src/bot/                     *)
(* market_maker_bot.py): quotes around the middle of the book, sized and       *)
(* shifted by what share of its value is held in the base asset, and an        *)
(* inventory that moves by the trades reported to update_inventory.  Shares    *)
(* and spreads are in ten thousandths, amounts in hundredths of a coin, prices *)
(* in whole quotes.  Nothing in src calls update_inventory, and the inventory  *)
(* starts without a coin, where no order is placed: the trades are an input.   *)

CONSTANTS Mids,            \* middles of the order books fetched
          TradeSizes,      \* sizes of the trades reported, in hundredths
          StartQuote,      \* the quote asset of a new Inventory, in hundredths
          BaseSpread, MinSpread, MaxSpread,   \* in basis points
          OrderSize,       \* order_size, in hundredths
          MaxCoins,        \* max_position, in hundredths
          MmMaxTrades,     \* bound: trades reported
          MmMaxPasses      \* bound: passes of run

ASSUME MakerAssumption ==
    /\ Mids \cup TradeSizes \cup {StartQuote, MaxCoins} \subseteq Int
    /\ {BaseSpread, MinSpread, MaxSpread, OrderSize} \subseteq Nat \ {0}
    /\ MmMaxTrades \in Nat /\ MmMaxPasses \in Nat

VARIABLES mmRunning,   \* self.running
          mmAt,        \* where run() is
          mmBase, mmQuote, mmValue,   \* the inventory: base_asset, quote_asset, base_value
          mmOrders,    \* current_orders: nothing is ever taken out of it
          mmPlaced, mmFilled,         \* orders_placed, orders_filled
          mmPasses     \* passes made

mmVars == <<mmRunning, mmAt, mmBase, mmQuote, mmValue, mmOrders, mmPlaced, mmFilled, mmPasses>>

MakerInit ==
    /\ mmRunning = TRUE /\ mmAt = "fetch"
    /\ mmBase = 0 /\ mmQuote = StartQuote /\ mmValue = 0
    /\ mmOrders = {} /\ mmPlaced = 0 /\ mmFilled = 0 /\ mmPasses = 0

------------------------------------------------------------------------------
(* The quotes.                                                                 *)

\* inventory_ratio
InventoryRatio ==
    IF mmQuote + mmValue > 0 THEN (mmValue * 10000) \div (mmQuote + mmValue) ELSE 5000

Skew == InventoryRatio - 5000
Size(x) == IF x < 0 THEN -x ELSE x
Least(a, b) == IF a < b THEN a ELSE b

\* calculate_spread: in units of a thousandth of a basis point.  The skew adds a
\* thousandth of itself.
Spread ==
    LET wide == Least(MaxSpread * 1000, BaseSpread * 1000 + Size(Skew))
    IN  IF wide < MinSpread * 1000 THEN MinSpread * 1000 ELSE wide

\* calculate_quotes, as distances from the middle in the unit of Spread: half the
\* spread, and the skew's share of it, by which both are lowered.
Quotes ==
    LET half == Spread \div 2
        shift == (Skew * half) \div 10000
    IN  [bid |-> -(half + shift), ask |-> half - shift]

\* mutant of InventoryAllowed: a full inventory is not asked about
InventoryAllowed_LowOnly == InventoryRatio >= 2000

\* check_inventory_limits
InventoryAllowed == InventoryRatio \in 2000..8000

\* The sizes of bid and ask, in units of half an order_size.
Sizes == IF Skew > 1000 THEN [buy |-> 1, sell |-> 3]
         ELSE IF Skew < -1000 THEN [buy |-> 3, sell |-> 1] ELSE [buy |-> 2, sell |-> 2]

\* check_position_limits
PositionAllowed(side) == IF side = "buy" THEN mmBase < MaxCoins ELSE mmBase > -MaxCoins

\* place_orders: the ids carry the microsecond, so every order is a new entry.
PlaceOrders(mid) ==
    LET sides == {s \in {"buy", "sell"} : PositionAllowed(s)}
    IN  IF InventoryAllowed /\ mid > 0
        THEN /\ mmOrders' = mmOrders \cup
                   {[pass |-> mmPasses, side |-> s, mid |-> mid, size |-> OrderSize * Sizes[s],
                     off |-> IF s = "buy" THEN Quotes.bid ELSE Quotes.ask,
                     coins |-> mmBase] : s \in sides}
             /\ mmPlaced' = mmPlaced + Cardinality(sides)
        ELSE UNCHANGED <<mmOrders, mmPlaced>>

------------------------------------------------------------------------------
(* run, stop and the reports.                                                  *)

\* A pass: the book is fetched and the orders placed without an await in between.
MakerPass(mid) ==
    /\ mmAt = "fetch" /\ mmPasses < MmMaxPasses
    /\ PlaceOrders(mid)
    /\ mmPasses' = mmPasses + 1 /\ mmAt' = "sleep"
    /\ UNCHANGED <<mmRunning, mmBase, mmQuote, mmValue, mmFilled>>

MakerWakes ==
    /\ mmAt = "sleep" /\ mmAt' = IF mmRunning THEN "fetch" ELSE "ended"
    /\ UNCHANGED <<mmRunning, mmBase, mmQuote, mmValue, mmOrders, mmPlaced, mmFilled, mmPasses>>

\* stop clears the flag, which the loop reads after its sleep; the orders stay.
MakerStop ==
    /\ mmRunning /\ mmRunning' = FALSE
    /\ UNCHANGED <<mmAt, mmBase, mmQuote, mmValue, mmOrders, mmPlaced, mmFilled, mmPasses>>

\* update_inventory: every coin is valued at the price of the last trade.
UpdateInventory(side, size, price) ==
    LET sign == IF side = "buy" THEN 1 ELSE -1
    IN  /\ mmBase' = mmBase + sign * size
        /\ mmQuote' = mmQuote - sign * size * price
        /\ mmValue' = mmBase' * price
        /\ mmFilled' = mmFilled + 1
        /\ UNCHANGED <<mmRunning, mmAt, mmOrders, mmPlaced, mmPasses>>

MakerNext ==
    \/ \E mid \in Mids : MakerPass(mid)
    \/ MakerWakes \/ MakerStop
    \/ \E side \in {"buy", "sell"}, size \in TradeSizes, price \in Mids :
          mmFilled < MmMaxTrades /\ price > 0 /\ UpdateInventory(side, size, price)

MakerSpec == MakerInit /\ [][MakerNext]_mmVars

------------------------------------------------------------------------------
MakerTypeOK ==
    /\ mmRunning \in BOOLEAN /\ mmAt \in {"fetch", "sleep", "ended"}
    /\ mmFilled \in 0..MmMaxTrades /\ mmPasses \in 0..MmMaxPasses
    /\ mmPlaced = Cardinality(mmOrders)

\* The bot never quotes through the market: a bid lies below the middle and an ask
\* above it whatever the inventory has become, and no order would be placed on the
\* side where the coins are beyond their limit.
QuotesStraddle ==
    \A o \in mmOrders :
        IF o.side = "buy" THEN o.off < 0 /\ o.coins < MaxCoins
        ELSE o.off > 0 /\ o.coins > -MaxCoins

------------------------------------------------------------------------------
(* The arbitrage bot of department 7 (department_7/src/bot/arbitrage_bot.py):  *)
(* the last quote of every exchange, the pairs whose books cross by enough,    *)
(* and the best of them traded when it still pays after the slippage.  Prices  *)
(* are in units in which a hundredth of a percent can be told; the size of a   *)
(* trade is one.  The simulation of prices gives the first exchange one bid    *)
(* and the others any near it; update_price is the way for other quotes in.    *)

CONSTANTS Exchanges,         \* self.exchanges
          Bids, Widths,      \* bids and their distances to the ask that occur
          MinSpreadBps, MinProfit, SlippageBps,   \* min_spread_bps, min_profit_usd, max_slippage_bps
          MaxDailyTrades,    \* max_daily_trades
          AbMaxPasses        \* bound: passes of run

ASSUME ArbAssumption ==
    /\ Bids \subseteq Nat \ {0} /\ Widths \subseteq Nat
    /\ {MinSpreadBps, MinProfit, SlippageBps} \subseteq Nat
    /\ MaxDailyTrades \in Nat /\ AbMaxPasses \in Nat

VARIABLES arPrices,    \* price_data: of each exchange its bid and ask, or NoQuote
          arRunning, arAt,
          arTrades,    \* daily_trades: no day ever resets it
          arProfit,    \* total_profit
          arFound,     \* opportunities_found
          arDone,      \* history: what was executed
          arPasses

arVars == <<arPrices, arRunning, arAt, arTrades, arProfit, arFound, arDone, arPasses>>

NoQuote == [bid |-> 0, ask |-> 0]
Quoted == {e \in Exchanges : arPrices[e] # NoQuote}

ArbInit ==
    /\ arPrices = [e \in Exchanges |-> NoQuote]
    /\ arRunning = TRUE /\ arAt = "scan" /\ arTrades = 0 /\ arProfit = 0 /\ arFound = 0
    /\ arDone = {} /\ arPasses = 0

------------------------------------------------------------------------------
\* check_arbitrage_opportunity: bought where it is cheap, sold where it is dear.
Crossing(prices, b, s) ==
    LET gap == prices[s].bid - prices[b].ask
    IN  gap > 0 /\ gap * 10000 >= MinSpreadBps * prices[b].ask /\ gap >= MinProfit

Opportunity(prices, b, s) ==
    [buy |-> b, sell |-> s, price |-> prices[b].ask, profit |-> prices[s].bid - prices[b].ask]

\* scan_opportunities: every pair once, in the one direction in which it crosses.
ScanOpportunities(prices) ==
    {Opportunity(prices, p[1], p[2]) : p \in
        {p \in Quoted' \X Quoted' : p[1] # p[2] /\ Crossing(prices, p[1], p[2])}}

Best(found) == {o \in found : \A p \in found : p.profit <= o.profit}

\* mutant of ValidateExecution: the slippage is added
ValidateExecution_Adds(o) ==
    /\ arTrades < MaxDailyTrades
    /\ o.profit * 10000 + o.price * SlippageBps >= MinProfit * 10000

\* validate_execution: not after the limit, and not when slippage eats the profit.
ValidateExecution(o) ==
    /\ arTrades < MaxDailyTrades
    /\ o.profit * 10000 - o.price * SlippageBps >= MinProfit * 10000

\* execute_arbitrage: both orders are simulated and always filled.
ExecuteArbitrage(o) ==
    IF ValidateExecution(o)
    THEN /\ arTrades' = arTrades + 1 /\ arProfit' = arProfit + o.profit
         /\ arDone' = arDone \cup {[pass |-> arPasses, of |-> o, quotes |-> arPrices']}
    ELSE UNCHANGED <<arTrades, arProfit, arDone>>

Bid(b, w) == [bid |-> b, ask |-> b + w]

\* A pass of run: every exchange gets a new quote, and the rest follows without an
\* await that gives way.
ArbPass(b, w) ==
    /\ arAt = "scan" /\ arPasses < AbMaxPasses
    /\ arPrices' = [e \in Exchanges |-> Bid(b[e], w[e])]
    /\ LET found == ScanOpportunities(arPrices')
       IN  IF found = {} THEN UNCHANGED <<arFound, arTrades, arProfit, arDone>>
           ELSE /\ arFound' = arFound + 1
                /\ \E o \in Best(found) : ExecuteArbitrage(o)
    /\ arPasses' = arPasses + 1 /\ arAt' = "sleep" /\ UNCHANGED arRunning

\* The loop looks at its flag after the sleep.
ArbWakes ==
    /\ arAt = "sleep" /\ arAt' = IF arRunning THEN "scan" ELSE "ended"
    /\ UNCHANGED <<arPrices, arRunning, arTrades, arProfit, arFound, arDone, arPasses>>

ArbStop ==
    /\ arRunning /\ arRunning' = FALSE
    /\ UNCHANGED <<arPrices, arAt, arTrades, arProfit, arFound, arDone, arPasses>>

ArbNext ==
    \/ \E b \in [Exchanges -> Bids], w \in [Exchanges -> Widths] : ArbPass(b, w)
    \/ ArbWakes \/ ArbStop

ArbSpec == ArbInit /\ [][ArbNext]_arVars

------------------------------------------------------------------------------
ArbTypeOK ==
    /\ arRunning \in BOOLEAN /\ arAt \in {"scan", "sleep", "ended"}
    /\ arTrades = Cardinality(arDone) /\ arFound \in 0..arPasses

\* What was executed paid: bought at one exchange below the bid of another by the
\* least profit and the slippage allowed for, and no pair of the moment paid more.
TradesPay ==
    /\ arTrades <= MaxDailyTrades
    /\ \A d \in arDone :
          LET gap(b, s) == d.quotes[s].bid - d.quotes[b].ask
          IN  /\ gap(d.of.buy, d.of.sell) * 10000
                    >= MinProfit * 10000 + d.of.price * SlippageBps
              /\ \A b, s \in Exchanges : gap(b, s) <= gap(d.of.buy, d.of.sell)

------------------------------------------------------------------------------
(* The prediction-market bot of department 7 (department_7/src/bot/            *)
(* polymarket_bot.py): one coroutine that fetches the markets, asks a model    *)
(* for each one's probability and records a bet where the two differ by        *)
(* enough; the bets are recorded and reported, never sent.  It can be stopped  *)
(* or cancelled wherever it awaits.  Probabilities are in percent, amounts in  *)
(* cents.                                                                      *)

CONSTANTS PredMarkets,   \* ids of the markets
          YesPrices,     \* prices they may have
          ModelAnswers,  \* probabilities the model may give, and -1 for no answer
          BetCapital,    \* capital
          MinEdge, MinBet, MaxBet,
          PoMaxPasses    \* bound: passes over the markets

ASSUME PolyAssumption ==
    /\ YesPrices \subseteq 0 .. 100 /\ ModelAnswers \subseteq -1 .. 100
    /\ {BetCapital, MinBet, MaxBet} \subseteq Nat /\ MinBet <= MaxBet
    /\ MinEdge \in Nat \ {0} /\ PoMaxPasses \in Nat

VARIABLES poStatus,    \* self.status
          poMock,      \* mock_mode
          poAt,        \* where run() is: pc, markets still to do, the bet it notifies
          poCancel,    \* the task was cancelled; stop() follows where it awaits
          poTrades,    \* self.trades
          poBets, poWagered,   \* total_bets, total_wagered
          poReport,    \* history: the last report sent, with the trades there were
          poPasses

poVars == <<poStatus, poMock, poAt, poCancel, poTrades, poBets, poWagered, poReport, poPasses>>
poCounts == <<poTrades, poBets, poWagered>>

Where(pc, todo) == [pc |-> pc, todo |-> todo]
Looping == poStatus \in {"RUNNING", "MOCK"}
Staked(trades) == FoldSeq(LAMBDA t, sum : t.amount + sum, 0, trades)

PolyInit ==
    /\ poStatus = "IDLE" /\ poMock = FALSE /\ poAt = Where("initialize", {}) /\ poCancel = FALSE
    /\ poTrades = <<>> /\ poBets = 0 /\ poWagered = 0
    /\ poReport = [sent |-> FALSE] /\ poPasses = 0

------------------------------------------------------------------------------
(* One bet.                                                                    *)

Edge(market, model) == IF model = -1 THEN 0 ELSE model - market
Abs(x) == IF x < 0 THEN -x ELSE x

\* mutant of Recommended: the bounds of a bet are applied in the other order to the
\* wrong ends
Recommended_NoCap(market, edge) ==
    LET kelly == IF edge > 0 THEN (BetCapital * edge * 25) \div (market * (100 - market)) ELSE 0
    IN  IF kelly < MinBet THEN MinBet ELSE kelly

\* A quarter of Kelly's share of the capital, never reduced by what was bet before,
\* between the least and the largest bet.  Against an event it is the least bet.
Recommended(market, edge) ==
    LET kelly == IF edge > 0 THEN (BetCapital * edge * 25) \div (market * (100 - market)) ELSE 0
        capped == IF kelly > BetCapital \div 2 THEN BetCapital \div 2 ELSE kelly
    IN  IF capped < MinBet THEN MinBet ELSE IF capped > MaxBet THEN MaxBet ELSE capped

\* A price of 0 or 100 divides by zero when the edge is positive: no opportunity.
Opportune(market, model) ==
    /\ Abs(Edge(market, model)) >= MinEdge
    /\ Edge(market, model) > 0 => market \notin {0, 100}

Bet(id, market, model) ==
    LET edge == Edge(market, model)
    IN  [market |-> id, side |-> IF edge > 0 THEN "yes" ELSE "no", edge |-> edge,
         amount |-> Recommended(market, edge),
         price |-> IF edge > 0 THEN market ELSE 100 - market]

\* mutant of PlaceBet: the counts follow the notification
PlaceBet_Late(bet) ==
    /\ poTrades' = Append(poTrades, bet)
    /\ UNCHANGED <<poBets, poWagered>>

\* _place_bet up to its notification: the same market may be bet on in every pass.
PlaceBet(bet) ==
    /\ poTrades' = Append(poTrades, bet)
    /\ poBets' = poBets + 1 /\ poWagered' = poWagered + bet.amount

------------------------------------------------------------------------------
(* run, as it goes from one await to the next.                                 *)

Awaiting(pc) == poAt.pc = pc /\ ~poCancel

\* initialize: live with credentials and an exchange that answers, else mock.
Initialized(live) ==
    /\ Awaiting("initialize")
    /\ poMock' = ~live /\ poStatus' = IF live THEN "RUNNING" ELSE "MOCK"
    /\ poAt' = Where("greet", {})
    /\ UNCHANGED <<poCancel, poCounts, poReport, poPasses>>

\* The loop's condition: after the greeting and after every sleep.
PolyChecks ==
    /\ poAt.pc \in {"greet", "sleep"} /\ ~poCancel
    /\ poAt' = Where(IF Looping THEN "fetch" ELSE "ended", {})
    /\ UNCHANGED <<poStatus, poMock, poCancel, poCounts, poReport, poPasses>>

\* _fetch_active_markets: all of them in mock mode, none when the request fails.
MarketsFetched(ms) ==
    /\ Awaiting("fetch") /\ poPasses < PoMaxPasses
    /\ poMock => ms = PredMarkets
    /\ poPasses' = poPasses + 1
    /\ poAt' = Where(IF ms = {} THEN "sleep" ELSE "predict", ms)
    /\ UNCHANGED <<poStatus, poMock, poCancel, poCounts, poReport>>

Rest(ms) == Where(IF ms = {} THEN "sleep" ELSE "predict", ms)

\* _analyze_market, when the model has answered, and the bet that follows; the flag
\* is not looked at between two markets.
MarketAnalyzed(id, market, model) ==
    /\ Awaiting("predict") /\ id \in poAt.todo
    /\ IF Opportune(market, model)
       THEN PlaceBet(Bet(id, market, model)) /\ poAt' = Where("notify", poAt.todo \ {id})
       ELSE UNCHANGED poCounts /\ poAt' = Rest(poAt.todo \ {id})
    /\ UNCHANGED <<poStatus, poMock, poCancel, poReport, poPasses>>

\* The notification is through, or failed and was caught.
BetNotified ==
    /\ Awaiting("notify") /\ poAt' = Rest(poAt.todo)
    /\ UNCHANGED <<poStatus, poMock, poCancel, poCounts, poReport, poPasses>>

Report == [sent |-> TRUE, bets |-> poBets, wagered |-> poWagered, trades |-> poTrades]

\* stop() of another coroutine: the status, and the report after the disconnections.
PolyStop ==
    /\ Looping /\ poStatus' = "IDLE"
    /\ poReport' = Report
    /\ UNCHANGED <<poMock, poAt, poCancel, poCounts, poPasses>>

\* The task is cancelled at any await ...
PolyCancelled ==
    /\ ~poCancel /\ poAt.pc \notin {"initialize", "ended"} /\ poCancel' = TRUE
    /\ UNCHANGED <<poStatus, poMock, poAt, poCounts, poReport, poPasses>>

\* ... and run() catches it by stopping the bot.
CancelStops ==
    /\ poCancel /\ poAt.pc # "ended"
    /\ poStatus' = "IDLE" /\ poReport' = Report /\ poAt' = Where("ended", {})
    /\ UNCHANGED <<poMock, poCancel, poCounts, poPasses>>

PolyNext ==
    \/ \E live \in BOOLEAN : Initialized(live)
    \/ PolyChecks \/ BetNotified \/ PolyStop \/ PolyCancelled \/ CancelStops
    \/ \E ms \in SUBSET PredMarkets : MarketsFetched(ms)
    \/ \E id \in PredMarkets, market \in YesPrices, model \in ModelAnswers :
          MarketAnalyzed(id, market, model)

PolySpec == PolyInit /\ [][PolyNext]_poVars

------------------------------------------------------------------------------
PolyTypeOK ==
    /\ poStatus \in {"IDLE", "RUNNING", "MOCK"} /\ poMock \in BOOLEAN /\ poCancel \in BOOLEAN
    /\ poAt.pc \in {"initialize", "greet", "fetch", "predict", "notify", "sleep", "ended"}
    /\ poAt.todo \subseteq PredMarkets /\ poPasses \in 0..PoMaxPasses

\* The report sent at the end counts every bet recorded by then, also when the bot
\* was cancelled while the last one was being announced.
ReportIsWhole ==
    poReport.sent =>
        poReport.bets = Len(poReport.trades) /\ poReport.wagered = Staked(poReport.trades)

\* A market is bet on once a pass, on the side the model prefers, for an amount
\* within the bounds.
BetsAreBounded ==
    /\ \A id \in PredMarkets :
           Cardinality({i \in DOMAIN poTrades : poTrades[i].market = id}) <= poPasses
    /\ \A i \in DOMAIN poTrades :
          /\ poTrades[i].amount \in MinBet..MaxBet
          /\ (poTrades[i].side = "yes") <=> (poTrades[i].edge >= MinEdge)
==============================================================================
