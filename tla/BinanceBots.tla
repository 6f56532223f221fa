----------------------------- MODULE BinanceBots -----------------------------
(* Three bots of department 7 on one exchange: the grid bot, the scalper and the *)
(* triangular arbitrage.  Three parts, each with its own state.              *)
EXTENDS Integers, Sequences, ExchangeCalls

------------------------------------------------------------------------------
(* The grid bot of department 7 (src/department_7/src/bot/grid_bot.py): its   *)
(* loop places a limit order per level, takes orders that have left the list  *)
(* of open orders for filled, and answers each with an order on the level     *)
(* above or below.  The loop is one task; whoever manages the bot cancels the *)
(* task, waits for it and calls stop.  Prices are left out: any open order    *)
(* may fill, and the market may leave the range of the grid, at any time.     *)

CONSTANTS GridLevels,   \* grid_count as configured
          GridCounts,   \* what the adjustment to a small capital may make of it
          MaxGridOrders \* bound on the orders created

ASSUME GridAssumption ==
    /\ GridLevels \in Nat \ {0} /\ GridCounts \subseteq 1 .. GridLevels
    /\ MaxGridOrders \in Nat

VARIABLES gAt,     \* where the task of run() is
          gNext,   \* the level the loop in hand visits next
          gSide,   \* the check it makes there: "buy", then "sell"
          gCount,  \* grid_count
          gTop,    \* the number of entries of grid_levels
          gLevels, \* grid_levels: the order ids of each level, 0 for None
          gSnap,   \* open_order_ids of the pass under way
          gOrd,    \* the orders at the exchange, in order of creation
          gBooked, \* the orders handled as filled
          gCut,    \* a creation a cancellation cut off, served or not later
          gClean   \* the last cancel_all_orders was served

gvars == <<gAt, gNext, gSide, gCount, gTop, gLevels, gSnap, gOrd, gBooked, gCut, gClean>>

GridSteps == 0 .. GridLevels - 1
Sides == {"buy", "sell"}
NoIds == [s \in Sides |-> 0]
NoOrder == [side |-> "none", level |-> 0, st |-> "none", as |-> "none"]

GridInit ==
    /\ gAt = "off" /\ gNext = 0 /\ gSide = "buy" /\ gCount = GridLevels /\ gTop = GridLevels
    /\ gLevels = [l \in GridSteps |-> NoIds]
    /\ gSnap = {} /\ gOrd = <<>> /\ gBooked = {} /\ gCut = NoOrder /\ gClean = FALSE

OpenIds == {i \in DOMAIN gOrd : gOrd[i].st = "open"}

AllCancelled == [i \in DOMAIN gOrd |-> IF i \in OpenIds THEN [gOrd[i] EXCEPT !.st = "cancelled"]
                                                        ELSE gOrd[i]]

\* mutant of CancelAll: only the orders the levels name are cancelled
CancelAll_Named(out) ==
    /\ gOrd' = [i \in DOMAIN gOrd |->
                  IF Served(out) /\ i \in OpenIds /\ \E l \in GridSteps, s \in Sides : gLevels[l][s] = i
                    THEN [gOrd[i] EXCEPT !.st = "cancelled"] ELSE gOrd[i]]
    /\ gClean' = Served(out)

CancelAll(out) == gOrd' = (IF Served(out) THEN AllCancelled ELSE gOrd) /\ gClean' = Served(out)

\* as: "named" on its level, "lost" with the answer, served "late" for a cancelled
\* task, or of an "old" grid.
NewOrder(side, l, as) == [side |-> side, level |-> l, st |-> "open", as |-> as]

\* The id of the answer is written over whatever id stands on the level.
Create(side, l, out) ==
    /\ Len(gOrd) < MaxGridOrders
    /\ gOrd' = IF Served(out) THEN Append(gOrd, NewOrder(side, l, IF AnswerCame(out) THEN "named" ELSE "lost")) ELSE gOrd
    /\ gLevels' = IF AnswerCame(out) THEN [gLevels EXCEPT ![l][side] = Len(gOrd) + 1] ELSE gLevels

PlaceSellOrder(l, out) == Create("sell", l, out)

\* mutant of PlaceBuyOrder: without the look at the level
PlaceBuyOrder_Always(l, out) == Create("buy", l, out)

\* A level that has a buy order id is left alone.
PlaceBuyOrder(l, out) ==
    IF gLevels[l]["buy"] # 0 THEN UNCHANGED <<gOrd, gLevels>> ELSE Create("buy", l, out)

\* A new grid, whether or not the orders of the old one could be cancelled.
LeaveGrid(out) ==
    /\ gOrd' = [i \in DOMAIN gOrd |-> [(IF Served(out) THEN AllCancelled ELSE gOrd)[i] EXCEPT !.as = "old"]]
    /\ gClean' = Served(out)
    /\ gLevels' = [l \in GridSteps |-> NoIds]

\* initialize: what an earlier run left is cancelled, or that fails; without
\* permission or money the bot runs but places nothing.  Computing the first
\* amount may shrink the grid; the levels beyond it stay in grid_levels.
Initialize(out, permitted, count) ==
    /\ gAt = "off" /\ gCut = NoOrder
    /\ LeaveGrid(out)
    /\ gCount' = count /\ gTop' = GridLevels
    /\ gAt' = IF permitted THEN "place" ELSE "monitor"
    /\ gNext' = 0
    /\ UNCHANGED <<gSide, gSnap, gBooked, gCut>>

\* The next level of _place_initial_orders: a buy below the price, a sell above
\* it, unless the budget or the validation of the order forbids it.
PlaceInitial(out, skip) ==
    /\ gAt = "place"
    /\ IF skip THEN UNCHANGED <<gOrd, gLevels>>
       ELSE IF gNext < gCount \div 2 THEN PlaceBuyOrder(gNext, out) ELSE PlaceSellOrder(gNext, out)
    /\ gNext' = (gNext + 1) % gTop
    /\ gAt' = IF gNext + 1 = gTop THEN "monitor" ELSE "place"
    /\ UNCHANGED <<gSide, gCount, gTop, gSnap, gBooked, gCut, gClean>>

\* A pass of _monitor_orders starts with the list of open orders; without it
\* there is no pass.
MonitorOrders(out) ==
    /\ gAt = "monitor"
    /\ gAt' = IF AnswerCame(out) THEN "levels" ELSE "rebalance"
    /\ gSnap' = IF AnswerCame(out) THEN OpenIds ELSE {}
    /\ gNext' = 0 /\ gSide' = "buy"
    /\ UNCHANGED <<gCount, gTop, gLevels, gOrd, gBooked, gCut, gClean>>

\* The level's order is not in the list.
LooksFilled == LET id == gLevels[gNext][gSide] IN id # 0 /\ id \notin gSnap

\* _handle_buy_filled: a sell one level up; _handle_sell_filled: a buy one level
\* down.  The level keeps the id of the order that was handled.
HandleFilled(out) ==
    /\ gBooked' = gBooked \cup {gLevels[gNext][gSide]}
    /\ CASE gSide = "buy" /\ gNext + 1 < gCount -> PlaceSellOrder(gNext + 1, out)
         [] gSide = "sell" /\ gNext > 0         -> PlaceBuyOrder(gNext - 1, out)
         [] OTHER                               -> UNCHANGED <<gOrd, gLevels>>

VisitLevel(out) ==
    /\ gAt = "levels"
    /\ IF LooksFilled THEN HandleFilled(out) ELSE UNCHANGED <<gOrd, gLevels, gBooked>>
    /\ gSide' = IF gSide = "buy" THEN "sell" ELSE "buy"
    /\ gNext' = IF gSide = "buy" THEN gNext ELSE (gNext + 1) % gTop
    /\ IF gSide = "sell" /\ gNext + 1 = gTop THEN gAt' = "rebalance" /\ gSnap' = {}
                                             ELSE UNCHANGED <<gAt, gSnap>>
    /\ UNCHANGED <<gCount, gTop, gCut, gClean>>

\* _check_grid_rebalance finds the price inside the range, or fails to ask.
StayInRange == gAt = "rebalance" /\ gAt' = "monitor"
               /\ UNCHANGED <<gNext, gSide, gCount, gTop, gLevels, gSnap, gOrd, gBooked, gCut, gClean>>

\* _rebalance_grids goes on whether or not the old orders could be cancelled;
\* the new grid has the levels up to grid_count only.
Rebalance(out) ==
    /\ gAt = "rebalance"
    /\ LeaveGrid(out)
    /\ gTop' = gCount
    /\ gAt' = "place" /\ gNext' = 0
    /\ UNCHANGED <<gSide, gCount, gSnap, gBooked, gCut>>

\* The order whose creation the task may be waiting for.
PendingOrder ==
    CASE gAt = "place" -> NewOrder(IF gNext < gCount \div 2 THEN "buy" ELSE "sell", gNext, "late")
      [] gAt = "levels" /\ LooksFilled /\ gSide = "buy" /\ gNext + 1 < gCount ->
            NewOrder("sell", gNext + 1, "late")
      [] gAt = "levels" /\ LooksFilled /\ gSide = "sell" /\ gNext > 0 /\ gLevels[gNext - 1]["buy"] = 0 ->
            NewOrder("buy", gNext - 1, "late")
      [] OTHER -> NoOrder

\* The task is cancelled; the exchange serves the creation it waits for or not,
\* sooner or later.
CancelRun(cut) ==
    /\ gAt \in {"place", "monitor", "levels", "rebalance"}
    /\ gAt' = "stop" /\ gNext' = 0 /\ gSide' = "buy" /\ gSnap' = {}
    /\ gCut' = IF cut THEN PendingOrder ELSE NoOrder
    /\ gBooked' = IF cut /\ gAt = "levels" /\ LooksFilled THEN gBooked \cup {gLevels[gNext][gSide]}
                                                           ELSE gBooked
    /\ UNCHANGED <<gCount, gTop, gLevels, gOrd, gClean>>

ServeCut ==
    /\ gCut # NoOrder
    /\ gCut' = NoOrder
    /\ Len(gOrd) < MaxGridOrders
    /\ gOrd' = Append(gOrd, gCut)
    /\ UNCHANGED <<gAt, gNext, gSide, gCount, gTop, gLevels, gSnap, gBooked, gClean>>

\* stop, called by the cancelled loop itself and again by the manager.
StopGrid(out) ==
    /\ gAt \in {"stop", "off"}
    /\ gAt' = "off"
    /\ CancelAll(out)
    /\ UNCHANGED <<gNext, gSide, gCount, gTop, gLevels, gSnap, gBooked, gCut>>

OrderFills(i) ==
    /\ i \in OpenIds
    /\ gOrd' = [gOrd EXCEPT ![i].st = "filled"]
    /\ UNCHANGED <<gAt, gNext, gSide, gCount, gTop, gLevels, gSnap, gBooked, gCut, gClean>>

GridNext ==
    \/ \E out \in Outcomes, permitted \in BOOLEAN, count \in GridCounts :
          Initialize(out, permitted, count)
    \/ \E out \in Outcomes, skip \in BOOLEAN : PlaceInitial(out, skip)
    \/ \E out \in Outcomes : MonitorOrders(out) \/ VisitLevel(out) \/ Rebalance(out) \/ StopGrid(out)
    \/ \E cut \in BOOLEAN : CancelRun(cut)
    \/ StayInRange \/ ServeCut
    \/ \E i \in DOMAIN gOrd : OrderFills(i)

GridSpec == GridInit /\ [][GridNext]_gvars

------------------------------------------------------------------------------
GridTypeOK ==
    /\ gAt \in {"off", "place", "monitor", "levels", "rebalance", "stop"}
    /\ gNext \in GridSteps /\ gSide \in Sides /\ gTop \in {gCount, GridLevels}
    /\ gLevels \in [GridSteps -> [Sides -> 0 .. MaxGridOrders]]
    /\ gSnap \subseteq DOMAIN gOrd /\ gBooked \subseteq DOMAIN gOrd
    /\ gClean \in BOOLEAN

\* No buy order of the grid in force is forgotten while it is open: its level
\* shows its id until the exchange has closed it, however often the fills of the
\* levels around it are handled.
BuysAreNamed ==
    \A i \in OpenIds : gOrd[i].side = "buy" /\ gOrd[i].as = "named" => gLevels[gOrd[i].level]["buy"] = i

\* A stopped bot whose cancel_all_orders the exchange took leaves no order
\* behind, also none it had forgotten (by a lost answer, by a sell id written
\* over another, by a failed rebalancing); but one a cancellation cut off may
\* still arrive.
StopLeavesNothing == gAt = "off" /\ gClean => \A i \in OpenIds : gOrd[i].as = "late"

\* The grid knows its orders: the buys by their level, all of them at the stop.
OrdersAreKnown == BuysAreNamed /\ StopLeavesNothing

\* What the bot books as a fill is one: "매수 주문 체결 시 해당 레벨 위에 매도 주문
\* 배치", "매도 주문 체결 시 해당 레벨 아래에 매수 주문 배치".
BookedIsFilled == \A i \in gBooked : gOrd[i].st = "filled"

------------------------------------------------------------------------------
(* The scalping bot of department 7 (src/department_7/src/bot/scalper.py) with *)
(* its event bus connected.  The task of run() buys one position on its own     *)
(* signal and sells it at a stop loss or a profit; a call of stop or _safe_stop *)
(* by the launcher goes on beside it and sells the same position.  The account  *)
(* holds nothing else.  daily_pnl is counted in what a sale gains or loses; the *)
(* daily reset does nothing.                                                   *)

CONSTANTS MaxDailyLoss, \* max_daily_loss, in losing trades
          MaxDailyGain, \* bound on daily_pnl
          MaxScalpHeld  \* bound on the units held at the exchange

ASSUME ScalpAssumption == MaxDailyLoss \in Nat \ {0} /\ MaxDailyGain \in Nat /\ MaxScalpHeld \in Nat

VARIABLES cState, \* state
          cAt,    \* where the task of run() and the call of stop() are
          cSafe,  \* run() is in the _safe_stop it ends with
          cPos,   \* position is set
          cPnl,   \* daily_pnl
          cHeld,  \* what the account holds
          cLost   \* an answer, or the price that completes it, has been lost

cvars == <<cState, cAt, cSafe, cPos, cPnl, cHeld, cLost>>
cBooks == <<cPnl, cHeld, cLost>>

ScalpTasks == {"run", "stop"}
ScalpPlaces == {"off", "loop", "looking", "watching", "buying", "stopping", "selling", "telling"}

ScalpInit ==
    /\ cState = "idle" /\ cAt = [w \in ScalpTasks |-> "off"] /\ cSafe = FALSE
    /\ cPos = FALSE /\ cPnl = 0 /\ cHeld = 0 /\ cLost = FALSE

Goes(w, place) == cAt' = [cAt EXCEPT ![w] = place]

\* Where a closing or a stop returns to; an exception of it is caught there, too.
Returns(w) == IF w = "run" /\ ~cSafe THEN "loop" ELSE "off"

\* mutant of ScalpRun: a run begins without a position
ScalpRun_Forgets(ready) ==
    /\ cAt["run"] = "off"
    /\ cState' = IF ready THEN "running" ELSE "error"
    /\ Goes("run", IF ready THEN "loop" ELSE "off")
    /\ cSafe' = FALSE /\ cPos' = FALSE
    /\ UNCHANGED cBooks

\* run, whose initialize succeeds or raises.  What an earlier run left open is
\* still the position.
ScalpRun(ready) ==
    /\ cAt["run"] = "off"
    /\ cState' = IF ready THEN "running" ELSE "error"
    /\ Goes("run", IF ready THEN "loop" ELSE "off")
    /\ cSafe' = FALSE
    /\ UNCHANGED <<cPos, cBooks>>

\* mutant of ScalpPass: the daily loss is not looked at
ScalpPass_Reckless ==
    /\ cAt["run"] = "loop"
    /\ \/ cState # "running" /\ Goes("run", "off")
       \/ cState = "running" /\ cPos /\ Goes("run", "watching")
       \/ cState = "running" /\ ~cPos /\ Goes("run", "looking")
    /\ UNCHANGED <<cState, cSafe, cPos, cBooks>>

\* The top of the loop: a position is watched, and without one the loop looks for
\* an entry while the day's loss is below its limit.  Both ask for the ticker.
ScalpPass ==
    /\ cAt["run"] = "loop"
    /\ \/ cState # "running" /\ Goes("run", "off")
       \/ cState = "running" /\ cPos /\ Goes("run", "watching")
       \/ cState = "running" /\ ~cPos /\ cPnl > -MaxDailyLoss /\ Goes("run", "looking")
    /\ UNCHANGED <<cState, cSafe, cPos, cBooks>>

\* The ticker has come: the RSI says buy, or not; a failure is a debug message.
ScalpLooked ==
    /\ cAt["run"] = "looking"
    /\ Goes("run", "loop") \/ (~cPos /\ Goes("run", "buying"))
    /\ UNCHANGED <<cState, cSafe, cPos, cBooks>>

\* _check_exit_conditions with the ticker: a position that is still there is sold
\* at a stop loss or a profit, or the bot stopped over the day's loss.  A failure,
\* or a position that is gone, is logged.
ScalpWatched ==
    /\ cAt["run"] = "watching"
    /\ \/ Goes("run", "loop") /\ UNCHANGED cState
       \/ cPos /\ Goes("run", "selling") /\ UNCHANGED cState
       \/ cPos /\ cPnl < -MaxDailyLoss /\ Goes("run", "stopping") /\ cState' = "idle"
    /\ UNCHANGED <<cSafe, cPos, cBooks>>

\* The answer to the order of open_long; it is lost, too, when the ticker asked for
\* the price of the order fails.  A network error is logged; any other stops the
\* bot safely, and its exception ends in a debug message.
OpenLong(out, network) ==
    /\ cAt["run"] = "buying"
    /\ out = "ok" => ~network
    /\ Served(out) => cHeld < MaxScalpHeld
    /\ cPos' = (cPos \/ AnswerCame(out))
    /\ cHeld' = IF Served(out) THEN cHeld + 1 ELSE cHeld
    /\ cLost' = (cLost \/ out = "lost")
    /\ Goes("run", IF AnswerCame(out) \/ network THEN "loop" ELSE "stopping")
    /\ cState' = IF AnswerCame(out) \/ network THEN cState ELSE "error"
    /\ UNCHANGED <<cSafe, cPnl>>

\* stop and _safe_stop have told the bus, and close a position that is there.
ScalpStopping(w) ==
    /\ cAt[w] = "stopping"
    /\ Goes(w, IF cPos THEN "selling" ELSE Returns(w))
    /\ UNCHANGED <<cState, cSafe, cPos, cBooks>>

\* The answer to the order of close_position.  A network error leaves the position:
\* _sync_position does not await the exchange.  Any other puts the bot in ERROR.  A
\* sale whose position somebody else has cleared meanwhile raises, unrecorded.
CloseScalp(w, out, network, pnl) ==
    LET recorded == AnswerCame(out) /\ cPos
    IN  /\ cAt[w] = "selling"
        /\ out = "ok" => ~network
        /\ Served(out) => cHeld > 0
        /\ cHeld' = IF Served(out) THEN cHeld - 1 ELSE cHeld
        /\ cLost' = (cLost \/ out = "lost")
        /\ cPnl' = IF recorded THEN cPnl + pnl ELSE cPnl
        /\ cPnl' <= MaxDailyGain
        /\ cState' = IF ~AnswerCame(out) /\ ~network THEN "error" ELSE cState
        /\ Goes(w, IF recorded THEN "telling" ELSE Returns(w))
        /\ UNCHANGED <<cSafe, cPos>>

\* The profit is moved, the operator told and the trade published: position is None.
ScalpClosed(w) ==
    /\ cAt[w] = "telling"
    /\ cPos' = FALSE
    /\ Goes(w, Returns(w))
    /\ UNCHANGED <<cState, cSafe, cBooks>>

\* stop, or _safe_stop of a bot without health, called by the launcher while the
\* loop goes on, or stop called by the manager when the task is done.
ScalpStop(state) ==
    /\ cAt["stop"] = "off"
    /\ cState' = state
    /\ Goes("stop", "stopping")
    /\ UNCHANGED <<cSafe, cPos, cBooks>>

\* The task of run() is cancelled and ends with _safe_stop, which closes the
\* position, also one already sold; cancelled in that, too, it ends where it is.
\* The request under way, a purchase or a sale, is served or not.
CancelScalp(served) ==
    LET bought == served /\ cAt["run"] = "buying"
        sold   == served /\ cAt["run"] = "selling"
    IN  /\ cAt["run"] # "off"
        /\ served => \/ cAt["run"] = "buying" /\ cHeld < MaxScalpHeld
                     \/ cAt["run"] = "selling" /\ cHeld > 0
        /\ cHeld' = IF bought THEN cHeld + 1 ELSE IF sold THEN cHeld - 1 ELSE cHeld
        /\ cLost' = (cLost \/ served)
        /\ cState' = IF cSafe THEN cState ELSE "error"
        /\ Goes("run", IF cSafe THEN "off" ELSE "stopping")
        /\ cSafe' = ~cSafe
        /\ UNCHANGED <<cPos, cPnl>>

ScalpNext ==
    \/ ScalpPass \/ ScalpLooked \/ ScalpWatched
    \/ \E ready \in BOOLEAN : ScalpRun(ready)
    \/ \E out \in Outcomes, network \in BOOLEAN : OpenLong(out, network)
    \/ \E w \in ScalpTasks : ScalpStopping(w) \/ ScalpClosed(w)
    \/ \E w \in ScalpTasks, out \in Outcomes, network \in BOOLEAN, pnl \in -1 .. 1 :
           CloseScalp(w, out, network, pnl)
    \/ \E state \in {"idle", "error"} : ScalpStop(state)
    \/ \E served \in BOOLEAN : CancelScalp(served)

ScalpSpec == ScalpInit /\ [][ScalpNext]_cvars

------------------------------------------------------------------------------
ScalpTypeOK ==
    /\ cState \in {"idle", "running", "error"} /\ cAt \in [ScalpTasks -> ScalpPlaces]
    /\ cSafe \in BOOLEAN /\ cPos \in BOOLEAN /\ cPnl \in Int
    /\ cHeld \in 0 .. MaxScalpHeld /\ cLost \in BOOLEAN
    /\ cAt["stop"] \in {"off", "stopping", "selling", "telling"}

\* As long as every request is answered, the account holds no more than the
\* position in memory: through refusals, two that close it at the same time, runs
\* over a position that was left, and cancellations while a sale is announced.
NothingForgotten == ~cLost => cHeld <= IF cPos THEN 1 ELSE 0

\* max_daily_loss: once it is reached nothing is bought, in no later run either, so
\* the day's loss never goes beyond it, by two sales of one position either.
LossIsBounded == ~cLost => cPnl >= -MaxDailyLoss

\* The scalper's position in memory bounds what it holds and what it may lose.
ScalpIsAccounted == NothingForgotten /\ LossIsBounded

------------------------------------------------------------------------------
(* The triangular arbitrage bot of department 7                                *)
(* (src/department_7/src/bot/triangular_arb_bot.py): three market orders in a  *)
(* row, of a first coin for USDT, of a second coin for the first, and of the   *)
(* second coin for USDT.  The third is for amount2 / ask of the coin: it costs *)
(* as many dollars as there are coins of the second, and what it bought is     *)
(* taken for the result.  Amounts are whole dollars and coins; the margins of  *)
(* 5 and 10 percent are left out.                                              *)

CONSTANTS Usdt,        \* the dollars of the account
          Sol,         \* the dollars its SOL is worth, which the validation counts
          TriCapital,  \* capital
          MinNotional, \* the least order
          LegCoins     \* how many coins the second leg may buy

ASSUME TriAssumption ==
    /\ Usdt \in Nat /\ Sol \in Nat /\ TriCapital \in Nat /\ MinNotional \in Nat \ {0}
    /\ LegCoins \subseteq Nat

VARIABLES tStatus,  \* status
          tAt,      \* where the task of run() is: "off", "loop", or the request it waits for
          tTickers, \* each market's ticker: "none", less than a minute old, or older
          tWallet,  \* what the account holds; rest is what third legs bought, at its price
          tLeg,     \* the arbitrage under way: dollars spent, coins of the second leg, profit
          tSettled, \* its legs that were answered
          tTrades,  \* executed_trades
          tPaid     \* the dollars withdrawn

tvars == <<tStatus, tAt, tTickers, tWallet, tLeg, tSettled, tTrades, tPaid>>
tBooks == <<tWallet, tTrades, tPaid>>

TriLegs == 1 .. 3

TriInit ==
    /\ tStatus = "idle" /\ tAt = "off" /\ tTickers = [n \in TriLegs |-> "none"]
    /\ tWallet = [usdt |-> Usdt, coin1 |-> 0, coin2 |-> 0, rest |-> 0]
    /\ tLeg = [spent |-> 0, coins |-> 0, profit |-> 0]
    /\ tSettled = 0 /\ tTrades = 0 /\ tPaid = 0

\* run and initialize: without keys or markets the status is ERROR and run ends.
TriRun(ready) ==
    /\ tAt = "off"
    /\ tStatus' = IF ready THEN "running" ELSE "error"
    /\ tAt' = IF ready THEN "loop" ELSE "off"
    /\ UNCHANGED <<tTickers, tLeg, tSettled, tBooks>>

\* The loop finds that stop has been called.
TriLoopEnds ==
    /\ tAt = "loop" /\ tStatus # "running" /\ tAt' = "off"
    /\ UNCHANGED <<tStatus, tTickers, tLeg, tSettled, tBooks>>

\* The first tickers have been read again.
TickersRead(read) == [n \in TriLegs |-> IF n <= read THEN "fresh" ELSE tTickers[n]]

\* _update_tickers stops at the first ticker that cannot be read and keeps the old
\* ones.  _analyze_arbitrage then sees a profit in them or none, and
\* _validate_opportunity looks at their age before it asks for the balance.
UpdateTickers(read, profit) ==
    LET tickers == TickersRead(read)
    IN  /\ tAt = "loop" /\ tStatus = "running"
        /\ tTickers' = tickers
        /\ tAt' = IF profit /\ \A n \in TriLegs : tickers[n] = "fresh" THEN "validating" ELSE "loop"
        /\ UNCHANGED <<tStatus, tLeg, tSettled, tBooks>>

\* A minute passes.
TickersAge ==
    /\ tTickers' = [n \in TriLegs |-> IF tTickers[n] = "none" THEN "none" ELSE "old"]
    /\ UNCHANGED <<tStatus, tAt, tLeg, tSettled, tBooks>>

\* What min(capital, available) is, and whether an order of it is large enough.
TradeCapital(available) == IF available < TriCapital THEN available ELSE TriCapital
LargeEnough(available) == TradeCapital(available) >= MinNotional

\* The balance of _validate_opportunity, in which SOL counts; one that cannot be
\* read is 0.
Opportunity(out) ==
    /\ tAt = "validating"
    /\ tAt' = IF AnswerCame(out) /\ LargeEnough(tWallet.usdt + Sol) THEN "funding" ELSE "loop"
    /\ UNCHANGED <<tStatus, tTickers, tLeg, tSettled, tBooks>>

\* The balance of _execute_arbitrage, in which it does not; an exception ends it.
\* The tickers say how many coins the second leg is for.
FundsSeen(out, coins) ==
    LET begins == AnswerCame(out) /\ LargeEnough(tWallet.usdt)
    IN  /\ tAt = "funding"
        /\ tAt' = IF begins THEN "legs" ELSE "loop"
        /\ tLeg' = IF begins THEN [spent |-> TradeCapital(tWallet.usdt), coins |-> coins, profit |-> 0]
                             ELSE tLeg
        /\ tSettled' = 0
        /\ UNCHANGED <<tStatus, tTickers, tBooks>>

\* create_market_buy_order of each leg: whether the exchange can serve it, and what
\* the account holds then.
CanBuy(n) ==
    CASE n = 1 -> tWallet.usdt >= tLeg.spent
      [] n = 2 -> tWallet.coin1 >= tLeg.spent
      [] n = 3 -> tWallet.usdt >= tLeg.coins /\ tLeg.coins >= MinNotional
Swapped(from, paid, to, got) == [tWallet EXCEPT ![from] = @ - paid, ![to] = @ + got]
Bought(n) ==
    CASE n = 1 -> Swapped("usdt", tLeg.spent, "coin1", tLeg.spent)
      [] n = 2 -> Swapped("coin1", tLeg.spent, "coin2", tLeg.coins)
      [] n = 3 -> Swapped("usdt", tLeg.coins, "rest", tLeg.coins)

\* mutant of NextLeg: a leg that failed does not end the arbitrage
NextLeg_GoesOn(out, profit) ==
    LET n == tSettled + 1
    IN  /\ tAt = "legs" /\ (Served(out) => CanBuy(n))
        /\ tWallet' = IF Served(out) THEN Bought(n) ELSE tWallet
        /\ tSettled' = n
        /\ profit > 0 => n = 3 /\ profit <= tLeg.coins - tLeg.spent
        /\ tLeg' = [tLeg EXCEPT !.profit = profit]
        /\ tTrades' = IF n = 3 THEN tTrades + 1 ELSE tTrades
        /\ tAt' = IF n < 3 THEN "legs" ELSE IF profit > 0 THEN "paying" ELSE "loop"
        /\ UNCHANGED <<tStatus, tTickers, tPaid>>

\* The next leg of _execute_arbitrage.  An exception ends the arbitrage where it
\* stands.  After the third leg it counts as executed.  Its result is what that leg
\* bought, at the bid, and a profit over the dollars spent is withdrawn.
NextLeg(out, profit) ==
    LET n == tSettled + 1
        executed == AnswerCame(out) /\ n = 3
    IN  /\ tAt = "legs" /\ (Served(out) => CanBuy(n))
        /\ tWallet' = IF Served(out) THEN Bought(n) ELSE tWallet
        /\ tSettled' = IF AnswerCame(out) THEN n ELSE tSettled
        /\ profit > 0 => executed /\ profit <= tLeg.coins - tLeg.spent
        /\ tLeg' = [tLeg EXCEPT !.profit = profit]
        /\ tTrades' = IF executed THEN tTrades + 1 ELSE tTrades
        /\ tAt' = IF executed THEN (IF profit > 0 THEN "paying" ELSE "loop")
                  ELSE IF AnswerCame(out) THEN "legs" ELSE "loop"
        /\ UNCHANGED <<tStatus, tTickers, tPaid>>

\* _withdraw_profit, whose failure is only told to the operator.
CanPay == tWallet.usdt >= tLeg.profit
AfterPayment == [tWallet EXCEPT !.usdt = @ - tLeg.profit]

PayProfit(out) ==
    /\ tAt = "paying" /\ tAt' = "loop" /\ (Served(out) => CanPay)
    /\ tWallet' = IF Served(out) THEN AfterPayment ELSE tWallet
    /\ tPaid' = IF Served(out) THEN tPaid + tLeg.profit ELSE tPaid
    /\ UNCHANGED <<tStatus, tTickers, tLeg, tSettled, tTrades>>

\* stop, called by the launcher: the connections are closed, nothing is sold, and
\* an arbitrage under way goes on.
StopTri ==
    /\ tStatus' = "idle"
    /\ UNCHANGED <<tAt, tTickers, tLeg, tSettled, tBooks>>

\* The task is cancelled, perhaps between two tickers, and stop called by it; the
\* request it waited for is served or not.
CancelTri(served, read) ==
    /\ tAt # "off" /\ tAt' = "off" /\ tStatus' = "idle"
    /\ served => (tAt = "legs" /\ CanBuy(tSettled + 1)) \/ (tAt = "paying" /\ CanPay)
    /\ read > 0 => tAt = "loop" /\ tStatus = "running"
    /\ tTickers' = TickersRead(read)
    /\ tWallet' = IF ~served THEN tWallet ELSE IF tAt = "legs" THEN Bought(tSettled + 1) ELSE AfterPayment
    /\ tPaid' = IF served /\ tAt = "paying" THEN tPaid + tLeg.profit ELSE tPaid
    /\ UNCHANGED <<tLeg, tSettled, tTrades>>

TriNext ==
    \/ TriLoopEnds \/ TickersAge \/ StopTri
    \/ \E ready \in BOOLEAN : TriRun(ready)
    \/ \E read \in 0 .. 3, profit \in BOOLEAN : UpdateTickers(read, profit)
    \/ \E out \in Outcomes : Opportunity(out) \/ PayProfit(out)
    \/ \E out \in Outcomes, coins \in LegCoins : FundsSeen(out, coins)
    \/ \E out \in Outcomes, profit \in 0 .. tLeg.coins : NextLeg(out, profit)
    \/ \E served \in BOOLEAN, read \in 0 .. 3 : CancelTri(served, read)

TriSpec == TriInit /\ [][TriNext]_tvars

------------------------------------------------------------------------------
TriTypeOK ==
    /\ tStatus \in {"idle", "running", "error"}
    /\ tAt \in {"off", "loop", "validating", "funding", "legs", "paying"}
    /\ tTickers \in [TriLegs -> {"none", "fresh", "old"}]
    /\ tWallet \in [{"usdt", "coin1", "coin2", "rest"} -> Nat]
    /\ tLeg \in [{"spent", "coins", "profit"} -> Nat]
    /\ tSettled \in 0 .. 3 /\ tTrades \in 0 .. Usdt /\ tPaid \in 0 .. Usdt

\* No leg is sent before the one it builds on was answered: what the next leg of
\* the triangle should spend is there, also after arbitrages that were cut off,
\* refused or lost half way and left coins behind.  And what is withdrawn as profit
\* is a part of what the third legs of executed arbitrages spent.
LegIsFunded ==
    /\ tAt = "legs" => /\ tSettled = 1 => tWallet.coin1 >= tLeg.spent
                       /\ tSettled = 2 => tWallet.coin2 >= tLeg.coins
    /\ tPaid + tTrades + (IF tAt = "paying" THEN tLeg.profit ELSE 0) <= tWallet.rest
==============================================================================
