------------------------------ MODULE RunAllBots ------------------------------
(* The launcher of department 7's bots                                         *)
(* (src/department_7/src/bot/run_all_bots.py): it starts a task per bot, stops *)
(* the bots whose HP is 0, and stops all of them on a signal.  A bot's stop    *)
(* thus runs in the bot's own task and in the launcher's, side by side.  The   *)
(* bots here trade one coin of one account, as configured there for Binance,   *)
(* and sell as FundingBot and DCABot do: a position read before the sale is    *)
(* awaited and cleared after it (the purchase with which DCABot follows its    *)
(* sale is left to module DCABot).                                             *)
EXTENDS Integers, FiniteSets

CONSTANTS LBots,  \* the bots of the account
          MaxBuys \* bound on the purchases of a bot

ASSUME LauncherAssumption == IsFiniteSet(LBots) /\ MaxBuys \in Nat

VARIABLES lMain, \* where run_all is
          lTodo, \* the bots run_all has still to stop
          lTask, \* the bot's task: "new", "loop", "cancelled", "stop", "done"
          lQuit, \* the bot's status is no longer RUNNING
          lPos,  \* the bot has a position
          lAsk,  \* the requests under way: "buy" and "own" by its task, "main" by run_all
          lBuys, \* the purchases made
          lOwn,  \* the coins it bought less those it sold
          lCoins \* the coins in the account

lvars == <<lMain, lTodo, lTask, lQuit, lPos, lAsk, lBuys, lOwn, lCoins>>

LInit ==
    /\ lMain = "start" /\ lTodo = {}
    /\ lTask = [b \in LBots |-> "new"]
    /\ lQuit = [b \in LBots |-> FALSE] /\ lPos = [b \in LBots |-> FALSE]
    /\ lAsk = [b \in LBots |-> {}]
    /\ lBuys = [b \in LBots |-> 0] /\ lOwn = [b \in LBots |-> 0]
    /\ lCoins = 0

\* start_bot, for one bot after the other; then the loop that looks every thirty
\* seconds.
StartTask(b) ==
    /\ lMain = "start" /\ lTask[b] = "new"
    /\ lTask' = [lTask EXCEPT ![b] = "loop"]
    /\ UNCHANGED <<lMain, lTodo, lQuit, lPos, lAsk, lBuys, lOwn, lCoins>>

AllStarted ==
    /\ lMain = "start" /\ \A b \in LBots : lTask[b] # "new"
    /\ lMain' = "watch"
    /\ UNCHANGED <<lTodo, lTask, lQuit, lPos, lAsk, lBuys, lOwn, lCoins>>

\* A bot's loop buys when it has no position, and sells it later.
LoopAsks(b, what) ==
    /\ lTask[b] = "loop" /\ ~lQuit[b] /\ lAsk[b] \cap {"buy", "own"} = {}
    /\ IF lPos[b] THEN what = "own" ELSE what = "buy" /\ lBuys[b] < MaxBuys
    /\ lAsk' = [lAsk EXCEPT ![b] = @ \cup {what}]
    /\ UNCHANGED <<lMain, lTodo, lTask, lQuit, lPos, lBuys, lOwn, lCoins>>

\* mutant of AfterAnswer: a task goes on waiting after the answer of its stop
AfterAnswer_Waits(b, what) == UNCHANGED lTask

AfterAnswer(b, what) ==
    lTask' = [lTask EXCEPT ![b] = IF what = "own" /\ @ = "stop" THEN "done" ELSE @]

PurchaseAnswered(b, served) ==
    /\ "buy" \in lAsk[b]
    /\ lAsk' = [lAsk EXCEPT ![b] = @ \ {"buy"}]
    /\ lPos' = [lPos EXCEPT ![b] = @ \/ served]
    /\ lOwn' = [lOwn EXCEPT ![b] = IF served THEN @ + 1 ELSE @]
    /\ lCoins' = IF served THEN lCoins + 1 ELSE lCoins
    /\ lBuys' = [lBuys EXCEPT ![b] = IF served THEN @ + 1 ELSE @]
    /\ UNCHANGED <<lMain, lTodo, lTask, lQuit>>

\* The exchange sells what the account holds, whoever bought it.
SaleAnswered(b, who, served) ==
    /\ who \in lAsk[b] \ {"buy"}
    /\ served => lCoins > 0
    /\ lAsk' = [lAsk EXCEPT ![b] = @ \ {who}]
    /\ lOwn' = [lOwn EXCEPT ![b] = IF served THEN @ - 1 ELSE @]
    /\ lCoins' = IF served THEN lCoins - 1 ELSE lCoins
    /\ lPos' = [lPos EXCEPT ![b] = @ /\ ~served]
    /\ AfterAnswer(b, who)
    /\ UNCHANGED <<lMain, lTodo, lQuit, lBuys>>

QuitLoopEnds(b) ==
    /\ lTask[b] = "loop" /\ lQuit[b] /\ lAsk[b] \cap {"buy", "own"} = {}
    /\ lTask' = [lTask EXCEPT ![b] = "done"]
    /\ UNCHANGED <<lMain, lTodo, lQuit, lPos, lAsk, lBuys, lOwn, lCoins>>

\* check_and_retire_bots: the HP of any bot may be 0, also one stopped before,
\* since is_retired is never set.
CheckAndRetire(dead) ==
    /\ lMain = "watch" /\ dead # {}
    /\ lMain' = "retire" /\ lTodo' = dead
    /\ UNCHANGED <<lTask, lQuit, lPos, lAsk, lBuys, lOwn, lCoins>>

\* run_all awaits one bot's stop: its status first, then the sale.
MainStops(b) ==
    /\ lMain \in {"retire", "stopall"} /\ b \in lTodo
    /\ \A other \in LBots : "main" \notin lAsk[other]
    /\ lTodo' = lTodo \ {b}
    /\ lQuit' = [lQuit EXCEPT ![b] = TRUE]
    /\ lAsk' = [lAsk EXCEPT ![b] = IF lPos[b] THEN @ \cup {"main"} ELSE @]
    /\ UNCHANGED <<lMain, lTask, lPos, lBuys, lOwn, lCoins>>

\* The last bot is stopped; stop_all_bots then cancels the tasks that are not
\* done, which cuts off the sale of a stop.
MainDone(served) ==
    /\ lMain \in {"retire", "stopall"} /\ lTodo = {}
    /\ \A b \in LBots : "main" \notin lAsk[b]
    /\ LET cut == {b \in LBots : lMain = "stopall" /\ "own" \in lAsk[b]}
       IN /\ served \subseteq cut /\ Cardinality(served) <= lCoins
          /\ lCoins' = lCoins - Cardinality(served)
          /\ lOwn' = [b \in LBots |-> IF b \in served THEN lOwn[b] - 1 ELSE lOwn[b]]
          /\ lAsk' = [b \in LBots |-> IF b \in cut THEN lAsk[b] \ {"own"} ELSE lAsk[b]]
    /\ lMain' = IF lMain = "retire" THEN "watch" ELSE "done"
    /\ lTask' = IF lMain = "retire" THEN lTask ELSE [b \in LBots |-> IF lTask[b] = "cancelled" THEN "cancelled" ELSE "done"]
    /\ UNCHANGED <<lTodo, lQuit, lPos, lBuys>>

\* signal_handler exits, so that every task is cancelled, the one it has just
\* made of stop_all_bots before it begins; no second signal comes.  run_all, once all bots are started,
\* goes on with stop_all_bots itself.  The requests under way are not served, or
\* were served and nobody reads the answer.
Signal(bought, sold) ==
    /\ lMain \in {"start", "watch", "retire"}
    /\ \A b \in bought : "buy" \in lAsk[b]
    /\ \A b \in sold : lAsk[b] \cap {"own", "main"} # {}
    /\ Cardinality(sold) <= lCoins
    /\ lCoins' = lCoins + Cardinality(bought) - Cardinality(sold)
    /\ lMain' = IF lMain = "start" THEN "done" ELSE "stopall"
    /\ lTodo' = IF lMain = "start" THEN {} ELSE LBots
    /\ lTask' = [b \in LBots |-> IF lTask[b] = "loop" THEN "cancelled" ELSE "done"]
    /\ lAsk' = [b \in LBots |-> {}]
    /\ lBuys' = [b \in LBots |-> IF b \in bought THEN lBuys[b] + 1 ELSE lBuys[b]]
    /\ lOwn' = [b \in LBots |-> lOwn[b] + (IF b \in bought THEN 1 ELSE 0) - (IF b \in sold THEN 1 ELSE 0)]
    /\ UNCHANGED <<lQuit, lPos>>

\* The cancelled task calls the bot's stop itself.
OwnStop(b) ==
    /\ lTask[b] = "cancelled"
    /\ lQuit' = [lQuit EXCEPT ![b] = TRUE]
    /\ lAsk' = [lAsk EXCEPT ![b] = IF lPos[b] THEN @ \cup {"own"} ELSE @]
    /\ lTask' = [lTask EXCEPT ![b] = IF lPos[b] THEN "stop" ELSE "done"]
    /\ UNCHANGED <<lMain, lTodo, lPos, lBuys, lOwn, lCoins>>

Answer(b) ==
    \E served \in BOOLEAN : PurchaseAnswered(b, served) \/ \E who \in {"own", "main"} : SaleAnswered(b, who, served)

LNext ==
    \/ AllStarted
    \/ \E b \in LBots : StartTask(b) \/ QuitLoopEnds(b) \/ MainStops(b) \/ OwnStop(b)
    \/ \E b \in LBots : Answer(b)
    \/ \E b \in LBots, what \in {"buy", "own"} : LoopAsks(b, what)
    \/ \E dead \in SUBSET LBots : CheckAndRetire(dead)
    \/ \E served \in SUBSET LBots : MainDone(served)
    \/ \E bought, sold \in SUBSET LBots : Signal(bought, sold)

SaleEnds(b, who) == \E served \in BOOLEAN : SaleAnswered(b, who, served)
AllStopped == \E served \in SUBSET LBots : MainDone(served)

\* The event loop runs what can run, and a request is answered or times out.
LFairness ==
    /\ \A b \in LBots : WF_lvars(MainStops(b)) /\ WF_lvars(OwnStop(b))
    /\ \A b \in LBots, who \in {"own", "main"} : WF_lvars(SaleEnds(b, who))
    /\ WF_lvars(AllStopped)

LSpec == LInit /\ [][LNext]_lvars /\ LFairness

------------------------------------------------------------------------------
LTypeOK ==
    /\ lMain \in {"start", "watch", "retire", "stopall", "done"} /\ lTodo \subseteq LBots
    /\ lTask \in [LBots -> {"new", "loop", "cancelled", "stop", "done"}]
    /\ lQuit \in [LBots -> BOOLEAN] /\ lPos \in [LBots -> BOOLEAN]
    /\ lAsk \in [LBots -> SUBSET {"buy", "own", "main"}]
    /\ lBuys \in [LBots -> 0 .. MaxBuys] /\ lOwn \in [LBots -> Int] /\ lCoins \in Nat

\* A signal brings the launcher and every task to an end, whichever of them was
\* in a stop, and a stop of either kind waiting for its sale.
ShutdownEnds == lMain = "stopall" ~> lMain = "done" /\ \A b \in LBots : lTask[b] = "done"

\* A bot sells no more than it bought, so never the coins of another bot of the
\* account: "열린 포지션 정리" (dca_bot.py:763), "모든 포지션 정리"
\* (funding_rate_bot.py:589) close the positions of the bot that is stopped.
OwnCoinsOnly == \A b \in LBots : lOwn[b] >= 0
==============================================================================
