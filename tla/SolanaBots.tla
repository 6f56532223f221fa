----------------------------- MODULE SolanaBots -----------------------------
(* The bots of department 7 that trade tokens of Solana: the copy trading bot and *)
(* the sniper.  Two parts, each with its own state.                          *)
EXTENDS Integers, FiniteSets, ExchangeCalls

------------------------------------------------------------------------------
(* The copy trading bot of department 7                                        *)
(* (src/department_7/src/bot/copy_trade_bot.py): every thirty seconds the last *)
(* transactions of each tracked wallet are read, and those not seen before are *)
(* copied.  The set of the signatures seen is kept below a limit, and does not *)
(* survive the process.                                                        *)

CONSTANTS Wallets,  \* tracked_wallets
          MaxMade,  \* bound on the transactions a wallet makes
          Window,   \* the transactions one answer holds: 10
          MaxSeen   \* the limit of _seen_signatures: 1000

ASSUME CopyAssumption ==
    IsFiniteSet(Wallets) /\ MaxMade \in Nat /\ Window \in Nat \ {0} /\ MaxSeen \in Nat \ {0}

VARIABLES yAt,    \* "off", "loop", or "wallet": the answer of yWallet is being gone through
          yLeft,  \* the wallets the pass still has to read
          yTxs,   \* the transactions of the answer not yet looked at
          yCopy,  \* the transaction being copied, or NoTx
          ySeen,  \* _seen_signatures
          yMade,  \* how many transactions each wallet has made
          yCopied \* the swaps served, by transaction, in this life of the process, to two

yvars == <<yAt, yLeft, yTxs, yCopy, ySeen, yMade, yCopied>>

Txs == Wallets \X (1 .. MaxMade)
NoTx == <<>>

\* One more served swap: the bound two tells once from more than once.
CountOf(n) == IF n < 2 THEN n + 1 ELSE n

CopyInit ==
    /\ yAt = "off" /\ yLeft = {} /\ yTxs = {} /\ yCopy = NoTx /\ ySeen = {}
    /\ yMade = [w \in Wallets |-> 0]
    /\ yCopied = [tx \in Txs |-> 0]

\* The next pass of run, the first one or thirty seconds after the last.
NextPass ==
    /\ yAt \in {"off", "loop"} /\ yLeft = {}
    /\ yAt' = "loop" /\ yLeft' = Wallets
    /\ UNCHANGED <<yTxs, yCopy, ySeen, yMade, yCopied>>

\* _fetch_wallet_transactions, from Helius or the RPC; without an answer, nothing.
FetchTransactions(w, out) ==
    /\ yAt = "loop" /\ w \in yLeft
    /\ yLeft' = yLeft \ {w}
    /\ yTxs' = IF AnswerCame(out) THEN {tx \in Txs : tx[1] = w /\ tx[2] \in yMade[w] - Window + 1 .. yMade[w]}
                                ELSE {}
    /\ yAt' = "wallet"
    /\ UNCHANGED <<yCopy, ySeen, yMade, yCopied>>

\* mutant of Remember: the set is emptied when it is full
Remember_Empties(tx) ==
    ySeen' = IF Cardinality(ySeen \cup {tx}) < MaxSeen THEN ySeen \cup {tx} ELSE {}

\* _is_new_trade adds the signature before the trade is copied; over the limit
\* the set's pop takes any element out.
Remember(tx) ==
    IF Cardinality(ySeen \cup {tx}) <= MaxSeen THEN ySeen' = ySeen \cup {tx}
    ELSE \E old \in ySeen \cup {tx} : ySeen' = (ySeen \cup {tx}) \ {old}

\* The next transaction of the answer, newest first.  A wallet below the success
\* rate, an amount of zero and a token without a route are not copied.
LookAt(tx, copy) ==
    /\ yAt = "wallet" /\ yCopy = NoTx /\ tx \in yTxs
    /\ \A other \in yTxs : other[2] <= tx[2]
    /\ yTxs' = yTxs \ {tx}
    /\ IF tx \in ySeen THEN UNCHANGED <<ySeen, yCopy>>
                       ELSE Remember(tx) /\ yCopy' = IF copy THEN tx ELSE NoTx
    /\ UNCHANGED <<yAt, yLeft, yMade, yCopied>>

\* _copy_trade sends the swap once, whatever becomes of it.
CopyTrade(out) ==
    /\ yCopy # NoTx
    /\ yCopied' = IF Served(out) THEN [yCopied EXCEPT ![yCopy] = CountOf(@)] ELSE yCopied
    /\ yCopy' = NoTx
    /\ UNCHANGED <<yAt, yLeft, yTxs, ySeen, yMade>>

WalletDone ==
    /\ yAt = "wallet" /\ yTxs = {} /\ yCopy = NoTx
    /\ yAt' = "loop"
    /\ UNCHANGED <<yLeft, yTxs, yCopy, ySeen, yMade, yCopied>>

\* The task is cancelled, with a swap under way or not, and stop closes no
\* position.  The bot keeps the signatures for its next run.
CancelCopy(served) ==
    /\ yAt # "off"
    /\ served => yCopy # NoTx
    /\ yAt' = "off" /\ yLeft' = {} /\ yTxs' = {} /\ yCopy' = NoTx
    /\ yCopied' = IF served THEN [yCopied EXCEPT ![yCopy] = CountOf(@)] ELSE yCopied
    /\ UNCHANGED <<ySeen, yMade>>

\* The process is restarted: the ten last transactions of each wallet are new.
ProcessRestarts ==
    /\ yAt' = "off" /\ yLeft' = {} /\ yTxs' = {} /\ yCopy' = NoTx /\ ySeen' = {}
    /\ yCopied' = [tx \in Txs |-> 0]
    /\ UNCHANGED yMade

WalletTrades(w) ==
    /\ yMade[w] < MaxMade
    /\ yMade' = [yMade EXCEPT ![w] = @ + 1]
    /\ UNCHANGED <<yAt, yLeft, yTxs, yCopy, ySeen, yCopied>>

CopyNext ==
    \/ NextPass \/ WalletDone \/ ProcessRestarts
    \/ \E w \in Wallets : WalletTrades(w) \/ \E out \in Outcomes : FetchTransactions(w, out)
    \/ \E tx \in Txs, copy \in BOOLEAN : LookAt(tx, copy)
    \/ \E out \in Outcomes : CopyTrade(out)
    \/ \E served \in BOOLEAN : CancelCopy(served)

CopySpec == CopyInit /\ [][CopyNext]_yvars

------------------------------------------------------------------------------
CopyTypeOK ==
    /\ yAt \in {"off", "loop", "wallet"} /\ yLeft \subseteq Wallets
    /\ yTxs \subseteq Txs /\ yCopy \in Txs \cup {NoTx}
    /\ ySeen \subseteq Txs /\ Cardinality(ySeen) <= MaxSeen
    /\ yMade \in [Wallets -> 0 .. MaxMade] /\ yCopied \in [Txs -> 0 .. 2]

Made == {tx \in Txs : tx[2] <= yMade[tx[1]]}

\* "새로운 거래 여부 확인 - 중복 필터링": as long as the wallets have made no more
\* transactions than the set holds, one is copied at most once within one life
\* of the process, through repeated answers, failed or lost swaps, cancelled
\* runs and later ones.  Beyond the limit the set's pop may forget a transaction
\* the next answer still holds, and the promise ends.
CopiedOnce ==
    Cardinality(Made) <= MaxSeen
        => \A tx \in Txs : yCopied[tx] <= 1

------------------------------------------------------------------------------
(* The sniper of department 7 (src/department_7/src/bot/pump_sniper_bot.py):   *)
(* it buys a token when its launch is seen, watches its price and at a profit  *)
(* or a loss calls it sold and sends the profit to another wallet.  stop runs  *)
(* in the task of run(), when that is cancelled, and in the launcher's, at any *)
(* await of the first.  In the mock the loop ends with the first purchase,     *)
(* which leaves the status "running".                                          *)

CONSTANTS SniperTokens,
          MaxBuys       \* bound on the purchases of a token

ASSUME SniperAssumption == MaxBuys \in Nat

VARIABLES qStatus,
          qMock,
          qRun,     \* the task of run(): where it is, its token, and those it has left
          qStop,    \* the launcher's stop
          qSnipes,  \* active_snipes: "none", or the status of the token's
          qBuys,    \* purchases noted
          qSales,   \* sales noted
          qPaid,    \* profits sent
          qRaced    \* the launcher's stop began while the price of a token was asked

qvars == <<qStatus, qMock, qRun, qStop, qSnipes, qBuys, qSales, qPaid, qRaced>>
sniperBooks == <<qSnipes, qBuys, qSales, qPaid>>

QAt(where, token, todo) == [at |-> where, token |-> token, todo |-> todo]
SniperOff == QAt("off", "", {})
SniperLoopIf(p) == IF p THEN QAt("loop", "", {}) ELSE SniperOff

SniperInit ==
    /\ qStatus = "idle" /\ qMock = FALSE /\ qRun = SniperOff /\ qStop = SniperOff
    /\ qSnipes = [t \in SniperTokens |-> "none"]
    /\ qBuys = [t \in SniperTokens |-> 0] /\ qSales = qBuys /\ qPaid = qBuys
    /\ qRaced = FALSE

Sniped == {t \in SniperTokens : qSnipes[t] # "none"}
\* The mock makes its prices up: nothing runs between the look and the sale.
SniperAwaits == ~(qMock /\ qRun.at = "price")
SniperActive == IF qMock THEN "mock" ELSE "running"

\* run begins a loop; the live bot falls back on the mock when no provider answers.
RunSniper(mock) ==
    /\ qRun = SniperOff /\ (qMock => mock)
    /\ qMock' = mock /\ qStatus' = (IF mock THEN "mock" ELSE "running")
    /\ qRun' = QAt("loop", "", {})
    /\ UNCHANGED <<qStop, sniperBooks, qRaced>>

\* A launch that scores 7.  The mock notes the purchase at once.
HandleNewToken(t) ==
    /\ qRun.at = "loop" /\ qStatus = SniperActive /\ qBuys[t] < MaxBuys
    /\ IF qMock
       THEN /\ qSnipes' = [qSnipes EXCEPT ![t] = "active"]
            /\ qBuys' = [qBuys EXCEPT ![t] = @ + 1]
            /\ qStatus' = "running"
            /\ qRun' = QAt("monitor", "", Sniped \cup {t})
       ELSE /\ qStatus' = "sniping" /\ qRun' = QAt("swap", t, {})
            /\ UNCHANGED <<qSnipes, qBuys>>
    /\ UNCHANGED <<qMock, qStop, qSales, qPaid, qRaced>>

\* The swap ends, and the status is "running" again whoever stopped the bot; or
\* what follows the purchase raises and the status is "error".
ExecuteSnipe(bought, raises) ==
    /\ qRun.at = "swap" /\ (raises => bought)
    /\ IF bought THEN /\ qSnipes' = [qSnipes EXCEPT ![qRun.token] = "active"]
                      /\ qBuys' = [qBuys EXCEPT ![qRun.token] = @ + 1]
                 ELSE UNCHANGED <<qSnipes, qBuys>>
    /\ qStatus' = IF raises THEN "error" ELSE "running"
    /\ qRun' = QAt("monitor", "", Sniped \cup (IF bought THEN {qRun.token} ELSE {}))
    /\ UNCHANGED <<qMock, qStop, qSales, qPaid, qRaced>>

\* A pass that sees no launch.
NoLaunch ==
    /\ qRun.at = "loop" /\ qStatus = SniperActive
    /\ qRun' = QAt("monitor", "", Sniped)
    /\ UNCHANGED <<qStatus, qMock, qStop, sniperBooks, qRaced>>

\* mutant of AskPrice: what was sold is watched again
AskPrice_Sold(t) ==
    /\ qRun.at = "monitor" /\ t \in qRun.todo
    /\ qRun' = QAt("price", t, qRun.todo \ {t})
    /\ UNCHANGED <<qStatus, qMock, qStop, sniperBooks, qRaced>>

\* _monitor_positions: the status is looked at before the price is asked for.
AskPrice(t) ==
    /\ qRun.at = "monitor" /\ t \in qRun.todo
    /\ qRun' = IF qSnipes[t] = "sold" THEN [qRun EXCEPT !.todo = @ \ {t}]
               ELSE QAt("price", t, qRun.todo \ {t})
    /\ UNCHANGED <<qStatus, qMock, qStop, sniperBooks, qRaced>>

NoteSale(t) ==
    /\ qSnipes' = [qSnipes EXCEPT ![t] = "sold"]
    /\ qSales' = [qSales EXCEPT ![t] = @ + 1]

\* The price is between the limits, or does not come.
KeepToken ==
    /\ qRun.at = "price"
    /\ qRun' = QAt("monitor", "", qRun.todo)
    /\ UNCHANGED <<qStatus, qMock, qStop, sniperBooks, qRaced>>

\* _sell_token swaps nothing back; a profit waits for its transfer.
SellToken(profit) ==
    /\ qRun.at = "price"
    /\ NoteSale(qRun.token)
    /\ qRun' = IF profit THEN [qRun EXCEPT !.at = "pay"]
               ELSE QAt("monitor", "", qRun.todo)
    /\ UNCHANGED <<qStatus, qMock, qStop, qBuys, qPaid, qRaced>>

WithdrawProfits(sent) ==
    /\ qRun.at = "pay"
    /\ qPaid' = IF sent THEN [qPaid EXCEPT ![qRun.token] = @ + 1] ELSE qPaid
    /\ qRun' = QAt("monitor", "", qRun.todo)
    /\ UNCHANGED <<qStatus, qMock, qStop, qSnipes, qBuys, qSales, qRaced>>

MonitorEnds ==
    /\ qRun.at = "monitor" /\ qRun.todo = {}
    /\ qRun' = SniperLoopIf(qStatus = SniperActive)
    /\ UNCHANGED <<qStatus, qMock, qStop, sniperBooks, qRaced>>

\* The connection is lost: _reconnect makes another, and run returns.
ConnectionClosed ==
    /\ qRun.at = "loop" /\ ~qMock
    /\ qRun' = SniperOff /\ \E mock \in BOOLEAN :
           qMock' = mock /\ qStatus' = IF mock THEN "mock" ELSE "running"
    /\ UNCHANGED <<qStop, sniperBooks, qRaced>>

\* What the loop finds in the status ends it.
SniperLoopEnds ==
    /\ qRun.at = "loop" /\ qStatus # SniperActive
    /\ qRun' = SniperOff
    /\ UNCHANGED <<qStatus, qMock, qStop, sniperBooks, qRaced>>

CancelSniper ==
    /\ qRun.at \notin {"off", "stop"} /\ SniperAwaits
    /\ qStatus' = "idle" /\ qRun' = QAt("stop", "", Sniped)
    /\ UNCHANGED <<qMock, qStop, sniperBooks, qRaced>>

StopSniper ==
    /\ qStop = SniperOff /\ qRun.at # "off" /\ SniperAwaits
    /\ qStatus' = "idle" /\ qStop' = QAt("stop", "", Sniped)
    /\ qRaced' = (qRaced \/ qRun.at = "price")
    /\ UNCHANGED <<qMock, qRun, sniperBooks>>

\* stop calls what it listed sold, at no profit, with a message after each.
SellOr(t) == IF qSnipes[t] = "sold" THEN UNCHANGED <<qSnipes, qSales>> ELSE NoteSale(t)

OwnSell(t) ==
    /\ qRun.at = "stop" /\ t \in qRun.todo
    /\ qRun' = [qRun EXCEPT !.todo = @ \ {t}] /\ SellOr(t)
    /\ UNCHANGED <<qStatus, qMock, qStop, qBuys, qPaid, qRaced>>

StopSell(t) ==
    /\ t \in qStop.todo /\ SniperAwaits
    /\ qStop' = [qStop EXCEPT !.todo = @ \ {t}] /\ SellOr(t)
    /\ qRaced' = (qRaced \/ qRun.at = "price")
    /\ UNCHANGED <<qStatus, qMock, qRun, qBuys, qPaid>>

OwnStopped ==
    /\ qRun = QAt("stop", "", {}) /\ qRun' = SniperOff
    /\ UNCHANGED <<qStatus, qMock, qStop, sniperBooks, qRaced>>

StopReturns ==
    /\ qStop = QAt("stop", "", {}) /\ SniperAwaits /\ qStop' = SniperOff
    /\ UNCHANGED <<qStatus, qMock, qRun, sniperBooks, qRaced>>

SniperNext ==
    \/ \E mock \in BOOLEAN : RunSniper(mock)
    \/ \E t \in SniperTokens : HandleNewToken(t) \/ AskPrice(t) \/ OwnSell(t) \/ StopSell(t)
    \/ \E bought, raises \in BOOLEAN : ExecuteSnipe(bought, raises)
    \/ \E b \in BOOLEAN : SellToken(b) \/ WithdrawProfits(b)
    \/ NoLaunch \/ KeepToken \/ MonitorEnds \/ ConnectionClosed \/ SniperLoopEnds
    \/ CancelSniper \/ StopSniper \/ OwnStopped \/ StopReturns

SniperSpec == SniperInit /\ [][SniperNext]_qvars

------------------------------------------------------------------------------
SniperTypeOK ==
    /\ qStatus \in {"idle", "mock", "running", "sniping", "error"}
    /\ \A t \in SniperTokens :
           qSnipes[t] \in {"none", "active", "sold"} /\ qBuys[t] \in 0 .. MaxBuys
    /\ qRun.at \in {"off", "loop", "swap", "monitor", "price", "pay", "stop"}

\* A purchase is sold once: through purchases of the same token, cancellations
\* in the middle of a sale and two stops at a time, unless the launcher's stop
\* comes while a price is awaited, after which the status is not looked at again.
SoldOnce == ~qRaced => \A t \in SniperTokens : qSales[t] <= qBuys[t]

\* Its profit is sent to the other wallet no more than once, even then.
ProfitIsPaidOnce == \A t \in SniperTokens : qPaid[t] <= qBuys[t]
==============================================================================
