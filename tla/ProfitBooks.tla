----------------------------- MODULE ProfitBooks -----------------------------
(* The ledgers of profits: the one of the nest with its withdrawal executor, and *)
(* the one of the accounting department.  Two parts, each with its own state. *)
EXTENDS Integers, Sequences, FiniteSets, SequencesExt

------------------------------------------------------------------------------
(* The profit ledger of the nest and its withdrawal executor                   *)
(* (src/external/ant-colony-nest/nest_profit.py, withdrawal_executor.py).      *)
(* A pass of auto_withdraw_all_pending reads the records that are pending,     *)
(* then pays them one after the other while trades go on recording profits.    *)
(* Every method commits one transaction of its own; the copies kept in Redis   *)
(* are left out, their failures are not.  Amounts are in units of the least    *)
(* one that is paid; a trade at a loss records a negative amount.              *)

CONSTANTS NestBots,    \* bots whose profits are recorded
          Direct,      \* those paid to a wallet of their own, the rest to an exchange
          Base,        \* base_capital, the same for all
          MaxRecords,  \* bound on the records
          MaxPasses    \* bound on the passes

ASSUME NestAssumption ==
    /\ Direct \subseteq NestBots
    /\ Base \in Nat \ {0} /\ MaxRecords \in Nat \ {0} /\ MaxPasses \in Nat \ {0}

Profits == {-1, 1, 2}

VARIABLES nRecords,  \* profit_records, oldest first: bot, amount, withdrawal_status,
                     \* and, history, the gains of the bot up to the record
          nState,    \* bot_capital_states
          nPass,     \* a pass: where it is, and the records of the requests it has left
          nRefused,  \* a request of a pass was turned down and its record left pending
          nPasses    \* passes begun

nvars == <<nRecords, nState, nPass, nRefused, nPasses>>

NestIdle == [at |-> "idle", todo |-> {}]
Unknown == [current |-> 0, realized |-> 0, withdrawn |-> 0, pending |-> 0, known |-> FALSE]

NestInit ==
    /\ nRecords = <<>> /\ nState = [b \in NestBots |-> Unknown]
    /\ nPass = NestIdle /\ nRefused = FALSE /\ nPasses = 0

IsPending(r) == r.status = "pending"

\* The gains of a bot: what its records of profits add up to.
GainsOf(b) ==
    LET mine == {i \in DOMAIN nRecords : nRecords[i].bot = b}
    IN  IF mine = {} THEN 0 ELSE nRecords[CHOOSE i \in mine : \A j \in mine : j <= i].gains

Gain(amount) == IF amount > 0 THEN amount ELSE 0

\* The first record of a bot makes its row, with the profit alone as its current
\* capital; the later ones add to it.
WithProfit(row, amount) ==
    IF row.known
    THEN [row EXCEPT !.current = @ + amount, !.realized = @ + amount, !.pending = @ + amount]
    ELSE [Unknown EXCEPT !.current = amount, !.realized = amount, !.known = TRUE]

\* record_profit
RecordProfit(b, amount) ==
    /\ Len(nRecords) < MaxRecords
    /\ nRecords' = Append(nRecords, [bot |-> b, amount |-> amount, status |-> "pending",
                                     gains |-> GainsOf(b) + Gain(amount)])
    /\ nState' = [nState EXCEPT ![b] = WithProfit(@, amount)]
    /\ UNCHANGED <<nPass, nRefused, nPasses>>

\* auto_withdraw_all_pending, get_pending_withdrawals: a request is the bot and the
\* amount of a record, which do not change.
WithdrawPending ==
    /\ nPass.at = "idle"
    /\ LET pending == {i \in DOMAIN nRecords : IsPending(nRecords[i])}
       IN  pending # {} /\ nPass' = [at |-> "ask", todo |-> pending]
    /\ nPasses < MaxPasses /\ nPasses' = nPasses + 1
    /\ UNCHANGED <<nRecords, nState, nRefused>>

\* The oldest comes first.
Turn == CHOOSE i \in nPass.todo : \A j \in nPass.todo : i <= j
NestRequest == nRecords[Turn]
NextRequest == IF nPass.todo = {Turn} THEN NestIdle
               ELSE [at |-> "ask", todo |-> nPass.todo \ {Turn}]

\* The amount is too small, or pi-mono, or the volatility, says no.
Refuse ==
    /\ nPass.at = "ask"
    /\ nPass' = NextRequest /\ nRefused' = TRUE
    /\ UNCHANGED <<nRecords, nState, nPasses>>

\* mutant of Oldest: the newest is marked
Oldest_Newest(b) ==
    LET mine == {i \in DOMAIN nRecords : nRecords[i].bot = b /\ IsPending(nRecords[i])}
    IN  {i \in mine : \A j \in mine : j <= i}

\* The record mark_withdrawal_processing takes, if there is one.
Oldest(b) ==
    LET mine == {i \in DOMAIN nRecords : nRecords[i].bot = b /\ IsPending(nRecords[i])}
    IN  {i \in mine : \A j \in mine : i <= j}
Consent == nPass.at = "ask" /\ NestRequest.amount >= 1

\* Paid to an exchange: the oldest pending record of the bot is marked, whichever
\* the request came from, and the amount is added to what is pending once more.
MarkProcessing ==
    /\ Consent /\ NestRequest.bot \notin Direct
    /\ nRecords' = [i \in DOMAIN nRecords |->
           IF i \in Oldest(NestRequest.bot) THEN [nRecords[i] EXCEPT !.status = "processing"]
                                        ELSE nRecords[i]]
    /\ nState' = [nState EXCEPT ![NestRequest.bot].pending = @ + NestRequest.amount]
    /\ nPass' = [nPass EXCEPT !.at = "sent"]
    /\ UNCHANGED <<nRefused, nPasses>>

\* The database is locked: the request has failed, the record stays.
MarkFails ==
    /\ Consent /\ NestRequest.bot \notin Direct
    /\ nPass' = NextRequest /\ nRefused' = TRUE
    /\ UNCHANGED <<nRecords, nState, nPasses>>

\* Redis fails after the record was marked: the request has failed.
SendFails ==
    /\ nPass.at = "sent" /\ NestRequest.bot \notin Direct
    /\ nPass' = NextRequest
    /\ UNCHANGED <<nRecords, nState, nRefused, nPasses>>

\* Paid to a wallet: nothing is marked.
SendToWallet ==
    /\ Consent /\ NestRequest.bot \in Direct
    /\ nPass' = [nPass EXCEPT !.at = "sent"]
    /\ UNCHANGED <<nRecords, nState, nRefused, nPasses>>

WithPayment(row, amount) ==
    [row EXCEPT !.current = @ - amount, !.withdrawn = @ + amount, !.pending = @ - amount]

\* complete_withdrawal.  No record has the transaction's id, for none was marked
\* with it: those marked stay "processing".
CompleteWithdrawal ==
    /\ nPass.at = "sent"
    /\ nState' = [nState EXCEPT ![NestRequest.bot] = WithPayment(@, NestRequest.amount)]
    /\ nPass' = [nPass EXCEPT !.at = "paid"]
    /\ UNCHANGED <<nRecords, nRefused, nPasses>>

\* _reset_to_principal, which forgets what was recorded since the commit.
ResetToPrincipal ==
    /\ nPass.at = "paid"
    /\ nState' = [nState EXCEPT ![NestRequest.bot].current = Base]
    /\ nPass' = NextRequest
    /\ UNCHANGED <<nRecords, nRefused, nPasses>>

\* An exception complete_withdrawal does not handle, or the end of the process.
PassDies ==
    /\ nPass.at # "idle"
    /\ nPass' = NestIdle
    /\ UNCHANGED <<nRecords, nState, nRefused, nPasses>>

NestNext ==
    \/ \E b \in NestBots, amount \in Profits : RecordProfit(b, amount)
    \/ WithdrawPending \/ Refuse \/ MarkProcessing \/ MarkFails \/ SendFails \/ SendToWallet
    \/ CompleteWithdrawal \/ ResetToPrincipal \/ PassDies

NestSpec == NestInit /\ [][NestNext]_nvars

------------------------------------------------------------------------------
NestTypeOK ==
    /\ \A i \in DOMAIN nRecords :
           nRecords[i] \in [bot : NestBots, amount : Profits, status : {"pending", "processing"},
                            gains : Nat]
    /\ \A b \in NestBots : nState[b].known \in BOOLEAN
    /\ nPass.at \in {"idle", "ask", "sent", "paid"} /\ nPass.todo \subseteq DOMAIN nRecords
    /\ nRefused \in BOOLEAN

\* No profit is paid to an exchange twice: over passes that die half way, profits
\* recorded during a pass and payments that fail, a bot is never paid more than
\* its gains, until a request is turned down and leaves its record at the head of
\* the line, where the next payment of the bot marks it in place of its own.
PaidWithinGains ==
    ~nRefused => \A b \in NestBots \ Direct : nState[b].withdrawn <= GainsOf(b)

------------------------------------------------------------------------------
(* The profit calculator of the accounting department and the analyser that    *)
(* reads its trades (src/occore/pnl/calculator.py, models.py, performance.py). *)
(* Threads add and close trades; the tests of both are made before the lock is *)
(* taken, and a trade is closed before the day is booked.  Fees and slippage   *)
(* are part of the profit of a trade; every trade is of one symbol.            *)

CONSTANTS TradeIds, PnlThreads,
          PnlDays,      \* days on which trades are closed, in order
          TradePnls     \* profits of a trade

ASSUME PnlAssumption == PnlDays \subseteq Nat /\ TradePnls \subseteq Int

VARIABLES plTrades,   \* _trades in order of insertion: id, status, pnl, day
          plDaily,    \* _daily_pnl: a day's totals, or NoDay
          plOpen,     \* _open_positions: the trade the position was made of, or "none"
          plCall,     \* what a thread is doing
          plRaced,    \* calls of one trade, or a call and clear_history, overlapped
          plFrom      \* the first day clear_history has left alone

plVars == <<plTrades, plDaily, plOpen, plCall, plRaced, plFrom>>

NoDay == [known |-> FALSE, realized |-> 0, count |-> 0, wins |-> 0, losses |-> 0]
PlIdle == [at |-> "idle", id |-> "none", pnl |-> 0, day |-> 0]

PnlInit ==
    /\ plTrades = <<>> /\ plDaily = [d \in PnlDays |-> NoDay] /\ plOpen = "none"
    /\ plCall = [t \in PnlThreads |-> PlIdle] /\ plRaced = FALSE /\ plFrom = 0

\* A bound: no call is made once two have raced.
MayCall(t) == plCall[t].at = "idle" /\ ~plRaced

Booked(id) == {i \in DOMAIN plTrades : plTrades[i].id = id}
Busy(id) == \E t \in PnlThreads : plCall[t].id = id

\* add_trade up to the lock.
AddTrade(t, id) ==
    /\ MayCall(t) /\ Booked(id) = {}
    /\ plCall' = [plCall EXCEPT ![t] = [PlIdle EXCEPT !.at = "add", !.id = id]]
    /\ plRaced' = (plRaced \/ Busy(id))
    /\ UNCHANGED <<plTrades, plDaily, plOpen, plFrom>>

\* Under the lock: a trade of the same id added meanwhile is written over, and
\* the position of the symbol is made anew of this trade.
StoreTrade(t) ==
    /\ plCall[t].at = "add"
    /\ LET new == [id |-> plCall[t].id, status |-> "open", pnl |-> 0, day |-> 0]
           old == Booked(plCall[t].id)
       IN  plTrades' = IF old = {} THEN Append(plTrades, new)
                       ELSE [i \in DOMAIN plTrades |-> IF i \in old THEN new ELSE plTrades[i]]
    /\ plOpen' = plCall[t].id
    /\ plCall' = [plCall EXCEPT ![t] = PlIdle]
    /\ UNCHANGED <<plDaily, plRaced, plFrom>>

\* close_trade up to the exit of the trade: found, and not closed yet.
CloseTrade(t, id, pnl, day) ==
    /\ MayCall(t)
    /\ \E i \in Booked(id) : plTrades[i].status = "open"
    /\ plCall' = [plCall EXCEPT ![t] = [at |-> "exit", id |-> id, pnl |-> pnl, day |-> day]]
    /\ plRaced' = (plRaced \/ Busy(id))
    /\ UNCHANGED <<plTrades, plDaily, plOpen, plFrom>>

UpdateExit(t) ==
    /\ plCall[t].at = "exit"
    /\ plTrades' = [i \in DOMAIN plTrades |->
           IF i \in Booked(plCall[t].id)
           THEN [plTrades[i] EXCEPT !.status = "closed", !.pnl = plCall[t].pnl,
                                    !.day = plCall[t].day]
           ELSE plTrades[i]]
    /\ plCall' = [plCall EXCEPT ![t].at = "book"]
    /\ UNCHANGED <<plDaily, plOpen, plRaced, plFrom>>

DayWith(daily, pnl) ==
    [known |-> TRUE, realized |-> daily.realized + pnl, count |-> daily.count + 1,
     wins |-> daily.wins + (IF pnl > 0 THEN 1 ELSE 0),
     losses |-> daily.losses + (IF pnl < 0 THEN 1 ELSE 0)]

\* mutant of BookDay: the day is made anew for every trade
BookDay_Anew(t) ==
    /\ plCall[t].at = "book"
    /\ plDaily' = [plDaily EXCEPT ![plCall[t].day] = DayWith(NoDay, plCall[t].pnl)]
    /\ plOpen' = "none"
    /\ plCall' = [plCall EXCEPT ![t] = PlIdle]
    /\ UNCHANGED <<plTrades, plRaced, plFrom>>

\* Under the lock: the day gets the trade, and the symbol loses its position,
\* whichever trade that was made of.
BookDay(t) ==
    /\ plCall[t].at = "book"
    /\ plDaily' = [plDaily EXCEPT ![plCall[t].day] = DayWith(@, plCall[t].pnl)]
    /\ plOpen' = "none"
    /\ plCall' = [plCall EXCEPT ![t] = PlIdle]
    /\ UNCHANGED <<plTrades, plRaced, plFrom>>

\* clear_history: of the days before one, or of everything.
ClearBefore(t, day) ==
    /\ MayCall(t)
    /\ plDaily' = [d \in PnlDays |-> IF d >= day THEN plDaily[d] ELSE NoDay]
    /\ plFrom' = (IF day > plFrom THEN day ELSE plFrom)
    /\ UNCHANGED <<plTrades, plOpen, plCall, plRaced>>

ClearAll(t) ==
    /\ MayCall(t)
    /\ plDaily' = [d \in PnlDays |-> NoDay] /\ plTrades' = <<>> /\ plOpen' = "none"
    /\ plRaced' = \E u \in PnlThreads : plCall[u].at \in {"exit", "book"}
    /\ plFrom' = 0
    /\ UNCHANGED plCall

PnlNext == \E t \in PnlThreads :
    \/ \E id \in TradeIds : AddTrade(t, id)
    \/ \E id \in TradeIds, pnl \in TradePnls, day \in PnlDays : CloseTrade(t, id, pnl, day)
    \/ StoreTrade(t) \/ UpdateExit(t) \/ BookDay(t) \/ ClearAll(t)
    \/ \E day \in PnlDays : ClearBefore(t, day)

PnlSpec == PnlInit /\ [][PnlNext]_plVars

------------------------------------------------------------------------------
(* What PerformanceAnalyzer makes of the closed trades.                        *)

IsClosed(trade) == trade.status = "closed"
ClosedTrades == SelectSeq(plTrades, IsClosed)
Total(trades) == FoldLeft(LAMBDA n, trade : n + trade.pnl, 0, trades)

\* The equity curve of analyze_trades: the trades in the order they were added.
EquityCurve ==
    FoldLeft(LAMBDA curve, trade : Append(curve, Last(curve) + trade.pnl), <<0>>, ClosedTrades)

\* mutant of MaxDrawdown: measured from the start
MaxDrawdown_FromStart(curve) ==
    FoldLeft(LAMBDA a, e : [a EXCEPT !.worst = IF a.peak - e > @ THEN a.peak - e ELSE @],
             [peak |-> curve[1], worst |-> 0], curve).worst

\* calculate_max_drawdown: one pass with the peak so far.
MaxDrawdown(curve) ==
    FoldLeft(LAMBDA a, e :
                 LET peak == IF e > a.peak THEN e ELSE a.peak
                 IN  [peak |-> peak, worst |-> IF peak - e > a.worst THEN peak - e ELSE a.worst],
             [peak |-> curve[1], worst |-> 0], curve).worst

PnlTypeOK ==
    /\ \A i \in DOMAIN plTrades :
           plTrades[i].id \in TradeIds /\ plTrades[i].status \in {"open", "closed"}
    /\ plOpen \in TradeIds \cup {"none"} /\ plRaced \in BOOLEAN /\ plFrom \in PnlDays \cup {0}
    /\ \A t \in PnlThreads : plCall[t].at \in {"idle", "add", "exit", "book"}

\* When no call is under way the days' totals are those of the closed trades, and
\* the position shown is of a trade that is open: over closes and additions of
\* different trades by several threads and over clearings of the history, for the
\* days those left alone, as long as no two calls of one trade overlapped.
DaysBookTrades ==
    (~plRaced /\ \A t \in PnlThreads : plCall[t] = PlIdle) =>
        /\ \A d \in {d \in PnlDays : d >= plFrom} :
               LET mine == SelectSeq(ClosedTrades, LAMBDA trade : trade.day = d)
               IN  /\ plDaily[d].realized = Total(mine)
                   /\ plDaily[d].count = Len(mine)
        /\ plOpen # "none" => \E i \in Booked(plOpen) : plTrades[i].status = "open"

\* The one pass finds the deepest fall of the curve from any point to any later one.
DrawdownIsWorst ==
    LET curve == EquityCurve
        falls == UNION {{curve[i] - curve[j] : j \in i .. Len(curve)} : i \in DOMAIN curve}
    IN  MaxDrawdown(curve) \in falls /\ \A f \in falls : f <= MaxDrawdown(curve)
==============================================================================
