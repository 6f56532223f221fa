-------------------------- MODULE DailySettlement ---------------------------
(***************************************************************************)
(* lib/core/profit/daily_settlement.py and vault_manager.py: at midnight   *)
(* run_daily_settlement works through the bots and moves the profit of     *)
(* each to its vault (withdraw_profit_to_vault); a user may settle one bot *)
(* (manual_settlement(bot)) or all of them (manual_settlement()) at any    *)
(* time.  is_running keeps whole settlements apart, and only those.        *)
(*                                                                         *)
(* One withdrawal is a request whose answer is awaited; while it is out    *)
(* the task may be cancelled.  The balance is the simulated one of         *)
(* _get_bot_current_balance: base capital and five per cent, whatever was  *)
(* withdrawn before.  sMoved is what has really left for the vaults.       *)
(***************************************************************************)
EXTENDS Naturals, Sequences, FiniteSets, TLC, SequencesExt, ExchangeCalls

CONSTANTS
    Settlers,     \* tasks inside the settlement system; one is schedule_daily
    Scheduler,
    SettleBots,   \* BOT_CONFIGS, in order
    WithProfit,   \* those whose five per cent are a dollar or more
    MaxRecords,   \* bound: records of one lifetime
    MaxCuts       \* bound: cancellations and restarts

ASSUME SAssumption ==
    /\ Scheduler \in Settlers /\ IsFiniteSet(Settlers)
    /\ SettleBots \in Seq(WithProfit \cup Range(SettleBots))
    /\ MaxRecords \in Nat /\ MaxCuts \in Nat

VARIABLES
    sRunning,     \* is_running
    sTask,        \* what a task has left: bots, whether it runs a whole settlement
    sHistory,     \* profit_history
    sFile,        \* data/vault_records.json
    sMoved,       \* withdrawals that took place, by bot
    sCuts         \* cancellations and restarts so far

svars == <<sRunning, sTask, sHistory, sFile, sMoved, sCuts>>
SIdle == [on |-> FALSE, whole |-> FALSE, left |-> <<>>]
AllBots == Range(SettleBots)

SInit ==
    /\ sRunning = FALSE
    /\ sTask = [t \in Settlers |-> SIdle]
    /\ sHistory = <<>> /\ sFile = <<>>
    /\ sMoved = [b \in AllBots |-> 0]
    /\ sCuts = 0

\* the i-th of bots is the next to be withdrawn from
FirstDue(bots, i) == bots[i] \in WithProfit /\ \A j \in 1 .. i - 1 : bots[j] \notin WithProfit
NoneDue(bots) == \A i \in DOMAIN bots : bots[i] \notin WithProfit
Await(t, whole, bots) ==
    \E i \in DOMAIN bots :
        /\ FirstDue(bots, i)
        /\ sTask' = [sTask EXCEPT ![t] = [on |-> TRUE, whole |-> whole, left |-> SubSeq(bots, i, Len(bots))]]
        /\ sRunning' = (sRunning \/ whole)

\* mutant of Proceed: the flag stays up
Proceed_KeepsFlag(t, whole, bots) ==
    \/ NoneDue(bots) /\ sTask' = [sTask EXCEPT ![t] = SIdle] /\ UNCHANGED sRunning
    \/ Await(t, whole, bots)

\* The loop of run_daily_settlement, or the one bot of manual_settlement, up
\* to the next withdrawal: a bot below the threshold is skipped, after the last
\* one is_running falls.
Proceed(t, whole, bots) ==
    \/ NoneDue(bots) /\ sTask' = [sTask EXCEPT ![t] = SIdle] /\ sRunning' = (sRunning /\ ~whole)
    \/ Await(t, whole, bots)

\* mutant of Settle: the flag is not looked at
Settle_Unchecked(t) ==
    /\ ~sTask[t].on
    /\ Len(sHistory) < MaxRecords
    /\ Proceed(t, TRUE, SettleBots)
    /\ UNCHANGED <<sHistory, sFile, sMoved, sCuts>>

\* run_daily_settlement, by schedule_daily or by manual_settlement().
Settle(t) ==
    /\ ~sTask[t].on /\ ~sRunning
    /\ Len(sHistory) < MaxRecords
    /\ Proceed(t, TRUE, SettleBots)
    /\ UNCHANGED <<sHistory, sFile, sMoved, sCuts>>

\* manual_settlement(b) does not look at is_running.
SettleOne(t, b) ==
    /\ t # Scheduler /\ ~sTask[t].on
    /\ Len(sHistory) < MaxRecords
    /\ Proceed(t, FALSE, <<b>>)
    /\ UNCHANGED <<sHistory, sFile, sMoved, sCuts>>

Record(b, status) == [bot |-> b, status |-> status]

\* mutants of WithdrawProfit: one that keeps no record of a failure, one that
\* waits until no other withdrawal is under way
WithdrawProfit_Silent(t, out) ==
    /\ sTask[t].on
    /\ LET b == Head(sTask[t].left)
           book == IF AnswerCame(out) THEN Append(sHistory, Record(b, "completed")) ELSE sHistory
       IN  /\ sHistory' = book /\ sFile' = book
           /\ sMoved' = [sMoved EXCEPT ![b] = @ + IF Served(out) THEN 1 ELSE 0]
    /\ Proceed(t, sTask[t].whole, Tail(sTask[t].left))
    /\ UNCHANGED sCuts

WithdrawProfit_Alone(t, out) ==
    /\ sTask[t].on /\ \A other \in Settlers \ {t} : ~sTask[other].on
    /\ LET b == Head(sTask[t].left)
           book == Append(sHistory, Record(b, IF AnswerCame(out) THEN "completed" ELSE "failed"))
       IN  /\ sHistory' = book /\ sFile' = book
           /\ sMoved' = [sMoved EXCEPT ![b] = @ + IF Served(out) THEN 1 ELSE 0]
    /\ Proceed(t, sTask[t].whole, Tail(sTask[t].left))
    /\ UNCHANGED sCuts

\* The answer of the exchange: withdraw_profit_to_vault puts the record into
\* the history, saves the last thousand, and the loop goes on; a withdrawal
\* whose answer is lost is recorded as failed.
WithdrawProfit(t, out) ==
    /\ sTask[t].on
    /\ LET b == Head(sTask[t].left)
           book == Append(sHistory, Record(b, IF AnswerCame(out) THEN "completed" ELSE "failed"))
       IN  /\ sHistory' = book /\ sFile' = book
           /\ sMoved' = [sMoved EXCEPT ![b] = @ + IF Served(out) THEN 1 ELSE 0]
    /\ Proceed(t, sTask[t].whole, Tail(sTask[t].left))
    /\ UNCHANGED sCuts

\* The task is cancelled in the await: no record, and nothing resets is_running.
CancelSettler(t, served) ==
    /\ sTask[t].on /\ sCuts < MaxCuts
    /\ sTask' = [sTask EXCEPT ![t] = SIdle]
    /\ sMoved' = [sMoved EXCEPT ![Head(sTask[t].left)] = @ + IF served THEN 1 ELSE 0]
    /\ sCuts' = sCuts + 1
    /\ UNCHANGED <<sRunning, sHistory, sFile>>

\* The process starts again: _load_records reads the file and restores nothing.
LoadRecords ==
    /\ sCuts < MaxCuts
    /\ sCuts' = sCuts + 1
    /\ sRunning' = FALSE
    /\ sTask' = [t \in Settlers |-> SIdle]
    /\ sHistory' = <<>>
    /\ \E served \in SUBSET {t \in Settlers : sTask[t].on} :
         sMoved' = [b \in AllBots |->
                      sMoved[b] + Cardinality({t \in served : Head(sTask[t].left) = b})]
    /\ UNCHANGED sFile

SNext ==
    \/ \E t \in Settlers : Settle(t)
    \/ \E t \in Settlers, b \in AllBots : SettleOne(t, b)
    \/ \E t \in Settlers, out \in Outcomes : WithdrawProfit(t, out)
    \/ \E t \in Settlers, served \in BOOLEAN : CancelSettler(t, served)
    \/ LoadRecords

SAnswer(t) == \E out \in Outcomes : WithdrawProfit(t, out)
SFairness == \A t \in Settlers : WF_svars(SAnswer(t))
SSpec == SInit /\ [][SNext]_svars /\ SFairness

Whole(t) == sTask[t].on /\ sTask[t].whole
Underway(b) == {t \in Settlers : sTask[t].on /\ Head(sTask[t].left) = b}
Records(b, status) == {i \in DOMAIN sHistory : sHistory[i] = Record(b, status)}

STypeOK ==
    /\ sRunning \in BOOLEAN
    /\ \A t \in Settlers : /\ {sTask[t].on, sTask[t].whole} \subseteq BOOLEAN
                           /\ sTask[t].on <=> sTask[t].left # <<>>
                           /\ sTask[t].on => Head(sTask[t].left) \in WithProfit
    /\ sMoved \in [AllBots -> Nat]

\* Two whole settlements never run at once: is_running is tested and set
\* before the first await, and a manual settlement that ends next to one
\* leaves the flag alone ("Settlement already running", daily_settlement.py:51).
OneSettlement ==
    /\ Cardinality({t \in Settlers : Whole(t)}) <= 1
    /\ \A t \in Settlers : Whole(t) => sRunning

\* In a life without a cut the books bracket the vaults: what is recorded as
\* completed has moved, and whatever moved has a record, completed or failed,
\* or is under way.
BooksBracketVaults ==
    sCuts = 0 => \A b \in AllBots :
        /\ Cardinality(Records(b, "completed")) <= sMoved[b]
        /\ sMoved[b] <= Cardinality(Records(b, "completed") \cup Records(b, "failed"))

\* is_running stands for a settlement that runs, or the next midnight is lost:
\* holds as long as no settlement was cancelled.
FlagIsOwned == sCuts = 0 => (sRunning => \E t \in Settlers : Whole(t))

\* Whoever asks for settlements, and whatever the exchange answers: one whole
\* settlement at a time, its flag and the books true to it.
SettlementsAreSound == OneSettlement /\ BooksBracketVaults /\ FlagIsOwned

\* schedule_daily is never shut out for ever: a settlement under way comes to
\* its end, whatever the exchange answers.
SettlementEnds == \A t \in Settlers : Whole(t) ~> ~sTask[t].on

\* What the vault file once recorded it keeps ("기록 로드", vault_manager.py:80).
FileKeepsRecords == [][IsPrefix(sFile, sFile')]_svars
=============================================================================
