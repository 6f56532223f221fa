---------------------------- MODULE TradingStack ----------------------------
(***************************************************************************)
(* One bot as bot_manager.py start_bot wires it: an ExecutionEngine with   *)
(* its order monitor, a PositionManager, a RiskController with its kill    *)
(* switch, and a bot of occore/operations/templates that enters and leaves *)
(* one position in one symbol.  The tasks interleave at every await:       *)
(*                                                                         *)
(*   Bot      the strategy loop: open_position, close_position             *)
(*   Monitor  _monitor_orders                                              *)
(*   Killers  whoever runs trigger_kill_switch: the loop of _monitor_risk  *)
(*            or an operator's call                                        *)
(***************************************************************************)
EXTENDS PositionManager, FiniteSetsExt

CONSTANTS
    Bot, Killers,
    RiskLoop,        \* the killer that is the task of _monitor_risk, if any
    Gated,           \* the bot asks check_order_risk before it enters
                     \* (scalping_bot.py); FALSE: it does not (trend_following_bot.py)
    LimitEnabled,    \* RiskLimit.enabled
    MaxPosition,     \* RiskLimit.max_position_size
    BotOrders,       \* bound: the order ids the bot may use
    MaxKills         \* bound: how often the kill switch is triggered

ASSUME StackAssumption ==
    /\ Bot \in Clients /\ Killers \subseteq Clients \ {Bot}
    /\ Gated \in BOOLEAN /\ LimitEnabled \in BOOLEAN
    /\ MaxPosition \in Nat /\ MaxKills \in Nat
    /\ BotOrders \subseteq OrderIds

VARIABLES
    cur,       \* the bot's current_position_id
    alive,     \* which of the bot's and the risk loop's tasks stop_bot left alone
    killed,    \* global_kill_switch and kill_switch_triggered[bot_id]
    kill,      \* the trigger_kill_switch each killer is inside
    kills      \* how often it was triggered

stackVars == <<cur, alive, killed, kill, kills>>
vars == <<allVars, stackVars>>

KillType == [at : {"idle", "close", "cancel", "done"},
             positions : SUBSET OrderIds, open_orders : SUBSET OrderIds,
             todo : SUBSET OrderIds]
NoKill == [at |-> "idle", positions |-> {}, open_orders |-> {}, todo |-> {}]

TypeOK ==
    /\ PmTypeOK
    /\ cur \in OrderIds \cup {NULL}
    /\ alive \subseteq {Bot, RiskLoop}
    /\ killed \subseteq {"global", "bot"}
    /\ kill \in [Killers -> KillType]
    /\ kills \in 0 .. MaxKills

Init ==
    /\ PmInit
    /\ cur = NULL /\ alive = {Bot, RiskLoop}
    /\ killed = {}
    /\ kill = [t \in Killers |-> NoKill]
    /\ kills = 0

-----------------------------------------------------------------------------
(* check_order_risk, without the order counters (OrderRate has them) *)

BookSize == MapThenSumSet(LAMBDA p : pos[p].amt, OpenPositions)

\* mutant of CheckOrderRisk: the bot's own kill switch is forgotten
CheckOrderRisk_Global ==
    LimitEnabled =>
        /\ "global" \notin killed
        /\ BookSize + Amount <= MaxPosition

CheckOrderRisk ==
    LimitEnabled =>
        /\ killed = {}
        /\ BookSize + Amount <= MaxPosition

-----------------------------------------------------------------------------
(* The bot.  Between its check, its entry and the request that leaves there *)
(* is no await that suspends: they are one step.                           *)

\* uuid4 gives an id that nobody has; which one does not matter
FreshIds(t) == {o \in IF t = Bot THEN BotOrders ELSE OrderIds \ BotOrders : Fresh(o)}
ById(t, o) == o \in FreshIds(t) /\ o = CHOOSE i \in FreshIds(t) : TRUE

BotFree == Bot \in alive /\ Free(Bot)
Gate    == Gated => CheckOrderRisk
BotKeeps == UNCHANGED <<alive, killed, kill, kills>>

\* open_position returns the position that is there already, be it of the other side
BotFindsPosition(s) ==
    /\ BotFree /\ cur = NULL /\ Gate
    /\ Occupied(s)
    /\ cur' = symPos[s]
    /\ BotKeeps /\ UNCHANGED allVars

\* current_position_id is set when open_position returns, and only then
BotSees(o) == cur' = IF order'[o].st = "FILLED" THEN o ELSE NULL

BotEnters(s, o) ==
    /\ BotFree /\ cur = NULL /\ Gate /\ ById(Bot, o)
    /\ \/ OpenCall(Bot, s, Amount, o) /\ UNCHANGED cur
       \/ OpenDry(Bot, s, Amount, o, TRUE) /\ BotSees(o)
    /\ BotKeeps

BotOpens ==
    /\ \/ OpenPlaced(Bot) /\ UNCHANGED cur
       \/ /\ OpenWake(Bot)
          /\ IF NeedsFetch(co[Bot].o) THEN UNCHANGED cur ELSE BotSees(co[Bot].o)
       \/ OpenFetched(Bot) /\ BotSees(co[Bot].o)
    /\ BotKeeps

\* _manage_position forgets a position somebody else has closed
BotForgets ==
    /\ BotFree /\ cur # NULL /\ ~IsOpen(cur)
    /\ cur' = NULL
    /\ BotKeeps /\ UNCHANGED allVars

\* stop loss or take profit: the prices decide when
BotLeaves(o) ==
    /\ BotFree /\ cur # NULL /\ IsOpen(cur) /\ ById(Bot, o)
    /\ CloseCall(Bot, cur, o) \/ CloseDry(Bot, cur, o, TRUE)
    /\ BotKeeps /\ UNCHANGED cur

\* whatever close_position returns, _reset_position follows
BotCloses ==
    /\ ClosePlaced(Bot) \/ CloseWake(Bot) \/ CloseFetched(Bot)
    /\ cur' = IF co'[Bot] = NoCo THEN NULL ELSE cur
    /\ BotKeeps

BotStep ==
    \/ \E s \in Symbols, o \in OrderIds :
          BotFindsPosition(s) \/ BotEnters(s, o)
    \/ BotOpens \/ BotForgets \/ BotCloses
    \/ \E o \in OrderIds : BotLeaves(o)

-----------------------------------------------------------------------------
(* trigger_kill_switch: set the flag, close the positions of one snapshot, *)
(* then cancel the orders of another.                                      *)

KillerKeeps == UNCHANGED <<cur, alive, killed, kills>>

\* check_position_risk: a loss today, and a position that shows one.  Prices,
\* and so any loss, exist in the dry run only: get_order_status never copies
\* the price of a real fill.
LossAlarm ==
    /\ LimitEnabled /\ DryRun
    /\ OpenPositions # {} /\ \E p \in OrderIds : booked[p] > 0

KillStart(t, scope) ==
    /\ Free(t) /\ kill[t].at \in {"idle", "done"} /\ kills < MaxKills
    /\ t = RiskLoop => scope = "bot" /\ LossAlarm /\ RiskLoop \in alive
    /\ kills' = kills + 1
    /\ killed' = killed \cup {scope}
    /\ kill' = [kill EXCEPT ![t] = [at |-> "close", positions |-> OpenPositions,
                                    open_orders |-> {}, todo |-> OpenPositions]]
    /\ UNCHANGED <<allVars, cur, alive>>

KillClose(t, p, o) ==
    /\ Free(t) /\ kill[t].at = "close" /\ p \in kill[t].todo /\ ById(t, o)
    /\ CloseCall(t, p, o) \/ CloseDry(t, p, o, TRUE)
    /\ kill' = [kill EXCEPT ![t].todo = @ \ {p}]
    /\ KillerKeeps

KillClosing(t) ==
    /\ ClosePlaced(t) \/ CloseWake(t) \/ CloseFetched(t)
    /\ KillerKeeps /\ UNCHANGED kill

\* mutant of KillOrders: the orders are cancelled first
KillOrders_Early(t) ==
    /\ Free(t) /\ kill[t].at = "close"
    /\ kill' = [kill EXCEPT ![t].at = "cancel", ![t].open_orders = OpenOrders,
                            ![t].todo = OpenOrders]
    /\ KillerKeeps /\ UNCHANGED allVars

KillOrders(t) ==
    /\ Free(t) /\ kill[t].at = "close" /\ kill[t].todo = {}
    /\ kill' = [kill EXCEPT ![t].at = "cancel", ![t].open_orders = OpenOrders,
                            ![t].todo = OpenOrders]
    /\ KillerKeeps /\ UNCHANGED allVars

\* mutant of KillCancel: an order is tried until it is gone
KillCancel_Forever(t, o) ==
    /\ Free(t) /\ kill[t].at = "cancel" /\ o \in kill[t].todo
    /\ IF Cancellable(o) THEN CancelLocally(t, o) \/ CancelSend(t, o) ELSE UNCHANGED engVars
    /\ KillerKeeps /\ UNCHANGED <<pmVars, kill>>

KillCancel(t, o) ==
    /\ Free(t) /\ kill[t].at = "cancel" /\ o \in kill[t].todo
    /\ kill' = [kill EXCEPT ![t].todo = @ \ {o}]
    /\ IF Cancellable(o) THEN CancelLocally(t, o) \/ CancelSend(t, o) ELSE UNCHANGED engVars
    /\ KillerKeeps /\ UNCHANGED pmVars

KillCancelled(t) ==
    /\ CancelReturn(t)
    /\ KillerKeeps /\ UNCHANGED <<pmVars, kill>>

\* mutant of KillDone: it stops after the first order
KillDone_First(t) ==
    /\ Free(t) /\ kill[t].at = "cancel" /\ kill[t].todo # kill[t].open_orders
    /\ kill' = [kill EXCEPT ![t].at = "done"]
    /\ KillerKeeps /\ UNCHANGED allVars

\* the alert is sent and trigger_kill_switch returns
KillDone(t) ==
    /\ Free(t) /\ kill[t].at = "cancel" /\ kill[t].todo = {}
    /\ kill' = [kill EXCEPT ![t].at = "done"]
    /\ KillerKeeps /\ UNCHANGED allVars

\* reset_kill_switch(bot_id) or reset_kill_switch()
ResetKill(scope) ==
    /\ killed # {}
    /\ killed' = IF scope = "global" THEN {} ELSE killed \ {"bot"}
    /\ UNCHANGED <<allVars, cur, alive, kill, kills>>

\* bot_manager.py stop_bot: the bot's task is cancelled wherever it is
\* suspended, then the loop of the risk controller, in the middle of a kill
\* switch or not; the engine stops last (EngStop)
Cancel(t) == IF At(t, "idle") /\ Idle(t) THEN UNCHANGED allVars
             ELSE IF At(t, "idle") THEN Abort(t) /\ UNCHANGED pmVars
             ELSE PmAbort(t)

StopBot ==
    /\ Bot \in alive
    /\ alive' = alive \ {Bot}
    /\ Cancel(Bot)
    /\ UNCHANGED <<cur, killed, kill, kills>>

StopRisk ==
    /\ RiskLoop \in alive \cap Killers /\ Bot \notin alive
    /\ alive' = alive \ {RiskLoop}
    /\ Cancel(RiskLoop)
    /\ kill' = [kill EXCEPT ![RiskLoop] = NoKill]
    /\ UNCHANGED <<cur, killed, kills>>

KillProgress(t) ==
    \/ \E p, o \in OrderIds : KillClose(t, p, o)
    \/ KillClosing(t) \/ KillOrders(t) \/ KillCancelled(t) \/ KillDone(t)
    \/ \E o \in OrderIds : KillCancel(t, o)

-----------------------------------------------------------------------------
Environment == EngineAlone /\ UNCHANGED <<pmVars, stackVars>>

Next ==
    \/ BotStep \/ StopBot \/ StopRisk \/ Environment
    \/ \E t \in Killers : KillProgress(t)
    \/ \E t \in Killers, scope \in {"global", "bot"} : KillStart(t, scope)
    \/ \E scope \in {"global", "bot"} : ResetKill(scope)

Spec == Init /\ [][Next]_vars

\* a killer's coroutine is scheduled, and its requests are answered somehow
Fairness ==
    \A t \in Killers :
        /\ WF_vars(KillProgress(t))
        /\ WF_vars(Serve(t) /\ UNCHANGED <<pmVars, stackVars>>)

FairSpec == Spec /\ Fairness

-----------------------------------------------------------------------------
(* Properties *)

\* With one bot entering, a symbol never has two open positions, and the one
\* it has is the one symbol_positions names: the test at the top of
\* open_position is made before an await, the entry after it.
OnePositionPerSymbol ==
    \A p \in OpenPositions : symPos[pos[p].sym] = p

\* The kill switch submits a closing order for every position it saw.
KillTriesEveryPosition ==
    \A t \in Killers : kill[t].at \in {"cancel", "done"} =>
        \A p \in kill[t].positions : \E c \in orders : closes[c] = p

\* When no request fails outright, no order the kill switch saw is live at the
\* exchange once it returns.
KillReachesEveryOrder ==
    "fail" \notin Faults =>
        \A t \in Killers : kill[t].at = "done" =>
            \A o \in kill[t].open_orders : order[o].xid => exch[o].st # "open"

\* trigger_kill_switch reaches what it saw, positions and orders alike.
KillReachesAll == KillTriesEveryPosition /\ KillReachesEveryOrder

\* While a kill switch is on, no order that opens a position leaves the bot.
NoEntryWhileKilled ==
    [][killed # {} => \A o \in OrderIds :
          (Fresh(o) /\ order'[o].st # "unborn") => closes'[o] # NULL]_vars

\* trigger_kill_switch comes to its end.
KillCompletes ==
    \A t \in Killers : kill[t].at \in {"close", "cancel"} ~> kill[t].at = "done"

\* risk_controller.py:287 and :298: all positions closed, all open orders
\* cancelled.  When the kill switch has run, every request was answered and
\* nothing was reset, nothing is left.
KillLeavesNothing ==
    \A t \in Killers : kill[t].at = "done" /\ killed # {} =>
        \A o \in OrderIds : exch[o].st # "open" /\ ~IsOpen(o)
=============================================================================
