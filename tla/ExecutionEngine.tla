-------------------------- MODULE ExecutionEngine --------------------------
(***************************************************************************)
(* occore/operations/execution_engine.py: the order store of one bot, the  *)
(* coroutines that place, cancel and look up orders, the monitoring loop,  *)
(* and the exchange they talk to through ccxt (external).                  *)
(*                                                                         *)
(* A coroutine runs without interruption between two awaits.  A network    *)
(* call is three steps: the request leaves, the exchange serves it (or     *)
(* fails, or serves it and loses the answer), the coroutine resumes with   *)
(* what it was told.  Anything may happen in between.                      *)
(***************************************************************************)
EXTENDS Naturals

CONSTANTS
    Tasks,      \* the asyncio tasks that may be inside an engine call
    Monitor,    \* the task of _monitor_orders, one of them
    OrderIds,   \* a bound on the orders ever created
    Amount,     \* the largest amount of an order
    DryRun,     \* dry_run: fills are simulated, the exchange is never called
    WithMonitor,\* FALSE: start() is never called, to keep a run small
    Faults,     \* what may go wrong in a run: see FaultKinds
    NULL

\* a request fails; it is served and its answer lost; the awaiting task is
\* cancelled; an order ends at the exchange in a status the engine has no name for
FaultKinds == {"fail", "lost", "abort", "expire"}

ASSUME EngAssumption ==
    /\ Faults \subseteq FaultKinds
    /\ Monitor \in Tasks
    /\ Amount \in Nat \ {0}
    /\ DryRun \in BOOLEAN /\ WithMonitor \in BOOLEAN
    /\ NULL \notin OrderIds

VARIABLES
    order,      \* the Order objects, "unborn" before they are constructed
    orders,     \* self.orders: the ids the engine can look up
    trades,     \* self.trades: the orders a simulated fill was recorded for
    exch,       \* what the exchange holds for each order
    call,       \* the await each task is suspended in
    scan,       \* what is left of the monitor's list of open orders
    running     \* self._running

engVars == <<order, orders, trades, exch, call, scan, running>>

-----------------------------------------------------------------------------
LocalStatus  == {"unborn", "PENDING", "OPEN", "FILLED", "CANCELLED", "REJECTED"}
OpenStatus   == {"PENDING", "OPEN"}
ExchStatus   == {"none", "open", "closed", "canceled", "expired"}

View      == [st : ExchStatus, filled : 0 .. Amount]
NoView    == [st |-> "none", filled |-> 0]
OrderType == [st : LocalStatus, xid : BOOLEAN, filled : 0 .. Amount,
              amt : 0 .. Amount]

Unborn == [st |-> "unborn", xid |-> FALSE, filled |-> 0, amt |-> 0]
NoCall == [op |-> "none", o |-> NULL, ans |-> "wait", seen |-> NoView]

CallType == {NoCall} \cup [op : {"create", "cancel", "fetch"}, o : OrderIds,
                           ans : {"wait", "ok", "err"}, seen : View]

Idle(t)          == call[t] = NoCall
Waiting(t, op)   == call[t].op = op /\ call[t].ans = "wait"
Answered(t, op)  == call[t].op = op /\ call[t].ans # "wait"
Fresh(o)         == order[o].st = "unborn"
Request(op, o)   == [op |-> op, o |-> o, ans |-> "wait", seen |-> NoView]

\* mutant of OpenOrders: an order the exchange has taken is not open
OpenOrders_PendingOnly == {o \in orders : order[o].st = "PENDING"}

\* get_open_orders
OpenOrders == {o \in orders : order[o].st \in OpenStatus}

EngTypeOK ==
    /\ order \in [OrderIds -> OrderType]
    /\ orders \subseteq OrderIds
    /\ trades \subseteq OrderIds
    /\ exch \in [OrderIds -> View]
    /\ call \in [Tasks -> CallType]
    /\ scan \subseteq OrderIds
    /\ running \in BOOLEAN

EngInit ==
    /\ order = [o \in OrderIds |-> Unborn]
    /\ orders = {}
    /\ trades = {}
    /\ exch = [o \in OrderIds |-> NoView]
    /\ call = [t \in Tasks |-> NoCall]
    /\ scan = {}
    /\ running = FALSE

-----------------------------------------------------------------------------
(* place_market_order, place_limit_order.  The order enters self.orders    *)
(* only when the exchange has answered.                                    *)

Construct(o, amt, st, filled) ==
    [order EXCEPT ![o] = [st |-> st, xid |-> FALSE, filled |-> filled, amt |-> amt]]

\* buy or sell is the caller's affair: nothing below depends on it.
\* Real trading: _place_real_order sends the request and waits
PlaceSend(t, o, amt) ==
    /\ ~DryRun /\ Idle(t) /\ Fresh(o)
    /\ order' = Construct(o, amt, "PENDING", 0)
    /\ call' = [call EXCEPT ![t] = Request("create", o)]
    /\ UNCHANGED <<orders, trades, exch, scan, running>>

\* dry run: the mock ticker answers at once, so the call never suspends;
\* _simulate_fill fills a market order, a limit order just rests
PlaceDry(t, o, amt, market) ==
    /\ DryRun /\ Idle(t) /\ Fresh(o)
    /\ order' = IF market THEN Construct(o, amt, "FILLED", amt)
                          ELSE Construct(o, amt, "OPEN", 0)
    /\ orders' = orders \cup {o}
    /\ trades' = IF market THEN trades \cup {o} ELSE trades
    /\ UNCHANGED <<exch, call, scan, running>>

Place(t, o, amt, market) ==
    IF DryRun THEN PlaceDry(t, o, amt, market) ELSE PlaceSend(t, o, amt)

\* A request that is possible is served and answered, or fails, or is served
\* and its answer lost; one that is not possible is refused.
MayHappen(served, ans, possible) ==
    /\ served => possible
    /\ ans = "ok" => served
    /\ served /\ ans = "err" => "lost" \in Faults
    /\ ~served /\ possible => "fail" \in Faults

\* the exchange takes no order for nothing
ServeCreate(t) ==
    /\ Waiting(t, "create")
    /\ \E accept \in BOOLEAN, ans \in {"ok", "err"} :
        /\ MayHappen(accept, ans, order[call[t].o].amt > 0)
        /\ exch' = IF accept THEN [exch EXCEPT ![call[t].o].st = "open"] ELSE exch
        /\ call' = [call EXCEPT ![t].ans = ans]
    /\ UNCHANGED <<order, orders, trades, scan, running>>

\* the coroutine resumes: OPEN with the exchange's id, or REJECTED, then stored
PlaceReturn(t) ==
    /\ Answered(t, "create")
    /\ LET o == call[t].o IN
        /\ order' = IF call[t].ans = "ok"
                      THEN [order EXCEPT ![o].st = "OPEN", ![o].xid = TRUE]
                      ELSE [order EXCEPT ![o].st = "REJECTED"]
        /\ orders' = orders \cup {o}
    /\ call' = [call EXCEPT ![t] = NoCall]
    /\ UNCHANGED <<trades, exch, scan, running>>

-----------------------------------------------------------------------------
(* cancel_order *)

\* mutant of Cancellable: a filled order is not refused
Cancellable_Filled(o) == o \in orders

Cancellable(o) == o \in orders /\ order[o].st \notin {"FILLED", "CANCELLED"}

\* mutant of CancelLocally: the exchange is never asked
CancelLocally_Always(t, o) ==
    /\ Idle(t) /\ Cancellable(o)
    /\ order' = [order EXCEPT ![o].st = "CANCELLED"]
    /\ UNCHANGED <<orders, trades, exch, call, scan, running>>

\* no request is sent for a simulated order or one without an exchange id
CancelLocally(t, o) ==
    /\ Idle(t) /\ Cancellable(o)
    /\ DryRun \/ ~order[o].xid
    /\ order' = [order EXCEPT ![o].st = "CANCELLED"]
    /\ UNCHANGED <<orders, trades, exch, call, scan, running>>

CancelSend(t, o) ==
    /\ Idle(t) /\ Cancellable(o)
    /\ ~DryRun /\ order[o].xid
    /\ call' = [call EXCEPT ![t] = Request("cancel", o)]
    /\ UNCHANGED <<order, orders, trades, exch, scan, running>>

\* only an open order can be cancelled; the answer to a success may be lost
ServeCancel(t) ==
    /\ Waiting(t, "cancel")
    /\ \E done \in BOOLEAN, ans \in {"ok", "err"} :
        /\ MayHappen(done, ans, exch[call[t].o].st = "open")
        /\ exch' = IF done THEN [exch EXCEPT ![call[t].o].st = "canceled"] ELSE exch
        /\ call' = [call EXCEPT ![t].ans = ans]
    /\ UNCHANGED <<order, orders, trades, scan, running>>

\* mutant of CancelReturn: a failed request is taken for a success
CancelReturn_Assumed(t) ==
    /\ Answered(t, "cancel")
    /\ order' = [order EXCEPT ![call[t].o].st = "CANCELLED"]
    /\ call' = [call EXCEPT ![t] = NoCall]
    /\ UNCHANGED <<orders, trades, exch, scan, running>>

CancelReturn(t) ==
    /\ Answered(t, "cancel")
    /\ order' = IF call[t].ans = "ok"
                  THEN [order EXCEPT ![call[t].o].st = "CANCELLED"] ELSE order
    /\ call' = [call EXCEPT ![t] = NoCall]
    /\ UNCHANGED <<orders, trades, exch, scan, running>>

-----------------------------------------------------------------------------
(* get_order_status.  An order the exchange does not know is returned as   *)
(* it is; the others are refreshed from what the exchange reports.         *)

NeedsFetch(o) == o \in orders /\ ~DryRun /\ order[o].xid

FetchSend(t, o) ==
    /\ Idle(t) /\ NeedsFetch(o)
    /\ call' = [call EXCEPT ![t] = Request("fetch", o)]
    /\ UNCHANGED <<order, orders, trades, exch, scan, running>>

ServeFetch(t) ==
    /\ Waiting(t, "fetch")
    /\ \E ans \in {"ok", "err"} :
        /\ ans = "err" => "fail" \in Faults
        /\ call' = [call EXCEPT ![t].ans = ans,
                                ![t].seen = IF ans = "ok" THEN exch[call[t].o] ELSE NoView]
    /\ UNCHANGED <<order, orders, trades, exch, scan, running>>

\* the exchange does answer a look-up of o
AnswerFetch(t, o) == call[t].o = o /\ ServeFetch(t) /\ call'[t].ans = "ok"

\* mutant of StatusMap: an unknown status is passed through
StatusMap_Raw(s) ==
    CASE s = "open"     -> "OPEN"
      [] s = "closed"   -> "FILLED"
      [] s = "canceled" -> "CANCELLED"
      [] OTHER          -> s

\* status_map: a status it does not list becomes PENDING
StatusMap(s) ==
    CASE s = "open"     -> "OPEN"
      [] s = "closed"   -> "FILLED"
      [] s = "canceled" -> "CANCELLED"
      [] OTHER          -> "PENDING"

\* _update_order_from_exchange: status and amount are overwritten, whatever
\* the engine knew already
UpdateFromExchange(o, seen) ==
    [order EXCEPT ![o].st = StatusMap(seen.st), ![o].filled = seen.filled]

\* mutant of FetchReturn: an empty answer is written too
FetchReturn_Blind(t) ==
    /\ Answered(t, "fetch")
    /\ order' = UpdateFromExchange(call[t].o, call[t].seen)
    /\ call' = [call EXCEPT ![t] = NoCall]
    /\ UNCHANGED <<orders, trades, exch, scan, running>>

FetchReturn(t) ==
    /\ Answered(t, "fetch")
    /\ order' = IF call[t].ans = "ok" THEN UpdateFromExchange(call[t].o, call[t].seen)
                                      ELSE order
    /\ call' = [call EXCEPT ![t] = NoCall]
    /\ UNCHANGED <<orders, trades, exch, scan, running>>

-----------------------------------------------------------------------------
(* A task is cancelled while it awaits the exchange: CancelledError passes *)
(* every `except Exception` of the engine.  A request that is already out  *)
(* may still be served; nobody hears the answer.                           *)

AbortEffect(c) ==
    \/ exch' = exch
    \/ /\ c.op = "create" /\ c.ans = "wait" /\ order[c.o].amt > 0
       /\ exch' = [exch EXCEPT ![c.o].st = "open"]
    \/ /\ c.op = "cancel" /\ c.ans = "wait" /\ exch[c.o].st = "open"
       /\ exch' = [exch EXCEPT ![c.o].st = "canceled"]

Abort(t) ==
    /\ "abort" \in Faults /\ ~Idle(t)
    /\ AbortEffect(call[t])
    /\ call' = [call EXCEPT ![t] = NoCall]
    /\ UNCHANGED <<order, orders, trades, scan, running>>

-----------------------------------------------------------------------------
(* start, stop and the loop of _monitor_orders *)

EngStart ==
    /\ WithMonitor /\ ~running
    /\ running' = TRUE
    /\ UNCHANGED <<order, orders, trades, exch, call, scan>>

EngStop ==
    /\ running
    /\ running' = FALSE
    /\ scan' = {}
    /\ AbortEffect(call[Monitor])
    /\ call' = [call EXCEPT ![Monitor] = NoCall]
    /\ UNCHANGED <<order, orders, trades>>

MonitorList ==
    /\ running /\ Idle(Monitor) /\ scan = {}
    /\ scan' = OpenOrders
    /\ UNCHANGED <<order, orders, trades, exch, call, running>>

\* the list is a snapshot: an order of it is looked up whatever became of it
MonitorNext ==
    /\ running /\ Idle(Monitor)
    /\ \E o \in scan :
        /\ scan' = scan \ {o}
        /\ call' = IF NeedsFetch(o)
                     THEN [call EXCEPT ![Monitor] = Request("fetch", o)] ELSE call
    /\ UNCHANGED <<order, orders, trades, exch, running>>

MonitorReturn == FetchReturn(Monitor)

-----------------------------------------------------------------------------
(* The exchange works on its own. *)

ExchangeFill(o) ==
    /\ exch[o].st = "open"
    /\ exch[o].filled < order[o].amt
    /\ exch' = [exch EXCEPT ![o].filled = @ + 1,
                            ![o].st = IF exch[o].filled + 1 = order[o].amt
                                        THEN "closed" ELSE "open"]
    /\ UNCHANGED <<order, orders, trades, call, scan, running>>

ExchangeExpire(o) ==
    /\ "expire" \in Faults /\ exch[o].st = "open"
    /\ exch' = [exch EXCEPT ![o].st = "expired"]
    /\ UNCHANGED <<order, orders, trades, call, scan, running>>

Serve(t) == ServeCreate(t) \/ ServeCancel(t) \/ ServeFetch(t)

Exchange ==
    \/ \E t \in Tasks : Serve(t)
    \/ \E o \in OrderIds : ExchangeFill(o) \/ ExchangeExpire(o)

MonitorStep == MonitorList \/ MonitorNext \/ MonitorReturn

-----------------------------------------------------------------------------
(* The engine on its own: every other task calls what it likes. *)

Clients == Tasks \ {Monitor}

ClientStep(t) ==
    \/ \E o \in OrderIds, amt \in 0 .. Amount, market \in BOOLEAN : Place(t, o, amt, market)
    \/ \E o \in OrderIds : CancelLocally(t, o) \/ CancelSend(t, o) \/ FetchSend(t, o)
    \/ PlaceReturn(t) \/ CancelReturn(t) \/ FetchReturn(t) \/ Abort(t)

EngNext ==
    \/ EngStart \/ EngStop \/ MonitorStep \/ Exchange
    \/ \E t \in Clients : ClientStep(t)

EngSpec == EngInit /\ [][EngNext]_engVars

\* the loop of the monitor is scheduled, and the exchange does not fail every
\* look-up of it for ever
EngFairness ==
    /\ WF_engVars(MonitorStep)
    /\ WF_engVars(ServeFetch(Monitor))
    /\ \A o \in OrderIds : SF_engVars(AnswerFetch(Monitor, o))

EngFairSpec == EngSpec /\ EngFairness

-----------------------------------------------------------------------------
(* Properties *)

\* What the engine takes for final is final: an order with an exchange id
\* that it calls FILLED or CANCELLED is closed, or canceled, at the exchange,
\* and it never believes in more filled amount than there is.  A look-up that
\* comes back late and a cancellation that failed must not break it.
SettledIsTrue ==
    \A o \in OrderIds : order[o].xid =>
        /\ order[o].st = "FILLED" => exch[o].st = "closed" /\ exch[o].filled = order[o].amt
        /\ order[o].st = "CANCELLED" => exch[o].st = "canceled"
        /\ order[o].filled <= exch[o].filled

\* No live order with a known id is hidden from get_open_orders: the kill
\* switch, which cancels what get_open_orders lists, would never see it.
LiveIsListed ==
    \A o \in orders : order[o].xid /\ exch[o].st = "open" => o \in OpenOrders

\* The trade history and the order store agree: a simulated order that is
\* FILLED has its trade, which get_statistics counts, and stays FILLED when
\* somebody cancels it; real trading records no trade.
TradesMatchFills == trades = {o \in orders : order[o].st = "FILLED" /\ ~order[o].xid}

\* In real trading the engine implements OrderView: see there.  The unborn
\* order maps to "none".
Promise == INSTANCE OrderView WITH
    Orders <- OrderIds,
    truth  <- [o \in OrderIds |-> exch[o].st],
    view   <- [o \in OrderIds |-> IF Fresh(o) THEN "none" ELSE order[o].st]

ViewIsPromised == Promise!ViewSpec

\* While the monitor runs, a fill at the exchange is noticed, unless the order
\* had already been taken for filled.
FillIsNoticed ==
    \A o \in OrderIds :
        (o \in orders /\ order[o].xid /\ exch[o].st = "closed")
            ~> (order[o].st = "FILLED" \/ ~running)
=============================================================================
