------------------------ MODULE TradingStack_proofs ------------------------
(***************************************************************************)
(* Theorems about TradingStack for any killers, symbols, orders and        *)
(* faults: the invariants of the engine and of the book hold below bot and *)
(* kill switch too, a symbol has one position, and the kill switch reaches *)
(* what it saw.                                                            *)
(***************************************************************************)
EXTENDS TradingStack, Orders_proofs

-----------------------------------------------------------------------------
(* The layers below *)

\* The bot uses the position manager as any caller may.
LEMMA BotBelow ==
    ASSUME TypeOK, BotStep
    PROVE  /\ PmOpen(Bot) \/ PmClose(Bot) \/ UNCHANGED allVars
           /\ UNCHANGED <<alive, killed, kill, kills>>
<1> DEFINE Goal == PmOpen(Bot) \/ PmClose(Bot) \/ UNCHANGED allVars
<1>1. UNCHANGED <<alive, killed, kill, kills>>
  BY DEF BotStep, BotFindsPosition, BotEnters, BotOpens, BotForgets, BotCloses, BotLeaves, BotKeeps
<1> SUFFICES Goal
  BY <1>1
<1>2. ASSUME NEW s \in Symbols, NEW o \in OrderIds, BotFindsPosition(s) \/ BotEnters(s, o)
      PROVE  Goal
  <2>1. OpenCall(Bot, s, Amount, o) \/ OpenDry(Bot, s, Amount, o, TRUE) => PmOpen(Bot)
    BY DEF PmOpen
  <2> QED
    BY <1>2, <2>1 DEF BotFindsPosition, BotEnters
<1>3. CASE BotOpens
  BY <1>3 DEF BotOpens, PmOpen
<1>4. CASE BotForgets
  BY <1>4 DEF BotForgets
<1>5. CASE BotCloses
  BY <1>5 DEF BotCloses, PmClose
<1>6. ASSUME NEW o \in OrderIds, BotLeaves(o) PROVE Goal
  <2>1. cur \in OrderIds
    BY <1>6 DEF BotLeaves, TypeOK
  <2>2. CloseCall(Bot, cur, o) \/ CloseDry(Bot, cur, o, TRUE) => PmClose(Bot)
    BY <2>1 DEF PmClose
  <2> QED
    BY <1>6, <2>2 DEF BotLeaves
<1> HIDE DEF Goal
<1> QED
  BY <1>2, <1>3, <1>4, <1>5, <1>6 DEF BotStep

\* So does the kill switch; that it takes the answer to a cancellation is a step
\* of the engine alone.
LEMMA KillBelow ==
    ASSUME TypeOK, NEW t \in Killers, KillProgress(t)
    PROVE  /\ PmClose(t) \/ UNCHANGED allVars \/ (ClientStep(t) /\ UNCHANGED pmVars)
           /\ UNCHANGED <<cur, alive, killed, kills>>
           /\ \A u \in Killers \ {t} : kill'[u] = kill[u]
<1> DEFINE Goal == PmClose(t) \/ UNCHANGED allVars \/ (ClientStep(t) /\ UNCHANGED pmVars)
<1>1. UNCHANGED <<cur, alive, killed, kills>>
  BY DEF KillProgress, KillClose, KillClosing, KillOrders, KillCancelled, KillDone, KillCancel,
         KillerKeeps
<1>2. \A u \in Killers \ {t} : kill'[u] = kill[u]
  BY DEF KillProgress, KillClose, KillClosing, KillOrders, KillCancelled, KillDone, KillCancel,
         TypeOK
<1> SUFFICES Goal
  BY <1>1, <1>2
<1>3. ASSUME NEW p \in OrderIds, NEW o \in OrderIds, KillClose(t, p, o) PROVE Goal
  <2>1. CloseCall(t, p, o) \/ CloseDry(t, p, o, TRUE) => PmClose(t)
    BY DEF PmClose
  <2> QED
    BY <1>3, <2>1 DEF KillClose
<1>4. CASE KillClosing(t)
  BY <1>4 DEF KillClosing, PmClose
<1>5. CASE KillOrders(t) \/ KillDone(t)
  BY <1>5 DEF KillOrders, KillDone
<1>6. CASE KillCancelled(t)
  BY <1>6 DEF KillCancelled, ClientStep
<1>7. ASSUME NEW o \in OrderIds, KillCancel(t, o) PROVE Goal
  BY <1>7 DEF KillCancel, ClientStep, allVars
<1> HIDE DEF Goal
<1> QED
  BY <1>3, <1>4, <1>5, <1>6, <1>7 DEF KillProgress

\* A killer that is cancelled while it waits for the answer to a cancellation
\* makes a step of the engine alone, too.
LEMMA StackBelow ==
    ASSUME TypeOK, [Next]_vars
    PROVE  \/ [PmNext]_allVars
           \/ [EngNext]_engVars /\ UNCHANGED pmVars
<1> USE StackAssumption
<1> DEFINE Goal == [PmNext]_allVars \/ ([EngNext]_engVars /\ UNCHANGED pmVars)
<1> SUFFICES Goal
  OBVIOUS
<1>1. ASSUME NEW t \in Clients, PmOpen(t) \/ PmClose(t) \/ PmAbort(t) PROVE Goal
  BY <1>1 DEF PmNext
<1>2. ASSUME NEW t \in Clients, ClientStep(t), UNCHANGED pmVars PROVE Goal
  BY <1>2 DEF EngNext
<1>3. ASSUME UNCHANGED allVars PROVE Goal
  BY <1>3
<1>4. ASSUME NEW t \in Clients, Cancel(t) PROVE Goal
  BY <1>1, <1>2, <1>3, <1>4 DEF Cancel, ClientStep
<1>5. Bot \in Clients /\ \A t \in Killers : t \in Clients
  OBVIOUS
<1> HIDE DEF Goal
<1>6. CASE BotStep
  BY <1>1, <1>3, <1>5, <1>6, BotBelow
<1>7. ASSUME NEW t \in Killers, KillProgress(t) PROVE Goal
  BY <1>1, <1>2, <1>3, <1>5, <1>7, KillBelow
<1>8. CASE StopBot \/ StopRisk
  BY <1>4, <1>5, <1>8 DEF StopBot, StopRisk
<1>9. CASE Environment
  BY <1>9 DEF Environment, PmNext, Goal
<1>10. ASSUME NEW scope, ResetKill(scope) \/ \E t \in Killers : KillStart(t, scope) PROVE Goal
  BY <1>3, <1>10 DEF ResetKill, KillStart
<1>11. CASE UNCHANGED vars
  BY <1>3, <1>11 DEF vars
<1> QED
  BY <1>6, <1>7, <1>8, <1>9, <1>10, <1>11 DEF Next

LEMMA BelowStep ==
    ASSUME PmIInv, TypeOK, [Next]_vars
    PROVE  EngIInv /\ EngIInv' /\ [EngNext]_engVars /\ EngKept /\ PmIInv'
<1>1. [EngNext]_engVars
  BY StackBelow, PmEngineStep DEF TypeOK
<1>2. EngIInv /\ EngIInv'
  BY <1>1, SoundStep DEF PmIInv, PmTypeOK, EngIInv
<1>3. FilledSound' /\ EngKept
  BY <1>1, <1>2, EngKeeps DEF PmIInv, PmSound
<1>4. PmIInv'
  <2>1. CASE [PmNext]_allVars
    BY <2>1, PmStep
  <2>2. CASE UNCHANGED pmVars
    <3>1. PmRest'
      BY <1>2, <1>3, <2>2, RestKept DEF Below
    <3> QED
      BY <1>2, <1>3, <3>1 DEF PmRest, PmTypes, PmIInv, PmTypeOK, PmSound, EngIInv
  <2> QED
    BY <2>1, <2>2, StackBelow
<1> QED
  BY <1>1, <1>2, <1>3, <1>4

-----------------------------------------------------------------------------
(* Type correctness *)

LEMMA StackTypeStep ==
    ASSUME TypeOK, PmTypeOK', [Next]_vars
    PROVE  TypeOK'
<1> USE StackAssumption, EngAssumption
<1>0. /\ cur \in OrderIds \cup {NULL} /\ alive \subseteq {Bot, RiskLoop}
      /\ killed \subseteq {"global", "bot"} /\ kill \in [Killers -> KillType]
      /\ kills \in 0 .. MaxKills
      /\ symPos \in [Symbols -> OrderIds \cup {NULL}]
  BY DEF TypeOK, PmTypeOK
<1>1. ASSUME cur' \in OrderIds \cup {NULL}, alive' \subseteq {Bot, RiskLoop},
             killed' \subseteq {"global", "bot"}, kill' \in [Killers -> KillType],
             kills' \in 0 .. MaxKills
      PROVE  TypeOK'
  BY <1>1 DEF TypeOK
<1>2. CASE BotStep
  <2>1. cur' \in OrderIds \cup {NULL} /\ UNCHANGED <<alive, killed, kill, kills>>
    <3>1. ASSUME NEW s \in Symbols, NEW o \in OrderIds, BotFindsPosition(s) \/ BotEnters(s, o)
          PROVE  cur' \in OrderIds \cup {NULL} /\ UNCHANGED <<alive, killed, kill, kills>>
      BY <1>0, <3>1 DEF BotFindsPosition, BotEnters, BotSees, BotKeeps
    <3>2. CASE BotOpens
      <4>1. ASSUME co[Bot].o \in OrderIds \cup {NULL} PROVE cur' \in OrderIds \cup {NULL}
        BY <1>0, <3>2, <4>1 DEF BotOpens, BotSees
      <4>2. co[Bot].o \in OrderIds \cup {NULL}
        BY DEF TypeOK, PmTypeOK, CoType, Clients
      <4> QED
        BY <3>2, <4>1, <4>2 DEF BotOpens, BotKeeps
    <3>3. CASE BotForgets \/ BotCloses
      BY <1>0, <3>3 DEF BotForgets, BotCloses, BotKeeps
    <3>4. ASSUME NEW o \in OrderIds, BotLeaves(o)
          PROVE  cur' \in OrderIds \cup {NULL} /\ UNCHANGED <<alive, killed, kill, kills>>
      BY <1>0, <3>4 DEF BotLeaves, BotKeeps
    <3> QED
      BY <1>2, <3>1, <3>2, <3>3, <3>4 DEF BotStep
  <2> QED
    BY <1>0, <1>1, <2>1
<1>3. OpenPositions \subseteq OrderIds /\ OpenOrders \subseteq OrderIds
  BY DEF OpenPositions, OpenOrders, TypeOK, PmTypeOK, EngTypeOK
<1>4. ASSUME NEW t \in Killers, KillProgress(t) PROVE TypeOK'
  <2>1. kill' \in [Killers -> KillType] /\ UNCHANGED <<cur, alive, killed, kills>>
    <3>1. ASSUME NEW p \in OrderIds, NEW o \in OrderIds, KillClose(t, p, o)
          PROVE  kill' \in [Killers -> KillType] /\ UNCHANGED <<cur, alive, killed, kills>>
      BY <1>0, <3>1 DEF KillClose, KillerKeeps, KillType
    <3>2. CASE KillClosing(t) \/ KillCancelled(t)
      BY <1>0, <3>2 DEF KillClosing, KillCancelled, KillerKeeps
    <3>3. CASE KillOrders(t) \/ KillDone(t)
      BY <1>0, <1>3, <3>3 DEF KillOrders, KillDone, KillerKeeps, KillType
    <3>4. ASSUME NEW o \in OrderIds, KillCancel(t, o)
          PROVE  kill' \in [Killers -> KillType] /\ UNCHANGED <<cur, alive, killed, kills>>
      BY <1>0, <3>4 DEF KillCancel, KillerKeeps, KillType
    <3> QED
      BY <1>4, <3>1, <3>2, <3>3, <3>4 DEF KillProgress
  <2> QED
    BY <1>0, <1>1, <2>1
<1>5. ASSUME NEW t \in Killers, NEW scope \in {"global", "bot"}, KillStart(t, scope) PROVE TypeOK'
  <2>1. kill' \in [Killers -> KillType]
    BY <1>0, <1>3, <1>5 DEF KillStart, KillType
  <2>2. kills' \in 0 .. MaxKills
    BY <1>0, <1>5 DEF KillStart
  <2> QED
    BY <1>0, <1>1, <1>5, <2>1, <2>2 DEF KillStart
<1>6. ASSUME NEW scope \in {"global", "bot"}, ResetKill(scope) PROVE TypeOK'
  BY <1>0, <1>1, <1>6 DEF ResetKill
<1>7. CASE StopBot \/ StopRisk
  <2>1. kill' \in [Killers -> KillType] /\ UNCHANGED <<cur, killed, kills>>
    BY <1>0, <1>7 DEF StopBot, StopRisk, NoKill, KillType
  <2>2. alive' \subseteq {Bot, RiskLoop}
    BY <1>0, <1>7 DEF StopBot, StopRisk
  <2> QED
    BY <1>0, <1>1, <2>1, <2>2
<1>8. CASE Environment \/ UNCHANGED vars
  BY <1>0, <1>1, <1>8 DEF Environment, vars, stackVars
<1> QED
  BY <1>2, <1>4, <1>5, <1>6, <1>7, <1>8 DEF Next

LEMMA StackInit == Init => TypeOK /\ PmIInv
<1> SUFFICES ASSUME Init PROVE TypeOK /\ PmIInv
  OBVIOUS
<1>1. PmIInv
  BY PmInitSound DEF Init
<1>2. TypeOK
  BY <1>1, StackAssumption DEF Init, TypeOK, PmIInv, NoKill, KillType
<1> QED
  BY <1>1, <1>2

LEMMA StackPm == Spec => [](TypeOK /\ PmIInv)
<1>1. TypeOK /\ PmIInv /\ [Next]_vars => (TypeOK /\ PmIInv)'
  BY BelowStep, StackTypeStep DEF PmIInv
<1> QED
  BY <1>1, StackInit, PTL DEF Spec

-----------------------------------------------------------------------------
(* What every step of the engine leaves alone, once more: an order that can be *)
(* looked up stays so, gets no exchange id later and is not opened again.      *)

OrdersKept ==
    /\ orders \subseteq orders'
    /\ \A o \in orders : /\ order'[o].xid => order[o].xid
                         /\ exch'[o].st = "open" => exch[o].st = "open"

LEMMA EngOrders ==
    ASSUME EngIInv, [EngNext]_engVars
    PROVE  OrdersKept
<1> USE EngAssumption
<1>0. /\ order \in [OrderIds -> OrderType] /\ exch \in [OrderIds -> View]
      /\ call \in [Tasks -> CallType] /\ orders \subseteq OrderIds
  BY DEF EngIInv, EngTypeOK
<1>1. ASSUME NEW t \in Tasks, call[t].op = "create"
      PROVE  call[t].o \in OrderIds /\ call[t].o \notin orders
  BY <1>0, <1>1 DEF EngIInv, Sound, CallsSound, CallType, NoCall
<1>2. ASSUME UNCHANGED orders,
             \A o \in orders : order'[o].xid = order[o].xid,
             \A o \in orders : exch'[o].st = "open" => exch[o].st = "open"
      PROVE  OrdersKept
  BY <1>2 DEF OrdersKept
<1>3. ASSUME NEW t \in Tasks, NEW o \in OrderIds, NEW amt \in 0 .. Amount, NEW market \in BOOLEAN,
             Place(t, o, amt, market)
      PROVE  OrdersKept
  <2>1. o \notin orders
    BY <1>3 DEF Place, PlaceSend, PlaceDry, EngIInv, Sound, OrdersExist
  <2> QED
    BY <1>0, <1>3, <2>1 DEF Place, PlaceSend, PlaceDry, Construct, OrdersKept
<1>4. ASSUME NEW t \in Tasks, PlaceReturn(t) PROVE OrdersKept
  <2>1. call[t].o \in OrderIds /\ call[t].o \notin orders
    BY <1>1, <1>4 DEF PlaceReturn, Answered
  <2> QED
    BY <1>0, <1>4, <2>1 DEF PlaceReturn, OrdersKept
<1>5. ASSUME NEW t \in Tasks, NEW o \in OrderIds, CancelLocally(t, o) PROVE OrdersKept
  BY <1>0, <1>5 DEF CancelLocally, OrdersKept, OrderType
<1>6. ASSUME NEW t \in Tasks, CancelReturn(t) \/ FetchReturn(t) PROVE OrdersKept
  <2>1. call[t].o \in OrderIds
    BY <1>0, <1>6 DEF CancelReturn, FetchReturn, Answered, CallType, NoCall
  <2>2. CASE CancelReturn(t)
    BY <1>0, <1>2, <2>1, <2>2 DEF CancelReturn, OrderType
  <2>3. CASE FetchReturn(t)
    BY <1>0, <1>2, <2>1, <2>3 DEF FetchReturn, UpdateFromExchange, OrderType
  <2> QED
    BY <1>6, <2>2, <2>3
<1>7. ASSUME NEW t \in Tasks, Serve(t) PROVE OrdersKept
  <2>1. UNCHANGED <<order, orders>>
    BY <1>7 DEF Serve, ServeCreate, ServeCancel, ServeFetch
  <2>2. \A o \in orders : exch'[o].st = "open" => exch[o].st = "open"
    <3>1. CASE ServeCreate(t)
      <4>1. call[t].o \in OrderIds /\ call[t].o \notin orders
        BY <1>1, <3>1 DEF ServeCreate, Waiting
      <4> QED
        BY <1>0, <3>1, <4>1 DEF ServeCreate
    <3>2. CASE ServeCancel(t)
      BY <1>0, <3>2 DEF ServeCancel, View
    <3>3. CASE ServeFetch(t)
      BY <3>3 DEF ServeFetch
    <3> QED
      BY <1>7, <3>1, <3>2, <3>3 DEF Serve
  <2> QED
    BY <1>2, <2>1, <2>2
<1>8. ASSUME NEW o \in OrderIds, ExchangeFill(o) \/ ExchangeExpire(o) PROVE OrdersKept
  BY <1>0, <1>2, <1>8 DEF ExchangeFill, ExchangeExpire, View
<1>9. ASSUME NEW t \in Tasks, AbortEffect(call[t]), UNCHANGED <<order, orders>>
      PROVE  OrdersKept
  <2>1. \A o \in orders : exch'[o].st = "open" => exch[o].st = "open"
    BY <1>0, <1>1, <1>9 DEF AbortEffect, View
  <2> QED
    BY <1>2, <1>9, <2>1
<1>10. CASE EngStop
  BY <1>9, <1>10 DEF EngStop
<1>11. ASSUME NEW t \in Tasks, Abort(t) PROVE OrdersKept
  BY <1>9, <1>11 DEF Abort
<1>12. CASE EngStart \/ MonitorList \/ MonitorNext \/ UNCHANGED engVars
  BY <1>2, <1>12 DEF EngStart, MonitorList, MonitorNext, engVars
<1>13. ASSUME NEW t \in Tasks, NEW o \in OrderIds, CancelSend(t, o) \/ FetchSend(t, o)
       PROVE  OrdersKept
  BY <1>2, <1>13 DEF CancelSend, FetchSend
<1> QED
  BY <1>3, <1>4, <1>5, <1>6, <1>7, <1>8, <1>10, <1>11, <1>12, <1>13
  DEF EngNext, ClientStep, Clients, MonitorStep, MonitorReturn, Exchange

-----------------------------------------------------------------------------
(* Orders are born by open_position and close_position alone. *)

NothingBorn == \A o \in OrderIds : Fresh(o) => order'[o].st = "unborn"

LEMMA AnswersBearNothing ==
    ASSUME EngIInv, NEW t \in Tasks,
           \/ UNCHANGED order
           \/ PlaceReturn(t) \/ CancelReturn(t) \/ FetchReturn(t)
           \/ \E o \in OrderIds : CancelLocally(t, o)
    PROVE  NothingBorn
<1>0. order \in [OrderIds -> OrderType] /\ call \in [Tasks -> CallType]
  BY DEF EngIInv, EngTypeOK
<1>1. CASE UNCHANGED order
  BY <1>1 DEF NothingBorn, Fresh
<1>2. CASE PlaceReturn(t) \/ CancelReturn(t) \/ FetchReturn(t)
  <2>1. call[t].o \in OrderIds /\ ~Fresh(call[t].o)
    BY <1>0, <1>2 DEF PlaceReturn, CancelReturn, FetchReturn, Answered, EngIInv, Sound, CallsSound,
                      IdsSound, Fresh, CallType, NoCall
  <2>2. \A o \in OrderIds \ {call[t].o} : order'[o] = order[o]
    BY <1>0, <1>2, <2>1 DEF PlaceReturn, CancelReturn, FetchReturn, UpdateFromExchange
  <2> QED
    BY <2>1, <2>2 DEF NothingBorn, Fresh
<1>3. ASSUME NEW o \in OrderIds, CancelLocally(t, o) PROVE NothingBorn
  <2>1. ~Fresh(o)
    BY <1>3 DEF CancelLocally, Cancellable, EngIInv, Sound, OrdersExist
  <2> QED
    BY <1>0, <1>3, <2>1 DEF CancelLocally, NothingBorn, Fresh
<1> QED
  BY <1>1, <1>2, <1>3

LEMMA AloneBearsNothing ==
    ASSUME EngIInv, EngineAlone
    PROVE  NothingBorn
<1>1. \/ UNCHANGED order
      \/ FetchReturn(Monitor)
  BY DEF EngineAlone, EngStart, EngStop, MonitorStep, MonitorList, MonitorNext, MonitorReturn,
         Exchange, Serve, ServeCreate, ServeCancel, ServeFetch, ExchangeFill, ExchangeExpire
<1> QED
  BY <1>1, EngAssumption, AnswersBearNothing

BornToClose ==
    \A o \in OrderIds : (Fresh(o) /\ order'[o].st # "unborn") => closes'[o] # NULL

LEMMA ClosingBears ==
    ASSUME EngTypeOK, closes \in [OrderIds -> OrderIds \cup {NULL}],
           NEW t \in Tasks, NEW p \in OrderIds, NEW o \in OrderIds,
           CloseCall(t, p, o) \/ CloseDry(t, p, o, TRUE)
    PROVE  BornToClose
<1>1. closes'[o] = p /\ p # NULL
  BY EngAssumption DEF CloseCall, CloseDry
<1>2. \A q \in OrderIds \ {o} : order'[q] = order[q]
  BY DEF CloseCall, CloseDry, PlaceSend, PlaceDry, Construct, EngTypeOK
<1> QED
  BY <1>1, <1>2 DEF BornToClose, Fresh

\* While a kill switch is on, no order that opens a position leaves the bot: the
\* bot that asks check_order_risk asks in the very step in which its order
\* leaves, however many kill switches are triggered and reset around it.
THEOREM StackNoEntry ==
    ASSUME Gated, LimitEnabled
    PROVE  Spec => NoEntryWhileKilled
<1> USE StackAssumption, EngAssumption
<1>1. ASSUME TypeOK, PmIInv, Next, killed # {} PROVE BornToClose
  <2>0. /\ EngIInv /\ EngTypeOK /\ closes \in [OrderIds -> OrderIds \cup {NULL}]
        /\ cur \in OrderIds \cup {NULL}
    BY <1>1 DEF TypeOK, PmIInv, PmTypeOK, EngIInv
  <2>1. ASSUME NothingBorn \/ UNCHANGED order PROVE BornToClose
    BY <2>1 DEF NothingBorn, BornToClose, Fresh
  <2>2. ASSUME NEW t \in Tasks, \/ PlaceReturn(t) \/ CancelReturn(t) \/ FetchReturn(t)
                                \/ \E o \in OrderIds : CancelLocally(t, o)
        PROVE  BornToClose
    BY <2>0, <2>1, <2>2, AnswersBearNothing
  <2>3. Bot \in Tasks /\ \A t \in Killers : t \in Tasks
    BY DEF Clients
  <2>4. ASSUME NEW s \in Symbols, NEW o \in OrderIds, BotEnters(s, o) PROVE FALSE
    BY <1>1, <2>4 DEF BotEnters, Gate, CheckOrderRisk
  <2>5. CASE BotOpens
    <3>1. CASE OpenPlaced(Bot) \/ OpenFetched(Bot)
      BY <2>2, <2>3, <3>1 DEF OpenPlaced, OpenFetched
    <3>2. CASE OpenWake(Bot)
      BY <2>1, <3>2 DEF OpenWake, FetchSend, engVars
    <3> QED
      BY <2>5, <3>1, <3>2 DEF BotOpens
  <2>6. ASSUME NEW t \in Tasks, ClosePlaced(t) \/ CloseWake(t) \/ CloseFetched(t) PROVE BornToClose
    <3>1. CASE ClosePlaced(t) \/ CloseFetched(t)
      BY <2>2, <3>1 DEF ClosePlaced, CloseFetched
    <3>2. CASE CloseWake(t)
      BY <2>1, <3>2 DEF CloseWake, FetchSend, engVars
    <3> QED
      BY <2>6, <3>1, <3>2
  <2>7. ASSUME NEW o \in OrderIds, BotLeaves(o) PROVE BornToClose
    BY <2>0, <2>3, <2>7, ClosingBears DEF BotLeaves
  <2>8. CASE BotStep
    <3>1. ASSUME NEW s \in Symbols, BotFindsPosition(s) PROVE BornToClose
      BY <2>1, <3>1 DEF BotFindsPosition, allVars, engVars
    <3>2. CASE BotForgets
      BY <2>1, <3>2 DEF BotForgets, allVars, engVars
    <3>3. CASE BotCloses
      BY <2>3, <2>6, <3>3 DEF BotCloses
    <3> QED
      BY <2>4, <2>5, <2>7, <2>8, <3>1, <3>2, <3>3 DEF BotStep
  <2>9. ASSUME NEW t \in Killers, KillProgress(t) PROVE BornToClose
    <3>1. ASSUME NEW p \in OrderIds, NEW o \in OrderIds, KillClose(t, p, o) PROVE BornToClose
      BY <2>0, <2>3, <3>1, ClosingBears DEF KillClose
    <3>2. CASE KillClosing(t)
      BY <2>3, <2>6, <3>2 DEF KillClosing
    <3>3. CASE KillOrders(t) \/ KillDone(t)
      BY <2>1, <3>3 DEF KillOrders, KillDone, allVars, engVars
    <3>4. CASE KillCancelled(t)
      BY <2>2, <2>3, <3>4 DEF KillCancelled
    <3>5. ASSUME NEW o \in OrderIds, KillCancel(t, o) PROVE BornToClose
      <4>1. CancelLocally(t, o) \/ UNCHANGED order
        BY <3>5 DEF KillCancel, CancelSend, engVars
      <4> QED
        BY <2>1, <2>2, <2>3, <4>1
    <3> QED
      BY <2>9, <3>1, <3>2, <3>3, <3>4, <3>5 DEF KillProgress
  <2>10. CASE StopBot \/ StopRisk
    <3>1. UNCHANGED order
      BY <2>10 DEF StopBot, StopRisk, Cancel, Abort, PmAbort, allVars, engVars
    <3> QED
      BY <2>1, <3>1
  <2>11. CASE Environment
    BY <2>0, <2>1, <2>11, AloneBearsNothing DEF Environment
  <2>12. ASSUME NEW scope, ResetKill(scope) \/ \E t \in Killers : KillStart(t, scope)
         PROVE  BornToClose
    <3>1. UNCHANGED order
      BY <2>12 DEF ResetKill, KillStart, allVars, engVars
    <3> QED
      BY <2>1, <3>1
  <2> QED
    BY <1>1, <2>8, <2>9, <2>10, <2>11, <2>12 DEF Next
<1>2. TypeOK /\ PmIInv /\ [Next]_vars =>
        [killed # {} => \A o \in OrderIds : (Fresh(o) /\ order'[o].st # "unborn") => closes'[o] # NULL]_vars
  BY <1>1 DEF BornToClose
<1> QED
  BY <1>2, StackPm, PTL DEF Spec, NoEntryWhileKilled

-----------------------------------------------------------------------------
(* One position per symbol.  Only the bot opens, and while it is inside      *)
(* open_position no other position of its symbol appears, because nobody     *)
(* else could open one.                                                      *)

OnlyBotOpens == \A t \in Tasks : co[t].at \in Opening => t = Bot
Unoccupied   == co[Bot].at \in Opening => \A p \in OpenPositions : pos[p].sym # co[Bot].sym

OneBook == OnlyBotOpens /\ Unoccupied /\ OnePositionPerSymbol

\* nothing is entered, and nobody begins to open
LEMMA BookStays ==
    ASSUME OneBook, UNCHANGED symPos,
           \A p \in OrderIds : pos'[p].side = "HELD" => pos'[p] = pos[p],
           \A t \in Tasks : co'[t].at \in Opening =>
               co[t].at \in Opening /\ co'[t].sym = co[t].sym
    PROVE  OneBook'
<1>1. \A p \in OrderIds : p \in OpenPositions' => p \in OpenPositions /\ pos'[p] = pos[p]
  BY DEF OpenPositions, IsOpen
<1>2. OpenPositions' \subseteq OrderIds
  BY DEF OpenPositions
<1>3. Bot \in Tasks
  BY StackAssumption DEF Clients
<1> QED
  BY <1>1, <1>2, <1>3 DEF OneBook, OnlyBotOpens, Unoccupied, OnePositionPerSymbol

LEMMA FreeSymbol ==
    ASSUME OnePositionPerSymbol, NEW s \in Symbols, ~Occupied(s)
    PROVE  \A p \in OpenPositions : pos[p].sym # s
<1> SUFFICES ASSUME NEW p \in OpenPositions, pos[p].sym = s PROVE FALSE
  OBVIOUS
<1>1. symPos[s] = p /\ p \in OrderIds /\ IsOpen(p)
  BY DEF OnePositionPerSymbol, OpenPositions
<1> QED
  BY <1>1, EngAssumption DEF Occupied

LEMMA EntryBegins ==
    ASSUME TypeOK, OneBook, NEW s \in Symbols, NEW o, ~Occupied(s), UNCHANGED <<pos, symPos>>,
           co' = [co EXCEPT ![Bot] = [at |-> "openPlace", o |-> o, p |-> NULL, sym |-> s]]
    PROVE  OneBook'
<1>1. /\ co'[Bot].at = "openPlace" /\ co'[Bot].sym = s
      /\ \A t \in Tasks \ {Bot} : co'[t] = co[t]
  BY StackAssumption DEF TypeOK, PmTypeOK, Clients
<1>2. OpenPositions' = OpenPositions
  BY DEF OpenPositions, IsOpen
<1>3. \A p \in OpenPositions : pos[p].sym # s
  BY FreeSymbol DEF OneBook
<1> QED
  BY <1>1, <1>2, <1>3 DEF OneBook, OnlyBotOpens, Unoccupied, OnePositionPerSymbol, Opening

LEMMA EntryEnds ==
    ASSUME TypeOK, OneBook, NEW s \in Symbols, NEW o \in OrderIds,
           \A p \in OpenPositions : pos[p].sym # s, OpenVerdict(Bot, o, s)
    PROVE  OneBook'
<1>1. co'[Bot] = NoCo /\ \A t \in Tasks \ {Bot} : co'[t] = co[t]
  BY StackAssumption DEF TypeOK, PmTypeOK, Clients, OpenVerdict, Leave
<1>2. CASE order'[o].st # "FILLED"
  <2>1. UNCHANGED <<pos, symPos>>
    BY <1>2 DEF OpenVerdict
  <2>2. \A t \in Tasks : co'[t].at \in Opening => co[t].at \in Opening /\ co'[t].sym = co[t].sym
    BY <1>1 DEF NoCo, Opening
  <2> QED
    BY <2>1, <2>2, BookStays
<1>3. CASE order'[o].st = "FILLED"
  <2>1. /\ pos' = [pos EXCEPT ![o] = [side |-> "HELD", amt |-> order'[o].filled, sym |-> s]]
        /\ symPos' = [symPos EXCEPT ![s] = o]
    BY <1>3 DEF OpenVerdict
  <2>2. /\ pos'[o].sym = s /\ symPos'[s] = o
        /\ \A p \in OrderIds \ {o} : pos'[p] = pos[p]
    BY <2>1 DEF TypeOK, PmTypeOK
  <2>3. ASSUME NEW p \in OpenPositions' PROVE symPos'[pos'[p].sym] = p
    <3>1. CASE p = o
      BY <2>2, <3>1
    <3>2. CASE p # o
      <4>1. p \in OrderIds /\ p \in OpenPositions /\ pos'[p] = pos[p]
        BY <2>2, <2>3, <3>2 DEF OpenPositions, IsOpen
      <4>2. pos[p].sym # s /\ symPos[pos[p].sym] = p
        BY <4>1 DEF OneBook, OnePositionPerSymbol
      <4> QED
        BY <2>1, <4>1, <4>2 DEF TypeOK, PmTypeOK
    <3> QED
      BY <3>1, <3>2
  <2>4. OnePositionPerSymbol'
    BY <2>3 DEF OnePositionPerSymbol
  <2> QED
    BY <1>1, <2>4 DEF OneBook, OnlyBotOpens, Unoccupied, NoCo, Opening
<1> QED
  BY <1>2, <1>3

\* the steps of close_position, whoever makes them
LEMMA ClosingKeepsBook ==
    ASSUME TypeOK, PmIInv, OneBook, NEW t \in Tasks,
           \/ \E p \in OrderIds, o \in OrderIds : CloseCall(t, p, o) \/ CloseDry(t, p, o, TRUE)
           \/ ClosePlaced(t) \/ CloseWake(t) \/ CloseFetched(t)
           \/ co' = [co EXCEPT ![t] = NoCo] /\ UNCHANGED <<pos, symPos>>
    PROVE  OneBook'
<1>0. /\ co \in [Tasks -> CoType] /\ pos \in [OrderIds -> PosType]
  BY DEF TypeOK, PmTypeOK
<1>1. UNCHANGED symPos
  BY DEF CloseCall, CloseDry, ClosePlaced, CloseWake, CloseFetched, CloseFrame, CloseVerdict
<1>2. \A p \in OrderIds : pos'[p].side = "HELD" => pos'[p] = pos[p]
  <2>1. ASSUME NEW o, NEW p, CloseVerdict(t, o, p)
        PROVE  \A q \in OrderIds : pos'[q].side = "HELD" => pos'[q] = pos[q]
    BY <1>0, <2>1 DEF CloseVerdict, PosType
  <2> QED
    BY <2>1 DEF CloseCall, CloseDry, ClosePlaced, CloseWake, CloseFetched, CloseFrame
<1>3. \A u \in Tasks : co'[u].at \in Opening => co[u].at \in Opening /\ co'[u].sym = co[u].sym
  <2> DEFINE Moved == \/ co' = [co EXCEPT ![t] = NoCo]
                      \/ \E to \in Closing : Goto(t, to)
                      \/ \E at \in Closing, p \in OrderIds, o \in OrderIds :
                            co' = [co EXCEPT ![t] = [at |-> at, o |-> o, p |-> p, sym |-> NULL]]
  <2>1. Moved
    <3>1. ASSUME NEW p \in OrderIds, NEW o \in OrderIds, CloseCall(t, p, o) \/ CloseDry(t, p, o, TRUE)
          PROVE  Moved
      BY <3>1 DEF CloseCall, CloseDry, Closing
    <3>2. ClosePlaced(t) => Moved
      BY DEF ClosePlaced, Closing
    <3>3. CloseWake(t) => Moved
      BY DEF CloseWake, CloseVerdict, Leave, Closing
    <3>4. CloseFetched(t) => Moved
      BY DEF CloseFetched, CloseVerdict, Leave
    <3>5. co' = [co EXCEPT ![t] = NoCo] => Moved
      OBVIOUS
    <3> HIDE DEF Moved
    <3> QED
      BY <3>1, <3>2, <3>3, <3>4, <3>5
  <2>2. /\ \A u \in Tasks \ {t} : co'[u] = co[u]
        /\ co'[t].at \in Closing \cup {"idle"}
    BY <1>0, <2>1 DEF Goto, NoCo, CoType
  <2> QED
    BY <2>2 DEF Opening, Closing
<1> QED
  BY <1>1, <1>2, <1>3, BookStays

LEMMA OneBookStep ==
    ASSUME TypeOK, PmIInv, OneBook, [Next]_vars
    PROVE  OneBook'
<1> USE StackAssumption, EngAssumption
<1>0. Bot \in Tasks /\ \A t \in Killers : t \in Tasks
  BY DEF Clients
<1>1. ASSUME UNCHANGED <<pos, symPos, co>> PROVE OneBook'
  BY <1>1, BookStays
<1>2. ASSUME co[Bot].at \in Opening, OpenVerdict(Bot, co[Bot].o, co[Bot].sym) PROVE OneBook'
  <2>1. co[Bot].o \in OrderIds /\ co[Bot].sym \in Symbols
    BY <1>0, <1>2 DEF PmIInv, PmSound, CoSound
  <2>2. \A p \in OpenPositions : pos[p].sym # co[Bot].sym
    BY <1>2 DEF OneBook, Unoccupied
  <2> QED
    BY <1>2, <2>1, <2>2, EntryEnds
<1>3. ASSUME NEW at \in Opening, NEW to \in Opening, At(Bot, at), Goto(Bot, to),
             UNCHANGED <<pos, symPos>>
      PROVE  OneBook'
  <2>1. \A t \in Tasks : co'[t].at \in Opening => co[t].at \in Opening /\ co'[t].sym = co[t].sym
    BY <1>0, <1>3 DEF At, Goto, TypeOK, PmTypeOK, CoType, Opening
  <2> QED
    BY <1>3, <2>1, BookStays
<1>4. CASE BotStep
  <2>1. ASSUME NEW s \in Symbols, BotFindsPosition(s) PROVE OneBook'
    BY <1>1, <2>1 DEF BotFindsPosition, allVars, pmVars
  <2>2. ASSUME NEW s \in Symbols, NEW o \in OrderIds, BotEnters(s, o) PROVE OneBook'
    <3>1. CASE OpenCall(Bot, s, Amount, o)
      BY <3>1, EntryBegins DEF OpenCall
    <3>2. CASE OpenDry(Bot, s, Amount, o, TRUE)
      <4>1. ~Occupied(s) /\ OpenVerdict(Bot, o, s)
        BY <3>2 DEF OpenDry
      <4>2. \A p \in OpenPositions : pos[p].sym # s
        BY <4>1, FreeSymbol DEF OneBook
      <4> QED
        BY <4>1, <4>2, EntryEnds
    <3> QED
      BY <2>2, <3>1, <3>2 DEF BotEnters
  <2>3. CASE BotOpens
    <3>1. CASE OpenPlaced(Bot)
      BY <1>3, <3>1 DEF OpenPlaced, Opening
    <3>2. CASE OpenWake(Bot)
      <4>1. CASE NeedsFetch(co[Bot].o)
        BY <1>3, <3>2, <4>1 DEF OpenWake, Opening
      <4>2. CASE ~NeedsFetch(co[Bot].o)
        BY <1>2, <3>2, <4>2 DEF OpenWake, At, Opening
      <4> QED
        BY <4>1, <4>2
    <3>3. CASE OpenFetched(Bot)
      BY <1>2, <3>3 DEF OpenFetched, At, Opening
    <3> QED
      BY <2>3, <3>1, <3>2, <3>3 DEF BotOpens
  <2>4. CASE BotForgets
    BY <1>1, <2>4 DEF BotForgets, allVars, pmVars
  <2>5. CASE BotCloses
    BY <1>0, <2>5, ClosingKeepsBook DEF BotCloses
  <2>6. ASSUME NEW o \in OrderIds, BotLeaves(o) PROVE OneBook'
    <3>1. cur \in OrderIds
      BY <2>6 DEF BotLeaves, TypeOK
    <3> QED
      BY <1>0, <2>6, <3>1, ClosingKeepsBook DEF BotLeaves
  <2> QED
    BY <1>4, <2>1, <2>2, <2>3, <2>4, <2>5, <2>6 DEF BotStep
<1>5. ASSUME NEW t \in Killers, KillProgress(t) PROVE OneBook'
  <2>1. ASSUME NEW p \in OrderIds, NEW o \in OrderIds, KillClose(t, p, o) PROVE OneBook'
    BY <1>0, <2>1, ClosingKeepsBook DEF KillClose
  <2>2. CASE KillClosing(t)
    BY <1>0, <2>2, ClosingKeepsBook DEF KillClosing
  <2>3. CASE KillOrders(t) \/ KillDone(t) \/ KillCancelled(t) \/ \E o \in OrderIds : KillCancel(t, o)
    BY <1>1, <2>3 DEF KillOrders, KillDone, KillCancelled, KillCancel, allVars, pmVars
  <2> QED
    BY <1>5, <2>1, <2>2, <2>3 DEF KillProgress
<1>6. ASSUME NEW t \in Tasks, Cancel(t) PROVE OneBook'
  <2>1. CASE UNCHANGED pmVars
    BY <1>1, <2>1 DEF pmVars
  <2>2. CASE PmAbort(t)
    BY <1>6, <2>2, ClosingKeepsBook DEF PmAbort, Leave
  <2> QED
    BY <1>6, <2>1, <2>2 DEF Cancel, allVars
<1>7. CASE StopBot \/ StopRisk
  BY <1>0, <1>6, <1>7 DEF StopBot, StopRisk
<1>8. CASE Environment \/ UNCHANGED vars
  BY <1>1, <1>8 DEF Environment, vars, allVars, pmVars
<1>9. ASSUME NEW scope, ResetKill(scope) \/ \E t \in Killers : KillStart(t, scope) PROVE OneBook'
  BY <1>1, <1>9 DEF ResetKill, KillStart, allVars, pmVars
<1> QED
  BY <1>4, <1>5, <1>7, <1>8, <1>9 DEF Next

\* A symbol never has two open positions, and symbol_positions names the one it
\* has: the test of open_position is made before the await, the entry after it.
THEOREM StackOnePosition == Spec => []OnePositionPerSymbol
<1>1. Init => OneBook
  BY StackAssumption DEF Init, PmInit, OneBook, OnlyBotOpens, Unoccupied, OnePositionPerSymbol,
     OpenPositions, IsOpen, NoPos, NoCo, Opening, Clients
<1>2. TypeOK /\ PmIInv /\ OneBook /\ [Next]_vars => OneBook'
  BY OneBookStep
<1>3. OneBook => OnePositionPerSymbol
  BY DEF OneBook
<1> QED
  BY <1>1, <1>2, <1>3, StackPm, PTL DEF Spec

-----------------------------------------------------------------------------
(* The kill switch.  What a killer has dealt with stays dealt with, whatever *)
(* bot, monitor, exchange and the other killers do meanwhile.                *)

\* a killer that waits for the closing order has sent it
Placing(t) == co[t].at = "closePlace" => call[t].op = "create" /\ call[t].o = co[t].o

\* a position the killer has been through has its closing order, which is known
\* to the engine as soon as the killer goes on
Tried(t) ==
    /\ kill[t].at = "close" => \A p \in kill[t].positions \ kill[t].todo :
           \/ \E c \in orders : closes[c] = p
           \/ co[t].at = "closePlace" /\ co[t].p = p
    /\ kill[t].at \in {"cancel", "done"} =>
           \A p \in kill[t].positions : \E c \in orders : closes[c] = p

Dead(o) == order[o].xid => exch[o].st # "open"

\* an order the killer has been through is dead, or its cancellation is under way
Reached(t) ==
    /\ kill[t].open_orders \subseteq orders
    /\ kill[t].at = "cancel" => \A o \in kill[t].open_orders \ kill[t].todo :
           Dead(o) \/ (Waiting(t, "cancel") /\ call[t].o = o)
    /\ kill[t].at = "done" => \A o \in kill[t].open_orders : Dead(o)

KillSound(t) == Placing(t) /\ Tried(t) /\ ("fail" \notin Faults => Reached(t))

\* What a step of others leaves of a killer: at most the exchange serves its
\* request, and unless requests fail a cancellation that is served leaves no
\* open order.
Aside(t) ==
    /\ co'[t] = co[t] /\ kill'[t] = kill[t]
    /\ \/ call'[t] = call[t]
       \/ /\ call'[t].op = call[t].op /\ call'[t].o = call[t].o
          /\ "fail" \notin Faults /\ Waiting(t, "cancel") => exch'[call[t].o].st # "open"

ClosesKept == \A c \in orders : closes'[c] = closes[c]

LEMMA ClosesStep ==
    ASSUME TypeOK, PmIInv, [Next]_vars
    PROVE  ClosesKept
<1>1. ASSUME UNCHANGED closes PROVE ClosesKept
  BY <1>1 DEF ClosesKept
<1>2. ASSUME NEW o \in OrderIds, Fresh(o), NEW p, closes' = [closes EXCEPT ![o] = p]
      PROVE  ClosesKept
  BY <1>2 DEF ClosesKept, PmIInv, Sound, OrdersExist, TypeOK, PmTypeOK, EngTypeOK
<1>3. ASSUME NEW t, PmOpen(t) PROVE UNCHANGED closes
  BY <1>3 DEF PmOpen, OpenCall, OpenDry, OpenPlaced, OpenWake, OpenFetched, OpenVerdict
<1>4. ASSUME NEW t, PmClose(t) PROVE ClosesKept
  <2>1. ASSUME NEW p \in OrderIds, NEW o \in OrderIds, CloseCall(t, p, o) PROVE ClosesKept
    BY <1>2, <2>1 DEF CloseCall, PlaceSend
  <2>2. ASSUME NEW p \in OrderIds, NEW o \in OrderIds, NEW market \in BOOLEAN,
               CloseDry(t, p, o, market)
        PROVE  ClosesKept
    BY <1>2, <2>2 DEF CloseDry, PlaceDry
  <2>3. CASE ClosePlaced(t) \/ CloseWake(t) \/ CloseFetched(t)
    BY <1>1, <2>3 DEF ClosePlaced, CloseWake, CloseFetched, CloseVerdict
  <2> QED
    BY <1>4, <2>1, <2>2, <2>3 DEF PmClose
<1>5. CASE UNCHANGED pmVars
  BY <1>1, <1>5 DEF pmVars
<1>6. CASE [PmNext]_allVars
  BY <1>1, <1>3, <1>4, <1>5, <1>6 DEF PmNext, PmAbort, allVars
<1> QED
  BY <1>5, <1>6, StackBelow

\* a step of one task is about its own call and its own coroutine
LEMMA OwnCall ==
    ASSUME EngTypeOK, NEW u \in Tasks, ClientStep(u) \/ UNCHANGED engVars
    PROVE  \A t \in Tasks \ {u} : call'[t] = call[t]
  BY DEF EngTypeOK, engVars, ClientStep, Place, PlaceSend, PlaceDry, CancelLocally, CancelSend,
         FetchSend, PlaceReturn, CancelReturn, FetchReturn, Abort

LEMMA OwnCo ==
    ASSUME PmTypeOK, NEW u \in Tasks, PmOpen(u) \/ PmClose(u) \/ PmAbort(u)
    PROVE  \A t \in Tasks \ {u} : co'[t] = co[t]
<1>1. \/ \E x : co' = [co EXCEPT ![u] = x]
      \/ \E at : Goto(u, at)
  BY DEF PmOpen, OpenCall, OpenDry, OpenPlaced, OpenWake, OpenFetched, OpenVerdict, PmClose,
         CloseCall, CloseDry, ClosePlaced, CloseWake, CloseFetched, CloseVerdict, PmAbort, Leave
<1> QED
  BY <1>1 DEF PmTypeOK, Goto

LEMMA ServedAside ==
    ASSUME EngTypeOK, NEW t \in Tasks, NEW u \in Tasks, Serve(u)
    PROVE  \/ call'[t] = call[t]
           \/ /\ call'[t].op = call[t].op /\ call'[t].o = call[t].o
              /\ "fail" \notin Faults /\ Waiting(t, "cancel") => exch'[call[t].o].st # "open"
<1>0. call \in [Tasks -> CallType] /\ exch \in [OrderIds -> View]
  BY DEF EngTypeOK
<1>1. CASE t # u
  BY <1>0, <1>1 DEF Serve, ServeCreate, ServeCancel, ServeFetch
<1>2. CASE t = u
  <2>1. call'[t].op = call[t].op /\ call'[t].o = call[t].o
    BY <1>0, <1>2 DEF Serve, ServeCreate, ServeCancel, ServeFetch, Waiting, CallType, NoCall
  <2>2. ASSUME "fail" \notin Faults, Waiting(t, "cancel") PROVE exch'[call[t].o].st # "open"
    <3>1. ServeCancel(t) /\ call[t].o \in OrderIds
      BY <1>0, <1>2, <2>2 DEF Serve, ServeCreate, ServeFetch, Waiting, CallType, NoCall
    <3> QED
      BY <1>0, <2>2, <3>1 DEF ServeCancel, MayHappen, View
  <2> QED
    BY <2>1, <2>2
<1> QED
  BY <1>1, <1>2

LEMMA AsideStep ==
    ASSUME TypeOK, NEW t \in Killers, [Next]_vars
    PROVE  \/ Aside(t)
           \/ KillProgress(t)
           \/ \E scope \in {"global", "bot"} : KillStart(t, scope)
           \/ StopRisk /\ t = RiskLoop
<1> USE StackAssumption, EngAssumption
<1>0. /\ PmTypeOK /\ EngTypeOK /\ kill \in [Killers -> KillType]
      /\ t \in Tasks /\ t # Bot /\ t # Monitor /\ t \in Clients /\ Monitor \in Tasks /\ Bot \in Tasks
      /\ call \in [Tasks -> CallType]
  BY DEF TypeOK, PmTypeOK, EngTypeOK, Clients
<1>1. ASSUME UNCHANGED <<allVars, kill>> PROVE Aside(t)
  BY <1>1 DEF Aside, allVars, engVars, pmVars
<1>2. ASSUME NEW u \in Clients, u # t, kill'[t] = kill[t],
             \/ PmOpen(u) \/ PmClose(u) \/ PmAbort(u)
             \/ ClientStep(u) /\ UNCHANGED pmVars
      PROVE  Aside(t)
  <2>1. ClientStep(u) \/ UNCHANGED engVars
    BY <1>0, <1>2, PmTaskStep
  <2>2. u \in Tasks
    BY DEF Clients
  <2>3. call'[t] = call[t]
    BY <1>0, <1>2, <2>1, <2>2, OwnCall
  <2>4. co'[t] = co[t]
    BY <1>0, <1>2, <2>2, OwnCo DEF pmVars
  <2> QED
    BY <1>2, <2>3, <2>4 DEF Aside
<1>3. CASE BotStep
  BY <1>0, <1>1, <1>2, <1>3, BotBelow
<1>4. ASSUME NEW u \in Killers, u # t, KillProgress(u) PROVE Aside(t)
  <2>1. kill'[t] = kill[t]
    BY <1>4, KillBelow
  <2>2. CASE UNCHANGED allVars
    BY <2>1, <2>2 DEF Aside, allVars, engVars, pmVars
  <2> QED
    BY <1>2, <1>4, <2>1, <2>2, KillBelow
<1>5. ASSUME NEW u \in Clients, u # t, kill'[t] = kill[t], Cancel(u) PROVE Aside(t)
  <2>1. CASE UNCHANGED allVars
    BY <1>5, <2>1 DEF Aside, allVars, engVars, pmVars
  <2> QED
    BY <1>2, <1>5, <2>1 DEF Cancel, ClientStep
<1>6. CASE StopBot
  BY <1>0, <1>5, <1>6 DEF StopBot
<1>7. CASE StopRisk /\ t # RiskLoop
  <2>1. RiskLoop \in Killers /\ kill'[t] = kill[t]
    BY <1>0, <1>7 DEF StopRisk
  <2> QED
    BY <1>5, <1>7, <2>1 DEF StopRisk
<1>8. CASE Environment
  <2>1. co' = co /\ kill' = kill
    BY <1>8 DEF Environment, pmVars, stackVars
  <2>2. ASSUME NEW u \in Tasks, Serve(u) PROVE Aside(t)
    BY <1>0, <2>1, <2>2, ServedAside DEF Aside
  <2>3. EngineAlone => call'[t] = call[t] \/ \E u \in Tasks : Serve(u)
    BY <1>0 DEF EngineAlone, EngStart, EngStop, MonitorStep, MonitorList, MonitorNext,
                MonitorReturn, FetchReturn, Exchange, ExchangeFill, ExchangeExpire
  <2> QED
    BY <1>8, <2>1, <2>2, <2>3 DEF Environment, Aside
<1>9. ASSUME NEW u \in Killers, u # t, NEW scope, KillStart(u, scope) PROVE Aside(t)
  <2>1. kill'[t] = kill[t]
    BY <1>0, <1>9 DEF KillStart
  <2> QED
    BY <1>9, <2>1 DEF KillStart, Aside, allVars, engVars, pmVars
<1>10. ASSUME NEW scope, ResetKill(scope) PROVE Aside(t)
  BY <1>1, <1>10 DEF ResetKill
<1>11. CASE UNCHANGED vars
  BY <1>1, <1>11 DEF vars, stackVars
<1> QED
  BY <1>3, <1>4, <1>6, <1>7, <1>8, <1>9, <1>10, <1>11 DEF Next

\* what the killer has dealt with stays dealt with
LEMMA AsideKeeps ==
    ASSUME NEW t \in Killers, KillSound(t), Aside(t), OrdersKept, ClosesKept
    PROVE  KillSound(t)'
<1>1. Placing(t)'
  BY DEF KillSound, Placing, Aside
<1>2. Tried(t)'
  <2>1. ASSUME NEW p, NEW c \in orders, closes[c] = p PROVE \E d \in orders' : closes'[d] = p
    BY <2>1 DEF OrdersKept, ClosesKept
  <2>2. ASSUME NEW p, p \in kill[t].positions \ kill[t].todo, kill[t].at = "close"
        PROVE  (\E c \in orders' : closes'[c] = p) \/ (co'[t].at = "closePlace" /\ co'[t].p = p)
    BY <2>1, <2>2 DEF KillSound, Tried, Aside
  <2>3. ASSUME NEW p, p \in kill[t].positions, kill[t].at \in {"cancel", "done"}
        PROVE  \E c \in orders' : closes'[c] = p
    BY <2>1, <2>3 DEF KillSound, Tried
  <2>4. kill'[t] = kill[t]
    BY DEF Aside
  <2> QED
    BY <2>2, <2>3, <2>4 DEF Tried
<1>3. ASSUME "fail" \notin Faults PROVE Reached(t)'
  <2>1. ASSUME NEW o \in orders, Dead(o) PROVE Dead(o)'
    BY <2>1 DEF Dead, OrdersKept
  <2>2. ASSUME NEW o \in orders, Waiting(t, "cancel"), call[t].o = o
        PROVE  Dead(o)' \/ (Waiting(t, "cancel")' /\ call'[t].o = o)
    BY <1>3, <2>2 DEF Dead, Aside, Waiting
  <2>3. kill'[t] = kill[t] /\ orders \subseteq orders' /\ kill[t].open_orders \subseteq orders
    BY <1>3 DEF Aside, OrdersKept, KillSound, Reached
  <2>4. ASSUME NEW o, o \in kill[t].open_orders \ kill[t].todo, kill[t].at = "cancel"
        PROVE  Dead(o)' \/ (Waiting(t, "cancel")' /\ call'[t].o = o)
    BY <1>3, <2>1, <2>2, <2>3, <2>4 DEF KillSound, Reached
  <2>5. ASSUME NEW o, o \in kill[t].open_orders, kill[t].at = "done" PROVE Dead(o)'
    BY <1>3, <2>1, <2>3, <2>5 DEF KillSound, Reached
  <2> QED
    BY <2>3, <2>4, <2>5 DEF Reached, Dead, Waiting
<1> QED
  BY <1>1, <1>2, <1>3 DEF KillSound

\* the killer's own steps
LEMMA ProgressKeeps ==
    ASSUME TypeOK, PmIInv, NEW t \in Killers, KillSound(t), KillProgress(t), OrdersKept, ClosesKept
    PROVE  KillSound(t)'
<1> USE StackAssumption, EngAssumption
<1> DEFINE k == kill[t]
           Sent(p) == \E c \in orders : closes[c] = p
<1>0. /\ kill \in [Killers -> KillType] /\ co \in [Tasks -> CoType] /\ call \in [Tasks -> CallType]
      /\ order \in [OrderIds -> OrderType] /\ closes \in [OrderIds -> OrderIds \cup {NULL}]
      /\ orders \subseteq OrderIds /\ t \in Tasks /\ k \in KillType
  BY DEF TypeOK, PmTypeOK, EngTypeOK, Clients
<1>1. ASSUME NEW p, Sent(p) PROVE Sent(p)'
  BY <1>1 DEF OrdersKept, ClosesKept
<1>2. ASSUME NEW o \in orders, Dead(o) PROVE Dead(o)'
  BY <1>2 DEF Dead, OrdersKept
<1>3. Free(t) => co[t].at = "idle" /\ call[t].op = "none"
  BY DEF Free, Idle, NoCo, NoCall
<1>4. ASSUME NEW p \in OrderIds, NEW o \in OrderIds, KillClose(t, p, o) PROVE KillSound(t)'
  <2>1. /\ kill'[t].at = "close" /\ kill'[t].todo = k.todo \ {p}
        /\ kill'[t].positions = k.positions /\ kill'[t].open_orders = k.open_orders
        /\ k.at = "close" /\ Free(t)
    BY <1>0, <1>4 DEF KillClose, KillType
  <2>2. \/ /\ co'[t].at = "closePlace" /\ co'[t].o = o /\ co'[t].p = p
           /\ call'[t].op = "create" /\ call'[t].o = o
        \/ co'[t].at = "closeSleep" /\ o \in orders' /\ closes'[o] = p
    <3>1. CASE CloseCall(t, p, o)
      BY <1>0, <3>1 DEF CloseCall, PlaceSend, Request
    <3>2. CASE CloseDry(t, p, o, TRUE)
      BY <1>0, <3>2 DEF CloseDry, PlaceDry
    <3> QED
      BY <1>4, <3>1, <3>2 DEF KillClose
  <2>3. Placing(t)'
    BY <2>2 DEF Placing
  <2>4. Tried(t)'
    <3>1. ASSUME NEW q, q \in k.positions \ kill'[t].todo
          PROVE  Sent(q)' \/ (co'[t].at = "closePlace" /\ co'[t].p = q)
      <4>1. CASE q = p
        BY <2>2, <4>1
      <4>2. CASE q # p
        BY <1>1, <1>3, <2>1, <3>1, <4>2 DEF KillSound, Tried
      <4> QED
        BY <4>1, <4>2
    <3> QED
      BY <2>1, <3>1 DEF Tried
  <2>5. "fail" \notin Faults => Reached(t)'
    BY <2>1 DEF KillSound, Reached, OrdersKept
  <2> QED
    BY <2>3, <2>4, <2>5 DEF KillSound
\* the others begin no creation, and an order they have dealt with is dead already
<1>5. ASSUME kill'[t] = k, co'[t].at = "closePlace" => FALSE,
             \A p : k.at = "close" /\ co[t].at = "closePlace" /\ co[t].p = p => Sent(p)',
             "fail" \notin Faults /\ k.at = "cancel" =>
                 \A o \in orders : Waiting(t, "cancel") /\ call[t].o = o =>
                     Dead(o)' \/ (Waiting(t, "cancel")' /\ call'[t].o = o)
      PROVE  KillSound(t)'
  <2>1. Placing(t)'
    BY <1>5 DEF Placing
  <2>2. Tried(t)'
    <3>1. ASSUME NEW q, q \in k.positions \ k.todo, k.at = "close" PROVE Sent(q)'
      BY <1>1, <1>5, <3>1 DEF KillSound, Tried
    <3>2. ASSUME NEW q, q \in k.positions, k.at \in {"cancel", "done"} PROVE Sent(q)'
      BY <1>1, <3>2 DEF KillSound, Tried
    <3> QED
      BY <1>5, <3>1, <3>2 DEF Tried
  <2>3. ASSUME "fail" \notin Faults PROVE Reached(t)'
    <3>1. k.open_orders \subseteq orders /\ orders \subseteq orders'
      BY <2>3 DEF KillSound, Reached, OrdersKept
    <3>2. ASSUME NEW o, o \in k.open_orders \ k.todo, k.at = "cancel"
          PROVE  Dead(o)' \/ (Waiting(t, "cancel")' /\ call'[t].o = o)
      BY <1>2, <1>5, <2>3, <3>1, <3>2 DEF KillSound, Reached
    <3>3. ASSUME NEW o, o \in k.open_orders, k.at = "done" PROVE Dead(o)'
      BY <1>2, <2>3, <3>1, <3>3 DEF KillSound, Reached
    <3> QED
      BY <1>5, <3>1, <3>2, <3>3 DEF Reached, Dead, Waiting
  <2> QED
    BY <2>1, <2>2, <2>3 DEF KillSound
<1>6. CASE KillClosing(t)
  <2>1. kill'[t] = k
    BY <1>6 DEF KillClosing
  <2>2. CASE ClosePlaced(t)
    <3>1. call[t].op = "create" /\ call[t].o = co[t].o /\ co[t].at = "closePlace"
      BY <2>2 DEF ClosePlaced, At, KillSound, Placing
    <3>2. co[t].o \in orders' /\ closes'[co[t].o] = co[t].p
      BY <1>0, <2>2, <3>1 DEF ClosePlaced, PlaceReturn, PmIInv, PmSound, CoSound, Closing
    <3>3. co'[t].at = "closeSleep"
      BY <1>0, <2>2 DEF ClosePlaced, Goto, CoType
    <3> QED
      BY <1>5, <2>1, <3>1, <3>2, <3>3 DEF Waiting
  <2>3. CASE CloseWake(t)
    <3>1. co[t].at = "closeSleep" /\ co'[t].at \in {"closeFetch", "idle"}
      BY <1>0, <2>3 DEF CloseWake, CloseVerdict, Leave, NoCo, Goto, At, CoType
    <3>2. call'[t] = call[t] \/ ~Waiting(t, "cancel")
      BY <2>3 DEF CloseWake, FetchSend, Idle, NoCall, Waiting, engVars
    <3>3. ASSUME NEW o, Waiting(t, "cancel"), call[t].o = o
          PROVE  Waiting(t, "cancel")' /\ call'[t].o = o
      BY <3>2, <3>3 DEF Waiting
    <3> QED
      BY <1>5, <2>1, <3>1, <3>3
  <2>4. CASE CloseFetched(t)
    <3>1. co[t].at = "closeFetch" /\ co'[t].at = "idle"
      BY <1>0, <2>4 DEF CloseFetched, CloseVerdict, Leave, NoCo, At
    <3>2. ~Waiting(t, "cancel")
      BY <2>4 DEF CloseFetched, FetchReturn, Answered, Waiting
    <3> QED
      BY <1>5, <2>1, <3>1, <3>2
  <2> QED
    BY <1>6, <2>2, <2>3, <2>4 DEF KillClosing
<1>7. CASE KillCancelled(t)
  <2>1. /\ kill'[t] = k /\ co'[t] = co[t] /\ call[t].op = "cancel" /\ ~Waiting(t, "cancel")
    BY <1>7 DEF KillCancelled, CancelReturn, Answered, Waiting, pmVars
  <2>2. co[t].at # "closePlace"
    BY <2>1 DEF KillSound, Placing
  <2> QED
    BY <1>5, <2>1, <2>2
<1>8. CASE KillOrders(t)
  <2>1. /\ k.at = "close" /\ k.todo = {} /\ Free(t) /\ UNCHANGED <<co, call, orders, closes>>
        /\ kill'[t].at = "cancel" /\ kill'[t].positions = k.positions
        /\ kill'[t].open_orders = OpenOrders /\ kill'[t].todo = OpenOrders
    BY <1>0, <1>8 DEF KillOrders, KillType, allVars, engVars, pmVars
  <2>2. Placing(t)' /\ Tried(t)'
    BY <1>3, <2>1 DEF Placing, Tried, KillSound
  <2>3. Reached(t)'
    BY <2>1 DEF Reached, OpenOrders
  <2> QED
    BY <2>2, <2>3 DEF KillSound
<1>9. CASE KillDone(t)
  <2>1. /\ k.at = "cancel" /\ k.todo = {} /\ Free(t)
        /\ UNCHANGED <<co, call, orders, closes, order, exch>>
        /\ kill'[t].at = "done" /\ kill'[t].positions = k.positions
        /\ kill'[t].open_orders = k.open_orders
    BY <1>0, <1>9 DEF KillDone, KillType, allVars, engVars, pmVars
  <2>2. Placing(t)' /\ Tried(t)'
    BY <1>3, <2>1 DEF Placing, Tried, KillSound
  <2>3. "fail" \notin Faults => Reached(t)'
    BY <1>3, <2>1 DEF Reached, KillSound, Waiting, Dead
  <2> QED
    BY <2>2, <2>3 DEF KillSound
<1>10. ASSUME NEW o \in OrderIds, KillCancel(t, o) PROVE KillSound(t)'
  <2>1. /\ k.at = "cancel" /\ o \in k.todo /\ Free(t) /\ co' = co
        /\ kill'[t].at = "cancel" /\ kill'[t].positions = k.positions
        /\ kill'[t].open_orders = k.open_orders /\ kill'[t].todo = k.todo \ {o}
    BY <1>0, <1>10 DEF KillCancel, KillType, pmVars
  <2>2. Placing(t)'
    BY <1>3, <2>1 DEF Placing
  <2>3. Tried(t)'
    <3>1. ASSUME NEW p, p \in k.positions PROVE Sent(p)'
      BY <1>1, <2>1, <3>1 DEF KillSound, Tried
    <3> QED
      BY <2>1, <3>1 DEF Tried
  <2>4. ASSUME "fail" \notin Faults PROVE Reached(t)'
    <3>1. k.open_orders \subseteq orders /\ orders \subseteq orders'
      BY <2>4 DEF KillSound, Reached, OrdersKept
    <3>2. ASSUME o \in orders PROVE Dead(o)' \/ (Waiting(t, "cancel")' /\ call'[t].o = o)
      <4>1. CASE CancelLocally(t, o)
        <5>1. ~order[o].xid
          BY <1>0, <3>2, <4>1 DEF CancelLocally, PmIInv, Sound, IdsSound
        <5> QED
          BY <3>2, <5>1 DEF Dead, OrdersKept
      <4>2. CASE CancelSend(t, o)
        BY <1>0, <4>2 DEF CancelSend, Request, Waiting
      <4>3. CASE ~Cancellable(o)
        <5>1. order[o].st \in {"FILLED", "CANCELLED"}
          BY <3>2, <4>3 DEF Cancellable
        <5>2. Dead(o)
          BY <5>1 DEF Dead, PmIInv, Sound, SettledIsTrue
        <5> QED
          BY <1>2, <3>2, <5>2
      <4> QED
        BY <1>10, <4>1, <4>2, <4>3 DEF KillCancel
    <3>3. ASSUME NEW q, q \in k.open_orders \ kill'[t].todo
          PROVE  Dead(q)' \/ (Waiting(t, "cancel")' /\ call'[t].o = q)
      <4>1. CASE q = o
        BY <3>1, <3>2, <3>3, <4>1
      <4>2. CASE q # o
        <5>1. Dead(q)
          BY <1>3, <2>1, <2>4, <3>3, <4>2 DEF KillSound, Reached, Waiting
        <5> QED
          BY <1>2, <3>1, <3>3, <5>1
      <4> QED
        BY <4>1, <4>2
    <3> QED
      BY <2>1, <3>1, <3>3 DEF Reached, Dead, Waiting
  <2> QED
    BY <2>2, <2>3, <2>4 DEF KillSound
<1> QED
  BY <1>4, <1>6, <1>7, <1>8, <1>9, <1>10 DEF KillProgress

LEMMA KillStep ==
    ASSUME TypeOK, PmIInv, NEW t \in Killers, KillSound(t), [Next]_vars
    PROVE  KillSound(t)'
<1> USE StackAssumption
<1>0. /\ kill \in [Killers -> KillType] /\ co \in [Tasks -> CoType] /\ t \in Tasks
  BY DEF TypeOK, PmTypeOK, Clients
<1>1. OrdersKept /\ ClosesKept
  BY BelowStep, EngOrders, ClosesStep
<1>2. CASE Aside(t)
  BY <1>1, <1>2, AsideKeeps
<1>3. CASE KillProgress(t)
  BY <1>1, <1>3, ProgressKeeps
<1>4. ASSUME NEW scope, KillStart(t, scope) PROVE KillSound(t)'
  <2>1. /\ kill'[t].at = "close" /\ kill'[t].positions = kill'[t].todo
        /\ kill'[t].open_orders = {} /\ co'[t].at = "idle"
    BY <1>0, <1>4 DEF KillStart, Free, NoCo, allVars, pmVars
  <2> QED
    BY <2>1 DEF KillSound, Placing, Tried, Reached
<1>5. CASE StopRisk /\ t = RiskLoop
  <2>1. kill'[t] = NoKill
    BY <1>0, <1>5 DEF StopRisk
  <2>2. co'[t].at = "idle"
    BY <1>0, <1>5 DEF StopRisk, Cancel, At, PmAbort, Leave, NoCo, allVars, pmVars
  <2> QED
    BY <2>1, <2>2 DEF KillSound, Placing, Tried, Reached, NoKill
<1> QED
  BY <1>2, <1>3, <1>4, <1>5, AsideStep

\* The kill switch submits a closing order for every position it saw and, when no
\* request fails outright, leaves no order it saw live at the exchange: whatever
\* the bot, the monitor, the exchange and the other killers do meanwhile, and
\* whoever is cancelled.
THEOREM StackKillReaches == Spec => []KillReachesAll
<1> DEFINE AllSound == \A t \in Killers : KillSound(t)
<1>1. Init => AllSound
  <2> SUFFICES ASSUME Init, NEW t \in Killers PROVE KillSound(t)
    OBVIOUS
  <2>1. co[t].at = "idle" /\ kill[t] = NoKill
    BY StackAssumption DEF Init, PmInit, NoCo, Clients
  <2> QED
    BY <2>1 DEF KillSound, Placing, Tried, Reached, NoKill
<1>2. TypeOK /\ PmIInv /\ AllSound /\ [Next]_vars => AllSound'
  <2> SUFFICES ASSUME TypeOK, PmIInv, AllSound, [Next]_vars, NEW t \in Killers PROVE KillSound(t)'
    OBVIOUS
  <2> QED
    BY KillStep
<1>3. AllSound => KillReachesAll
  BY DEF KillSound, Tried, Reached, Dead, KillReachesAll, KillTriesEveryPosition,
         KillReachesEveryOrder
<1> HIDE DEF AllSound
<1> QED
  BY <1>1, <1>2, <1>3, StackPm, PTL DEF Spec

\* Every variable of the stack keeps its type.
THEOREM StackTyped == Spec => []TypeOK
  BY StackPm, PTL

\* The whole stack uses the engine as any caller may: in real trading the status
\* shown for an order never runs ahead of the exchange, kill switch or not.
THEOREM StackUsesEngine == Spec => EngSpec
<1>1. Init => EngInit
  BY DEF Init, PmInit
<1>2. TypeOK /\ PmIInv /\ [Next]_vars => [EngNext]_engVars
  BY BelowStep
<1> QED
  BY <1>1, <1>2, StackPm, PTL DEF Spec, EngSpec

\* Whoever closes, bot or kill switch, once or at the same time: what the book
\* holds was bought, what it gave up was sold, and what the engine takes for
\* final is final.
THEOREM StackKeepsBook == Spec => [](PositionBacked /\ ClosedIsHedged /\ SettledIsTrue)
<1>1. PmIInv => PositionBacked /\ ClosedIsHedged /\ SettledIsTrue
  BY BackedNow, HedgedNow DEF PmIInv, Sound
<1> QED
  BY <1>1, StackPm, PTL
=============================================================================
