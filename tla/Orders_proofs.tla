---------------------------- MODULE Orders_proofs ----------------------------
(***************************************************************************)
(* Theorems about ExecutionEngine, for any tasks, orders and amounts, and  *)
(* about PositionManager, for any symbols and faults.  The coroutines of   *)
(* the position manager only make steps the engine's callers can make, so  *)
(* that what is proved of the engine holds below the positions too; the    *)
(* rest is about the book.                                                 *)
(***************************************************************************)
EXTENDS PositionManager, TLAPS

-----------------------------------------------------------------------------
(* The inductive invariant.  SettledIsTrue is not inductive: a coroutine   *)
(* that resumes writes what it was told, so what it was told must be true  *)
(* (AnswersStayTrue), and about an order that is really its own.           *)

\* An order exists at the exchange only after it was constructed; when it is
\* closed it is filled for its whole amount.
ExchangeSound ==
    \A o \in OrderIds :
        /\ Fresh(o) => exch[o].st = "none"
        /\ exch[o].st = "closed" => exch[o].filled = order[o].amt

\* Only an order the exchange took has an exchange id, and none in the dry run.
\* In real trading an order that came back without one was given up.
IdsSound ==
    \A o \in OrderIds :
        /\ order[o].xid => /\ ~DryRun
                           /\ order[o].st \notin {"unborn", "REJECTED"}
                           /\ exch[o].st # "none"
        /\ ~DryRun /\ o \in orders /\ ~order[o].xid =>
              order[o].st \in {"REJECTED", "CANCELLED"}

\* A creation under way owns its order: nobody else can look it up or create
\* it, and the exchange has it once it has said so.  The other calls are about
\* orders the exchange has an id for.
CallsSound ==
    \A t \in Tasks :
        /\ call[t].op = "create" =>
              /\ ~DryRun
              /\ call[t].o \notin orders
              /\ order[call[t].o].st = "PENDING"
              /\ ~order[call[t].o].xid /\ order[call[t].o].filled = 0
              /\ call[t].ans = "wait" => exch[call[t].o].st = "none"
              /\ call[t].ans = "ok" => exch[call[t].o].st # "none"
        /\ call[t].op \in {"cancel", "fetch"} => order[call[t].o].xid

OneCreation ==
    \A t, u \in Tasks :
        call[t].op = "create" /\ call[u].op = "create" /\ call[t].o = call[u].o => t = u

\* An order that can be looked up was constructed.
OrdersExist == \A o \in orders : ~Fresh(o)

\* What a task was told and has not yet acted upon is still true: a granted
\* cancellation holds, and a look-up shows a past of the order.  Everything the
\* exchange, the monitor and the other tasks do in between must leave it so.
IsPast(o, v) ==
    /\ v.filled <= exch[o].filled
    /\ v.st # "open" => exch[o].st = v.st

AnswersStayTrue ==
    \A t \in Tasks :
        /\ call[t].op = "cancel" /\ call[t].ans = "ok" => exch[call[t].o].st = "canceled"
        /\ call[t].op = "fetch" /\ call[t].ans = "ok" => IsPast(call[t].o, call[t].seen)

Sound ==
    /\ ExchangeSound /\ IdsSound /\ CallsSound /\ OneCreation /\ OrdersExist
    /\ AnswersStayTrue /\ SettledIsTrue

EngIInv == EngTypeOK /\ Sound

-----------------------------------------------------------------------------
(* Type correctness *)

LEMMA TypeInit == EngInit => EngTypeOK
<1> SUFFICES ASSUME EngInit PROVE EngTypeOK
  OBVIOUS
<1> USE EngAssumption DEF EngInit
<1>1. Unborn \in OrderType
  BY DEF Unborn, OrderType, LocalStatus
<1>2. NoView \in View
  BY DEF NoView, View, ExchStatus
<1>3. NoCall \in CallType
  BY DEF CallType
<1> QED
  BY <1>1, <1>2, <1>3 DEF EngTypeOK

LEMMA TypeStep == EngTypeOK /\ [EngNext]_engVars => EngTypeOK'
<1> SUFFICES ASSUME EngTypeOK, [EngNext]_engVars PROVE EngTypeOK'
  OBVIOUS
<1> USE EngAssumption
<1> USE DEF EngTypeOK
<1>1. ASSUME NEW t \in Tasks, NEW o \in OrderIds, NEW amt \in 0 .. Amount,
             PlaceSend(t, o, amt)
      PROVE EngTypeOK'
  BY <1>1 DEF PlaceSend, Construct, Request, CallType, OrderType, LocalStatus, View,
              NoView, ExchStatus
<1>2. ASSUME NEW t \in Tasks, NEW o \in OrderIds, NEW amt \in 0 .. Amount,
             NEW market \in BOOLEAN, PlaceDry(t, o, amt, market)
      PROVE EngTypeOK'
  BY <1>2 DEF PlaceDry, Construct, OrderType, LocalStatus
<1>3. ASSUME NEW t \in Tasks, ServeCreate(t) PROVE EngTypeOK'
  BY <1>3 DEF ServeCreate, Waiting, CallType, NoCall, View, ExchStatus
<1>4. ASSUME NEW t \in Tasks, PlaceReturn(t) PROVE EngTypeOK'
  BY <1>4 DEF PlaceReturn, Answered, CallType, NoCall, OrderType, LocalStatus
<1>5. ASSUME NEW t \in Tasks, NEW o \in OrderIds, CancelLocally(t, o) PROVE EngTypeOK'
  BY <1>5 DEF CancelLocally, OrderType, LocalStatus
<1>6. ASSUME NEW t \in Tasks, NEW o \in OrderIds, CancelSend(t, o) PROVE EngTypeOK'
  BY <1>6 DEF CancelSend, Request, CallType, View, NoView, ExchStatus
<1>7. ASSUME NEW t \in Tasks, ServeCancel(t) PROVE EngTypeOK'
  BY <1>7 DEF ServeCancel, Waiting, CallType, NoCall, View, ExchStatus
<1>8. ASSUME NEW t \in Tasks, CancelReturn(t) PROVE EngTypeOK'
  BY <1>8 DEF CancelReturn, Answered, CallType, NoCall, OrderType, LocalStatus
<1>9. ASSUME NEW t \in Tasks, NEW o \in OrderIds, FetchSend(t, o) PROVE EngTypeOK'
  BY <1>9 DEF FetchSend, Request, CallType, View, NoView, ExchStatus
<1>10. ASSUME NEW t \in Tasks, ServeFetch(t) PROVE EngTypeOK'
<2>1. call[t].o \in OrderIds /\ exch[call[t].o] \in View /\ NoView \in View
  BY <1>10 DEF ServeFetch, Waiting, CallType, NoCall, View, NoView, ExchStatus
<2>2. PICK ans \in {"ok", "err"} :
        call' = [call EXCEPT ![t].ans = ans,
                             ![t].seen = IF ans = "ok" THEN exch[call[t].o] ELSE NoView]
  BY <1>10 DEF ServeFetch
<2>3. call' \in [Tasks -> CallType]
  <3> DEFINE c == call[t]
             v == IF ans = "ok" THEN exch[c.o] ELSE NoView
  <3>1. c \in [op : {"create", "cancel", "fetch"}, o : OrderIds,
               ans : {"wait", "ok", "err"}, seen : View]
    BY <1>10 DEF ServeFetch, Waiting, CallType, NoCall
  <3>2. v \in View
    BY <2>1
  <3>3. call' = [call EXCEPT ![t] = [c EXCEPT !.ans = ans, !.seen = v]]
    BY <2>2
  <3>4. [c EXCEPT !.ans = ans, !.seen = v] \in CallType
    <4> HIDE DEF c, v
    <4> QED BY <3>1, <3>2 DEF CallType
  <3> QED
    BY <3>3, <3>4
<2> QED
  BY <1>10, <2>3 DEF ServeFetch
<1>11. ASSUME NEW t \in Tasks, FetchReturn(t) PROVE EngTypeOK'
  BY <1>11 DEF FetchReturn, Answered, UpdateFromExchange, StatusMap, CallType, NoCall,
               OrderType, LocalStatus, View
<1>12. ASSUME NEW t \in Tasks, AbortEffect(call[t])
       PROVE exch' \in [OrderIds -> View]
  BY <1>12 DEF AbortEffect, View, ExchStatus
<1>13. ASSUME NEW t \in Tasks, Abort(t) PROVE EngTypeOK'
  BY <1>12, <1>13 DEF Abort, CallType
<1>14. CASE EngStart
  BY <1>14 DEF EngStart
<1>15. CASE EngStop
  BY <1>12, <1>15 DEF EngStop, CallType
<1>16. CASE MonitorList
  BY <1>16 DEF MonitorList, OpenOrders
<1>17. CASE MonitorNext
  BY <1>17 DEF MonitorNext, Request, CallType, View, NoView, ExchStatus
<1>18. CASE MonitorReturn
  BY <1>11, <1>18 DEF MonitorReturn
<1>19. ASSUME NEW o \in OrderIds, ExchangeFill(o) PROVE EngTypeOK'
<2>1. exch[o].filled \in 0 .. Amount /\ order[o].amt \in 0 .. Amount
  BY DEF View, OrderType
<2>2. exch[o].filled + 1 \in 0 .. Amount
  BY <1>19, <2>1 DEF ExchangeFill
<2>3. exch' \in [OrderIds -> View]
  BY <1>19, <2>2 DEF ExchangeFill, View, ExchStatus
<2> QED
  BY <1>19, <2>3 DEF ExchangeFill
<1>20. ASSUME NEW o \in OrderIds, ExchangeExpire(o) PROVE EngTypeOK'
  BY <1>20 DEF ExchangeExpire, View, ExchStatus
<1>21. CASE UNCHANGED engVars
  BY <1>21 DEF engVars
<1> QED
  BY <1>1, <1>2, <1>3, <1>4, <1>5, <1>6, <1>7, <1>8, <1>9, <1>10, <1>11, <1>13, <1>14,
     <1>15, <1>16, <1>17, <1>18, <1>19, <1>20, <1>21
  DEF EngNext, ClientStep, Place, Clients, MonitorStep, Exchange, Serve

\* Every variable keeps its type.
THEOREM EngTyped == EngSpec => []EngTypeOK
<1>1. EngInit => EngTypeOK
  BY TypeInit
<1>2. EngTypeOK /\ [EngNext]_engVars => EngTypeOK'
  BY TypeStep
<1> QED
  BY <1>1, <1>2, PTL DEF EngSpec

-----------------------------------------------------------------------------
(* The step of each operation. *)

LEMMA SoundInit == EngInit => Sound
  BY DEF EngInit, Sound, ExchangeSound, IdsSound, CallsSound, OneCreation, OrdersExist,
         AnswersStayTrue, SettledIsTrue, Fresh, Unborn, NoView, NoCall

\* a new order takes an id nothing refers to
LEMMA PlaceSound ==
    ASSUME EngTypeOK, EngTypeOK', Sound, NEW t \in Tasks, NEW o \in OrderIds,
           NEW amt \in 0 .. Amount,
           PlaceSend(t, o, amt) \/ \E market \in BOOLEAN : PlaceDry(t, o, amt, market)
    PROVE  Sound'
<1> USE DEF EngTypeOK, Sound, Fresh, Idle, NoCall, PlaceSend, PlaceDry, Construct, Request
<1>1. /\ order[o].st = "unborn" /\ exch[o].st = "none" /\ o \notin orders
      /\ ~order[o].xid
      /\ \A u \in Tasks : call[u].op # "none" => call[u].o # o
  BY DEF ExchangeSound, IdsSound, CallsSound, OrdersExist, OrderType, CallType
<1>2. /\ order'[o].st # "unborn" /\ ~order'[o].xid
      /\ \A p \in OrderIds : p # o => order'[p] = order[p]
      /\ exch' = exch
  OBVIOUS
<1>3. ExchangeSound'
  BY <1>1, <1>2 DEF ExchangeSound
<1>4. IdsSound'
  BY <1>1, <1>2 DEF IdsSound
<1>5. CallsSound'
  BY <1>1, <1>2 DEF CallsSound, CallType
<1>6. OneCreation'
  BY <1>1 DEF OneCreation, CallType
<1>7. OrdersExist'
  BY <1>1, <1>2 DEF OrdersExist
<1>8. AnswersStayTrue'
  BY <1>2 DEF AnswersStayTrue, IsPast
<1>9. SettledIsTrue'
  BY <1>2 DEF SettledIsTrue
<1> QED
  BY <1>3, <1>4, <1>5, <1>6, <1>7, <1>8, <1>9

\* the answer to a creation makes the order known, and ends the creation
LEMMA PlaceReturnSound ==
    ASSUME EngTypeOK, EngTypeOK', Sound, NEW t \in Tasks, PlaceReturn(t)
    PROVE  Sound'
<1> DEFINE o == call[t].o
<1> USE DEF EngTypeOK, Sound, Fresh, NoCall, PlaceReturn, Answered
<1>1. /\ o \in OrderIds /\ ~DryRun /\ o \notin orders
      /\ order[o].st = "PENDING" /\ ~order[o].xid /\ order[o].filled = 0
      /\ exch[o].filled \in Nat
      /\ call[t].ans = "ok" => exch[o].st # "none"
      /\ \A u \in Tasks \ {t} : call[u].op # "none" => call[u].o # o
  BY EngAssumption DEF CallsSound, OneCreation, CallType, View
<1>2. /\ order'[o].st \in {"OPEN", "REJECTED"} /\ order'[o].filled = 0
      /\ order'[o].xid => order'[o].st = "OPEN" /\ call[t].ans = "ok"
      /\ ~order'[o].xid => order'[o].st = "REJECTED"
      /\ order'[o].amt = order[o].amt
      /\ \A p \in OrderIds : p # o => order'[p] = order[p]
      /\ exch' = exch
      /\ call'[t].op = "none" /\ \A u \in Tasks \ {t} : call'[u] = call[u]
      /\ orders' = orders \cup {o}
  BY <1>1 DEF OrderType
<1> HIDE DEF o, PlaceReturn
<1>3. ExchangeSound'
  BY <1>1, <1>2 DEF ExchangeSound
<1>4. IdsSound'
  BY <1>1, <1>2 DEF IdsSound
<1>5. CallsSound'
  BY <1>1, <1>2 DEF CallsSound, CallType
<1>6. OneCreation'
  BY <1>1, <1>2 DEF OneCreation, CallType
<1>7. OrdersExist'
  BY <1>1, <1>2 DEF OrdersExist
<1>8. AnswersStayTrue'
  BY <1>2 DEF AnswersStayTrue, IsPast
<1>9. SettledIsTrue'
  BY <1>1, <1>2 DEF SettledIsTrue
<1> QED
  BY <1>3, <1>4, <1>5, <1>6, <1>7, <1>8, <1>9

LEMMA CancelLocallySound ==
    ASSUME EngTypeOK, EngTypeOK', Sound, NEW t \in Tasks, NEW o \in OrderIds,
           CancelLocally(t, o)
    PROVE  Sound'
<1> USE DEF EngTypeOK, Sound, Fresh, CancelLocally, Cancellable
<1>1. o \in orders /\ ~order[o].xid /\ order[o].st # "unborn"
  BY DEF IdsSound, OrdersExist, OrderType
<1>2. /\ order'[o].st = "CANCELLED" /\ ~order'[o].xid /\ order'[o].amt = order[o].amt
      /\ \A p \in OrderIds : p # o => order'[p] = order[p]
      /\ UNCHANGED <<orders, exch, call>>
  BY <1>1 DEF OrderType
<1> HIDE DEF CancelLocally, Cancellable
<1>3. ExchangeSound' /\ IdsSound' /\ OrdersExist'
  BY <1>1, <1>2 DEF ExchangeSound, IdsSound, OrdersExist
<1>4. CallsSound' /\ OneCreation'
  BY <1>1, <1>2 DEF CallsSound, OneCreation, CallType, NoCall
<1>5. AnswersStayTrue' /\ SettledIsTrue'
  BY <1>1, <1>2 DEF AnswersStayTrue, SettledIsTrue, IsPast
<1> QED
  BY <1>3, <1>4, <1>5

LEMMA RequestSound ==
    ASSUME EngTypeOK, EngTypeOK', Sound, NEW t \in Tasks, NEW o \in OrderIds,
           NEW op \in {"cancel", "fetch"}, order[o].xid,
           call' = [call EXCEPT ![t] = Request(op, o)],
           UNCHANGED <<order, orders, exch>>
    PROVE  Sound'
<1> USE DEF EngTypeOK, Sound, Fresh
<1>1. /\ call'[t].op = op /\ call'[t].o = o /\ call'[t].ans = "wait"
      /\ \A u \in Tasks \ {t} : call'[u] = call[u]
  BY DEF Request
<1>2. ExchangeSound' /\ IdsSound' /\ OrdersExist' /\ SettledIsTrue'
  BY DEF ExchangeSound, IdsSound, OrdersExist, SettledIsTrue
<1>3. CallsSound' /\ OneCreation' /\ AnswersStayTrue'
  BY <1>1 DEF CallsSound, OneCreation, AnswersStayTrue, IsPast
<1> QED
  BY <1>2, <1>3

\* an answered cancellation or look-up is written into the order
LEMMA CancelReturnSound ==
    ASSUME EngTypeOK, EngTypeOK', Sound, NEW t \in Tasks, CancelReturn(t)
    PROVE  Sound'
<1> DEFINE o == call[t].o
<1> USE DEF EngTypeOK, Sound, Fresh, NoCall, CancelReturn, Answered
<1>1. o \in OrderIds /\ order[o].xid /\ (call[t].ans = "ok" => exch[o].st = "canceled")
  BY DEF CallsSound, CallType, AnswersStayTrue
<1>2. /\ order'[o].st = order[o].st \/ (order'[o].st = "CANCELLED" /\ exch[o].st = "canceled")
      /\ order'[o].xid /\ order'[o].filled = order[o].filled /\ order'[o].amt = order[o].amt
      /\ \A p \in OrderIds : p # o => order'[p] = order[p]
      /\ call'[t].op = "none" /\ \A u \in Tasks \ {t} : call'[u] = call[u]
      /\ UNCHANGED <<orders, exch>>
  BY <1>1 DEF OrderType
<1> HIDE DEF o, CancelReturn
<1>3. ExchangeSound' /\ IdsSound' /\ OrdersExist'
  BY <1>1, <1>2 DEF ExchangeSound, IdsSound, OrdersExist
<1>4. CallsSound' /\ OneCreation'
  BY <1>1, <1>2 DEF CallsSound, OneCreation, CallType
<1>5. AnswersStayTrue'
  BY <1>2 DEF AnswersStayTrue, IsPast
<1>6. SettledIsTrue'
  BY <1>1, <1>2 DEF SettledIsTrue
<1> QED
  BY <1>3, <1>4, <1>5, <1>6

LEMMA FetchReturnSound ==
    ASSUME EngTypeOK, EngTypeOK', Sound, NEW t \in Tasks, FetchReturn(t)
    PROVE  Sound'
<1> DEFINE o == call[t].o
           v == call[t].seen
<1> USE DEF EngTypeOK, Sound, Fresh, NoCall, FetchReturn, Answered
<1>1. o \in OrderIds /\ order[o].xid /\ (call[t].ans = "ok" => IsPast(o, v))
  BY DEF CallsSound, CallType, AnswersStayTrue
<1>2. /\ order'[o] = order[o] \/ (IsPast(o, v) /\ order'[o].filled = v.filled
                                 /\ order'[o].st = StatusMap(v.st))
      /\ order'[o].xid /\ order'[o].amt = order[o].amt
      /\ \A p \in OrderIds : p # o => order'[p] = order[p]
      /\ call'[t].op = "none" /\ \A u \in Tasks \ {t} : call'[u] = call[u]
      /\ UNCHANGED <<orders, exch>>
  BY <1>1 DEF OrderType, UpdateFromExchange
<1> HIDE DEF o, v, FetchReturn
<1>3. order'[o].st \notin {"unborn", "REJECTED"}
  BY <1>1, <1>2 DEF IdsSound, StatusMap
<1>4. ExchangeSound' /\ IdsSound' /\ OrdersExist'
  BY <1>1, <1>2, <1>3 DEF ExchangeSound, IdsSound, OrdersExist
<1>5. CallsSound' /\ OneCreation'
  BY <1>1, <1>2 DEF CallsSound, OneCreation, CallType
<1>6. AnswersStayTrue'
  BY <1>2 DEF AnswersStayTrue, IsPast
<1>7. SettledIsTrue'
  BY <1>1, <1>2 DEF SettledIsTrue, ExchangeSound, StatusMap, IsPast
<1> QED
  BY <1>4, <1>5, <1>6, <1>7

\* What the exchange does, for whatever reason: it opens an order that has no id
\* yet, or moves an open one on.
Forward(o) ==
    \/ exch'[o] = exch[o]
    \/ ~Fresh(o) /\ ~order[o].xid /\ exch'[o].st = "open"
    \/ /\ exch[o].st = "open" /\ exch'[o].st # "none"
       /\ exch[o].filled <= exch'[o].filled
       /\ exch'[o].st = "closed" => exch'[o].filled = order[o].amt

\* a call goes on, its own order untouched; is over; or is given a true answer
Truthful(t) ==
    \/ /\ call'[t] = call[t]
       /\ call[t].op = "create" /\ call[t].ans = "wait" =>
             exch'[call[t].o].st = exch[call[t].o].st
    \/ call'[t].op = "none"
    \/ /\ call'[t].op = call[t].op /\ call'[t].o = call[t].o
       /\ call[t].op = "create" =>
             /\ call'[t].ans # "wait"
             /\ call'[t].ans = "ok" => exch'[call[t].o].st # "none"
       /\ call[t].op = "cancel" /\ call'[t].ans = "ok" => exch'[call[t].o].st = "canceled"
       /\ call[t].op = "fetch" /\ call'[t].ans = "ok" => IsPast(call[t].o, call[t].seen)'

LEMMA ForwardSound ==
    ASSUME EngTypeOK, EngTypeOK', Sound,
           \A o \in OrderIds : Forward(o),
           \A t \in Tasks : Truthful(t),
           UNCHANGED <<order, orders>>
    PROVE  Sound'
<1> USE DEF EngTypeOK, Sound, Fresh
<1>1. \A t \in Tasks : call[t].op # "none" => call[t].o \in OrderIds
  BY DEF CallType, NoCall
<1>2. ExchangeSound'
  BY DEF Forward, ExchangeSound
<1>3. IdsSound' /\ OrdersExist'
  BY DEF IdsSound, OrdersExist, Forward
<1>4. CallsSound' /\ OneCreation'
  <2>1. OneCreation'
    BY DEF Truthful, OneCreation
  <2>2. SUFFICES ASSUME NEW t \in Tasks, call'[t].op # "none"
                 PROVE  /\ call'[t].op = "create" =>
                             /\ ~DryRun
                             /\ call'[t].o \notin orders
                             /\ order[call'[t].o].st = "PENDING"
                             /\ ~order[call'[t].o].xid /\ order[call'[t].o].filled = 0
                             /\ call'[t].ans = "wait" => exch'[call'[t].o].st = "none"
                             /\ call'[t].ans = "ok" => exch'[call'[t].o].st # "none"
                        /\ call'[t].op \in {"cancel", "fetch"} => order[call'[t].o].xid
    BY <2>1 DEF CallsSound
  <2>3. /\ call'[t].op = call[t].op /\ call'[t].o = call[t].o /\ call[t].o \in OrderIds
        /\ call'[t].ans \in {"wait", "ok", "err"}
    BY <1>1, <2>2 DEF Truthful, CallType, NoCall
  <2>4. exch[call[t].o].st # "none" => exch'[call[t].o].st # "none"
    BY <2>3 DEF Forward
  <2> QED
    BY <2>2, <2>3, <2>4 DEF Truthful, CallsSound
<1>5. \A o \in OrderIds : order[o].xid =>
         /\ exch[o].filled <= exch'[o].filled
         /\ exch[o].st # "open" => exch'[o] = exch[o]
  BY DEF Forward, View
<1>6. SettledIsTrue'
  <2> SUFFICES ASSUME NEW o \in OrderIds, order[o].xid
               PROVE  /\ order[o].st = "FILLED" =>
                           exch'[o].st = "closed" /\ exch'[o].filled = order[o].amt
                      /\ order[o].st = "CANCELLED" => exch'[o].st = "canceled"
                      /\ order[o].filled <= exch'[o].filled
    BY DEF SettledIsTrue
  <2>1. /\ exch[o].filled \in Nat /\ exch'[o].filled \in Nat /\ order[o].filled \in Nat
    BY DEF View, OrderType
  <2> QED
    BY <1>5, <2>1 DEF SettledIsTrue
<1>7. AnswersStayTrue'
  <2> SUFFICES ASSUME NEW t \in Tasks, call'[t].op \in {"cancel", "fetch"}, call'[t].ans = "ok"
               PROVE  /\ call'[t].op = "cancel" => exch'[call'[t].o].st = "canceled"
                      /\ call'[t].op = "fetch" => IsPast(call[t].o, call[t].seen)'
    BY DEF AnswersStayTrue
  <2>1. CASE call'[t] = call[t]
    <3> DEFINE o == call[t].o
    <3>1. o \in OrderIds /\ order[o].xid
      BY <1>1, <2>1 DEF CallsSound
    <3>2. call[t].op = "cancel" => exch[o].st = "canceled"
      BY <2>1 DEF AnswersStayTrue
    <3>3. call[t].op = "fetch" => IsPast(o, call[t].seen)
      BY <2>1 DEF AnswersStayTrue
    <3>4. exch[o].filled \in Nat /\ exch'[o].filled \in Nat /\ call[t].seen.filled \in Nat
      BY <2>1, <3>1 DEF View, CallType, NoCall
    <3> QED
      BY <1>5, <2>1, <3>1, <3>2, <3>3, <3>4 DEF IsPast
  <2>2. CASE call'[t] # call[t]
    BY <2>2 DEF Truthful
  <2> QED
    BY <2>1, <2>2
<1> QED
  BY <1>2, <1>3, <1>4, <1>6, <1>7

LEMMA ServeSound ==
    ASSUME EngTypeOK, EngTypeOK', Sound, NEW t \in Tasks, Serve(t)
    PROVE  Sound'
<1> USE DEF EngTypeOK, Sound, Fresh, Waiting, NoCall
<1>1. CASE ServeCreate(t)
  <2>1. call[t].o \in OrderIds /\ order[call[t].o].st = "PENDING" /\ ~order[call[t].o].xid
    BY <1>1 DEF ServeCreate, CallsSound, CallType
  <2>2. PICK accept \in BOOLEAN, ans \in {"ok", "err"} :
          /\ MayHappen(accept, ans, order[call[t].o].amt > 0)
          /\ exch' = IF accept THEN [exch EXCEPT ![call[t].o].st = "open"] ELSE exch
          /\ call' = [call EXCEPT ![t].ans = ans]
    BY <1>1 DEF ServeCreate
  <2>3. \A o \in OrderIds : Forward(o)
    BY <2>1, <2>2 DEF Forward, View
  <2>4. Truthful(t)
    <3>1. call'[t].op = "create" /\ call'[t].o = call[t].o /\ call'[t].ans = ans
      BY <1>1, <2>2 DEF ServeCreate, CallType
    <3>2. ans = "ok" => exch'[call[t].o].st = "open"
      BY <2>1, <2>2 DEF MayHappen, View
    <3> QED
      BY <1>1, <3>1, <3>2 DEF ServeCreate, Truthful
  <2>5. \A u \in Tasks \ {t} : Truthful(u)
    BY <1>1, <2>1, <2>2 DEF ServeCreate, OneCreation, Truthful
  <2> QED
    BY <1>1, <2>3, <2>4, <2>5, ForwardSound DEF ServeCreate
<1>2. CASE ServeCancel(t)
  <2>1. PICK done \in BOOLEAN, ans \in {"ok", "err"} :
          /\ MayHappen(done, ans, exch[call[t].o].st = "open")
          /\ exch' = IF done THEN [exch EXCEPT ![call[t].o].st = "canceled"] ELSE exch
          /\ call' = [call EXCEPT ![t].ans = ans]
    BY <1>2 DEF ServeCancel
  <2>2. call[t].op = "cancel" /\ call[t].o \in OrderIds
    BY <1>2 DEF ServeCancel, CallType
  <2>3. \A o \in OrderIds : Forward(o)
    BY <2>1, <2>2 DEF MayHappen, Forward, View
  <2>4. Truthful(t)
    <3>1. call'[t].op = "cancel" /\ call'[t].o = call[t].o /\ call'[t].ans = ans
      BY <2>1, <2>2 DEF CallType
    <3>2. ans = "ok" => exch'[call[t].o].st = "canceled"
      BY <2>1, <2>2 DEF MayHappen, View
    <3> QED
      BY <2>2, <3>1, <3>2 DEF Truthful
  <2>5. \A u \in Tasks \ {t} : Truthful(u)
    BY <2>1, <2>2 DEF CallsSound, Truthful
  <2> QED
    BY <1>2, <2>3, <2>4, <2>5, ForwardSound DEF ServeCancel
<1>3. CASE ServeFetch(t)
  <2>1. call[t].op = "fetch" /\ call[t].o \in OrderIds
    BY <1>3 DEF ServeFetch, CallType
  <2>2. PICK ans \in {"ok", "err"} :
          call' = [call EXCEPT ![t].ans = ans,
                               ![t].seen = IF ans = "ok" THEN exch[call[t].o] ELSE NoView]
    BY <1>3 DEF ServeFetch
  <2>3. exch' = exch /\ \A o \in OrderIds : Forward(o)
    BY <1>3 DEF ServeFetch, Forward
  <2>4. /\ call'[t].op = "fetch" /\ call'[t].o = call[t].o /\ call'[t].ans = ans
        /\ ans = "ok" => call'[t].seen = exch[call[t].o]
        /\ \A u \in Tasks \ {t} : call'[u] = call[u]
    <3>1. call[t] \in [op : {"create", "cancel", "fetch"}, o : OrderIds,
                       ans : {"wait", "ok", "err"}, seen : View]
      BY <2>1 DEF CallType
    <3> QED
      BY <2>1, <2>2, <3>1
  <2>5. ans = "ok" => IsPast(call[t].o, call[t].seen)'
    BY <2>1, <2>3, <2>4 DEF IsPast, View
  <2>6. \A u \in Tasks : Truthful(u)
    BY <2>1, <2>3, <2>4, <2>5 DEF Truthful
  <2> QED
    BY <1>3, <2>3, <2>6, ForwardSound DEF ServeFetch
<1> QED
  BY <1>1, <1>2, <1>3 DEF Serve

LEMMA AbortSound ==
    ASSUME EngTypeOK, EngTypeOK', Sound, NEW t \in Tasks, AbortEffect(call[t]),
           call' = [call EXCEPT ![t] = NoCall], UNCHANGED <<order, orders>>
    PROVE  Sound'
<1> USE DEF EngTypeOK, Sound, Fresh, NoCall
<1>1. call[t].op # "none" => call[t].o \in OrderIds
  BY DEF CallType
<1>2. call[t].op = "create" => order[call[t].o].st = "PENDING" /\ ~order[call[t].o].xid
  BY DEF CallsSound
<1>3. \A o \in OrderIds : Forward(o)
  BY <1>1, <1>2 DEF AbortEffect, Forward, View
<1>4. \A u \in Tasks : Truthful(u)
  <2>1. Truthful(t)
    BY DEF Truthful
  <2>2. \A u \in Tasks \ {t} : Truthful(u)
    <3>1. CASE exch' = exch
      BY <3>1 DEF Truthful
    <3>2. CASE call[t].op = "create" /\ exch' = [exch EXCEPT ![call[t].o].st = "open"]
      BY <1>1, <3>2 DEF OneCreation, Truthful
    <3>3. CASE call[t].op = "cancel" /\ exch' = [exch EXCEPT ![call[t].o].st = "canceled"]
      BY <1>1, <3>3 DEF CallsSound, Truthful
    <3> QED
      BY <3>1, <3>2, <3>3 DEF AbortEffect
  <2> QED
    BY <2>1, <2>2
<1> QED
  BY <1>3, <1>4, ForwardSound

LEMMA MarketSound ==
    ASSUME EngTypeOK, EngTypeOK', Sound, NEW o \in OrderIds,
           ExchangeFill(o) \/ ExchangeExpire(o)
    PROVE  Sound'
<1> USE DEF EngTypeOK, ExchangeFill, ExchangeExpire
<1>1. exch[o].filled \in Nat /\ exch[o].st = "open"
  BY DEF View
<1>2. \A p \in OrderIds : Forward(p)
  BY <1>1 DEF Forward, View
<1>3. \A u \in Tasks : call[u].op = "create" /\ call[u].ans = "wait" =>
        call[u].o \in OrderIds \ {o}
  BY <1>1 DEF Sound, CallsSound, CallType, NoCall
<1>4. \A u \in Tasks : Truthful(u)
  BY <1>3 DEF Truthful
<1> QED
  BY <1>2, <1>4, ForwardSound

LEMMA SoundStep == EngIInv /\ [EngNext]_engVars => EngIInv'
<1> SUFFICES ASSUME EngIInv, [EngNext]_engVars PROVE EngIInv'
  OBVIOUS
<1> USE EngAssumption
<1>1. EngTypeOK /\ EngTypeOK' /\ Sound
  BY TypeStep DEF EngIInv
<1> SUFFICES Sound'
  BY <1>1 DEF EngIInv
<1>2. ASSUME NEW t \in Tasks, ClientStep(t) PROVE Sound'
  <2>1. ASSUME NEW o \in OrderIds, NEW amt \in 0 .. Amount,
               PlaceSend(t, o, amt) \/ \E market \in BOOLEAN : PlaceDry(t, o, amt, market)
        PROVE  Sound'
    BY <1>1, <2>1, PlaceSound
  <2>2. ASSUME NEW o \in OrderIds, CancelLocally(t, o) PROVE Sound'
    BY <1>1, <2>2, CancelLocallySound
  <2>3. ASSUME NEW o \in OrderIds, CancelSend(t, o) PROVE Sound'
    <3>1. /\ order[o].xid /\ call' = [call EXCEPT ![t] = Request("cancel", o)]
          /\ UNCHANGED <<order, orders, exch>>
      BY <2>3 DEF CancelSend
    <3> QED
      BY <1>1, <3>1, RequestSound
  <2>4. ASSUME NEW o \in OrderIds, FetchSend(t, o) PROVE Sound'
    <3>1. /\ order[o].xid /\ call' = [call EXCEPT ![t] = Request("fetch", o)]
          /\ UNCHANGED <<order, orders, exch>>
      BY <2>4 DEF FetchSend, NeedsFetch
    <3> QED
      BY <1>1, <3>1, RequestSound
  <2>5. CASE PlaceReturn(t)
    BY <1>1, <2>5, PlaceReturnSound
  <2>6. CASE CancelReturn(t)
    BY <1>1, <2>6, CancelReturnSound
  <2>7. CASE FetchReturn(t)
    BY <1>1, <2>7, FetchReturnSound
  <2>8. CASE Abort(t)
    BY <1>1, <2>8, AbortSound DEF Abort
  <2> QED
    BY <1>2, <2>1, <2>2, <2>3, <2>4, <2>5, <2>6, <2>7, <2>8 DEF ClientStep, Place
<1>3. ASSUME UNCHANGED <<order, orders, exch, call>> PROVE Sound'
  BY <1>1, <1>3
  DEF Sound, ExchangeSound, IdsSound, CallsSound, OneCreation, OrdersExist,
      AnswersStayTrue, SettledIsTrue, IsPast, Fresh
<1>4. CASE EngStop
  BY <1>1, <1>4, AbortSound DEF EngStop
<1>5. CASE MonitorNext
  <2>1. PICK o \in scan : call' = IF NeedsFetch(o)
                                    THEN [call EXCEPT ![Monitor] = Request("fetch", o)] ELSE call
    BY <1>5 DEF MonitorNext
  <2>2. o \in OrderIds /\ UNCHANGED <<order, orders, exch>>
    BY <1>1, <1>5 DEF MonitorNext, EngTypeOK
  <2>3. CASE NeedsFetch(o)
    BY <1>1, <2>1, <2>2, <2>3, RequestSound DEF NeedsFetch
  <2>4. CASE ~NeedsFetch(o)
    BY <1>3, <2>1, <2>2, <2>4
  <2> QED
    BY <2>3, <2>4
<1>6. CASE MonitorReturn
  BY <1>1, <1>6, FetchReturnSound DEF MonitorReturn
<1>7. CASE Exchange
  BY <1>1, <1>7, ServeSound, MarketSound DEF Exchange
<1>8. CASE EngStart \/ MonitorList \/ UNCHANGED engVars
  BY <1>3, <1>8 DEF EngStart, MonitorList, engVars
<1> QED
  BY <1>2, <1>4, <1>5, <1>6, <1>7, <1>8 DEF EngNext, MonitorStep, Clients

LEMMA EngInvariant == EngSpec => []EngIInv
<1>1. EngInit => EngIInv
  BY TypeInit, SoundInit DEF EngIInv
<1> QED
  BY <1>1, SoundStep, PTL DEF EngSpec

-----------------------------------------------------------------------------
(* What follows from the invariant. *)

\* What the engine takes for final is final at the exchange, whatever answers
\* come late, are lost or refused.
THEOREM EngSettled == EngSpec => []SettledIsTrue
<1>1. EngIInv => SettledIsTrue
  BY DEF EngIInv, Sound
<1> QED
  BY <1>1, EngInvariant, PTL

\* What a task was told stays true until it acts upon it.
THEOREM EngAnswers == EngSpec => []AnswersStayTrue
<1>1. EngIInv => AnswersStayTrue
  BY DEF EngIInv, Sound
<1> QED
  BY <1>1, EngInvariant, PTL

\* No live order with a known id is hidden from get_open_orders.
THEOREM EngListed == EngSpec => []LiveIsListed
<1>1. EngIInv => LiveIsListed
  <2> SUFFICES ASSUME EngIInv, NEW o \in orders, order[o].xid, exch[o].st = "open"
               PROVE  o \in OpenOrders
    BY DEF LiveIsListed
  <2>1. o \in OrderIds /\ order[o].st \in LocalStatus
    BY DEF EngIInv, EngTypeOK, OrderType
  <2>2. order[o].st \notin {"unborn", "REJECTED"}
    BY <2>1 DEF EngIInv, Sound, IdsSound
  <2>3. order[o].st \notin {"FILLED", "CANCELLED"}
    BY <2>1 DEF EngIInv, Sound, SettledIsTrue
  <2> QED
    BY <2>1, <2>2, <2>3 DEF OpenOrders, OpenStatus, LocalStatus
<1> QED
  BY <1>1, EngInvariant, PTL

\* In the dry run the trade history and the order store agree.
THEOREM EngTradesMatch == EngSpec => []TradesMatchFills
<1>1. EngInit => TradesMatchFills
  BY DEF EngInit, TradesMatchFills
<1>2. EngIInv /\ TradesMatchFills /\ [EngNext]_engVars => TradesMatchFills'
  <2> SUFFICES ASSUME EngIInv, TradesMatchFills, [EngNext]_engVars
               PROVE  TradesMatchFills'
    OBVIOUS
  <2>0. order \in [OrderIds -> OrderType] /\ orders \subseteq OrderIds
    BY DEF EngIInv, EngTypeOK
  \* one order changes, and neither counts as a simulated fill before or after
  <2>1. ASSUME NEW o \in OrderIds, UNCHANGED trades,
               \A p \in OrderIds \ {o} : order'[p] = order[p],
               orders' = orders \/ orders' = orders \cup {o},
               o \in orders => order[o].st # "FILLED" \/ order[o].xid,
               order'[o].st # "FILLED" \/ order'[o].xid
        PROVE  TradesMatchFills'
    BY <2>0, <2>1 DEF TradesMatchFills
  <2>2. ASSUME UNCHANGED <<order, orders, trades>> PROVE TradesMatchFills'
    BY <2>2 DEF TradesMatchFills
  <2>3. ASSUME NEW t \in Tasks, NEW o \in OrderIds, NEW amt \in 0 .. Amount,
               NEW market \in BOOLEAN, PlaceDry(t, o, amt, market)
        PROVE  TradesMatchFills'
    <3>1. orders \subseteq OrderIds \ {o}
      BY <2>3 DEF EngIInv, EngTypeOK, PlaceDry, Sound, OrdersExist
    <3>2. /\ order'[o].st = IF market THEN "FILLED" ELSE "OPEN"
          /\ ~order'[o].xid
          /\ \A p \in OrderIds \ {o} : order'[p] = order[p]
          /\ orders' = orders \cup {o}
          /\ trades' = IF market THEN trades \cup {o} ELSE trades
      BY <2>0, <2>3 DEF PlaceDry, Construct
    <3> QED
      BY <3>1, <3>2 DEF TradesMatchFills
  <2>4. ASSUME NEW t \in Tasks, NEW o \in OrderIds, NEW amt \in 0 .. Amount,
               PlaceSend(t, o, amt)
        PROVE  TradesMatchFills'
    <3>1. /\ o \notin orders
          /\ order'[o].st = "PENDING" /\ UNCHANGED <<orders, trades>>
          /\ \A p \in OrderIds \ {o} : order'[p] = order[p]
      BY <2>0, <2>4 DEF PlaceSend, Construct, EngIInv, Sound, OrdersExist
    <3> QED
      BY <2>1, <3>1
  <2>5. ASSUME NEW t \in Tasks, PlaceReturn(t) PROVE TradesMatchFills'
    <3> DEFINE o == call[t].o
    <3>1. o \in OrderIds /\ o \notin orders
      BY <2>5 DEF PlaceReturn, Answered, EngIInv, EngTypeOK, CallType, NoCall, Sound, CallsSound
    <3>2. /\ order'[o].st \in {"OPEN", "REJECTED"}
          /\ UNCHANGED trades /\ orders' = orders \cup {o}
          /\ \A p \in OrderIds \ {o} : order'[p] = order[p]
      BY <2>0, <2>5, <3>1 DEF PlaceReturn, OrderType
    <3> HIDE DEF o
    <3> QED
      BY <2>1, <3>1, <3>2
  <2>6. ASSUME NEW t \in Tasks, NEW o \in OrderIds, CancelLocally(t, o)
        PROVE  TradesMatchFills'
    <3>1. /\ order[o].st # "FILLED" /\ order'[o].st = "CANCELLED"
          /\ UNCHANGED <<orders, trades>>
          /\ \A p \in OrderIds \ {o} : order'[p] = order[p]
      BY <2>0, <2>6 DEF CancelLocally, Cancellable, OrderType
    <3> QED
      BY <2>1, <3>1
  <2>7. ASSUME NEW t \in Tasks, CancelReturn(t) \/ FetchReturn(t) PROVE TradesMatchFills'
    <3> DEFINE o == call[t].o
    <3>1. o \in OrderIds /\ order[o].xid
      BY <2>7 DEF CancelReturn, FetchReturn, Answered, EngIInv, EngTypeOK, CallType, NoCall,
                  Sound, CallsSound
    <3>2. /\ order'[o].xid = order[o].xid /\ UNCHANGED <<orders, trades>>
          /\ \A p \in OrderIds \ {o} : order'[p] = order[p]
      <4>1. order[o] \in OrderType
        BY <2>0, <3>1
      <4>2. CASE CancelReturn(t)
        BY <2>0, <3>1, <4>1, <4>2 DEF CancelReturn, OrderType
      <4>3. CASE FetchReturn(t)
        BY <2>0, <3>1, <4>1, <4>3 DEF FetchReturn, UpdateFromExchange, OrderType
      <4> QED
        BY <2>7, <4>2, <4>3
    <3> HIDE DEF o
    <3> QED
      BY <2>1, <3>1, <3>2
  <2> QED
    BY <2>2, <2>3, <2>4, <2>5, <2>6, <2>7, EngAssumption
    DEF EngNext, ClientStep, Place, Clients, EngStart, EngStop, MonitorStep, MonitorList, MonitorNext,
        MonitorReturn, Exchange, Serve, ServeCreate, ServeCancel, ServeFetch, ExchangeFill,
        ExchangeExpire, CancelSend, FetchSend, Abort, engVars
<1> QED
  BY <1>1, <1>2, EngInvariant, PTL DEF EngSpec

-----------------------------------------------------------------------------
(* Real trading implements OrderView. *)

ViewStep == [Promise!ViewNext]_(Promise!viewVars)

\* the exchange moves one order on
LEMMA TruthMoves ==
    ASSUME EngTypeOK, EngTypeOK', NEW o \in OrderIds,
           UNCHANGED order, \A p \in OrderIds \ {o} : exch'[p] = exch[p],
           \/ exch'[o].st = exch[o].st
           \/ exch[o].st = "none" /\ exch'[o].st = "open"
           \/ exch[o].st = "open" /\ exch'[o].st \in {"closed", "canceled", "expired"}
    PROVE  ViewStep
<1> DEFINE T == [p \in OrderIds |-> exch[p].st]
           V == [p \in OrderIds |-> IF Fresh(p) THEN "none" ELSE order[p].st]
<1>1. V' = V
  BY DEF Fresh
<1>2. T' = [T EXCEPT ![o] = exch'[o].st]
  OBVIOUS
<1>3. CASE exch'[o].st = exch[o].st
  <2>1. T' = T
    BY <1>3
  <2> QED
    BY <1>1, <2>1 DEF ViewStep, Promise!viewVars
<1>4. CASE exch'[o].st # exch[o].st
  <2>1. Promise!Advance(o)
    BY <1>1, <1>2, <1>4 DEF Promise!Advance
  <2> QED
    BY <2>1 DEF ViewStep, Promise!ViewNext
<1> QED
  BY <1>3, <1>4

\* the engine changes the status of one order
LEMMA ViewMoves ==
    ASSUME EngTypeOK, EngTypeOK', NEW o \in OrderIds,
           UNCHANGED exch, \A p \in OrderIds \ {o} : order'[p] = order[p],
           \/ order'[o].st = order[o].st
           \/ Fresh(o) /\ exch[o].st = "none" /\ order'[o].st = "PENDING"
           \/ ~Fresh(o) /\ order[o].st # "REJECTED" /\ order'[o].st \in Promise!Shown(exch[o].st)
           \/ order[o].st = "PENDING" /\ order'[o].st = "REJECTED"
           \/ order[o].st = "REJECTED" /\ order'[o].st = "CANCELLED"
    PROVE  ViewStep
<1> DEFINE T == [p \in OrderIds |-> exch[p].st]
           V == [p \in OrderIds |-> IF Fresh(p) THEN "none" ELSE order[p].st]
<1>1. T' = T
  OBVIOUS
<1>2. V' = [V EXCEPT ![o] = IF Fresh(o)' THEN "none" ELSE order'[o].st]
  BY DEF Fresh
<1>3. CASE order'[o].st = order[o].st
  <2>1. V' = V
    BY <1>2, <1>3 DEF Fresh
  <2> QED
    BY <1>1, <2>1 DEF ViewStep, Promise!viewVars
<1>4. CASE Fresh(o) /\ exch[o].st = "none" /\ order'[o].st = "PENDING"
  <2>1. Promise!Submit(o)
    BY <1>1, <1>2, <1>4 DEF Promise!Submit, Fresh
  <2> QED
    BY <2>1 DEF ViewStep, Promise!ViewNext
<1>5. CASE ~Fresh(o) /\ order[o].st # "REJECTED" /\ order'[o].st \in Promise!Shown(exch[o].st)
  <2>1. order[o].st \in LocalStatus /\ order'[o].st # "unborn"
    BY <1>5 DEF EngTypeOK, OrderType, Promise!Shown
  <2>2. Promise!Observe(o)
    BY <1>1, <1>2, <1>5, <2>1 DEF Promise!Observe, Promise!Views, LocalStatus, Fresh
  <2> QED
    BY <2>2 DEF ViewStep, Promise!ViewNext
<1>6. CASE \/ order[o].st = "PENDING" /\ order'[o].st = "REJECTED"
           \/ order[o].st = "REJECTED" /\ order'[o].st = "CANCELLED"
  <2>1. Promise!GiveUp(o)
    BY <1>1, <1>2, <1>6 DEF Promise!GiveUp, Fresh
  <2> QED
    BY <2>1 DEF ViewStep, Promise!ViewNext
<1> QED
  BY <1>3, <1>4, <1>5, <1>6

LEMMA StepImplements ==
    ASSUME ~DryRun, EngIInv, EngIInv', [EngNext]_engVars
    PROVE  ViewStep
<1> USE EngAssumption DEF EngIInv
<1>1. ASSUME UNCHANGED <<order, exch>> PROVE ViewStep
  BY <1>1 DEF ViewStep, Promise!viewVars, Fresh
<1>2. ASSUME NEW t \in Tasks, AbortEffect(call[t]), UNCHANGED order PROVE ViewStep
  <2>1. CASE exch' = exch
    BY <1>1, <1>2, <2>1
  <2>2. CASE exch' # exch
    <3>1. /\ call[t].o \in OrderIds
          /\ call[t].op = "create" /\ call[t].ans = "wait" => exch[call[t].o].st = "none"
      BY <1>2, <2>2 DEF AbortEffect, EngTypeOK, CallType, NoCall, Sound, CallsSound
    <3> QED
      BY <1>2, <2>2, <3>1, TruthMoves DEF AbortEffect, EngTypeOK, View
  <2> QED
    BY <2>1, <2>2
<1>3. ASSUME NEW t \in Tasks, FetchReturn(t) PROVE ViewStep
  <2> DEFINE o == call[t].o
             v == call[t].seen
  <2>1. o \in OrderIds /\ v \in View
    BY <1>3 DEF FetchReturn, Answered, EngTypeOK, CallType, NoCall
  <2>2. order[o].xid /\ exch[o].st # "none" /\ order[o].st \notin {"unborn", "REJECTED"}
    BY <1>3, <2>1 DEF FetchReturn, Answered, Sound, CallsSound, IdsSound
  <2>3. CASE call[t].ans = "ok"
    <3>1. v.st = "open" \/ exch[o].st = v.st
      BY <1>3, <2>3 DEF FetchReturn, Answered, Sound, AnswersStayTrue, IsPast
    <3>2. exch[o].st \in ExchStatus
      BY <2>1 DEF EngTypeOK, View
    <3>3. StatusMap(v.st) \in Promise!Shown(exch[o].st)
      BY <2>2, <3>1, <3>2 DEF StatusMap, Promise!Shown, ExchStatus
    <3>4. /\ order'[o].st = StatusMap(v.st) /\ exch' = exch
          /\ \A p \in OrderIds \ {o} : order'[p] = order[p]
      BY <1>3, <2>1, <2>3 DEF FetchReturn, UpdateFromExchange, EngTypeOK, OrderType
    <3> HIDE DEF o, v
    <3> QED
      BY <2>1, <2>2, <3>3, <3>4, ViewMoves DEF Fresh
  <2>4. CASE call[t].ans # "ok"
    BY <1>1, <1>3, <2>4 DEF FetchReturn
  <2> QED
    BY <2>3, <2>4
<1>4. ASSUME NEW t \in Tasks, ClientStep(t) PROVE ViewStep
  <2>1. ASSUME NEW o \in OrderIds, NEW amt \in 0 .. Amount, PlaceSend(t, o, amt) PROVE ViewStep
    <3>1. exch[o].st = "none"
      BY <2>1 DEF PlaceSend, Sound, ExchangeSound
    <3> QED
      BY <2>1, <3>1, ViewMoves DEF PlaceSend, Construct, EngTypeOK
  <2>2. ASSUME NEW o \in OrderIds, CancelLocally(t, o) PROVE ViewStep
    <3>1. order[o].st = "REJECTED"
      BY <2>2 DEF CancelLocally, Cancellable, Sound, IdsSound
    <3> QED
      BY <2>2, <3>1, ViewMoves DEF CancelLocally, EngTypeOK, OrderType
  <2>3. CASE PlaceReturn(t)
    <3> DEFINE o == call[t].o
    <3>1. /\ o \in OrderIds /\ order[o].st = "PENDING"
          /\ call[t].ans = "ok" => exch[o].st # "none"
      BY <2>3 DEF PlaceReturn, Answered, EngTypeOK, CallType, NoCall, Sound, CallsSound
    <3>2. exch[o].st # "none" => "OPEN" \in Promise!Shown(exch[o].st)
      BY <3>1 DEF Promise!Shown, EngTypeOK, View, ExchStatus
    <3>3. /\ order'[o].st = IF call[t].ans = "ok" THEN "OPEN" ELSE "REJECTED"
          /\ exch' = exch /\ \A p \in OrderIds \ {o} : order'[p] = order[p]
      BY <2>3, <3>1 DEF PlaceReturn, EngTypeOK, OrderType
    <3> HIDE DEF o
    <3> QED
      BY <3>1, <3>2, <3>3, ViewMoves DEF Fresh
  <2>4. CASE CancelReturn(t)
    <3> DEFINE o == call[t].o
    <3>1. /\ o \in OrderIds /\ order[o].st \notin {"unborn", "REJECTED"}
          /\ call[t].ans = "ok" => exch[o].st = "canceled"
      BY <2>4 DEF CancelReturn, Answered, EngTypeOK, CallType, NoCall, Sound, CallsSound,
                  IdsSound, AnswersStayTrue
    <3>2. "CANCELLED" \in Promise!Shown("canceled")
      BY DEF Promise!Shown
    <3>3. /\ order'[o].st = IF call[t].ans = "ok" THEN "CANCELLED" ELSE order[o].st
          /\ exch' = exch /\ \A p \in OrderIds \ {o} : order'[p] = order[p]
      BY <2>4, <3>1 DEF CancelReturn, EngTypeOK, OrderType
    <3> HIDE DEF o
    <3> QED
      BY <3>1, <3>2, <3>3, ViewMoves DEF Fresh
  <2>5. ASSUME NEW o \in OrderIds, CancelSend(t, o) \/ FetchSend(t, o) PROVE ViewStep
    BY <1>1, <2>5 DEF CancelSend, FetchSend
  <2>6. CASE Abort(t)
    BY <1>2, <2>6 DEF Abort
  <2> QED
    BY <1>3, <1>4, <2>1, <2>2, <2>3, <2>4, <2>5, <2>6 DEF ClientStep, Place, PlaceDry
<1>5. ASSUME NEW t \in Tasks, Serve(t) PROVE ViewStep
  <2>1. call[t].o \in OrderIds /\ exch[call[t].o] \in View /\ UNCHANGED order
    BY <1>5 DEF Serve, ServeCreate, ServeCancel, ServeFetch, Waiting, EngTypeOK, CallType, NoCall
  <2>2. CASE ServeCreate(t)
    <3>1. exch[call[t].o].st = "none"
      BY <2>2 DEF ServeCreate, Waiting, Sound, CallsSound
    <3> QED
      BY <2>1, <2>2, <3>1, TruthMoves DEF ServeCreate, EngTypeOK, View
  <2>3. CASE ServeCancel(t)
    BY <2>1, <2>3, TruthMoves DEF ServeCancel, MayHappen, EngTypeOK, View
  <2>4. CASE ServeFetch(t)
    BY <1>1, <2>4 DEF ServeFetch
  <2> QED
    BY <1>5, <2>2, <2>3, <2>4 DEF Serve
<1>6. ASSUME NEW o \in OrderIds, ExchangeFill(o) \/ ExchangeExpire(o) PROVE ViewStep
  BY <1>6, TruthMoves DEF ExchangeFill, ExchangeExpire, EngTypeOK, View
<1>7. CASE EngStop
  BY <1>2, <1>7 DEF EngStop
<1>8. CASE MonitorReturn
  BY <1>3, <1>8 DEF MonitorReturn
<1>9. CASE EngStart \/ MonitorList \/ MonitorNext \/ UNCHANGED engVars
  BY <1>1, <1>9 DEF EngStart, MonitorList, MonitorNext, engVars
<1> QED
  BY <1>4, <1>5, <1>6, <1>7, <1>8, <1>9 DEF EngNext, MonitorStep, Exchange, Clients

\* In real trading the status the engine shows for an order is one the order has
\* or had: get_order_status and the monitor never run ahead of the exchange.
THEOREM EngImplementsView ==
    ASSUME ~DryRun
    PROVE  EngSpec => ViewIsPromised
<1>1. EngInit => Promise!ViewInit
  BY DEF EngInit, Promise!ViewInit, Fresh, Unborn, NoView
<1>2. EngIInv /\ EngIInv' /\ [EngNext]_engVars => [Promise!ViewNext]_(Promise!viewVars)
  BY StepImplements DEF ViewStep
<1> QED
  BY <1>1, <1>2, EngInvariant, PTL DEF EngSpec, ViewIsPromised, Promise!ViewSpec

-----------------------------------------------------------------------------
(* The inductive invariant *)

Opening == {"openPlace", "openSleep", "openFetch"}
Closing == {"closePlace", "closeSleep", "closeFetch"}

\* An order that is filled for good, simulated or at the exchange.
Done(o) ==
    /\ ~Fresh(o)
    /\ IF DryRun THEN order[o].st = "FILLED" /\ ~order[o].xid
                 ELSE order[o].xid /\ exch[o].st = "closed"

\* An order the engine calls FILLED is filled for its whole amount, and so is
\* one a look-up reports as closed; in real trading it has an exchange id.
FilledSound ==
    /\ \A o \in OrderIds : order[o].st = "FILLED" =>
          order[o].filled = order[o].amt /\ (DryRun \/ order[o].xid)
    /\ \A t \in Tasks :
          call[t].op = "fetch" /\ call[t].ans = "ok" /\ call[t].seen.st = "closed" =>
              call[t].seen.filled = order[call[t].o].amt

\* A coroutine that opens has an order of its own, which no position stands for
\* yet; one that closes has an order for the amount of the position, as long as
\* nobody else has closed it.
CoSound ==
    /\ \A t \in Tasks : co[t].at \in Opening =>
          /\ co[t].o \in OrderIds /\ co[t].sym \in Symbols
          /\ ~Fresh(co[t].o) /\ pos[co[t].o].side = "unborn"
    /\ \A t \in Tasks : co[t].at \in Closing =>
          /\ co[t].o \in OrderIds /\ co[t].p \in OrderIds
          /\ ~Fresh(co[t].o) /\ closes[co[t].o] = co[t].p
          /\ pos[co[t].p].side # "unborn"
          /\ pos[co[t].p].side = "HELD" => order[co[t].o].amt = order[co[t].p].amt
    /\ \A t, u \in Tasks :
          co[t].at \in Opening /\ co[u].at \in Opening /\ co[t].o = co[u].o => t = u

\* What the book holds was bought, and what it gave up was sold.
BookSound ==
    \A p \in OrderIds :
        /\ pos[p].side # "unborn" => Done(p)
        /\ pos[p].side = "HELD" => pos[p].amt = order[p].amt
        /\ pos[p].side = "NONE" =>
              \E c \in OrderIds : closes[c] = p /\ Done(c) /\ order[c].amt = order[p].amt

PmSound == FilledSound /\ CoSound /\ BookSound

PmIInv == PmTypeOK /\ Sound /\ PmSound

-----------------------------------------------------------------------------
(* The engine below makes the steps of an engine on its own. *)

LEMMA PmTaskStep ==
    ASSUME PmTypeOK, NEW t \in Clients, PmOpen(t) \/ PmClose(t) \/ PmAbort(t)
    PROVE  ClientStep(t) \/ UNCHANGED engVars
<1> USE EngAssumption
<1>1. CASE PmOpen(t)
  <2>1. Amount \in 0 .. Amount
    OBVIOUS
  <2>2. ASSUME NEW s \in Symbols, NEW o \in OrderIds, OpenCall(t, s, Amount, o)
        PROVE  ClientStep(t)
    BY <2>1, <2>2 DEF OpenCall, ClientStep, Place, PlaceSend
  <2>3. ASSUME NEW s \in Symbols, NEW o \in OrderIds, NEW market \in BOOLEAN,
               OpenDry(t, s, Amount, o, market)
        PROVE  ClientStep(t)
    BY <2>1, <2>3 DEF OpenDry, ClientStep, Place, PlaceDry
  <2>4. CASE OpenPlaced(t)
    BY <2>4 DEF OpenPlaced, ClientStep
  <2>5. CASE OpenWake(t)
    <3>1. NeedsFetch(co[t].o) => co[t].o \in OrderIds
      BY DEF NeedsFetch, PmTypeOK, EngTypeOK
    <3> QED
      BY <2>5, <3>1 DEF OpenWake, ClientStep
  <2>6. CASE OpenFetched(t)
    BY <2>6 DEF OpenFetched, ClientStep
  <2> QED
    BY <1>1, <2>2, <2>3, <2>4, <2>5, <2>6 DEF PmOpen
<1>2. CASE PmClose(t)
  <2>1. ASSUME NEW p \in OrderIds PROVE pos[p].amt \in 0 .. Amount
    BY DEF PmTypeOK, PosType
  <2>2. ASSUME NEW p \in OrderIds, NEW o \in OrderIds, CloseCall(t, p, o)
        PROVE  ClientStep(t)
    BY <2>1, <2>2 DEF CloseCall, ClientStep, Place, PlaceSend
  <2>3. ASSUME NEW p \in OrderIds, NEW o \in OrderIds, NEW market \in BOOLEAN,
               CloseDry(t, p, o, market)
        PROVE  ClientStep(t)
    BY <2>1, <2>3 DEF CloseDry, ClientStep, Place, PlaceDry
  <2>4. CASE ClosePlaced(t)
    BY <2>4 DEF ClosePlaced, ClientStep
  <2>5. CASE CloseWake(t)
    <3>1. NeedsFetch(co[t].o) => co[t].o \in OrderIds
      BY DEF NeedsFetch, PmTypeOK, EngTypeOK
    <3> QED
      BY <2>5, <3>1 DEF CloseWake, ClientStep
  <2>6. CASE CloseFetched(t)
    BY <2>6 DEF CloseFetched, ClientStep
  <2> QED
    BY <1>2, <2>2, <2>3, <2>4, <2>5, <2>6 DEF PmClose
<1>3. CASE PmAbort(t)
  BY <1>3 DEF PmAbort, ClientStep
<1> QED
  BY <1>1, <1>2, <1>3

LEMMA PmEngineStep ==
    ASSUME PmTypeOK, [PmNext]_allVars
    PROVE  [EngNext]_engVars
<1>1. ASSUME NEW t \in Clients, PmOpen(t) \/ PmClose(t) \/ PmAbort(t) PROVE [EngNext]_engVars
  BY <1>1, PmTaskStep DEF EngNext
<1>2. ASSUME NEW t \in Clients, CancelStep(t) PROVE [EngNext]_engVars
  BY <1>2 DEF CancelStep, ClientStep, EngNext
<1>3. CASE EngineAlone
  BY <1>3 DEF EngineAlone, EngNext
<1>4. CASE UNCHANGED allVars
  BY <1>4 DEF allVars
<1> QED
  BY <1>1, <1>2, <1>3, <1>4 DEF PmNext

-----------------------------------------------------------------------------
(* What every step of the engine leaves alone *)

\* an order keeps its amount, and one that is filled stays filled
EngKept ==
    \A o \in OrderIds : ~Fresh(o) =>
        /\ ~Fresh(o)' /\ order'[o].amt = order[o].amt
        /\ Done(o) => Done(o)'

LEMMA EngKeeps ==
    ASSUME EngIInv, EngIInv', FilledSound, [EngNext]_engVars
    PROVE  FilledSound' /\ EngKept
<1> USE EngAssumption
<1>0. /\ order \in [OrderIds -> OrderType] /\ exch \in [OrderIds -> View]
      /\ call \in [Tasks -> CallType] /\ orders \subseteq OrderIds
  BY DEF EngIInv, EngTypeOK
\* nothing but the exchange's answers and requests change
<1>1. ASSUME UNCHANGED order,
             \A o \in OrderIds : exch[o].st = "closed" => exch'[o].st = "closed",
             \A t \in Tasks : \/ call'[t] = call[t] \/ call'[t].ans # "ok" \/ call'[t].op # "fetch"
                              \/ call'[t].o \in OrderIds /\ call'[t].seen = exch[call'[t].o]
      PROVE  FilledSound' /\ EngKept
  <2>1. \A o \in OrderIds : exch[o].st = "closed" => exch[o].filled = order[o].amt
    BY DEF EngIInv, Sound, ExchangeSound
  <2>2. FilledSound'
    BY <1>1, <2>1 DEF FilledSound
  <2>3. EngKept
    BY <1>1 DEF EngKept, Fresh, Done
  <2> QED
    BY <2>2, <2>3
\* one order changes, and no other
<1>2. ASSUME NEW o \in OrderIds, UNCHANGED exch,
             \A p \in OrderIds \ {o} : order'[p] = order[p],
             Fresh(o) \/ (order'[o].st # "unborn" /\ order'[o].amt = order[o].amt),
             order'[o].st = "FILLED" => order'[o].filled = order'[o].amt /\ (DryRun \/ order'[o].xid),
             Done(o) => Done(o)',
             \A t \in Tasks : \/ call'[t] = call[t] \/ call'[t].op # "fetch"
                              \/ call'[t].ans # "ok",
             \A t \in Tasks : call[t].op = "fetch" => ~Fresh(call[t].o)
      PROVE  FilledSound' /\ EngKept
  <2>1. FilledSound'
    <3>1. \A p \in OrderIds : order'[p].st = "FILLED" =>
             order'[p].filled = order'[p].amt /\ (DryRun \/ order'[p].xid)
      BY <1>2 DEF FilledSound
    <3>2. ASSUME NEW t \in Tasks, call'[t].op = "fetch", call'[t].ans = "ok",
                 call'[t].seen.st = "closed"
          PROVE  call'[t].seen.filled = order'[call'[t].o].amt
      <4>1. call'[t] = call[t] /\ call[t].o \in OrderIds
        BY <1>0, <1>2, <3>2 DEF CallType, NoCall
      <4>2. order'[call[t].o].amt = order[call[t].o].amt
        BY <1>2, <3>2, <4>1
      <4> QED
        BY <3>2, <4>1, <4>2 DEF FilledSound
    <3> QED
      BY <3>1, <3>2 DEF FilledSound
  <2>2. EngKept
    BY <1>2 DEF EngKept, Fresh, Done
  <2> QED
    BY <2>1, <2>2
<1>3. \A t \in Tasks : call[t].op = "fetch" => call[t].o \in OrderIds /\ order[call[t].o].xid
                                              /\ ~Fresh(call[t].o)
  BY <1>0 DEF EngIInv, Sound, CallsSound, IdsSound, Fresh, CallType, NoCall
<1>4. ASSUME NEW t \in Tasks, NEW o \in OrderIds, NEW amt \in 0 .. Amount, NEW market \in BOOLEAN,
             Place(t, o, amt, market)
      PROVE  FilledSound' /\ EngKept
  <2>1. /\ UNCHANGED exch /\ Fresh(o)
        /\ \A p \in OrderIds \ {o} : order'[p] = order[p]
        /\ order'[o].st = "FILLED" => DryRun /\ order'[o].filled = order'[o].amt
        /\ \A u \in Tasks : call'[u] = call[u] \/ call'[u].op # "fetch"
    BY <1>0, <1>4 DEF Place, PlaceSend, PlaceDry, Construct, Request
  <2> QED
    BY <1>2, <1>3, <2>1 DEF Done
<1>5. ASSUME NEW t \in Tasks, PlaceReturn(t) PROVE FilledSound' /\ EngKept
  <2> DEFINE o == call[t].o
  <2>1. o \in OrderIds /\ ~DryRun /\ order[o].st = "PENDING" /\ ~order[o].xid
    <3>1. CallsSound /\ call[t] \in CallType
      BY <1>0 DEF EngIInv, Sound
    <3>2. call[t].op = "create"
      BY <1>5 DEF PlaceReturn, Answered
    <3>3. o \in OrderIds
      BY <3>1, <3>2 DEF CallType, NoCall
    <3> QED
      BY <3>1, <3>2, <3>3 DEF CallsSound
  <2>2. /\ order'[o].st \in {"OPEN", "REJECTED"} /\ order'[o].amt = order[o].amt
        /\ UNCHANGED exch /\ \A p \in OrderIds \ {o} : order'[p] = order[p]
        /\ \A u \in Tasks : call'[u] = call[u] \/ call'[u].op # "fetch"
    BY <1>0, <1>5, <2>1 DEF PlaceReturn, OrderType, NoCall
  <2> HIDE DEF o
  <2> QED
    BY <1>2, <1>3, <2>1, <2>2 DEF Done
<1>6. ASSUME NEW t \in Tasks, NEW o \in OrderIds, CancelLocally(t, o) PROVE FilledSound' /\ EngKept
  <2>1. ~Fresh(o) /\ order[o].st # "FILLED" /\ (DryRun \/ ~order[o].xid)
    BY <1>6 DEF CancelLocally, Cancellable, EngIInv, Sound, OrdersExist
  <2>2. /\ order'[o].st = "CANCELLED" /\ order'[o].amt = order[o].amt
        /\ UNCHANGED <<exch, call>> /\ \A p \in OrderIds \ {o} : order'[p] = order[p]
    BY <1>0, <1>6 DEF CancelLocally, OrderType
  <2> QED
    BY <1>2, <1>3, <2>1, <2>2 DEF Done
<1>7. ASSUME NEW t \in Tasks, CancelReturn(t) \/ FetchReturn(t) PROVE FilledSound' /\ EngKept
  <2> DEFINE o == call[t].o
  <2>1. o \in OrderIds /\ order[o].xid /\ ~DryRun /\ ~Fresh(o) /\ order[o].st # "unborn"
    BY <1>0, <1>7 DEF CancelReturn, FetchReturn, Answered, EngIInv, Sound, CallsSound, IdsSound,
                      Fresh, CallType, NoCall
  <2>2. CASE CancelReturn(t)
    <3>1. /\ order'[o].st \in {order[o].st, "CANCELLED"} /\ order'[o].filled = order[o].filled
          /\ order'[o].amt = order[o].amt /\ order'[o].xid
          /\ UNCHANGED exch /\ \A p \in OrderIds \ {o} : order'[p] = order[p]
          /\ \A u \in Tasks : call'[u] = call[u] \/ call'[u].op # "fetch"
      BY <1>0, <2>1, <2>2 DEF CancelReturn, OrderType, NoCall
    <3> HIDE DEF o
    <3> QED
      BY <1>2, <1>3, <2>1, <3>1 DEF Done, Fresh, FilledSound
  <2>3. CASE FetchReturn(t)
    <3>1. /\ \/ order'[o] = order[o]
             \/ /\ order'[o].st = StatusMap(call[t].seen.st) /\ order'[o].filled = call[t].seen.filled
                /\ call[t].ans = "ok" /\ call[t].op = "fetch"
          /\ order'[o].amt = order[o].amt /\ order'[o].xid
          /\ UNCHANGED exch /\ \A p \in OrderIds \ {o} : order'[p] = order[p]
          /\ \A u \in Tasks : call'[u] = call[u] \/ call'[u].op # "fetch"
      BY <1>0, <2>1, <2>3 DEF FetchReturn, Answered, UpdateFromExchange, OrderType, NoCall
    <3>2. order'[o].st = "FILLED" => order'[o].filled = order'[o].amt
      BY <2>1, <3>1 DEF StatusMap, FilledSound
    <3>3. order'[o].st # "unborn"
      BY <2>1, <3>1 DEF StatusMap
    <3> HIDE DEF o
    <3> QED
      BY <1>2, <1>3, <2>1, <3>1, <3>2, <3>3 DEF Done, Fresh
  <2> QED
    BY <1>7, <2>2, <2>3
<1>8. ASSUME NEW t \in Tasks, Serve(t) PROVE FilledSound' /\ EngKept
  <2>1. call[t].o \in OrderIds /\ UNCHANGED order
    BY <1>0, <1>8 DEF Serve, ServeCreate, ServeCancel, ServeFetch, Waiting, CallType, NoCall
  <2>2. CASE ServeCreate(t)
    <3>1. exch[call[t].o].st = "none"
      BY <2>2 DEF ServeCreate, Waiting, EngIInv, Sound, CallsSound
    <3> QED
      BY <1>0, <1>1, <2>1, <2>2, <3>1 DEF ServeCreate, Waiting, View, CallType, NoCall
  <2>3. CASE ServeCancel(t)
    BY <1>0, <1>1, <2>1, <2>3 DEF ServeCancel, MayHappen, Waiting, View, CallType, NoCall
  <2>4. CASE ServeFetch(t)
    <3>1. PICK ans \in {"ok", "err"} :
            call' = [call EXCEPT ![t].ans = ans,
                                 ![t].seen = IF ans = "ok" THEN exch[call[t].o] ELSE NoView]
      BY <2>4 DEF ServeFetch
    <3> DEFINE c == call[t]
               v == IF ans = "ok" THEN exch[c.o] ELSE NoView
    <3>2. call' = [call EXCEPT ![t] = [c EXCEPT !.ans = ans, !.seen = v]]
      BY <3>1
    <3>3. c \in [op : {"create", "cancel", "fetch"}, o : OrderIds,
                 ans : {"wait", "ok", "err"}, seen : View]
      BY <1>0, <2>4 DEF ServeFetch, Waiting, CallType, NoCall
    <3>4. /\ [c EXCEPT !.ans = ans, !.seen = v].ans = ans
          /\ [c EXCEPT !.ans = ans, !.seen = v].o = c.o
          /\ [c EXCEPT !.ans = ans, !.seen = v].seen = v
      <4> HIDE DEF c, v
      <4> QED BY <3>3
    <3>5. /\ call'[t].ans = ans /\ call'[t].o = c.o /\ call'[t].seen = v
          /\ \A u \in Tasks \ {t} : call'[u] = call[u]
      <4> HIDE DEF c, v
      <4> QED BY <1>0, <3>2, <3>4
    <3>6. \A u \in Tasks : \/ call'[u] = call[u] \/ call'[u].ans # "ok" \/ call'[u].op # "fetch"
                           \/ call'[u].o \in OrderIds /\ call'[u].seen = exch[call'[u].o]
      BY <2>1, <3>5
    <3> QED
      BY <1>1, <2>1, <2>4, <3>6 DEF ServeFetch
  <2> QED
    BY <1>8, <2>2, <2>3, <2>4 DEF Serve
<1>9. ASSUME NEW o \in OrderIds, ExchangeFill(o) \/ ExchangeExpire(o) PROVE FilledSound' /\ EngKept
  BY <1>0, <1>1, <1>9 DEF ExchangeFill, ExchangeExpire, View
<1>10. ASSUME NEW t \in Tasks, AbortEffect(call[t])
       PROVE  \A o \in OrderIds : exch[o].st = "closed" => exch'[o].st = "closed"
  <2>1. call[t].op = "create" /\ call[t].ans = "wait" => exch[call[t].o].st = "none"
    BY DEF EngIInv, Sound, CallsSound
  <2> QED
    BY <1>0, <1>10, <2>1 DEF AbortEffect, View
<1>11. ASSUME NEW t \in Tasks, AbortEffect(call[t]), UNCHANGED order,
              call' = [call EXCEPT ![t] = NoCall]
       PROVE  FilledSound' /\ EngKept
  BY <1>0, <1>1, <1>10, <1>11 DEF NoCall
<1>12. CASE MonitorNext
  BY <1>0, <1>1, <1>12 DEF MonitorNext, Request
<1>13. ASSUME NEW t \in Tasks, NEW o \in OrderIds, CancelSend(t, o) \/ FetchSend(t, o)
       PROVE  FilledSound' /\ EngKept
  BY <1>0, <1>1, <1>13 DEF CancelSend, FetchSend, Request
<1>14. CASE EngStart \/ MonitorList \/ UNCHANGED engVars
  BY <1>1, <1>14 DEF EngStart, MonitorList, engVars
<1>15. CASE EngStop
  BY <1>11, <1>15 DEF EngStop
<1>16. ASSUME NEW t \in Tasks, Abort(t) PROVE FilledSound' /\ EngKept
  BY <1>11, <1>16 DEF Abort
<1> QED
  BY <1>4, <1>5, <1>6, <1>7, <1>8, <1>9, <1>12, <1>13, <1>14, <1>15, <1>16
  DEF EngNext, ClientStep, Clients, MonitorStep, MonitorReturn, Exchange

-----------------------------------------------------------------------------
(* The steps of the coroutines over the book.  Below all of them the engine *)
(* has made a step of its own.                                              *)

Below == PmIInv /\ EngIInv' /\ FilledSound' /\ EngKept

PmTypes ==
    /\ pos \in [OrderIds -> PosType]
    /\ symPos \in [Symbols -> OrderIds \cup {NULL}]
    /\ booked \in [OrderIds -> 0 .. MaxBooked]
    /\ closes \in [OrderIds -> OrderIds \cup {NULL}]
    /\ co \in [Tasks -> CoType]

PmRest == PmTypes /\ CoSound /\ BookSound

\* A filled order is filled for good.
LEMMA FilledIsDone ==
    ASSUME EngIInv, FilledSound, NEW o \in OrderIds, order[o].st = "FILLED"
    PROVE  Done(o) /\ order[o].filled = order[o].amt
  BY DEF EngIInv, Sound, IdsSound, SettledIsTrue, FilledSound, Done, Fresh, OrderType, EngTypeOK

\* the book stays as it is, and no coroutine takes part
LEMMA RestKept ==
    ASSUME Below, UNCHANGED pmVars
    PROVE  PmRest'
<1> USE DEF Below, PmIInv, PmSound, pmVars
<1>1. PmTypes'
  BY DEF PmTypes, PmTypeOK
<1>2. CoSound'
  BY DEF CoSound, EngKept, BookSound, Done
<1>3. BookSound'
  BY DEF BookSound, EngKept, Done
<1> QED
  BY <1>1, <1>2, <1>3 DEF PmRest

\* a coroutine goes on, or is cancelled, without a verdict
LEMMA CoMoves ==
    ASSUME Below, NEW t \in Tasks, UNCHANGED <<pos, symPos, booked, closes>>,
           \/ co' = [co EXCEPT ![t] = NoCo]
           \/ \E at \in Opening : At(t, at) /\ \E to \in Opening : Goto(t, to)
           \/ \E at \in Closing : At(t, at) /\ \E to \in Closing : Goto(t, to)
    PROVE  PmRest'
<1> USE DEF Below, PmIInv, PmSound
<1>0. co \in [Tasks -> CoType]
  BY DEF PmTypeOK
<1>1. /\ \A u \in Tasks \ {t} : co'[u] = co[u]
      /\ \/ co'[t].at = "idle"
         \/ /\ co[t].at \in Opening /\ co'[t].at \in Opening
            /\ co'[t].o = co[t].o /\ co'[t].sym = co[t].sym
         \/ /\ co[t].at \in Closing /\ co'[t].at \in Closing
            /\ co'[t].o = co[t].o /\ co'[t].p = co[t].p
  BY <1>0 DEF NoCo, At, Goto, CoType
<1>2. PmTypes'
  BY <1>0 DEF PmTypes, PmTypeOK, NoCo, CoType, At, Goto, Opening, Closing
<1>3. CoSound'
  <2>1. \A u \in Tasks : co'[u].at \in Opening =>
           co[u].at \in Opening /\ co'[u].o = co[u].o /\ co'[u].sym = co[u].sym
    BY <1>1 DEF Opening, Closing
  <2>2. \A u \in Tasks : co'[u].at \in Closing =>
           co[u].at \in Closing /\ co'[u].o = co[u].o /\ co'[u].p = co[u].p
    BY <1>1 DEF Opening, Closing
  <2> QED
    BY <2>1, <2>2 DEF CoSound, EngKept, BookSound, Done
<1>4. BookSound'
  BY DEF BookSound, EngKept, Done
<1> QED
  BY <1>2, <1>3, <1>4 DEF PmRest

\* open_position sends an order nobody else has
LEMMA OpenBegins ==
    ASSUME Below, NEW t \in Tasks, NEW s \in Symbols, NEW o \in OrderIds,
           Fresh(o), ~Fresh(o)', UNCHANGED <<pos, symPos, booked, closes>>,
           NEW at \in Opening,
           co' = [co EXCEPT ![t] = [at |-> at, o |-> o, p |-> NULL, sym |-> s]]
    PROVE  PmRest'
<1> USE DEF Below, PmIInv, PmSound
<1>0. co \in [Tasks -> CoType]
  BY DEF PmTypeOK
<1>1. /\ \A u \in Tasks \ {t} : co'[u] = co[u]
      /\ co'[t].at = at /\ co'[t].o = o /\ co'[t].sym = s
  BY <1>0
<1>2. PmTypes'
  BY <1>0 DEF PmTypes, PmTypeOK, CoType, Opening
<1>3. pos[o].side = "unborn"
  BY DEF BookSound, Done
<1>4. CoSound'
  <2>1. \A u \in Tasks \ {t} : co[u].at \in Opening => co[u].o # o
    BY DEF CoSound
  <2> QED
    BY <1>1, <1>3, <2>1 DEF CoSound, EngKept, BookSound, Done, Opening, Closing
<1>5. BookSound'
  BY DEF BookSound, EngKept, Done
<1> QED
  BY <1>2, <1>4, <1>5 DEF PmRest

\* the verdict on an order no position stands for and no other coroutine has
LEMMA OpenVerdictSound ==
    ASSUME Below, NEW t \in Tasks, NEW s \in Symbols, NEW o \in OrderIds,
           ~Fresh(o)', pos[o].side = "unborn",
           \A u \in Tasks \ {t} : co[u].at \in Opening => co[u].o # o,
           OpenVerdict(t, o, s)
    PROVE  PmRest'
<1> USE DEF Below, PmIInv, PmSound
<1>0. /\ co \in [Tasks -> CoType] /\ pos \in [OrderIds -> PosType]
      /\ order' \in [OrderIds -> OrderType]
  BY DEF PmTypeOK, EngIInv, EngTypeOK
<1>1. UNCHANGED <<pos, symPos, booked, closes>> /\ co' = [co EXCEPT ![t] = NoCo] => PmRest'
  BY CoMoves
<1>2. CASE order'[o].st = "FILLED"
  <2>1. /\ pos' = [pos EXCEPT ![o] = [side |-> "HELD", amt |-> order'[o].filled, sym |-> s]]
        /\ symPos' = [symPos EXCEPT ![s] = o]
        /\ co' = [co EXCEPT ![t] = NoCo] /\ UNCHANGED <<booked, closes>>
    BY <1>2 DEF OpenVerdict, Leave
  <2>2. Done(o)' /\ order'[o].filled = order'[o].amt
    BY <1>2 DEF EngIInv, Sound, IdsSound, SettledIsTrue, FilledSound, Done, Fresh
  <2>3. /\ pos'[o].side = "HELD" /\ pos'[o].amt = order'[o].amt
        /\ \A p \in OrderIds \ {o} : pos'[p] = pos[p]
        /\ co'[t].at = "idle" /\ \A u \in Tasks \ {t} : co'[u] = co[u]
    BY <1>0, <2>1, <2>2 DEF NoCo
  <2>4. PmTypes'
    BY <1>0, <2>1 DEF PmTypes, PmTypeOK, NoCo, CoType, PosType, OrderType
  <2>5. CoSound'
    <3>1. \A u \in Tasks : co[u].at \in Closing => co[u].p # o
      BY DEF CoSound
    <3>2. \A u \in Tasks : co'[u].at \in Opening => u # t /\ co'[u] = co[u]
      BY <2>3 DEF Opening
    <3>3. \A u \in Tasks : co'[u].at \in Closing => u # t /\ co'[u] = co[u]
      BY <2>3 DEF Closing
    <3> QED
      BY <2>1, <2>3, <3>1, <3>2, <3>3 DEF CoSound, EngKept, BookSound, Done
  <2>6. BookSound'
    BY <2>1, <2>2, <2>3 DEF BookSound, EngKept, Done
  <2> QED
    BY <2>4, <2>5, <2>6 DEF PmRest
<1>3. CASE order'[o].st # "FILLED"
  BY <1>1, <1>3 DEF OpenVerdict, Leave
<1> QED
  BY <1>2, <1>3

\* close_position sends an order for what the position is now
LEMMA CloseBegins ==
    ASSUME Below, NEW t \in Tasks, NEW p \in OrderIds, NEW o \in OrderIds,
           Fresh(o), ~Fresh(o)', order'[o].amt = pos[p].amt, pos[p].side # "unborn",
           UNCHANGED <<pos, symPos, booked>>, closes' = [closes EXCEPT ![o] = p],
           NEW at \in Closing,
           co' = [co EXCEPT ![t] = [at |-> at, o |-> o, p |-> p, sym |-> NULL]]
    PROVE  PmRest'
<1> USE DEF Below, PmIInv, PmSound
<1>0. co \in [Tasks -> CoType] /\ closes \in [OrderIds -> OrderIds \cup {NULL}]
  BY DEF PmTypeOK
<1>1. /\ \A u \in Tasks \ {t} : co'[u] = co[u]
      /\ co'[t].at = at /\ co'[t].o = o /\ co'[t].p = p
      /\ closes'[o] = p /\ \A c \in OrderIds \ {o} : closes'[c] = closes[c]
  BY <1>0
<1>2. PmTypes'
  BY <1>0 DEF PmTypes, PmTypeOK, CoType, Closing
<1>3. Done(p) /\ p # o /\ order'[p].amt = order[p].amt
  BY DEF BookSound, Done, EngKept
<1>4. CoSound'
  <2>1. pos[p].side = "HELD" => order'[o].amt = order'[p].amt
    BY <1>3 DEF BookSound
  <2>2. \A u \in Tasks : co[u].at \in Opening \cup Closing => co[u].o # o
    BY DEF CoSound
  <2>3. \A u \in Tasks : co'[u].at \in Opening => u # t /\ co'[u] = co[u]
    BY <1>1 DEF Opening, Closing
  <2>4. \A u \in Tasks \ {t} : co'[u].at \in Closing => co'[u] = co[u] /\ co[u].at \in Closing
    BY <1>1
  <2>5. ASSUME NEW u \in Tasks \ {t}, co'[u].at \in Closing
        PROVE  /\ co'[u].o \in OrderIds /\ co'[u].p \in OrderIds
               /\ ~Fresh(co[u].o)' /\ closes'[co'[u].o] = co'[u].p
               /\ pos'[co'[u].p].side # "unborn"
               /\ pos'[co'[u].p].side = "HELD" => order'[co'[u].o].amt = order'[co'[u].p].amt
    BY <1>1, <2>2, <2>4, <2>5 DEF CoSound, EngKept, BookSound, Done, Fresh
  <2>6. /\ co'[t].o \in OrderIds /\ co'[t].p \in OrderIds
        /\ ~Fresh(co[t].o)' /\ closes'[co'[t].o] = co'[t].p
        /\ pos'[co'[t].p].side # "unborn"
        /\ pos'[co'[t].p].side = "HELD" => order'[co'[t].o].amt = order'[co'[t].p].amt
    BY <1>1, <2>1
  <2>7. ASSUME NEW u \in Tasks, co'[u].at \in Opening
        PROVE  /\ co'[u].o \in OrderIds /\ co'[u].sym \in Symbols
               /\ ~Fresh(co[u].o)' /\ pos'[co'[u].o].side = "unborn"
    BY <2>3, <2>7 DEF CoSound, EngKept
  <2>8. \A u, w \in Tasks :
          co'[u].at \in Opening /\ co'[w].at \in Opening /\ co'[u].o = co'[w].o => u = w
    BY <2>3 DEF CoSound
  <2> QED
    BY <2>5, <2>6, <2>7, <2>8 DEF CoSound, Fresh
<1>5. BookSound'
  <2>1. ASSUME NEW q \in OrderIds, pos[q].side = "NONE"
        PROVE  \E c \in OrderIds : closes'[c] = q /\ Done(c)' /\ order'[c].amt = order'[q].amt
    <3>1. PICK c \in OrderIds : closes[c] = q /\ Done(c) /\ order[c].amt = order[q].amt
      BY <2>1 DEF BookSound
    <3>2. c # o /\ Done(q)
      BY <2>1, <3>1 DEF Done, BookSound
    <3> QED
      BY <1>1, <3>1, <3>2 DEF EngKept, Done
  <2> QED
    BY <2>1 DEF BookSound, EngKept, Done
<1> QED
  BY <1>2, <1>4, <1>5 DEF PmRest

LEMMA CloseVerdictSound ==
    ASSUME Below, NEW t \in Tasks, NEW o, NEW p, co[t].at \in Closing,
           o = co[t].o, p = co[t].p, booked[p] < MaxBooked, CloseVerdict(t, o, p)
    PROVE  PmRest'
<1> USE PosAssumption DEF Below, PmIInv, PmSound
<1>0. /\ co \in [Tasks -> CoType] /\ pos \in [OrderIds -> PosType]
      /\ booked \in [OrderIds -> 0 .. MaxBooked]
  BY DEF PmTypeOK
<1>1. /\ o \in OrderIds /\ p \in OrderIds /\ ~Fresh(o) /\ closes[o] = p
      /\ pos[p].side \in {"HELD", "NONE"}
      /\ pos[p].side = "HELD" => order[o].amt = order[p].amt
  BY <1>0 DEF CoSound, PosType
<1>2. CASE order'[o].st = "FILLED"
  <2>1. /\ pos' = [pos EXCEPT ![p].side = "NONE", ![p].amt = 0]
        /\ booked' = [booked EXCEPT ![p] = @ + 1]
        /\ co' = [co EXCEPT ![t] = NoCo] /\ UNCHANGED <<symPos, closes>>
    BY <1>2 DEF CloseVerdict, Leave
  <2>2. Done(o)'
    BY <1>1, <1>2 DEF EngIInv, Sound, IdsSound, SettledIsTrue, FilledSound, Done, Fresh
  <2>3. Done(p) /\ order'[o].amt = order[o].amt /\ order'[p].amt = order[p].amt
    BY <1>1 DEF BookSound, Done, EngKept
  <2>4. /\ pos'[p].side = "NONE" /\ pos'[p].amt = 0 /\ pos'[p].sym = pos[p].sym
        /\ \A q \in OrderIds \ {p} : pos'[q] = pos[q]
        /\ co'[t].at = "idle" /\ \A u \in Tasks \ {t} : co'[u] = co[u]
    BY <1>0, <1>1, <2>1 DEF NoCo, PosType
  <2>5. PmTypes'
    <3>1. pos' \in [OrderIds -> PosType]
      BY <1>0, <1>1, <2>1, EngAssumption DEF PosType
    <3>2. booked' \in [OrderIds -> 0 .. MaxBooked]
      BY <1>0, <1>1, <2>1
    <3> QED
      BY <1>0, <2>1, <3>1, <3>2 DEF PmTypes, PmTypeOK, NoCo, CoType
  <2>6. CoSound'
    <3>1. \A u \in Tasks : co[u].at \in Opening => co[u].o # p
      BY <1>1 DEF CoSound
    <3>2. \A u \in Tasks : co'[u].at \in Opening => u # t /\ co'[u] = co[u]
      BY <2>4 DEF Opening
    <3>3. \A u \in Tasks : co'[u].at \in Closing => u # t /\ co'[u] = co[u]
      BY <2>4 DEF Closing
    <3>4. ASSUME NEW u \in Tasks, co'[u].at \in Closing
          PROVE  /\ co'[u].o \in OrderIds /\ co'[u].p \in OrderIds
                 /\ ~Fresh(co[u].o)' /\ closes'[co'[u].o] = co'[u].p
                 /\ pos'[co'[u].p].side # "unborn"
                 /\ pos'[co'[u].p].side = "HELD" => order'[co'[u].o].amt = order'[co'[u].p].amt
      <4>1. co[u].at \in Closing /\ co'[u] = co[u]
        BY <3>3, <3>4
      <4>2. /\ co[u].o \in OrderIds /\ co[u].p \in OrderIds
            /\ ~Fresh(co[u].o) /\ closes[co[u].o] = co[u].p
            /\ pos[co[u].p].side # "unborn"
            /\ pos[co[u].p].side = "HELD" => order[co[u].o].amt = order[co[u].p].amt
        BY <4>1 DEF CoSound
      <4>3. /\ order'[co[u].p].amt = order[co[u].p].amt
            /\ order'[co[u].o].amt = order[co[u].o].amt /\ order'[co[u].o].st # "unborn"
        BY <4>2 DEF BookSound, Done, EngKept, Fresh
      <4>4. pos'[co[u].p].side \in {"NONE", pos[co[u].p].side}
        BY <2>4, <4>2
      <4> QED
        BY <2>1, <4>1, <4>2, <4>3, <4>4 DEF Fresh
    <3>5. ASSUME NEW u \in Tasks, co'[u].at \in Opening
          PROVE  /\ co'[u].o \in OrderIds /\ co'[u].sym \in Symbols
                 /\ ~Fresh(co[u].o)' /\ pos'[co'[u].o].side = "unborn"
      BY <2>4, <3>1, <3>2, <3>5 DEF CoSound, EngKept
    <3>6. \A u, w \in Tasks :
            co'[u].at \in Opening /\ co'[w].at \in Opening /\ co'[u].o = co'[w].o => u = w
      BY <3>2 DEF CoSound
    <3> QED
      BY <3>4, <3>5, <3>6 DEF CoSound, Fresh
  <2>7. BookSound'
    <3>1. \E c \in OrderIds : closes'[c] = p /\ Done(c)' /\ order'[c].amt = order'[p].amt
      <4>1. CASE pos[p].side = "HELD"
        BY <1>1, <2>1, <2>2, <2>3, <4>1
      <4>2. CASE pos[p].side = "NONE"
        BY <1>1, <2>1, <2>3, <4>2 DEF BookSound, EngKept, Done
      <4> QED
        BY <1>1, <4>1, <4>2
    <3> QED
      <4>1. ASSUME NEW q \in OrderIds \ {p}, pos[q].side = "NONE"
            PROVE  \E c \in OrderIds : closes'[c] = q /\ Done(c)' /\ order'[c].amt = order'[q].amt
        <5>1. PICK c \in OrderIds : closes[c] = q /\ Done(c) /\ order[c].amt = order[q].amt
          BY <4>1 DEF BookSound
        <5>2. Done(q)
          BY <4>1 DEF BookSound
        <5> QED
          BY <2>1, <5>1, <5>2 DEF EngKept, Done
      <4>2. ASSUME NEW q \in OrderIds
            PROVE  /\ pos'[q].side # "unborn" => Done(q)'
                   /\ pos'[q].side = "HELD" => pos'[q].amt = order'[q].amt
        BY <1>1, <2>3, <2>4 DEF BookSound, EngKept, Done
      <4> QED
        BY <2>4, <3>1, <4>1, <4>2 DEF BookSound
  <2> QED
    BY <2>5, <2>6, <2>7 DEF PmRest
<1>3. CASE order'[o].st # "FILLED"
  BY <1>3, CoMoves DEF CloseVerdict, Leave
<1> QED
  BY <1>2, <1>3

-----------------------------------------------------------------------------
(* The step of the whole. *)

LEMMA PmInitSound == PmInit => PmIInv
<1> SUFFICES ASSUME PmInit PROVE PmIInv
  OBVIOUS
<1>1. EngTypeOK /\ Sound
  BY TypeInit, SoundInit DEF PmInit
<1>2. PmTypeOK
  BY <1>1, PosAssumption, EngAssumption
  DEF PmInit, PmTypeOK, NoPos, NoCo, PosType, CoType
<1>3. PmSound
  BY EngAssumption DEF PmInit, EngInit, PmSound, FilledSound, CoSound, BookSound, Done, Fresh, NoPos, NoCo,
     NoCall, Unborn, Opening, Closing
<1> QED
  BY <1>1, <1>2, <1>3 DEF PmIInv

LEMMA PmStep == PmIInv /\ [PmNext]_allVars => PmIInv'
<1> SUFFICES ASSUME PmIInv, [PmNext]_allVars PROVE PmIInv'
  OBVIOUS
<1> USE EngAssumption, PosAssumption
<1>1. [EngNext]_engVars
  BY PmEngineStep DEF PmIInv
<1>2. EngIInv /\ EngIInv'
  BY <1>1, SoundStep DEF PmIInv, PmTypeOK, EngIInv
<1>3. Below
  BY <1>1, <1>2, EngKeeps DEF PmIInv, PmSound, Below
<1>4. SUFFICES PmRest'
  BY <1>2, <1>3 DEF PmRest, PmTypes, PmIInv, PmTypeOK, PmSound, Below, EngIInv
<1>5. CASE UNCHANGED pmVars
  BY <1>3, <1>5, RestKept
<1>6. ASSUME NEW t \in Clients, PmAbort(t) PROVE PmRest'
  BY <1>3, <1>6, CoMoves DEF PmAbort, Leave, Clients
<1>7. ASSUME NEW t \in Clients, PmOpen(t) PROVE PmRest'
  <2>0. t \in Tasks
    BY DEF Clients
  <2>1. ASSUME NEW s \in Symbols, NEW o \in OrderIds, OpenCall(t, s, Amount, o)
        PROVE  PmRest'
    <3>1. Fresh(o) /\ ~Fresh(o)'
      BY <2>1, <1>2 DEF OpenCall, PlaceSend, Construct, Fresh, EngIInv, EngTypeOK
    <3> QED
      BY <1>3, <2>0, <2>1, <3>1, OpenBegins DEF OpenCall, Opening
  <2>2. ASSUME NEW s \in Symbols, NEW o \in OrderIds, NEW market \in BOOLEAN,
               OpenDry(t, s, Amount, o, market)
        PROVE  PmRest'
    <3>1. Fresh(o) /\ ~Fresh(o)'
      BY <2>2, <1>2 DEF OpenDry, PlaceDry, Construct, Fresh, EngIInv, EngTypeOK
    <3>2. pos[o].side = "unborn" /\ \A u \in Tasks : co[u].at \in Opening => co[u].o # o
      BY <3>1 DEF PmIInv, PmSound, BookSound, CoSound, Done
    <3>3. CASE market
      BY <1>3, <2>0, <2>2, <3>1, <3>2, <3>3, OpenVerdictSound DEF OpenDry
    <3>4. CASE ~market
      BY <1>3, <2>0, <2>2, <3>1, <3>4, OpenBegins DEF OpenDry, Opening
    <3> QED
      BY <3>3, <3>4
  <2>3. CASE OpenPlaced(t)
    BY <1>3, <2>0, <2>3, CoMoves DEF OpenPlaced, Opening
  <2>4. ASSUME co[t].at \in Opening, OpenVerdict(t, co[t].o, co[t].sym) PROVE PmRest'
    <3>1. PICK o \in OrderIds, s \in Symbols : o = co[t].o /\ s = co[t].sym
      BY <2>0, <2>4 DEF PmIInv, PmSound, CoSound
    <3>2. /\ ~Fresh(o) /\ pos[o].side = "unborn"
          /\ \A u \in Tasks \ {t} : co[u].at \in Opening => co[u].o # o
      BY <2>0, <2>4, <3>1 DEF PmIInv, PmSound, CoSound
    <3>3. ~Fresh(o)'
      BY <1>3, <3>2 DEF Below, EngKept
    <3>4. OpenVerdict(t, o, s)
      BY <2>4, <3>1
    <3> QED
      BY <1>3, <2>0, <3>2, <3>3, <3>4, OpenVerdictSound
  <2>5. CASE OpenWake(t)
    <3>1. CASE NeedsFetch(co[t].o)
      BY <1>3, <2>0, <2>5, <3>1, CoMoves DEF OpenWake, Opening
    <3>2. CASE ~NeedsFetch(co[t].o)
      BY <2>4, <2>5, <3>2 DEF OpenWake, At, Opening
    <3> QED
      BY <3>1, <3>2
  <2>6. CASE OpenFetched(t)
    BY <2>4, <2>6 DEF OpenFetched, At, Opening
  <2> QED
    BY <1>7, <2>1, <2>2, <2>3, <2>5, <2>6 DEF PmOpen
<1>8. ASSUME NEW t \in Clients, PmClose(t) PROVE PmRest'
  <2>0. t \in Tasks
    BY DEF Clients
  <2>1. ASSUME NEW p \in OrderIds, NEW o \in OrderIds, CloseCall(t, p, o)
        PROVE  PmRest'
    <3>1. Fresh(o) /\ ~Fresh(o)' /\ order'[o].amt = pos[p].amt
      BY <2>1, <1>2 DEF CloseCall, PlaceSend, Construct, Fresh, EngIInv, EngTypeOK
    <3> QED
      BY <1>3, <2>0, <2>1, <3>1, CloseBegins DEF CloseCall, CloseFrame, Closing
  <2>2. ASSUME NEW p \in OrderIds, NEW o \in OrderIds, NEW market \in BOOLEAN,
               CloseDry(t, p, o, market)
        PROVE  PmRest'
    <3>1. Fresh(o) /\ ~Fresh(o)' /\ order'[o].amt = pos[p].amt
      BY <2>2, <1>2 DEF CloseDry, PlaceDry, Construct, Fresh, EngIInv, EngTypeOK
    <3> QED
      BY <1>3, <2>0, <2>2, <3>1, CloseBegins DEF CloseDry, CloseFrame, Closing
  <2>3. CASE ClosePlaced(t)
    BY <1>3, <2>0, <2>3, CoMoves DEF ClosePlaced, CloseFrame, Closing
  <2>4. ASSUME co[t].at \in Closing, booked[co[t].p] < MaxBooked,
               CloseVerdict(t, co[t].o, co[t].p)
        PROVE  PmRest'
    <3>1. PICK o \in OrderIds, p \in OrderIds : o = co[t].o /\ p = co[t].p
      BY <2>0, <2>4 DEF PmIInv, PmSound, CoSound
    <3> QED
      BY <1>3, <2>0, <2>4, <3>1, CloseVerdictSound
  <2>5. CASE CloseWake(t)
    <3>1. CASE NeedsFetch(co[t].o)
      BY <1>3, <2>0, <2>5, <3>1, CoMoves DEF CloseWake, CloseFrame, Closing
    <3>2. CASE ~NeedsFetch(co[t].o)
      BY <2>4, <2>5, <3>2 DEF CloseWake, At, Closing
    <3> QED
      BY <3>1, <3>2
  <2>6. CASE CloseFetched(t)
    BY <2>4, <2>6 DEF CloseFetched, At, Closing
  <2> QED
    BY <1>8, <2>1, <2>2, <2>3, <2>5, <2>6 DEF PmClose
<1>9. CASE UNCHANGED allVars
  BY <1>5, <1>9 DEF allVars
<1> QED
  BY <1>5, <1>6, <1>7, <1>8, <1>9 DEF PmNext

LEMMA PmInvariant == PmSpec => []PmIInv
  BY PmInitSound, PmStep, PTL DEF PmSpec

-----------------------------------------------------------------------------
(* What follows *)

\* The engine, the book, its index and the coroutines keep their types.
THEOREM PmTyped == PmSpec => []PmTypeOK
<1>1. PmIInv => PmTypeOK
  BY DEF PmIInv
<1> QED
  BY <1>1, PmInvariant, PTL

\* The position manager uses the engine as any caller may: every behaviour below
\* the book is one of the engine on its own, so that the engine's theorems hold
\* of it.
THEOREM PmUsesEngine == PmSpec => EngSpec
<1>1. PmInit => EngInit
  BY DEF PmInit
<1>2. PmIInv /\ [PmNext]_allVars => [EngNext]_engVars
  BY PmEngineStep DEF PmIInv
<1> QED
  BY <1>1, <1>2, PmInvariant, PTL DEF PmSpec, EngSpec

LEMMA BackedNow == PmIInv => PositionBacked
<1> SUFFICES ASSUME PmIInv, NEW p \in OpenPositions
             PROVE  /\ FilledFor(p) = pos[p].amt /\ pos[p].amt = order[p].amt
                    /\ order[p].xid => exch[p].st = "closed"
  BY DEF PositionBacked
<1>1. p \in OrderIds /\ pos[p].side = "HELD"
  BY DEF OpenPositions, IsOpen
<1>2. Done(p) /\ pos[p].amt = order[p].amt
  BY <1>1 DEF PmIInv, PmSound, BookSound
<1>3. order[p].xid => exch[p].st = "closed" /\ exch[p].filled = order[p].amt
  BY <1>1, <1>2 DEF Done, PmIInv, Sound, IdsSound, ExchangeSound
<1>4. ~order[p].xid => order[p].filled = order[p].amt
  BY <1>1, <1>2 DEF Done, PmIInv, PmSound, FilledSound
<1> QED
  BY <1>2, <1>3, <1>4 DEF FilledFor

\* Every position in the book stands for an order that was filled for its amount.
THEOREM PmBacked == PmSpec => []PositionBacked
  BY BackedNow, PmInvariant, PTL

LEMMA HedgedNow == PmIInv => ClosedIsHedged
<1> SUFFICES ASSUME PmIInv, NEW p \in OrderIds, pos[p].side = "NONE"
             PROVE  \E c \in OrderIds : closes[c] = p /\ FilledFor(c) = order[p].amt
  BY DEF ClosedIsHedged
<1>1. PICK c \in OrderIds : closes[c] = p /\ Done(c) /\ order[c].amt = order[p].amt
  BY DEF PmIInv, PmSound, BookSound
<1>2. order[c].xid => exch[c].filled = order[c].amt
  BY <1>1 DEF Done, PmIInv, Sound, IdsSound, ExchangeSound
<1>3. ~order[c].xid => order[c].filled = order[c].amt
  BY <1>1 DEF Done, PmIInv, PmSound, FilledSound
<1> QED
  BY <1>1, <1>2, <1>3 DEF FilledFor

\* A position is struck off the book only against a closing order that was
\* filled for its whole amount, whoever else closes it at the same time.
THEOREM PmHedged == PmSpec => []ClosedIsHedged
  BY HedgedNow, PmInvariant, PTL
=============================================================================
