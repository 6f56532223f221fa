-------------------------- MODULE PositionManager --------------------------
(***************************************************************************)
(* occore/operations/position_manager.py on top of ExecutionEngine: the    *)
(* coroutines open_position and close_position, each a market or limit     *)
(* order, a wait of half a second, one look-up and a verdict.              *)
(*                                                                         *)
(* A position is named by the order that opened it.  Prices are left out:  *)
(* what close_position books into the daily statistics is kept as how many *)
(* results were booked for each position.  The Redis copy is written and   *)
(* never read back (_get_cached_position parses nothing), so it is left    *)
(* out too.  So is long or short: the side only picks buy or sell of the    *)
(* two orders, and close_position, the book and the kill switch treat both *)
(* alike; an open position is HELD.                                        *)
(***************************************************************************)
EXTENDS ExecutionEngine

CONSTANTS
    Symbols,     \* exchange:symbol keys
    MaxBooked    \* a bound on the results booked for one position

ASSUME PosAssumption == MaxBooked \in Nat \ {0}

VARIABLES
    pos,         \* self.positions
    symPos,      \* self.symbol_positions
    booked,      \* self.daily_stats: results booked for each position
    closes,      \* metadata["close_position"] of each order
    co           \* the open_position or close_position each task is inside

pmVars == <<pos, symPos, booked, closes, co>>
allVars == <<engVars, pmVars>>

-----------------------------------------------------------------------------
PosType == [side : {"unborn", "HELD", "NONE"}, amt : 0 .. Amount,
            sym : Symbols \cup {NULL}]
CoType  == [at : {"idle", "openPlace", "openSleep", "openFetch",
                  "closePlace", "closeSleep", "closeFetch"},
            o : OrderIds \cup {NULL}, p : OrderIds \cup {NULL},
            sym : Symbols \cup {NULL}]

NoPos == [side |-> "unborn", amt |-> 0, sym |-> NULL]
NoCo  == [at |-> "idle", o |-> NULL, p |-> NULL, sym |-> NULL]

Free(t)  == co[t] = NoCo /\ Idle(t)
IsOpen(p) == pos[p].side = "HELD"

\* get_open_positions
OpenPositions == {p \in OrderIds : IsOpen(p)}

\* mutant of Occupied: open_position does not ask
Occupied_Never(s) == FALSE

\* the test at the top of open_position
Occupied(s) == symPos[s] # NULL /\ IsOpen(symPos[s])

PmTypeOK ==
    /\ EngTypeOK
    /\ pos \in [OrderIds -> PosType]
    /\ symPos \in [Symbols -> OrderIds \cup {NULL}]
    /\ booked \in [OrderIds -> 0 .. MaxBooked]
    /\ closes \in [OrderIds -> OrderIds \cup {NULL}]
    /\ co \in [Tasks -> CoType]

PmInit ==
    /\ EngInit
    /\ pos = [p \in OrderIds |-> NoPos]
    /\ symPos = [s \in Symbols |-> NULL]
    /\ booked = [p \in OrderIds |-> 0]
    /\ closes = [o \in OrderIds |-> NULL]
    /\ co = [t \in Tasks |-> NoCo]

-----------------------------------------------------------------------------
(* open_position *)

At(t, at) == co[t].at = at
Goto(t, at) == co' = [co EXCEPT ![t].at = at]
Leave(t) == co' = [co EXCEPT ![t] = NoCo]

\* mutant of OpenVerdict: an order that is still open counts as filled
OpenVerdict_Early(t, o, s) ==
    /\ Leave(t)
    /\ IF order'[o].st \in {"OPEN", "FILLED"}
         THEN /\ pos' = [pos EXCEPT ![o] = [side |-> "HELD", amt |-> order'[o].amt, sym |-> s]]
              /\ symPos' = [symPos EXCEPT ![s] = o]
         ELSE UNCHANGED <<pos, symPos>>
    /\ UNCHANGED <<booked, closes>>

\* mutant of OpenVerdict: the symbol's entry is forgotten
OpenVerdict_NoIndex(t, o, s) ==
    /\ Leave(t)
    /\ IF order'[o].st = "FILLED"
         THEN pos' = [pos EXCEPT ![o] = [side |-> "HELD", amt |-> order'[o].filled, sym |-> s]]
         ELSE UNCHANGED pos
    /\ UNCHANGED <<symPos, booked, closes>>

\* The verdict on the order: a position entered under the symbol, whatever is
\* there by now, or RuntimeError.
OpenVerdict(t, o, s) ==
    /\ Leave(t)
    /\ IF order'[o].st = "FILLED"
         THEN /\ pos' = [pos EXCEPT ![o] = [side |-> "HELD", amt |-> order'[o].filled, sym |-> s]]
              /\ symPos' = [symPos EXCEPT ![s] = o]
         ELSE UNCHANGED <<pos, symPos>>
    /\ UNCHANGED <<booked, closes>>

OpenCall(t, s, amt, o) ==
    /\ Free(t) /\ ~Occupied(s)
    /\ PlaceSend(t, o, amt)
    /\ co' = [co EXCEPT ![t] = [at |-> "openPlace", o |-> o, p |-> NULL,
                                sym |-> s]]
    /\ UNCHANGED <<pos, symPos, booked, closes>>

\* a simulated market order is filled before the call returns
OpenDry(t, s, amt, o, market) ==
    /\ Free(t) /\ ~Occupied(s)
    /\ PlaceDry(t, o, amt, market)
    /\ IF market THEN OpenVerdict(t, o, s)
       ELSE /\ co' = [co EXCEPT ![t] = [at |-> "openSleep", o |-> o, p |-> NULL,
                                        sym |-> s]]
            /\ UNCHANGED <<pos, symPos, booked, closes>>

OpenPlaced(t) ==
    /\ At(t, "openPlace")
    /\ PlaceReturn(t)
    /\ Goto(t, "openSleep")
    /\ UNCHANGED <<pos, symPos, booked, closes>>

\* asyncio.sleep(0.5) is over: get_order_status
OpenWake(t) ==
    /\ At(t, "openSleep")
    /\ IF NeedsFetch(co[t].o)
         THEN /\ FetchSend(t, co[t].o)
              /\ Goto(t, "openFetch")
              /\ UNCHANGED <<pos, symPos, booked, closes>>
         ELSE /\ UNCHANGED engVars
              /\ OpenVerdict(t, co[t].o, co[t].sym)

OpenFetched(t) ==
    /\ At(t, "openFetch")
    /\ FetchReturn(t)
    /\ OpenVerdict(t, co[t].o, co[t].sym)

-----------------------------------------------------------------------------
(* close_position: nothing asks whether the position is still open. *)

\* mutant of CloseVerdict: the amount of the order is subtracted
CloseVerdict_Subtract(t, o, p) ==
    /\ Leave(t)
    /\ IF order'[o].st = "FILLED"
         THEN /\ pos' = [pos EXCEPT ![p].side = "NONE", ![p].amt = @ - order'[o].filled]
              /\ booked' = [booked EXCEPT ![p] = @ + 1]
         ELSE UNCHANGED <<pos, booked>>
    /\ UNCHANGED <<symPos, closes>>

\* mutant of CloseVerdict: nobody looks whether the order was filled
CloseVerdict_Unfilled(t, o, p) ==
    /\ Leave(t)
    /\ pos' = [pos EXCEPT ![p].side = "NONE", ![p].amt = 0]
    /\ booked' = [booked EXCEPT ![p] = @ + 1]
    /\ UNCHANGED <<symPos, closes>>

CloseVerdict(t, o, p) ==
    /\ Leave(t)
    /\ IF order'[o].st = "FILLED"
         THEN /\ pos' = [pos EXCEPT ![p].side = "NONE", ![p].amt = 0]
              /\ booked' = [booked EXCEPT ![p] = @ + 1]
         ELSE UNCHANGED <<pos, booked>>
    /\ UNCHANGED <<symPos, closes>>

CloseFrame == UNCHANGED <<pos, symPos, booked>>

\* the amount of the order is the position's amount now, 0 once it is closed
CloseCall(t, p, o) ==
    /\ Free(t) /\ pos[p].side # "unborn" /\ booked[p] < MaxBooked
    /\ closes' = [closes EXCEPT ![o] = p]
    /\ PlaceSend(t, o, pos[p].amt)
    /\ co' = [co EXCEPT ![t] = [at |-> "closePlace", o |-> o, p |-> p,
                                sym |-> NULL]]
    /\ CloseFrame

CloseDry(t, p, o, market) ==
    /\ Free(t) /\ pos[p].side # "unborn" /\ booked[p] < MaxBooked
    /\ closes' = [closes EXCEPT ![o] = p]
    /\ PlaceDry(t, o, pos[p].amt, market)
    /\ co' = [co EXCEPT ![t] = [at |-> "closeSleep", o |-> o, p |-> p,
                                sym |-> NULL]]
    /\ CloseFrame

ClosePlaced(t) ==
    /\ At(t, "closePlace")
    /\ PlaceReturn(t)
    /\ Goto(t, "closeSleep")
    /\ CloseFrame /\ UNCHANGED closes

CloseWake(t) ==
    /\ At(t, "closeSleep") /\ booked[co[t].p] < MaxBooked
    /\ IF NeedsFetch(co[t].o)
         THEN FetchSend(t, co[t].o) /\ Goto(t, "closeFetch") /\ CloseFrame /\ UNCHANGED closes
         ELSE UNCHANGED engVars /\ CloseVerdict(t, co[t].o, co[t].p)

CloseFetched(t) ==
    /\ At(t, "closeFetch") /\ booked[co[t].p] < MaxBooked
    /\ FetchReturn(t)
    /\ CloseVerdict(t, co[t].o, co[t].p)

-----------------------------------------------------------------------------
(* The task is cancelled inside open_position or close_position.  What the *)
(* order becomes is nobody's business any more.                            *)

PmAbort(t) ==
    /\ "abort" \in Faults /\ ~At(t, "idle")
    /\ IF Idle(t) THEN UNCHANGED engVars ELSE Abort(t)
    /\ Leave(t)
    /\ UNCHANGED <<pos, symPos, booked, closes>>

\* the other steps of the engine leave the positions alone
EngineAlone == EngStart \/ EngStop \/ MonitorStep \/ Exchange

CancelStep(t) ==
    /\ At(t, "idle")
    /\ (\E o \in OrderIds : CancelLocally(t, o) \/ CancelSend(t, o)) \/ CancelReturn(t)

PmOpen(t) ==
    \/ \E s \in Symbols, o \in OrderIds :
        \/ OpenCall(t, s, Amount, o)
        \/ \E market \in BOOLEAN : OpenDry(t, s, Amount, o, market)
    \/ OpenPlaced(t) \/ OpenWake(t) \/ OpenFetched(t)

PmClose(t) ==
    \/ \E p, o \in OrderIds :
        \/ CloseCall(t, p, o)
        \/ \E market \in BOOLEAN : CloseDry(t, p, o, market)
    \/ ClosePlaced(t) \/ CloseWake(t) \/ CloseFetched(t)

PmNext ==
    \/ EngineAlone /\ UNCHANGED pmVars
    \/ \E t \in Clients :
        \/ PmOpen(t) \/ PmClose(t) \/ PmAbort(t)
        \/ CancelStep(t) /\ UNCHANGED pmVars

PmSpec == PmInit /\ [][PmNext]_allVars

-----------------------------------------------------------------------------
(* Properties *)

\* what really was filled for an order: simulated, or at the exchange
FilledFor(o) == IF order[o].xid THEN exch[o].filled ELSE order[o].filled

\* Every position in the book stands for a filled order of the same amount,
\* and no two positions for the same one: what kill switch and bot close was
\* really bought.
PositionBacked ==
    \A p \in OpenPositions :
        /\ FilledFor(p) = pos[p].amt /\ pos[p].amt = order[p].amt
        /\ order[p].xid => exch[p].st = "closed"

\* A position is struck off the book only when an order that closes it was
\* filled for its whole amount.
ClosedIsHedged ==
    \A p \in OrderIds : pos[p].side = "NONE" =>
        \E c \in OrderIds : closes[c] = p /\ FilledFor(c) = order[p].amt

=============================================================================
