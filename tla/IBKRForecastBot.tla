--------------------------- MODULE IBKRForecastBot ---------------------------
(* The stock bot of department 7 (src/department_7/src/bot/                    *)
(* ibkr_forecast_bot.py): one long position for each symbol, opened and closed *)
(* by market orders the broker takes at once and the bot never looks at again. *)
(* stop runs in the task of run(), when that is cancelled, and in the          *)
(* launcher's, at any of the awaits of the first.                              *)
EXTENDS Integers

CONSTANT IbkrSymbols

VARIABLES iStatus,  \* the loop of run() goes on
          iUp,      \* connected to TWS
          iPos,     \* keys of positions
          iHeld,    \* shares at the broker, in units of one entry
          iLost,    \* the broker rejected an order it had taken
          iRun,     \* the task of run(): where it is, and the symbols it has left
          iStop     \* the launcher's stop

ivars == <<iStatus, iUp, iPos, iHeld, iLost, iRun, iStop>>

IbkrAt(where, symbols) == [at |-> where, todo |-> symbols]

IbkrInit ==
    /\ iStatus = "idle" /\ iUp = FALSE /\ iLost = FALSE
    /\ iPos = {} /\ iHeld = [s \in IbkrSymbols |-> 0]
    /\ iRun = IbkrAt("off", {}) /\ iStop = IbkrAt("off", {})

\* initialize waits for the connection; whatever was asked of the bot meanwhile,
\* it runs from then on.
IbkrConnect ==
    /\ iRun.at = "off"
    /\ iRun' = IbkrAt("connect", {})
    /\ UNCHANGED <<iStatus, iUp, iPos, iHeld, iLost, iStop>>

IbkrRun ==
    /\ iRun.at = "connect"
    /\ iStatus' = "running" /\ iUp' = TRUE
    /\ iRun' = IbkrAt("trade", IbkrSymbols)
    /\ UNCHANGED <<iPos, iHeld, iLost, iStop>>

\* An order of n shares, and the entry or the end of the position; over a broken
\* connection placeOrder raises before anything is noted.  No more than one
\* order is rejected: a bound.
IbkrOrder(s, n, positions) ==
    \/ iUp /\ iHeld' = [iHeld EXCEPT ![s] = @ + n] /\ iPos' = positions /\ UNCHANGED iLost
    \/ iUp /\ ~iLost /\ iLost' = TRUE /\ iPos' = positions /\ UNCHANGED iHeld
    \/ ~iUp /\ UNCHANGED <<iPos, iHeld, iLost>>

\* mutant of IbkrSell: the caller's look at the positions is taken for good
IbkrSell_Stale(s) == IbkrOrder(s, -1, iPos \ {s})

IbkrSell(s) ==
    IF s \in iPos THEN IbkrOrder(s, -1, iPos \ {s}) ELSE UNCHANGED <<iPos, iHeld, iLost>>

\* The forecast of a symbol: nothing, a purchase when there is no position, a
\* sale when there is one.
ExecuteForecast(s) ==
    /\ iRun.at = "trade" /\ s \in iRun.todo
    /\ iRun' = [iRun EXCEPT !.todo = @ \ {s}]
    /\ \/ UNCHANGED <<iPos, iHeld, iLost>>
       \/ s \notin iPos /\ IbkrOrder(s, 1, iPos \cup {s})
       \/ s \in iPos /\ IbkrSell(s)
    /\ UNCHANGED <<iStatus, iUp, iStop>>

\* _manage_positions goes through the positions there were when it began.
BeginManage ==
    /\ iRun = IbkrAt("trade", {})
    /\ iRun' = IbkrAt("manage", iPos)
    /\ UNCHANGED <<iStatus, iUp, iPos, iHeld, iLost, iStop>>

ManagePosition(s) ==
    /\ iRun.at = "manage" /\ s \in iRun.todo
    /\ iRun' = [iRun EXCEPT !.todo = @ \ {s}]
    /\ UNCHANGED <<iPos, iHeld, iLost>> \/ IbkrSell(s)
    /\ UNCHANGED <<iStatus, iUp, iStop>>

\* The pass is over, or an exception cut it short.
IbkrPassEnds ==
    /\ iRun.at \in {"trade", "manage"}
    /\ iRun' = IF iStatus = "running" THEN IbkrAt("trade", IbkrSymbols)
               ELSE IbkrAt("off", {})
    /\ UNCHANGED <<iStatus, iUp, iPos, iHeld, iLost, iStop>>

CancelIbkr ==
    /\ iRun.at \in {"trade", "manage"}
    /\ iStatus' = "idle" /\ iRun' = IbkrAt("stop", iPos)
    /\ UNCHANGED <<iUp, iPos, iHeld, iLost, iStop>>

LauncherStops ==
    /\ iStop.at = "off" /\ iRun.at # "off"
    /\ iStatus' = "idle" /\ iStop' = IbkrAt("stop", iPos)
    /\ UNCHANGED <<iUp, iPos, iHeld, iLost, iRun>>

\* stop sells what it saw, with a message after every sale.
OwnSale(s) ==
    /\ iRun.at = "stop" /\ s \in iRun.todo
    /\ iRun' = [iRun EXCEPT !.todo = @ \ {s}]
    /\ IbkrSell(s) /\ UNCHANGED <<iStatus, iUp, iStop>>

LauncherSale(s) ==
    /\ iStop.at = "stop" /\ s \in iStop.todo
    /\ iStop' = [iStop EXCEPT !.todo = @ \ {s}]
    /\ IbkrSell(s) /\ UNCHANGED <<iStatus, iUp, iRun>>

OwnStopEnds ==
    /\ iRun = IbkrAt("stop", {}) /\ iRun' = IbkrAt("off", {}) /\ iUp' = FALSE
    /\ UNCHANGED <<iStatus, iPos, iHeld, iLost, iStop>>

LauncherStopEnds ==
    /\ iStop = IbkrAt("stop", {}) /\ iStop' = IbkrAt("off", {}) /\ iUp' = FALSE
    /\ UNCHANGED <<iStatus, iPos, iHeld, iLost, iRun>>

IbkrNext ==
    \/ IbkrConnect \/ IbkrRun \/ BeginManage \/ IbkrPassEnds \/ CancelIbkr \/ LauncherStops
    \/ \E s \in IbkrSymbols :
           ExecuteForecast(s) \/ ManagePosition(s) \/ OwnSale(s) \/ LauncherSale(s)
    \/ OwnStopEnds \/ LauncherStopEnds

IbkrSpec == IbkrInit /\ [][IbkrNext]_ivars

------------------------------------------------------------------------------
IbkrTypeOK ==
    /\ iStatus \in {"idle", "running"} /\ iUp \in BOOLEAN /\ iLost \in BOOLEAN
    /\ iPos \subseteq IbkrSymbols /\ \A s \in IbkrSymbols : iHeld[s] \in -1 .. 2
    /\ iRun.at \in {"off", "connect", "trade", "manage", "stop"}
    /\ iStop.at \in {"off", "stop"} /\ iRun.todo \cup iStop.todo \subseteq IbkrSymbols

\* The broker holds one entry of each symbol that has a position and nothing of
\* the others, as long as it fills what it takes: though up to three tasks go
\* through lists of positions they took before their awaits, no position is sold
\* twice and none is left out of the books.
BrokerHoldsPositions ==
    ~iLost => \A s \in IbkrSymbols : iHeld[s] = IF s \in iPos THEN 1 ELSE 0

\* "모든 포지션 정리": when the launcher's stop has returned the bot holds nothing.
StopSellsAll == iStatus = "idle" /\ iRun.at = "off" /\ iStop.at = "off" => iPos = {}
==============================================================================
