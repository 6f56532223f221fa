---------------------------------- MODULE MCParts ----------------------------------
(* The parts of the system of which only safety is checked, on small           *)
(* instances: the trading stack in the dry run, the order counters, and the    *)
(* services and bots that have no call somebody waits for.  They share no      *)
(* variable: the initial state chooses the one that runs, and a run of TLC     *)
(* goes through them all.                                                      *)
EXTENDS TradingStack, OrderRate, WithdrawalAutomation, BinanceBots,
        PerpetualBots, SolanaBots, ProfitBooks, IBKRForecastBot

\* Values of constants.
Pnls == {-2, 3}

VARIABLE which

partVars == <<which, vars, rateVars, wvars, gvars, fvars, cvars, yvars, hvars, tvars,
                  nvars, ivars, qvars, plVars>>

\* The others stay as they are.
Only(part) ==
    /\ which = part /\ UNCHANGED which
    /\ part # "stack"       => UNCHANGED vars
    /\ part # "rate"        => UNCHANGED rateVars
    /\ part # "withdrawal"  => UNCHANGED wvars
    /\ part # "grid"        => UNCHANGED gvars
    /\ part # "funding"     => UNCHANGED fvars
    /\ part # "scalper"     => UNCHANGED cvars
    /\ part # "copy"        => UNCHANGED yvars
    /\ part # "hyperliquid" => UNCHANGED hvars
    /\ part # "triangular"  => UNCHANGED tvars
    /\ part # "nest"        => UNCHANGED nvars
    /\ part # "ibkr"        => UNCHANGED ivars
    /\ part # "sniper"      => UNCHANGED qvars
    /\ part # "pnl"         => UNCHANGED plVars

PartsInit ==
    /\ which \in {"stack", "rate", "withdrawal", "grid", "funding", "scalper", "copy",
                  "hyperliquid", "triangular", "nest", "ibkr", "sniper", "pnl"}
    /\ Init /\ RateInit /\ WInit /\ GridInit /\ FundInit /\ ScalpInit /\ CopyInit
    /\ HyperInit /\ TriInit /\ NestInit /\ IbkrInit /\ SniperInit /\ PnlInit

PartsNext ==
    \/ Only("stack")       /\ Next
    \/ Only("rate")        /\ RateNext
    \/ Only("withdrawal")  /\ WNext
    \/ Only("grid")        /\ GridNext
    \/ Only("funding")     /\ FundNext
    \/ Only("scalper")     /\ ScalpNext
    \/ Only("copy")        /\ CopyNext
    \/ Only("hyperliquid") /\ HyperNext
    \/ Only("triangular")  /\ TriNext
    \/ Only("nest")        /\ NestNext
    \/ Only("ibkr")        /\ IbkrNext
    \/ Only("sniper")      /\ SniperNext
    \/ Only("pnl")         /\ PnlNext

PartsSpec == PartsInit /\ [][PartsNext]_partVars

\* The types of every part.
PartsTypeOK ==
    /\ TypeOK /\ RateTypeOK /\ WTypeOK /\ GridTypeOK /\ FundTypeOK /\ ScalpTypeOK
    /\ CopyTypeOK /\ HyperTypeOK /\ TriTypeOK /\ NestTypeOK /\ IbkrTypeOK
    /\ SniperTypeOK /\ PnlTypeOK

\* What a bot shows as its position bounds what it holds at the exchange, as long
\* as every request is answered: over partial failures, restarts, stops and
\* cancellations of the funding, scalping, triangular and stock bots; and the grid
\* bot knows its orders by name and leaves none behind.
HoldingsAreShown ==
    /\ HeldIsShown /\ ScalpIsAccounted /\ LegIsFunded /\ BrokerHoldsPositions
    /\ OrdersAreKnown

\* Nothing is done twice: a perpetual position is entered once, and the sniper
\* sells what it bought once and sends the profit once.
ActsOnce == OneEntry /\ SoldOnce /\ ProfitIsPaidOnce

\* What is on record as done is not done again: a trade of a tracked wallet is
\* copied once, and the nest's passes pay a profit once.
DoneIsKnown == CopiedOnce /\ PaidWithinGains

\* What is counted is what happened: the trades of a day, the deepest fall of the
\* curve.
CountsAreTrue == DaysBookTrades /\ DrawdownIsWorst
==============================================================================
