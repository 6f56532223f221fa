---------------------------- MODULE PerpetualBots ----------------------------
(* The bots of department 7 around perpetual futures: the funding rate bot and the *)
(* bot of Hyperliquid.  Two parts, each with its own state.                  *)
EXTENDS Integers, FiniteSets, ExchangeCalls

------------------------------------------------------------------------------
(* The funding rate bot of department 7                                        *)
(* (src/department_7/src/bot/funding_rate_bot.py): each pass buys the coins    *)
(* with a high funding rate, at most one position per symbol though two        *)
(* exchanges may offer it, and sells those whose rate has turned negative.     *)
(* A purchase counts one unit; rates are whatever the exchanges answer.        *)

CONSTANTS FundExchanges, FundSymbols,
          MaxFundHeld \* bound on the units of a symbol held at an exchange

ASSUME FundAssumption ==
    MaxFundHeld \in Nat /\ "none" \notin FundExchanges \cup FundSymbols

VARIABLES fAt,   \* where the task of run() or the call of stop() is
          fHigh, \* the opportunities of the pass not yet looked at
          fNeg,  \* the keys whose funding rate is negative
          fTodo, \* the symbols still to be exited, by the pass or by stop
          fSold, \* the symbol whose sale is answered but not yet taken off, or NoVenue
          fPos,  \* positions: the exchange a symbol was bought at, or NoVenue
          fHeld, \* what the account holds, by exchange and symbol
          fLost  \* an answer has been lost, or a request cut off

fvars == <<fAt, fHigh, fNeg, fTodo, fSold, fPos, fHeld, fLost>>

NoVenue == "none"
Keys == FundExchanges \X FundSymbols

FundInit ==
    /\ fAt = "off" /\ fHigh = {} /\ fNeg = {} /\ fTodo = {} /\ fSold = NoVenue
    /\ fPos = [s \in FundSymbols |-> NoVenue]
    /\ fHeld = [k \in Keys |-> 0]
    /\ fLost = FALSE

\* run: initialize keeps the positions of an earlier run.
FundRun ==
    /\ fAt = "off" /\ fAt' = "fetch"
    /\ UNCHANGED <<fHigh, fNeg, fTodo, fSold, fPos, fHeld, fLost>>

\* _fetch_funding_rates, each rate answered or kept, and the three best of
\* _analyze_opportunities.
FetchRates(high, neg) ==
    /\ fAt = "fetch" /\ fAt' = "enter"
    /\ Cardinality(high) <= 3 /\ high \cap neg = {}
    /\ fHigh' = high /\ fNeg' = neg
    /\ UNCHANGED <<fTodo, fSold, fPos, fHeld, fLost>>

\* mutant of EnterHedge: a symbol offered by two exchanges is bought at both
EnterHedge_Twice(key, out) ==
    /\ fAt = "enter" /\ key \in fHigh
    /\ fHigh' = fHigh \ {key}
    /\ fHeld[key] < MaxFundHeld
    /\ fPos' = IF AnswerCame(out) THEN [fPos EXCEPT ![key[2]] = key[1]] ELSE fPos
    /\ fHeld' = IF Served(out) THEN [fHeld EXCEPT ![key] = @ + 1] ELSE fHeld
    /\ fLost' = (fLost \/ out = "lost")
    /\ UNCHANGED <<fAt, fNeg, fTodo, fSold>>

\* The loop over the opportunities: a symbol that has a position, also one
\* entered in this pass at the other exchange, is passed over.  Every exception
\* of _enter_hedge_position is swallowed.  Only the spot leg exists.
EnterHedge(key, out) ==
    /\ fAt = "enter" /\ key \in fHigh
    /\ fHigh' = fHigh \ {key}
    /\ IF fPos[key[2]] # NoVenue THEN UNCHANGED <<fPos, fHeld, fLost>>
       ELSE /\ fHeld[key] < MaxFundHeld
            /\ fPos' = IF AnswerCame(out) THEN [fPos EXCEPT ![key[2]] = key[1]] ELSE fPos
            /\ fHeld' = IF Served(out) THEN [fHeld EXCEPT ![key] = @ + 1] ELSE fHeld
            /\ fLost' = (fLost \/ out = "lost")
    /\ UNCHANGED <<fAt, fNeg, fTodo, fSold>>

HeldSymbols == {s \in FundSymbols : fPos[s] # NoVenue}

\* _check_exit_conditions looks at the rate of the exchange the position is at.
CheckExits ==
    /\ fAt = "enter" /\ fHigh = {}
    /\ fAt' = "exit"
    /\ fTodo' = {s \in HeldSymbols : <<fPos[s], s>> \in fNeg}
    /\ UNCHANGED <<fHigh, fNeg, fSold, fPos, fHeld, fLost>>

\* _exit_position: the sale of a position the account may no longer hold.  When
\* it fails the position stays; when it is answered the profit is moved and the
\* operator told before the position is taken off.
ExitPosition(s, out) ==
    /\ fAt \in {"exit", "stop"} /\ fSold = NoVenue /\ s \in fTodo
    /\ LET key == <<fPos[s], s>>
       IN /\ Served(out) => fHeld[key] > 0
          /\ fHeld' = IF Served(out) THEN [fHeld EXCEPT ![key] = @ - 1] ELSE fHeld
    /\ fLost' = (fLost \/ out = "lost")
    /\ fSold' = IF AnswerCame(out) THEN s ELSE NoVenue
    /\ fTodo' = fTodo \ {s}
    /\ UNCHANGED <<fAt, fHigh, fNeg, fPos>>

Exited ==
    /\ fSold # NoVenue
    /\ fPos' = [fPos EXCEPT ![fSold] = NoVenue]
    /\ fSold' = NoVenue
    /\ UNCHANGED <<fAt, fHigh, fNeg, fTodo, fHeld, fLost>>

\* The end of a pass, or of stop.
ExitsDone ==
    /\ fAt \in {"exit", "stop"} /\ fTodo = {} /\ fSold = NoVenue
    /\ fAt' = IF fAt = "exit" THEN "fetch" ELSE "off"
    /\ UNCHANGED <<fHigh, fNeg, fTodo, fSold, fPos, fHeld, fLost>>

\* stop, called by the manager after the run has called it.
FundStop ==
    /\ fAt = "off" /\ fAt' = "stop"
    /\ fTodo' = HeldSymbols
    /\ UNCHANGED <<fHigh, fNeg, fSold, fPos, fHeld, fLost>>

\* The task is cancelled: run goes on with stop, for every position, also the one
\* just sold; stop, cancelled, ends where it is.  The request under way is served
\* or not.
CancelFund(keep) ==
    /\ fAt # "off"
    /\ fAt' = IF fAt = "stop" THEN "off" ELSE "stop"
    /\ fTodo' = IF fAt = "stop" THEN {} ELSE HeldSymbols
    /\ fHigh' = {} /\ fNeg' = {} /\ fSold' = NoVenue
    /\ IF keep THEN UNCHANGED <<fHeld, fLost>>
       ELSE /\ fLost' = TRUE
            /\ \/ \E key \in fHigh : /\ fAt = "enter" /\ fPos[key[2]] = NoVenue /\ fHeld[key] < MaxFundHeld
                                     /\ fHeld' = [fHeld EXCEPT ![key] = @ + 1]
               \/ \E s \in fTodo : /\ fSold = NoVenue /\ fHeld[<<fPos[s], s>>] > 0
                                   /\ fHeld' = [fHeld EXCEPT ![<<fPos[s], s>>] = @ - 1]
    /\ UNCHANGED fPos

FundNext ==
    \/ FundRun \/ CheckExits \/ Exited \/ ExitsDone \/ FundStop
    \/ \E high, neg \in SUBSET Keys : FetchRates(high, neg)
    \/ \E key \in Keys, out \in Outcomes : EnterHedge(key, out)
    \/ \E s \in FundSymbols, out \in Outcomes : ExitPosition(s, out)
    \/ \E keep \in BOOLEAN : CancelFund(keep)

FundSpec == FundInit /\ [][FundNext]_fvars

------------------------------------------------------------------------------
FundTypeOK ==
    /\ fAt \in {"off", "fetch", "enter", "exit", "stop"}
    /\ fHigh \subseteq Keys /\ fNeg \subseteq Keys /\ fTodo \subseteq HeldSymbols
    /\ fSold \in HeldSymbols \cup {NoVenue}
    /\ fPos \in [FundSymbols -> FundExchanges \cup {NoVenue}]
    /\ fHeld \in [Keys -> 0 .. MaxFundHeld] /\ fLost \in BOOLEAN

\* As long as every request is answered, what the account holds is one unit per
\* symbol, at the exchange the position says: through passes, failed sales, stops
\* and restarts, cancelled runs, and two exchanges that offer the same symbol.
HeldIsShown ==
    ~fLost => \A key \in Keys : fHeld[key] <= IF fPos[key[2]] = key[1] THEN 1 ELSE 0

------------------------------------------------------------------------------
(* The perpetual futures bot of department 7                                   *)
(* (src/department_7/src/bot/hyperliquid_bot.py).  It keeps no position of its *)
(* own: each pass asks the exchange for it, and takes a failed question for    *)
(* "no position".  The exchange's client blocks, so that a cancellation falls  *)
(* between its calls.  Exposure is in units of one full entry.                 *)

CONSTANT MaxExposure \* bound on the exposure, either way

ASSUME HyperAssumption == MaxExposure \in Nat \ {0}

VARIABLES hAt,    \* where the task of run() is
          hSeen,  \* current_position of the pass: -1, 0 or 1 by its side
          hSize,  \* and its size
          hHeld,  \* the exposure at the exchange, shorts negative
          hBlind  \* a question for the position has failed

hvars == <<hAt, hSeen, hSize, hHeld, hBlind>>

Sign(x) == IF x > 0 THEN 1 ELSE IF x < 0 THEN -1 ELSE 0
Abs(x) == Sign(x) * x

HyperInit == hAt = "off" /\ hSeen = 0 /\ hSize = 0 /\ hHeld = 0 /\ hBlind = FALSE

HyperRun == hAt = "off" /\ hAt' = "loop" /\ UNCHANGED <<hSeen, hSize, hHeld, hBlind>>

\* mutant of GetCurrentPosition: a short position, of negative size, is none
GetCurrentPosition_LongOnly(answered) ==
    /\ hAt = "loop" /\ hAt' = "pass"
    /\ hSeen' = IF answered /\ hHeld > 0 THEN 1 ELSE 0
    /\ hSize' = IF answered /\ hHeld > 0 THEN hHeld ELSE 0
    /\ hBlind' = (hBlind \/ ~answered)
    /\ UNCHANGED hHeld

\* _run_live_loop begins with the price, without which the pass ends, and
\* _get_current_position.
GetCurrentPosition(answered) ==
    /\ hAt = "loop" /\ hAt' = "pass"
    /\ hSeen' = IF answered THEN Sign(hHeld) ELSE 0
    /\ hSize' = IF answered THEN Abs(hHeld) ELSE 0
    /\ hBlind' = (hBlind \/ ~answered)
    /\ UNCHANGED hHeld

\* market_close reduces what is held, and by no more than that.
CloseHyper(out) ==
    hHeld' = IF Served(out) /\ Sign(hHeld) = hSeen
               THEN hHeld - hSeen * (IF hSize > Abs(hHeld) THEN Abs(hHeld) ELSE hSize)
               ELSE hHeld

\* A stop loss or a profit ends the pass.
ExitHyper(out) ==
    /\ hAt = "pass" /\ hSeen # 0
    /\ CloseHyper(out)
    /\ hAt' = "loop"
    /\ UNCHANGED <<hSeen, hSize, hBlind>>

\* "hold", or the side of the position in hand.
Hold == hAt = "pass" /\ hAt' = "loop" /\ UNCHANGED <<hSeen, hSize, hHeld, hBlind>>

\* The signal is against the position: it is closed, and whether or not that
\* succeeded the other side is opened next.
ReverseHyper(out) ==
    /\ hAt = "pass" /\ hSeen # 0
    /\ CloseHyper(out)
    /\ hAt' = IF hSeen = 1 THEN "short" ELSE "long"
    /\ UNCHANGED <<hSeen, hSize, hBlind>>

\* A signal without a position.
EnterHyper(side) ==
    /\ hAt = "pass" /\ hSeen = 0
    /\ hAt' = side
    /\ UNCHANGED <<hSeen, hSize, hHeld, hBlind>>

OpenHyper(out) ==
    /\ hAt \in {"long", "short"}
    /\ hHeld' = IF Served(out) THEN hHeld + (IF hAt = "long" THEN 1 ELSE -1) ELSE hHeld
    /\ Abs(hHeld') <= MaxExposure
    /\ hAt' = "loop"
    /\ UNCHANGED <<hSeen, hSize, hBlind>>

\* The task is cancelled: stop closes self.position, which nothing ever sets.
CancelHyper == hAt # "off" /\ hAt' = "off" /\ UNCHANGED <<hSeen, hSize, hHeld, hBlind>>

HyperNext ==
    \/ HyperRun \/ Hold \/ CancelHyper
    \/ \E answered \in BOOLEAN : GetCurrentPosition(answered)
    \/ \E out \in Outcomes : ExitHyper(out) \/ ReverseHyper(out) \/ OpenHyper(out)
    \/ \E side \in {"long", "short"} : EnterHyper(side)

HyperSpec == HyperInit /\ [][HyperNext]_hvars

------------------------------------------------------------------------------
HyperTypeOK ==
    /\ hAt \in {"off", "loop", "pass", "long", "short"}
    /\ hSeen \in {-1, 0, 1} /\ hSize \in 0 .. MaxExposure
    /\ hHeld \in -MaxExposure .. MaxExposure /\ hBlind \in BOOLEAN

\* The bot never holds more than one entry, whatever answers to its orders are
\* lost, reversals fail half way, and runs end and begin again over an open
\* position; only a question for the position that failed can add a second.
OneEntry == ~hBlind => Abs(hHeld) <= 1

\* "봇 정지 - 열린 포지션 먼저 청산 후 중지": a bot that was stopped holds nothing.
StopClosesPosition == hAt = "off" => hHeld = 0
==============================================================================
