-------------------------------- MODULE DCABot --------------------------------
(* The averaging bot of department 7 (src/department_7/src/bot/dca_bot.py):   *)
(* one initial purchase, one more at each fall of the price up to             *)
(* max_dca_count, one sale of everything at a profit, and from the start.     *)
(* Every purchase counts one unit; the price meets any condition at any time. *)
EXTENDS Integers, ExchangeCalls

CONSTANTS MaxDcaCount, \* max_dca_count
          MaxHeld      \* bound on the units held at the exchange

ASSUME DcaAssumption == MaxDcaCount \in Nat \ {0} /\ MaxHeld \in Nat

VARIABLES dAt,   \* where the task of run() or the call of stop() is
          dBy,   \* who called _initial_buy: "run", "profit" or "stop"
          dPos,  \* position: amount and dca_count, or NoPosition
          dLast, \* last_dca_price > 0
          dHeld, \* what the account holds at the exchange
          dLost  \* an answer has been lost, or a request cut off

dvars == <<dAt, dBy, dPos, dLast, dHeld, dLost>>

NoPosition == [amount |-> -1, count |-> -1]
\* The placeholder _initial_buy computes the amount with.
Placeholder == [amount |-> 0, count |-> 0]

DcaInit == dAt = "off" /\ dBy = "run" /\ dPos = NoPosition /\ dLast = FALSE /\ dHeld = 0 /\ dLost = FALSE

Working == dAt \in {"loop", "buy", "sell"}

\* mutant of DcaRun: every run begins with a purchase
DcaRun_Buys ==
    /\ dAt = "off" /\ dAt' = "buy" /\ dBy' = "run"
    /\ UNCHANGED <<dPos, dLast, dHeld, dLost>>

\* run: initialize, then the initial purchase unless a position is left from
\* an earlier run.
DcaRun ==
    /\ dAt = "off"
    /\ dAt' = IF dPos = NoPosition THEN "buy" ELSE "loop"
    /\ dBy' = "run"
    /\ UNCHANGED <<dPos, dLast, dHeld, dLost>>

\* What follows _initial_buy: the loop, or the rest of stop; an exception ends
\* the run through stop, but _execute_take_profit swallows it.
AfterBuy(raised) ==
    dAt' = CASE dBy = "stop" -> "off"
             [] dBy = "run" /\ raised -> "sell"
             [] OTHER -> "loop"

Caller(raised) == IF dBy = "run" /\ raised THEN "stop" ELSE dBy

\* _initial_buy with too little money: no position.
BuyTooLittle ==
    /\ dAt = "buy"
    /\ dPos' = NoPosition
    /\ AfterBuy(FALSE)
    /\ UNCHANGED <<dBy, dLast, dHeld, dLost>>

\* _initial_buy: an order that fails leaves the placeholder behind; a refusal
\* for lack of funds is swallowed, any other exception raised.
InitialBuy(out, raised) ==
    /\ dAt = "buy"
    /\ out = "ok" => ~raised
    /\ out = "lost" => raised
    /\ dHeld < MaxHeld
    /\ dPos' = IF AnswerCame(out) THEN [amount |-> 1, count |-> 1] ELSE Placeholder
    /\ dLast' = (dLast \/ AnswerCame(out))
    /\ dHeld' = IF Served(out) THEN dHeld + 1 ELSE dHeld
    /\ dLost' = (dLost \/ out = "lost")
    /\ AfterBuy(raised) /\ dBy' = Caller(raised)

\* mutant of ExecuteDca: no limit of purchases
ExecuteDca_Unlimited(out) ==
    /\ dAt = "loop" /\ dPos # NoPosition /\ dLast
    /\ dHeld < MaxHeld
    /\ dPos' = IF AnswerCame(out) THEN [amount |-> dPos.amount + 1, count |-> dPos.count + 1] ELSE dPos
    /\ dHeld' = IF Served(out) THEN dHeld + 1 ELSE dHeld
    /\ dLost' = (dLost \/ out = "lost")
    /\ UNCHANGED <<dAt, dBy, dLast>>

\* _check_dca_condition and _execute_dca.
ExecuteDca(out) ==
    /\ dAt = "loop" /\ dPos # NoPosition
    /\ dPos.count < MaxDcaCount /\ dLast
    /\ dHeld < MaxHeld
    /\ dPos' = IF AnswerCame(out) THEN [amount |-> dPos.amount + 1, count |-> dPos.count + 1] ELSE dPos
    /\ dHeld' = IF Served(out) THEN dHeld + 1 ELSE dHeld
    /\ dLost' = (dLost \/ out = "lost")
    /\ UNCHANGED <<dAt, dBy, dLast>>

\* _check_take_profit finds the price high enough.
TakeProfit ==
    /\ dAt = "loop" /\ dPos # NoPosition
    /\ dAt' = "sell" /\ dBy' = "profit"
    /\ UNCHANGED <<dPos, dLast, dHeld, dLost>>

\* mutant of Sell: stop tries again until the sale is answered
Sell_Again(out) ==
    /\ dAt = "sell"
    /\ Served(out) => dPos # NoPosition /\ 0 < dPos.amount /\ dPos.amount <= dHeld
    /\ dHeld' = IF Served(out) THEN dHeld - dPos.amount ELSE dHeld
    /\ dPos' = IF AnswerCame(out) THEN NoPosition ELSE dPos
    /\ dLast' = (dLast /\ ~AnswerCame(out))
    /\ dLost' = (dLost \/ out = "lost")
    /\ dAt' = IF AnswerCame(out) THEN "buy" ELSE "sell"
    /\ UNCHANGED dBy

\* _execute_take_profit: the whole position is sold and, five seconds later, a
\* new one bought, also when stop made the sale.  A sale of nothing, or of more
\* than the account holds, is refused.
Sell(out) ==
    /\ dAt = "sell"
    /\ Served(out) => dPos # NoPosition /\ 0 < dPos.amount /\ dPos.amount <= dHeld
    /\ dHeld' = IF Served(out) THEN dHeld - dPos.amount ELSE dHeld
    /\ dPos' = IF AnswerCame(out) THEN NoPosition ELSE dPos
    /\ dLast' = (dLast /\ ~AnswerCame(out))
    /\ dLost' = (dLost \/ out = "lost")
    /\ dAt' = IF AnswerCame(out) THEN "buy" ELSE IF dBy = "stop" THEN "off" ELSE "loop"
    /\ UNCHANGED dBy

\* stop, called by the manager when the task is done (the run calls it itself
\* when it is cancelled or fails).
ManagerStop ==
    /\ dAt = "off"
    /\ dAt' = IF dPos = NoPosition THEN "off" ELSE "sell"
    /\ dBy' = "stop"
    /\ UNCHANGED <<dPos, dLast, dHeld, dLost>>

\* The request a cancellation may cut off, served by the exchange or not.
Cut(request) ==
    CASE request = "buy"  -> dAt = "buy" /\ dHeld < MaxHeld
      [] request = "dca"  -> dAt = "loop" /\ dPos # NoPosition /\ dPos.count < MaxDcaCount /\ dLast
                             /\ dHeld < MaxHeld
      [] request = "sell" -> dAt = "sell" /\ dPos # NoPosition /\ 0 < dPos.amount /\ dPos.amount <= dHeld
      [] OTHER            -> TRUE

\* The task is cancelled: run goes to stop; stop, cancelled when its ten seconds
\* are over, ends where it is.  A cut purchase has set the placeholder, and a cut
\* sale, also one that was answered but not yet announced, leaves the position.
CancelDca(request, served) ==
    /\ Working /\ Cut(request)
    /\ request = "none" => ~served
    /\ dHeld' = IF ~served THEN dHeld
                ELSE IF request = "sell" THEN dHeld - dPos.amount ELSE dHeld + 1
    /\ dLost' = (dLost \/ served)
    /\ dPos' = IF request = "buy" THEN Placeholder ELSE dPos
    /\ dAt' = IF dBy = "stop" \/ dPos' = NoPosition THEN "off" ELSE "sell"
    /\ dBy' = "stop"
    /\ UNCHANGED dLast

DcaNext ==
    \/ DcaRun \/ BuyTooLittle \/ TakeProfit \/ ManagerStop
    \/ \E out \in Outcomes, raised \in BOOLEAN : InitialBuy(out, raised)
    \/ \E out \in Outcomes : ExecuteDca(out) \/ Sell(out)
    \/ \E request \in {"none", "buy", "dca", "sell"}, served \in BOOLEAN : CancelDca(request, served)

\* The requests are answered somehow: ccxt gives up after its timeout.
DcaAnswered ==
    BuyTooLittle \/ \E out \in Outcomes, raised \in BOOLEAN : InitialBuy(out, raised) \/ Sell(out)

DcaFairness == WF_dvars(DcaAnswered)

DcaSpec == DcaInit /\ [][DcaNext]_dvars /\ DcaFairness

------------------------------------------------------------------------------
DcaTypeOK ==
    /\ dAt \in {"off", "loop", "buy", "sell"} /\ dBy \in {"run", "profit", "stop"}
    /\ dPos \in [amount : 0 .. MaxDcaCount, count : 0 .. MaxDcaCount] \cup {NoPosition}
    /\ dLast \in BOOLEAN /\ dHeld \in 0 .. MaxHeld /\ dLost \in BOOLEAN

\* As long as every request is answered, the position is what the account
\* holds: through failed purchases and their placeholder, restarts over a
\* position that was left, sales by stop, and cancellations.
ShownIsHeld == ~dLost => dHeld = IF dPos = NoPosition THEN 0 ELSE dPos.amount

\* A stop comes to an end, whatever becomes of its sale and of the purchase that
\* follows it.
StopEnds == dBy = "stop" ~> dAt = "off"

\* A bot that is being stopped buys nothing: "봇 중지", "열린 포지션 정리".
StopBuysNothing == [][dBy = "stop" => dHeld' <= dHeld]_dvars
==============================================================================
