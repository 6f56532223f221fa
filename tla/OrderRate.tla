------------------------------ MODULE OrderRate ------------------------------
(***************************************************************************)
(* The order counters of occore/operations/risk_controller.py: how         *)
(* check_order_risk, increment_order_counter and _reset_order_counters     *)
(* together limit the orders one bot sends in a minute and in a day.       *)
(*                                                                         *)
(* Time is a counter of ticks.  The monitoring loop, every five seconds in *)
(* the code and later when it has slept after an error, may run at any     *)
(* tick or miss it.  One bot has one task, so its requests do not overlap. *)
(***************************************************************************)
EXTENDS Integers

CONSTANTS
    Minute, Day,          \* their lengths in ticks
    MaxPerMinute,         \* RiskLimit.max_orders_per_minute
    MaxPerDay,            \* RiskLimit.max_orders_per_day
    MaxTime,              \* bound on the clock
    MaxPerTick            \* bound on the orders of one tick

ASSUME RateAssumption ==
    /\ Minute \in Nat \ {0} /\ Day \in Nat /\ Day >= Minute
    /\ MaxPerMinute \in Nat \ {0} /\ MaxPerDay \in Nat \ {0}
    /\ MaxTime \in Nat /\ MaxPerTick \in Nat \ {0}

VARIABLES
    now,        \* the clock
    known,      \* the bot has an entry in order_counter
    minute, day,\* order_counter[bot]
    resetAt,    \* order_counter_reset[bot]
    asked,      \* the bot was allowed an order it has not yet counted
    sent        \* at every tick, the orders counted up to its end

rateVars == <<now, known, minute, day, resetAt, asked, sent>>

Times == 0 .. MaxTime

RateTypeOK ==
    /\ now \in Times /\ resetAt \in Times
    /\ known \in BOOLEAN /\ asked \in BOOLEAN
    /\ minute \in Nat /\ day \in Nat
    /\ sent \in [Times -> Nat]

RateInit ==
    /\ now = 0 /\ resetAt = 0
    /\ known = FALSE /\ asked = FALSE
    /\ minute = 0 /\ day = 0
    /\ sent = [t \in Times |-> 0]

Before(t) == IF t = 0 THEN 0 ELSE sent[t - 1]

Tick == now < MaxTime /\ now' = now + 1 /\ UNCHANGED <<known, minute, day, resetAt, asked, sent>>

\* the counters are created, and their time set, by the first check
Touch == known' = TRUE /\ resetAt' = IF known THEN resetAt ELSE now

\* mutant of Check: one order too many a day
Check_OffByOne ==
    /\ ~asked
    /\ Touch
    /\ asked' = (minute < MaxPerMinute /\ day <= MaxPerDay)
    /\ UNCHANGED <<now, minute, day, sent>>

\* check_order_risk: both limits are tested before the order is sent
Check ==
    /\ ~asked
    /\ Touch
    /\ asked' = (minute < MaxPerMinute /\ day < MaxPerDay)
    /\ UNCHANGED <<now, minute, day, sent>>

\* open_position returned a position: increment_order_counter
Count ==
    /\ asked /\ sent[now] - Before(now) < MaxPerTick
    /\ asked' = FALSE
    /\ Touch
    /\ minute' = minute + 1 /\ day' = day + 1
    /\ sent' = [t \in Times |-> IF t < now THEN sent[t] ELSE sent[t] + 1]
    /\ UNCHANGED now

\* open_position raised: the order is not counted
Raise ==
    /\ asked
    /\ asked' = FALSE
    /\ UNCHANGED <<now, known, minute, day, resetAt, sent>>

\* _reset_order_counters: the time of the reset moves with the day, not with
\* the minute
Elapsed == now - resetAt

\* mutant of Reset: a minute's worth of orders is given back
Reset_GivesBack ==
    /\ known /\ Elapsed >= Minute
    /\ minute' = minute - MaxPerMinute
    /\ IF Elapsed >= Day THEN day' = 0 /\ resetAt' = now ELSE UNCHANGED <<day, resetAt>>
    /\ UNCHANGED <<now, known, asked, sent>>

Reset ==
    /\ known /\ Elapsed >= Minute
    /\ minute' = 0
    /\ IF Elapsed >= Day THEN day' = 0 /\ resetAt' = now ELSE UNCHANGED <<day, resetAt>>
    /\ UNCHANGED <<now, known, asked, sent>>

RateNext == Tick \/ Check \/ Count \/ Raise \/ Reset

RateSpec == RateInit /\ [][RateNext]_rateVars

-----------------------------------------------------------------------------
\* the orders of the length ticks from t on
SentIn(t, length) == (IF t + length <= MaxTime THEN Before(t + length) ELSE sent[MaxTime]) - Before(t)

\* No day holds more than twice the daily limit, wherever it begins: all that
\* a counter reset once a day can promise.
DayLimit == \A t \in Times : SentIn(t, Day) <= 2 * MaxPerDay

\* models.py:251 max_orders_per_minute, risk_controller.py:212: no minute holds
\* more than twice the limit, all that a counter reset once a minute would give.
MinuteLimit == \A t \in Times : SentIn(t, Minute) <= 2 * MaxPerMinute
=============================================================================
