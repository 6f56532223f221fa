---------------------------- MODULE Parts_proofs ----------------------------
(* The parts of MCParts, proved for every value of the constants: the order    *)
(* counters, the withdrawals and the bots of department 7, one by one, and the *)
(* composition MCParts makes of them.                                          *)
EXTENDS MCParts, TradingStack_proofs, FiniteSetTheorems, WellFoundedInduction, TLAPS

------------------------------------------------------------------------------
(* The order counters: what they promise for every limit and every length of *)
(* the minute and the day.                                                   *)

\* the orders of the days before the current one
Earlier == sent[now] - day

RateTypes ==
    /\ now \in Times /\ resetAt \in 0 .. now
    /\ known \in BOOLEAN /\ asked \in BOOLEAN
    /\ minute \in Nat /\ day \in Nat
    /\ sent \in [Times -> Nat]

\* The counter counts every order since the last reset; asked is FALSE while
\* nothing is known.
CountSound ==
    /\ day <= MaxPerDay /\ (asked => day < MaxPerDay)
    /\ ~known => ~asked /\ day = 0 /\ sent[now] = 0
    /\ Earlier >= 0

\* sent only grows, up to now, and what was sent since the reset began is this
\* day's.
SentSound ==
    /\ \A t, u \in Times : t <= u => sent[t] <= sent[u]
    /\ \A t \in Times : now <= t => sent[t] = sent[now]
    /\ \A t \in Times : resetAt <= t => sent[t] >= Earlier

\* A day's length before the reset lies within one earlier day.
EarlierSound == \A t \in Times : resetAt - Day < t /\ t <= resetAt => Earlier - Before(t) <= MaxPerDay

RateIInv == RateTypes /\ CountSound /\ SentSound /\ EarlierSound /\ DayLimit

\* the orders of a day's length that is not over
LEMMA OpenDay ==
    ASSUME RateTypes, CountSound, SentSound, EarlierSound,
           NEW t \in Times, now < t + Day
    PROVE  sent[now] - Before(t) <= MaxPerDay + day
<1> USE RateAssumption DEF RateTypes, Times
<1>1. CASE t <= resetAt
  BY <1>1 DEF EarlierSound, CountSound, Earlier, Before
<1>2. CASE t > resetAt
  BY <1>2 DEF SentSound, CountSound, Earlier, Before
<1> QED
  BY <1>1, <1>2

LEMMA RateInitSound == RateInit => RateIInv
<1> SUFFICES ASSUME RateInit PROVE RateIInv
  OBVIOUS
<1> USE RateAssumption DEF RateInit, Times
<1>0. Earlier = 0 /\ \A t \in Times : sent[t] = 0
  BY DEF Earlier
<1>1. RateTypes /\ CountSound /\ SentSound /\ EarlierSound
  <2>1. RateTypes /\ CountSound
    <3>1. RateTypes
      <4>1. known \in BOOLEAN /\ asked \in BOOLEAN
        OBVIOUS
      <4>2. now \in Times /\ resetAt \in 0 .. now /\ minute \in Nat /\ day \in Nat /\ sent \in [Times -> Nat]
        OBVIOUS
      <4> QED
        BY ONLY <4>1, <4>2 DEF RateTypes
    <3>2. CountSound
      BY <1>0 DEF CountSound
    <3> QED
      BY <3>1, <3>2
  <2>2. SentSound /\ EarlierSound
    BY <1>0 DEF SentSound, EarlierSound, Before
  <2> QED
    BY <2>1, <2>2
<1>2. DayLimit
  BY DEF DayLimit, SentIn, Before
<1> QED
  BY <1>1, <1>2 DEF RateIInv

LEMMA RateStep == RateIInv /\ [RateNext]_rateVars => RateIInv'
<1> SUFFICES ASSUME RateIInv, [RateNext]_rateVars PROVE RateIInv'
  OBVIOUS
<1> USE RateAssumption DEF RateTypes, Times
<1>1. RateTypes /\ CountSound /\ SentSound /\ EarlierSound /\ DayLimit
  BY DEF RateIInv
<1>2. CASE Tick
  <2>1. RateTypes' /\ CountSound' /\ SentSound'
    BY <1>1, <1>2 DEF Tick, CountSound, SentSound, Earlier
  <2>2. EarlierSound'
    BY <1>1, <1>2 DEF Tick, EarlierSound, SentSound, Earlier, Before
  <2>3. DayLimit'
    BY <1>1, <1>2 DEF Tick, DayLimit, SentIn, Before
  <2> QED
    BY <2>1, <2>2, <2>3 DEF RateIInv
\* the first check sets the time of the reset
<1>3. ASSUME Touch, UNCHANGED <<now, sent>>
      PROVE  resetAt' \in 0 .. now /\ (known => resetAt' = resetAt) /\ (~known => resetAt' = now)
  BY <1>1, <1>3 DEF Touch
<1>4. CASE Check
  <2>1. /\ UNCHANGED <<now, minute, day, sent>> /\ known' = TRUE
        /\ asked' \in BOOLEAN /\ (asked' => day < MaxPerDay)
    BY <1>4 DEF Check, Touch
  <2>2. RateTypes' /\ CountSound'
    BY <1>1, <1>3, <1>4, <2>1 DEF Check, CountSound, Earlier
  <2>3. SentSound' /\ EarlierSound'
    <3>1. CASE known
      BY <1>1, <1>3, <1>4, <2>1, <3>1 DEF Check, SentSound, EarlierSound, Earlier, Before
    <3>2. CASE ~known
      BY <1>1, <1>3, <1>4, <2>1, <3>2 DEF Check, CountSound, SentSound, EarlierSound, Earlier, Before
    <3> QED
      BY <3>1, <3>2
  <2>4. DayLimit'
    BY <1>1, <2>1 DEF DayLimit, SentIn, Before
  <2> QED
    BY <2>2, <2>3, <2>4 DEF RateIInv
<1>5. CASE Count
  <2>1. known /\ resetAt' = resetAt
    BY <1>1, <1>5 DEF Count, Touch, CountSound
  <2>2. /\ \A t \in Times : sent'[t] = IF t < now THEN sent[t] ELSE sent[t] + 1
        /\ now' = now /\ day' = day + 1 /\ known' = TRUE /\ asked' = FALSE
        /\ sent' \in [Times -> Nat] /\ minute' \in Nat /\ sent'[now] = sent[now] + 1
    BY <1>1, <1>5 DEF Count, Touch
  <2>4. Earlier' = Earlier
    <3>1. Earlier' = sent'[now] - (day + 1) /\ sent[now] \in Nat
      BY <1>1, <2>2 DEF Earlier
    <3> QED
      BY <1>1, <2>2, <3>1 DEF Earlier
  <2>3. RateTypes' /\ CountSound'
    <3>1. RateTypes'
      <4>1. known' \in BOOLEAN /\ asked' \in BOOLEAN
        BY <2>2
      <4> QED
        BY <1>1, <2>1, <2>2, <4>1
    <3>2. CountSound'
      BY <1>1, <1>5, <2>2, <2>4 DEF Count, CountSound
    <3> QED
      BY <3>1, <3>2
  <2>5. SentSound'
    <3>1. ASSUME NEW t \in Times, NEW u \in Times, t <= u PROVE sent'[t] <= sent'[u]
      <4>1. sent[t] <= sent[u] /\ sent[t] \in Nat /\ sent[u] \in Nat
        BY <1>1, <3>1 DEF SentSound
      <4>2. /\ sent'[t] = IF t < now THEN sent[t] ELSE sent[t] + 1
            /\ sent'[u] = IF u < now THEN sent[u] ELSE sent[u] + 1
        BY <2>2
      <4>3. t \in Int /\ u \in Int /\ now \in Int
        BY <1>1
      <4> QED
        BY <3>1, <4>1, <4>2, <4>3
    <3>2. \A t \in Times : now <= t => sent'[t] = sent'[now]
      BY <1>1, <2>2 DEF SentSound
    <3>3. \A t \in Times : resetAt <= t => sent'[t] >= Earlier
      BY <1>1, <2>2, SMTT(30) DEF SentSound, Earlier
    <3> QED
      BY <2>1, <2>2, <2>4, <3>1, <3>2, <3>3 DEF SentSound
  <2>6. EarlierSound'
    BY <1>1, <2>1, <2>2, <2>4 DEF EarlierSound, Before
  <2>7. DayLimit'
    <3> SUFFICES ASSUME NEW t \in Times PROVE SentIn(t, Day)' <= 2 * MaxPerDay
      BY DEF DayLimit
    <3>1. Before(t)' = IF t <= now THEN Before(t) ELSE Before(t) + 1
      BY <1>1, <2>2 DEF Before
    <3>2. CASE t + Day <= now
      <4>1. SentIn(t, Day)' = Before(t + Day)' - Before(t)' /\ SentIn(t, Day) = Before(t + Day) - Before(t)
        BY <1>1, <3>2 DEF SentIn
      <4>2. Before(t + Day)' = Before(t + Day) /\ Before(t)' = Before(t)
        BY <1>1, <2>2, <3>1, <3>2 DEF Before
      <4> QED
        BY <1>1, <4>1, <4>2 DEF DayLimit
    <3>3. CASE now < t + Day
      <4>1. SentIn(t, Day)' <= sent[now] + 1 - Before(t)
        BY <1>1, <2>2, <3>1, <3>3 DEF SentIn, SentSound, Before
      <4>2. sent[now] - Before(t) <= MaxPerDay + day /\ day < MaxPerDay
        BY <1>1, <1>5, <3>3, OpenDay DEF Count, CountSound
      <4>3. Before(t) \in Nat /\ sent[now] \in Nat /\ day \in Nat
        BY <1>1 DEF Before
      <4>4. SentIn(t, Day)' \in Int
        <5>1. sent' \in [0 .. MaxTime -> Nat] /\ MaxTime \in Nat /\ Day \in Nat
          BY <1>1, <2>2
        <5>2. \A u \in 0 .. MaxTime : sent'[u] \in Nat
          BY ONLY <5>1
        <5>3. Before(t)' \in Nat
          BY <1>1, <3>1, <4>3
        <5>4. t + Day <= MaxTime => Before(t + Day)' \in Nat
          BY ONLY <5>1, <5>2, t \in 0 .. MaxTime DEF Before
        <5> QED
          BY ONLY <5>1, <5>2, <5>3, <5>4 DEF SentIn
      <4> QED
        BY <4>1, <4>2, <4>3, <4>4
    <3> QED
      BY <1>1, <3>2, <3>3
  <2> QED
    BY <2>3, <2>5, <2>6, <2>7 DEF RateIInv
<1>6. CASE Raise
  <2>1. UNCHANGED <<now, known, minute, day, resetAt, sent>> /\ asked' = FALSE
    BY <1>6 DEF Raise
  <2>2. RateTypes' /\ CountSound' /\ SentSound' /\ EarlierSound' /\ DayLimit'
    BY <1>1, <2>1
    DEF CountSound, SentSound, EarlierSound, DayLimit, SentIn, Earlier, Before
  <2> QED
    BY <2>2 DEF RateIInv
<1>7. CASE Reset
  <2>1. /\ UNCHANGED <<now, known, asked, sent>> /\ minute' \in Nat /\ known
    BY <1>7 DEF Reset
  <2>2. DayLimit'
    BY <1>1, <2>1 DEF DayLimit, SentIn, Before
  <2>3. CASE UNCHANGED <<day, resetAt>>
    BY <1>1, <2>1, <2>2, <2>3
    DEF RateIInv, CountSound, SentSound, EarlierSound, Earlier, Before
  <2>4. CASE day' = 0 /\ resetAt' = now /\ now - resetAt >= Day
    <3>1. RateTypes' /\ CountSound' /\ SentSound'
      BY <1>1, <2>1, <2>4 DEF CountSound, SentSound, Earlier
    <3>2. EarlierSound'
      BY <1>1, <2>1, <2>4 DEF CountSound, SentSound, EarlierSound, Earlier, Before
    <3> QED
      BY <2>2, <3>1, <3>2 DEF RateIInv
  <2> QED
    BY <1>7, <2>3, <2>4 DEF Reset, Elapsed
<1>8. CASE UNCHANGED rateVars
  BY <1>1, <1>8
  DEF rateVars, RateIInv, CountSound, SentSound, EarlierSound, DayLimit, SentIn, Earlier, Before
<1> QED
  BY <1>2, <1>4, <1>5, <1>6, <1>7, <1>8 DEF RateNext

\* No day's length, wherever it begins, holds more than twice max_orders_per_day:
\* the time of the reset moves with the day, so that two resets lie a day apart.
THEOREM RateDayLimit == RateSpec => []DayLimit
<1>1. RateIInv => DayLimit
  BY DEF RateIInv
<1> QED
  BY <1>1, RateInitSound, RateStep, PTL DEF RateSpec

------------------------------------------------------------------------------
(* The withdrawals: a request is settled once, and with one confirmation at a *)
(* time what is paid out was earned.                                          *)

WItem == [exchange : Exchanges, amount : Nat]
WRequest == [exchange : Exchanges, amount : Nat, status : {"processing", "completed", "failed"}]

WTypes ==
    /\ wPend \in [Exchanges -> Nat] /\ wEarned \in [Exchanges -> Nat]
    /\ wHist \in Seq(WRequest)
    /\ wFile \in [pend : [Exchanges -> Nat], hist : Seq(WRequest)]
    /\ wTask \in [Withdrawers -> [on : BOOLEAN, left : SUBSET WItem, req : Nat]]
    /\ wCrashes \in Nat

\* A withdrawal under way has a request of its own, on which no verdict is given.
RequestsSound ==
    /\ \A t \in Withdrawers : wTask[t].on => /\ wTask[t].req \in DOMAIN wHist
                                             /\ wHist[wTask[t].req].status = "processing"
    /\ \A s, t \in Withdrawers : wTask[s].on /\ wTask[t].on /\ wTask[s].req = wTask[t].req => s = t

WSafe == WTypes /\ RequestsSound /\ QuietIsSaved

LEMMA WInitSound == WInit => WSafe
<1> SUFFICES ASSUME WInit PROVE WSafe
  OBVIOUS
<1> USE DEF WInit, Zero, WIdle, NoRequest
<1>1. WTypes
  BY DEF WTypes
<1>2. RequestsSound /\ QuietIsSaved
  BY DEF RequestsSound, QuietIsSaved
<1> QED
  BY <1>1, <1>2 DEF WSafe

\* what a step of execute_consolidation comes to: all is done and saved, or one
\* more request is made
AllDone(t, hist) ==
    /\ wPend' = Zero /\ wHist' = hist /\ wFile' = [pend |-> Zero, hist |-> hist]
    /\ wTask' = [wTask EXCEPT ![t] = WIdle]
Requesting(t, items, hist, item) ==
    /\ item.amount > 0
    /\ wHist' = Append(hist, Processing(item.exchange, item.amount))
    /\ wTask' = [wTask EXCEPT ![t] =
                   [on |-> TRUE, left |-> {i \in items : i.amount > 0} \ {item}, req |-> Len(hist) + 1]]
    /\ UNCHANGED <<wPend, wFile>>

LEMMA ConsolidateCases ==
    ASSUME NEW t \in Withdrawers, NEW items, NEW hist, Consolidate(t, items, hist)
    PROVE  AllDone(t, hist) \/ \E item \in items : Requesting(t, items, hist, item)
<1>1. CASE {i \in items : i.amount > 0} = {}
  BY <1>1 DEF Consolidate, SaveData, AllDone
<1>2. CASE {i \in items : i.amount > 0} # {}
  BY <1>2 DEF Consolidate, Requesting
<1> QED
  BY <1>1, <1>2

\* a history that differs from wHist in the verdict on the request of t at most,
\* and no longer needs it
Verdict(t, hist) ==
    /\ hist \in Seq(WRequest) /\ Len(hist) = Len(wHist)
    /\ \A i \in DOMAIN wHist : (wTask[t].on /\ i = wTask[t].req) \/ hist[i] = wHist[i]

LEMMA SettledSound ==
    ASSUME WTypes, RequestsSound, NEW t \in Withdrawers, NEW success \in BOOLEAN, wTask[t].on
    PROVE  Verdict(t, Settled(t, success))
<1> DEFINE r == wTask[t].req
           v == IF success THEN "completed" ELSE "failed"
<1>1. r \in DOMAIN wHist /\ wHist \in [1 .. Len(wHist) -> WRequest] /\ Len(wHist) \in Nat
  BY DEF WTypes, RequestsSound
<1>2. [wHist[r] EXCEPT !.status = v] \in WRequest
  BY <1>1 DEF WRequest
<1>3. Settled(t, success) = [wHist EXCEPT ![r] = [wHist[r] EXCEPT !.status = v]]
  BY DEF Settled
<1> HIDE DEF v
<1>4. Settled(t, success) \in [1 .. Len(wHist) -> WRequest]
  BY <1>1, <1>2, <1>3
<1>5. Settled(t, success) \in Seq(WRequest) /\ Len(Settled(t, success)) = Len(wHist)
  BY <1>1, <1>4
<1>6. \A i \in DOMAIN wHist : i = r \/ Settled(t, success)[i] = wHist[i]
  BY <1>1, <1>3
<1> QED
  BY <1>5, <1>6 DEF Verdict

LEMMA DoneSound ==
    ASSUME WSafe, NEW t \in Withdrawers, NEW hist, Verdict(t, hist),
           wPend' \in [Exchanges -> Nat], wHist' = hist, wFile' = [pend |-> wPend', hist |-> hist],
           wTask' = [wTask EXCEPT ![t] = WIdle], UNCHANGED wCrashes, wEarned' \in [Exchanges -> Nat]
    PROVE  WSafe'
<1> USE DEF WSafe, WTypes, Verdict
<1>1. WTypes'
  BY DEF WIdle, NoRequest
<1>2. /\ ~wTask'[t].on /\ \A u \in Withdrawers \ {t} : wTask'[u] = wTask[u]
      /\ DOMAIN wHist' = DOMAIN wHist
  BY DEF WIdle
<1>3. RequestsSound'
  BY <1>2 DEF RequestsSound
<1> QED
  BY <1>1, <1>3 DEF QuietIsSaved

\* one more request is made, and the task t will answer it
Asks(t, hist, item, left) ==
    /\ Verdict(t, hist) /\ item \in WItem /\ left \in SUBSET WItem
    /\ wHist' = Append(hist, Processing(item.exchange, item.amount))
    /\ wTask' = [wTask EXCEPT ![t] = [on |-> TRUE, left |-> left, req |-> Len(hist) + 1]]
    /\ UNCHANGED <<wPend, wFile, wCrashes, wEarned>>

LEMMA RequestKeeps ==
    ASSUME WSafe, NEW t \in Withdrawers, NEW hist, NEW item, NEW left, Asks(t, hist, item, left)
    PROVE  WSafe'
<1> USE DEF WSafe, WTypes, Verdict, Asks
<1>1. Processing(item.exchange, item.amount) \in WRequest /\ Processing(item.exchange, item.amount).status = "processing"
  BY DEF Processing, WRequest, WItem
<1>2. /\ wHist' \in Seq(WRequest) /\ Len(wHist') = Len(wHist) + 1 /\ Len(wHist) \in Nat
      /\ wHist'[Len(wHist) + 1] = Processing(item.exchange, item.amount)
      /\ \A i \in DOMAIN wHist : wHist'[i] = hist[i]
      /\ DOMAIN wHist = 1 .. Len(wHist) /\ DOMAIN wHist' = 1 .. Len(wHist) + 1
  BY <1>1
<1>3. /\ wTask'[t] = [on |-> TRUE, left |-> left, req |-> Len(wHist) + 1]
      /\ \A u \in Withdrawers \ {t} : wTask'[u] = wTask[u]
  OBVIOUS
<1>4. WTypes'
  BY <1>2
<1>5. ASSUME NEW u \in Withdrawers, wTask'[u].on
      PROVE  /\ wTask'[u].req \in DOMAIN wHist' /\ wHist'[wTask'[u].req].status = "processing"
             /\ u # t => wTask'[u].req # Len(wHist) + 1
  <2>1. CASE u = t
    BY <1>1, <1>2, <1>3, <2>1
  <2>2. CASE u # t
    <3>1. /\ wTask[u].on /\ wTask'[u].req = wTask[u].req /\ wTask[u].req \in DOMAIN wHist
          /\ wHist[wTask[u].req].status = "processing"
      BY <1>3, <1>5, <2>2 DEF RequestsSound
    <3>2. hist[wTask[u].req] = wHist[wTask[u].req]
      BY <2>2, <3>1 DEF RequestsSound
    <3> QED
      BY <1>2, <3>1, <3>2
  <2> QED
    BY <2>1, <2>2
<1>6. \A s, u \in Withdrawers : wTask'[s].on /\ wTask'[u].on /\ wTask'[s].req = wTask'[u].req => s = u
  <2> SUFFICES ASSUME NEW s \in Withdrawers, NEW u \in Withdrawers, wTask'[s].on, wTask'[u].on,
                      wTask'[s].req = wTask'[u].req, s # u
               PROVE  FALSE
    OBVIOUS
  <2>1. CASE s # t /\ u # t
    BY <1>3, <2>1 DEF RequestsSound
  <2>2. CASE s = t \/ u = t
    BY <1>3, <1>5, <2>2
  <2> QED
    BY <2>1, <2>2
<1>7. RequestsSound'
  BY <1>5, <1>6 DEF RequestsSound
<1>8. QuietIsSaved'
  BY <1>3 DEF QuietIsSaved, WBusy
<1> QED
  BY <1>4, <1>7, <1>8

\* nothing is settled twice, and nobody else's request is
LEMMA VerdictKeeps ==
    ASSUME WTypes, RequestsSound, NEW t \in Withdrawers, NEW hist, Verdict(t, hist),
           NEW i \in DOMAIN wHist, wHist[i].status # "processing"
    PROVE  hist[i] = wHist[i]
  BY DEF Verdict, RequestsSound

SettlesOnce ==
    wCrashes' = wCrashes =>
       \A i \in DOMAIN wHist : wHist[i].status # "processing" /\ i \in DOMAIN wHist'
          => wHist'[i] = wHist[i]

LEMMA WithdrawalStep ==
    WSafe /\ [WNext]_wvars => WSafe' /\ SettlesOnce
<1> SUFFICES ASSUME WSafe, [WNext]_wvars PROVE WSafe' /\ SettlesOnce
  OBVIOUS
<1> USE WAssumption
<1>1. WTypes /\ RequestsSound /\ QuietIsSaved /\ Confirmers \subseteq Withdrawers /\ Manuals \subseteq Withdrawers
  BY DEF WSafe, Withdrawers
<1>2. ASSUME NEW e \in Exchanges, AllocateProfit(e) PROVE WSafe' /\ SettlesOnce
  <2>1. /\ wPend' \in [Exchanges -> Nat] /\ wEarned' \in [Exchanges -> Nat]
        /\ wHist' = wHist /\ wFile' = [pend |-> wPend', hist |-> wHist'] /\ UNCHANGED <<wTask, wCrashes>>
    BY <1>1, <1>2 DEF AllocateProfit, SaveData, WTypes
  <2> QED
    BY <1>1, <2>1 DEF WSafe, WTypes, RequestsSound, QuietIsSaved, SettlesOnce
\* what follows an answer, or the list of what is pending
<1>3. ASSUME NEW t \in Withdrawers, NEW hist, Verdict(t, hist), NEW items \in SUBSET WItem,
             Consolidate(t, items, hist), UNCHANGED <<wEarned, wCrashes>>
      PROVE  WSafe' /\ SettlesOnce
  <2>1. CASE AllDone(t, hist)
    <3>1. Zero \in [Exchanges -> Nat]
      BY DEF Zero
    <3>2. WSafe'
      BY <1>1, <1>3, <2>1, <3>1, DoneSound DEF AllDone, WTypes
    <3> QED
      BY <1>1, <1>3, <2>1, <3>2, VerdictKeeps DEF AllDone, SettlesOnce
  <2>2. CASE \E item \in items : Requesting(t, items, hist, item)
    <3>1. PICK item \in items : Requesting(t, items, hist, item)
      BY <2>2
    <3> DEFINE left == {i \in items : i.amount > 0} \ {item}
    <3>3. item \in WItem /\ left \in SUBSET WItem
      OBVIOUS
    <3>4. /\ wHist' = Append(hist, Processing(item.exchange, item.amount))
          /\ wTask' = [wTask EXCEPT ![t] = [on |-> TRUE, left |-> left, req |-> Len(hist) + 1]]
          /\ UNCHANGED <<wPend, wFile, wCrashes, wEarned>>
      BY <1>3, <3>1 DEF Requesting
    <3>5. Asks(t, hist, item, left)
      BY <1>3, <3>3, <3>4 DEF Asks
    <3> HIDE DEF left
    <3>2. WSafe'
      BY <3>5, RequestKeeps
    <3>6. \A i \in DOMAIN wHist : wHist'[i] = hist[i]
      BY <1>1, <1>3, <3>4 DEF WTypes, Verdict
    <3> QED
      BY <1>1, <1>3, <3>2, <3>6, VerdictKeeps DEF SettlesOnce
  <2> QED
    BY <1>3, <2>1, <2>2, ConsolidateCases
<1>4. ASSUME NEW t \in Withdrawers, ~wTask[t].on PROVE Verdict(t, wHist)
  BY <1>1 DEF Verdict, WTypes
<1>5. ASSUME NEW t \in Confirmers, Confirm(t) PROVE WSafe' /\ SettlesOnce
  <2>1. PendingItems \in SUBSET WItem
    BY <1>1 DEF PendingItems, WItem, WTypes
  <2> QED
    BY <1>1, <1>3, <1>4, <1>5, <2>1 DEF Confirm
<1>6. ASSUME NEW t \in Confirmers, NEW success \in BOOLEAN, Withdrawn(t, success)
      PROVE  WSafe' /\ SettlesOnce
  <2>1. wTask[t].left \in SUBSET WItem
    BY <1>1 DEF WTypes
  <2> QED
    BY <1>1, <1>3, <1>6, <2>1, SettledSound DEF Withdrawn
<1>7. ASSUME NEW t \in Manuals, NEW e \in Exchanges, ManualRequest(t, e) PROVE WSafe' /\ SettlesOnce
  <2> DEFINE item == [exchange |-> e, amount |-> 1]
  <2>1. item \in WItem
    BY DEF WItem
  <2>2. /\ wHist' = Append(wHist, Processing(item.exchange, item.amount))
        /\ wTask' = [wTask EXCEPT ![t] = [on |-> TRUE, left |-> {}, req |-> Len(wHist) + 1]]
        /\ UNCHANGED <<wPend, wFile, wCrashes, wEarned>> /\ ~wTask[t].on
    BY <1>7 DEF ManualRequest
  <2> HIDE DEF item
  <2>4. t \in Withdrawers /\ Asks(t, wHist, item, {})
    BY <1>1, <1>4, <2>1, <2>2 DEF Asks
  <2>3. WSafe'
    BY <2>4, RequestKeeps
  <2>5. \A i \in DOMAIN wHist : wHist'[i] = wHist[i]
    BY <1>1, <2>2 DEF WTypes
  <2> QED
    BY <2>3, <2>5 DEF SettlesOnce
<1>8. ASSUME NEW t \in Manuals, NEW success \in BOOLEAN, ManualWithdrawn(t, success)
      PROVE  WSafe' /\ SettlesOnce
  <2>1. /\ Verdict(t, Settled(t, success)) /\ wHist' = Settled(t, success)
        /\ wPend' = wPend /\ wFile' = [pend |-> wPend', hist |-> wHist']
        /\ wTask' = [wTask EXCEPT ![t] = WIdle] /\ UNCHANGED <<wCrashes, wEarned>>
    BY <1>1, <1>8, SettledSound DEF ManualWithdrawn, SaveData
  <2>2. WSafe'
    BY <1>1, <2>1, DoneSound DEF WTypes
  <2> QED
    BY <1>1, <2>1, <2>2, VerdictKeeps DEF SettlesOnce
<1>9. CASE Restart
  <2>1. /\ wPend' = wFile.pend /\ wHist' = wFile.hist /\ wCrashes' = wCrashes + 1
        /\ wTask' = [t \in Withdrawers |-> WIdle] /\ UNCHANGED <<wFile, wEarned>>
    BY <1>9 DEF Restart
  <2>2. WTypes' /\ wCrashes' # wCrashes
    BY <1>1, <2>1 DEF WTypes, WIdle, NoRequest
  <2>3. \A t \in Withdrawers : ~wTask'[t].on
    BY <2>1 DEF WIdle
  <2>4. wFile' = [pend |-> wPend', hist |-> wHist']
    BY <1>1, <2>1 DEF WTypes
  <2> QED
    BY <2>2, <2>3, <2>4 DEF WSafe, RequestsSound, QuietIsSaved, SettlesOnce
<1>10. CASE UNCHANGED wvars
  BY <1>1, <1>10 DEF wvars, WSafe, WTypes, RequestsSound, QuietIsSaved, WBusy, SettlesOnce
<1> QED
  BY <1>2, <1>5, <1>6, <1>7, <1>8, <1>9, <1>10 DEF WNext

\* The verdict on a request stands, and is given by the task that made it,
\* however consolidations and manual withdrawals overlap.
THEOREM WSettledOnce == WSpec => SettledOnce
<1>1. WSafe /\ [WNext]_wvars => [SettlesOnce]_wvars
  BY WithdrawalStep
<1>2. WSafe /\ [WNext]_wvars => WSafe'
  BY WithdrawalStep
<1> QED
  BY <1>1, <1>2, WInitSound, PTL DEF WSpec, SettledOnce, SettlesOnce

\* One user confirms: two confirmations at once each work through the whole
\* list, and what both withdraw was earned once.
OneConfirmer == \A s, t \in Confirmers : s = t

\* the request a confirmation awaits, and the items still on its list, are all
\* within what was earned and not paid, each on an exchange of its own
Covers(r, left) ==
    /\ wPaid[r.exchange] + r.amount <= wEarned[r.exchange]
    /\ \A i \in left : i.exchange # r.exchange /\ wPaid[i.exchange] + i.amount <= wEarned[i.exchange]
    /\ \A i, j \in left : i.exchange = j.exchange => i = j

PaidIsEarned == wPaid \in [Exchanges -> Nat] /\ \A e \in Exchanges : wPaid[e] <= wEarned[e]
PendingIsEarned ==
    (\A t \in Confirmers : ~wTask[t].on) => \A e \in Exchanges : wPaid[e] + wPend[e] <= wEarned[e]
AskedIsEarned ==
    \A t \in Confirmers : wTask[t].on => Covers(wHist[wTask[t].req], wTask[t].left)
FundsSound == wCrashes = 0 => PaidIsEarned /\ PendingIsEarned /\ AskedIsEarned

LEMMA FundsStep ==
    OneConfirmer /\ WSafe /\ FundsSound /\ [WNext]_wvars => FundsSound'
<1> SUFFICES ASSUME OneConfirmer, WSafe, FundsSound, [WNext]_wvars, wCrashes' = 0
             PROVE  PaidIsEarned' /\ PendingIsEarned' /\ AskedIsEarned'
  BY DEF FundsSound
<1> USE WAssumption
<1>1. WTypes /\ RequestsSound /\ Confirmers \subseteq Withdrawers /\ Manuals \subseteq Withdrawers
  BY DEF WSafe, Withdrawers
<1>2. CASE Restart
  BY <1>1, <1>2 DEF Restart, WTypes
<1>3. CASE UNCHANGED wvars
  BY <1>3 DEF wvars, FundsSound, PaidIsEarned, PendingIsEarned, AskedIsEarned, Covers
\* from here on no crash has happened
<1> SUFFICES ASSUME wCrashes = 0, PaidIsEarned, PendingIsEarned, AskedIsEarned, WNext, ~Restart
             PROVE  PaidIsEarned' /\ PendingIsEarned' /\ AskedIsEarned'
  <2>1. WNext /\ ~Restart => wCrashes' = wCrashes
    BY DEF WNext, AllocateProfit, Confirm, Withdrawn, ManualRequest, ManualWithdrawn
  <2> QED
    BY <1>2, <1>3, <2>1 DEF FundsSound
<1>4. ASSUME NEW e \in Exchanges, AllocateProfit(e)
      PROVE  PaidIsEarned' /\ PendingIsEarned' /\ AskedIsEarned'
  <2>1. /\ wPaid' = wPaid /\ wTask' = wTask /\ wHist' = wHist
        /\ wPend' = [wPend EXCEPT ![e] = @ + 1] /\ wEarned' = [wEarned EXCEPT ![e] = @ + 1]
    BY <1>4 DEF AllocateProfit, SaveData
  <2>2. \A x \in Exchanges : /\ wEarned[x] \in Nat /\ wEarned'[x] \in Nat /\ wPend[x] \in Nat
                             /\ \/ wEarned'[x] = wEarned[x] /\ wPend'[x] = wPend[x]
                                \/ wEarned'[x] = wEarned[x] + 1 /\ wPend'[x] = wPend[x] + 1
    BY <1>1, <2>1 DEF WTypes
  <2>3. PaidIsEarned' /\ \A x \in Exchanges : wPaid[x] \in Nat
    BY <2>1, <2>2 DEF PaidIsEarned
  <2>4. PendingIsEarned'
    BY <2>1, <2>2, <2>3 DEF PendingIsEarned
  <2>5. ASSUME NEW t \in Confirmers, wTask[t].on
        PROVE  /\ wHist[wTask[t].req] \in WRequest
               /\ \A i \in wTask[t].left : i \in WItem
    BY <1>1, <2>5 DEF WTypes, RequestsSound
  <2>7. ASSUME NEW t \in Confirmers, wTask'[t].on
        PROVE  Covers(wHist[wTask[t].req], wTask[t].left)'
    <3>1. wTask[t].on /\ Covers(wHist[wTask[t].req], wTask[t].left)
      BY <2>1, <2>7 DEF AskedIsEarned
    <3> QED
      BY <2>1, <2>2, <2>3, <2>5, <3>1 DEF Covers, WRequest, WItem
  <2> QED
    BY <2>3, <2>4, <2>7 DEF AskedIsEarned
\* what follows an answer, or the list of what is pending
<1>5. ASSUME NEW t \in Confirmers, NEW hist, NEW items \in SUBSET WItem,
             Verdict(t, hist), Consolidate(t, items, hist), wEarned' = wEarned, PaidIsEarned',
             \A i \in items : wPaid'[i.exchange] + i.amount <= wEarned[i.exchange],
             \A i, j \in items : i.exchange = j.exchange => i = j
      PROVE  PendingIsEarned' /\ AskedIsEarned'
  <2>1. CASE AllDone(t, hist)
    <3>1. wPend' = Zero /\ ~wTask'[t].on
      BY <1>1, <2>1 DEF AllDone, WIdle, WTypes
    <3>2. \A x \in Exchanges : wPaid'[x] \in Nat /\ wPend'[x] = 0 /\ wPaid'[x] <= wEarned'[x]
      BY <1>5, <3>1 DEF Zero, PaidIsEarned
    <3> QED
      BY <3>1, <3>2 DEF OneConfirmer, PendingIsEarned, AskedIsEarned
  <2>2. CASE \E item \in items : Requesting(t, items, hist, item)
    <3>1. PICK item \in items : Requesting(t, items, hist, item)
      BY <2>2
    <3> DEFINE left == {i \in items : i.amount > 0} \ {item}
    <3> HIDE DEF left
    <3>4. wTask' = [wTask EXCEPT ![t] = [on |-> TRUE, left |-> left, req |-> Len(hist) + 1]]
      BY <3>1 DEF Requesting, left
    <3>5. wTask'[t].on /\ wTask'[t].left = left /\ wTask'[t].req = Len(hist) + 1
      BY <1>1, <3>4 DEF WTypes
    <3>6. Processing(item.exchange, item.amount) \in WRequest
      BY DEF Processing, WRequest, WItem
    <3>7. wHist'[Len(hist) + 1] = Processing(item.exchange, item.amount)
      BY <1>5, <3>1, <3>6 DEF Requesting, Verdict
    <3>2. /\ wTask'[t].on /\ wTask'[t].left = left
          /\ wHist'[wTask'[t].req] = Processing(item.exchange, item.amount)
      BY <3>5, <3>7
    <3>3. Covers(wHist[wTask[t].req], wTask[t].left)'
      BY <1>5, <3>2 DEF Covers, Processing, left
    <3> QED
      BY <3>2, <3>3 DEF OneConfirmer, PendingIsEarned, AskedIsEarned
  <2> QED
    BY <1>1, <1>5, <2>1, <2>2, ConsolidateCases
<1>6. ASSUME NEW t \in Confirmers, Confirm(t)
      PROVE  PaidIsEarned' /\ PendingIsEarned' /\ AskedIsEarned'
  <2>1. /\ ~wTask[t].on /\ Consolidate(t, PendingItems, wHist) /\ wPaid' = wPaid /\ wEarned' = wEarned
        /\ Verdict(t, wHist) /\ PaidIsEarned'
    BY <1>1, <1>6 DEF Confirm, Verdict, WTypes, PaidIsEarned
  <2>2. /\ PendingItems \in SUBSET WItem
        /\ \A i \in PendingItems : wPaid'[i.exchange] + i.amount <= wEarned[i.exchange]
        /\ \A i, j \in PendingItems : i.exchange = j.exchange => i = j
    BY <1>1, <2>1 DEF PendingItems, WItem, WTypes, OneConfirmer, PendingIsEarned
  <2> HIDE DEF PendingItems
  <2> QED
    BY <1>5, <2>1, <2>2
<1>7. ASSUME NEW t \in Confirmers, NEW success \in BOOLEAN, Withdrawn(t, success)
      PROVE  PaidIsEarned' /\ PendingIsEarned' /\ AskedIsEarned'
  <2> DEFINE r == wHist[wTask[t].req]
             left == wTask[t].left
  <2>1. /\ wTask[t].on /\ Covers(r, left) /\ r \in WRequest /\ left \in SUBSET WItem
        /\ wPaid' = wPaid \/ wPaid' = [wPaid EXCEPT ![r.exchange] = @ + r.amount]
        /\ wEarned' = wEarned /\ Consolidate(t, left, Settled(t, success))
        /\ Verdict(t, Settled(t, success))
    BY <1>1, <1>7, SettledSound DEF Withdrawn, Paying, WTypes, RequestsSound, AskedIsEarned
  <2> HIDE DEF r, left
  <2>3. r.exchange \in Exchanges /\ r.amount \in Nat /\ wPaid \in [Exchanges -> Nat]
    BY <2>1 DEF WRequest, PaidIsEarned
  <2>4. \A x \in Exchanges : /\ wPaid'[x] = wPaid[x] \/ (x = r.exchange /\ wPaid'[x] = wPaid[x] + r.amount)
                             /\ wPaid[x] \in Nat /\ wEarned[x] \in Nat /\ wPaid[x] <= wEarned[x]
    BY <1>1, <2>1, <2>3 DEF PaidIsEarned, WTypes
  <2>5. wPaid' \in [Exchanges -> Nat]
    BY <2>1, <2>3
  <2>6. PaidIsEarned'
    BY <2>1, <2>3, <2>4, <2>5 DEF Covers, PaidIsEarned
  <2>7. \A i \in left : wPaid'[i.exchange] + i.amount <= wEarned[i.exchange]
    BY <2>1, <2>4 DEF Covers, WItem
  <2>2. /\ PaidIsEarned'
        /\ \A i \in left : wPaid'[i.exchange] + i.amount <= wEarned[i.exchange]
        /\ \A i, j \in left : i.exchange = j.exchange => i = j
    BY <2>1, <2>6, <2>7 DEF Covers
  <2> QED
    BY <1>5, <2>1, <2>2
\* the manual tasks change no request of a confirmation
<1>8. ASSUME NEW u \in Manuals, NEW left, NEW req, NEW hist,
             wPend' = wPend, wEarned' = wEarned, wPaid' = wPaid,
             \A t \in Withdrawers \ {u} : wTask'[t] = wTask[t],
             \A i \in DOMAIN wHist : (wTask[u].on /\ i = wTask[u].req) \/ wHist'[i] = wHist[i]
      PROVE  PaidIsEarned' /\ PendingIsEarned' /\ AskedIsEarned'
  <2>1. \A t \in Confirmers : t # u /\ wTask'[t] = wTask[t]
    BY <1>1, <1>8
  <2>2. PaidIsEarned' /\ PendingIsEarned'
    BY <1>8, <2>1 DEF PaidIsEarned, PendingIsEarned
  <2>3. ASSUME NEW t \in Confirmers, wTask'[t].on
        PROVE  Covers(wHist[wTask[t].req], wTask[t].left)'
    <3>1. wTask[t].on /\ wTask[t].req \in DOMAIN wHist /\ Covers(wHist[wTask[t].req], wTask[t].left)
      BY <1>1, <2>1, <2>3 DEF RequestsSound, AskedIsEarned
    <3>2. wHist'[wTask[t].req] = wHist[wTask[t].req]
      BY <1>1, <1>8, <2>1, <3>1 DEF RequestsSound
    <3> QED
      BY <1>8, <2>1, <3>1, <3>2 DEF Covers
  <2> QED
    BY <2>2, <2>3 DEF AskedIsEarned
<1>9. ASSUME NEW u \in Manuals, NEW e \in Exchanges, ManualRequest(u, e)
      PROVE  PaidIsEarned' /\ PendingIsEarned' /\ AskedIsEarned'
  <2>1. /\ wPend' = wPend /\ wEarned' = wEarned /\ wPaid' = wPaid
        /\ \A t \in Withdrawers \ {u} : wTask'[t] = wTask[t]
    BY <1>1, <1>9 DEF ManualRequest, WTypes
  <2>2. \A i \in DOMAIN wHist : wHist'[i] = wHist[i]
    BY <1>1, <1>9 DEF ManualRequest, WTypes
  <2> QED
    BY <1>8, <2>1, <2>2
<1>10. ASSUME NEW u \in Manuals, NEW success \in BOOLEAN, ManualWithdrawn(u, success)
       PROVE  PaidIsEarned' /\ PendingIsEarned' /\ AskedIsEarned'
  <2>1. /\ wPend' = wPend /\ wEarned' = wEarned /\ wPaid' = wPaid
        /\ wHist' = Settled(u, success) /\ wTask[u].on
        /\ \A t \in Withdrawers \ {u} : wTask'[t] = wTask[t]
    BY <1>1, <1>10 DEF ManualWithdrawn, SaveData, WTypes
  <2>2. \A i \in DOMAIN wHist : (wTask[u].on /\ i = wTask[u].req) \/ wHist'[i] = wHist[i]
    BY <1>1, <2>1, SettledSound DEF Verdict
  <2> QED
    BY <1>8, <2>1, <2>2
<1> QED
  BY <1>4, <1>6, <1>7, <1>9, <1>10 DEF WNext

\* What is known is on disk whenever nothing is under way, and with one user
\* who confirms, nothing is paid that was not earned.
THEOREM WSaved ==
    ASSUME OneConfirmer
    PROVE  WSpec => []WithdrawalsAreSaved
<1>1. WInit => WSafe /\ FundsSound
  <2>1. WInit => FundsSound
    BY DEF WInit, FundsSound, PaidIsEarned, PendingIsEarned, AskedIsEarned, Zero, WIdle, Withdrawers
  <2> QED
    BY <2>1, WInitSound
<1>2. WSafe /\ FundsSound /\ [WNext]_wvars => WSafe' /\ FundsSound'
  BY WithdrawalStep, FundsStep
<1>3. WSafe /\ FundsSound => WithdrawalsAreSaved
  BY DEF WSafe, FundsSound, PaidIsEarned, WithdrawalsAreSaved, PaidWithinEarned
<1> QED
  BY <1>1, <1>2, <1>3, PTL DEF WSpec

------------------------------------------------------------------------------
(* The stock bot: each order is noted together with the change of the books,   *)
(* so the property is inductive as soon as the holdings are numbers.           *)

IbkrIInv == iHeld \in [IbkrSymbols -> Int] /\ BrokerHoldsPositions

LEMMA IbkrOrderKeeps ==
    ASSUME IbkrIInv, NEW s \in IbkrSymbols,
           \/ s \notin iPos /\ IbkrOrder(s, 1, iPos \cup {s})
           \/ IbkrSell(s)
    PROVE  IbkrIInv'
<1>1. CASE s \notin iPos /\ IbkrOrder(s, 1, iPos \cup {s})
  BY <1>1 DEF IbkrIInv, BrokerHoldsPositions, IbkrOrder
<1>2. CASE IbkrSell(s)
  BY <1>2 DEF IbkrIInv, BrokerHoldsPositions, IbkrSell, IbkrOrder
<1> QED
  BY <1>1, <1>2

LEMMA IbkrStep == IbkrIInv /\ [IbkrNext]_ivars => IbkrIInv'
<1> SUFFICES ASSUME IbkrIInv, [IbkrNext]_ivars PROVE IbkrIInv'
  OBVIOUS
<1>1. CASE UNCHANGED <<iPos, iHeld, iLost>>
  BY <1>1 DEF IbkrIInv, BrokerHoldsPositions
<1>2. CASE UNCHANGED ivars
  BY <1>1, <1>2 DEF ivars
<1>3. CASE IbkrConnect \/ IbkrRun \/ BeginManage \/ IbkrPassEnds \/ CancelIbkr \/ LauncherStops
           \/ OwnStopEnds \/ LauncherStopEnds
  BY <1>1, <1>3 DEF IbkrConnect, IbkrRun, BeginManage, IbkrPassEnds, CancelIbkr, LauncherStops,
                    OwnStopEnds, LauncherStopEnds
<1>4. ASSUME NEW s \in IbkrSymbols,
             ExecuteForecast(s) \/ ManagePosition(s) \/ OwnSale(s) \/ LauncherSale(s)
      PROVE  IbkrIInv'
  BY <1>1, <1>4, IbkrOrderKeeps DEF ExecuteForecast, ManagePosition, OwnSale, LauncherSale
<1> QED
  BY <1>2, <1>3, <1>4 DEF IbkrNext

LEMMA IbkrInitHolds == IbkrInit => IbkrIInv
  BY DEF IbkrInit, IbkrIInv, BrokerHoldsPositions

\* The broker holds one entry for each position of the bot and nothing else, for
\* any symbols: neither of the two stops nor the pass sells a position twice.
THEOREM IbkrHolds == IbkrSpec => []BrokerHoldsPositions
<1>1. IbkrIInv => BrokerHoldsPositions
  BY DEF IbkrIInv
<1> QED
  BY <1>1, IbkrInitHolds, IbkrStep, PTL DEF IbkrSpec

------------------------------------------------------------------------------
(* The scalper: a sale that was answered leaves nothing held, though the bot   *)
(* still shows the position while it announces the sale, and nothing is bought *)
(* meanwhile; so a second sale finds nothing to sell.  And what is held was    *)
(* bought below the limit of the day, so its sale reaches the limit at most.   *)

Announces(w) == cAt[w] = "telling"
MayBuy == cAt["run"] \in {"looking", "buying"}

ScalpPlacesOK ==
    /\ cAt \in [ScalpTasks -> ScalpPlaces]
    /\ cAt["stop"] \in {"off", "stopping", "selling", "telling"}
    /\ MayBuy => ~cPos
    /\ cLost \in BOOLEAN /\ cPos \in BOOLEAN

SoldWhenAnnounced ==
    /\ \A w \in ScalpTasks : Announces(w) => cPos /\ cHeld = 0
    /\ ~(Announces("run") /\ Announces("stop"))

WithinTheLimit ==
    /\ cPnl >= -MaxDailyLoss /\ cHeld \in {0, 1}
    /\ cHeld = 1 => cPos /\ cPnl > -MaxDailyLoss
    /\ MayBuy => cPnl > -MaxDailyLoss

ScalpIInv ==
    /\ cPnl \in Int /\ cHeld \in Nat
    /\ ScalpPlacesOK
    /\ ~cLost => SoldWhenAnnounced /\ WithinTheLimit

LEMMA ScalpInitHolds == ScalpInit => ScalpIInv
<1> SUFFICES ASSUME ScalpInit PROVE ScalpIInv
  OBVIOUS
<1>1. \A w \in ScalpTasks : cAt[w] = "off"
  BY DEF ScalpInit
<1>2. "run" \in ScalpTasks /\ "stop" \in ScalpTasks
  BY DEF ScalpTasks
<1>3. ScalpPlacesOK /\ SoldWhenAnnounced
  BY <1>1, <1>2 DEF ScalpInit, ScalpPlacesOK, SoldWhenAnnounced, Announces, MayBuy, ScalpPlaces
<1>4. WithinTheLimit /\ cPnl \in Int /\ cHeld \in Nat
  BY <1>1, <1>2, ScalpAssumption DEF ScalpInit, WithinTheLimit, MayBuy
<1> QED
  BY <1>3, <1>4 DEF ScalpIInv

\* A step that only moves a task, to no announcement, and not to look for an entry.
LEMMA ScalpMoves ==
    ASSUME ScalpIInv, NEW w \in ScalpTasks, NEW place \in ScalpPlaces,
           Goes(w, place), UNCHANGED <<cPos, cPnl, cHeld, cLost>>,
           place # "telling",
           place \in {"loop", "looking", "watching", "buying"} => w = "run",
           place \in {"looking", "buying"} => ~cPos /\ (~cLost => cPnl > -MaxDailyLoss)
    PROVE  ScalpIInv'
<1>1. /\ cAt' \in [ScalpTasks -> ScalpPlaces] /\ cAt'[w] = place
      /\ \A v \in ScalpTasks : v # w => cAt'[v] = cAt[v]
  BY DEF Goes, ScalpIInv, ScalpPlacesOK
<1>2. ScalpTasks = {"run", "stop"}
  BY DEF ScalpTasks
<1>3. ScalpPlacesOK'
  BY <1>1, <1>2 DEF ScalpIInv, ScalpPlacesOK, MayBuy, ScalpPlaces
<1>4. ASSUME ~cLost PROVE SoldWhenAnnounced'
  <2>1. \A v \in ScalpTasks : Announces(v)' => Announces(v)
    BY <1>1 DEF Announces
  <2> QED
    BY <1>2, <1>4, <2>1 DEF ScalpIInv, SoldWhenAnnounced
<1>5. ASSUME ~cLost PROVE WithinTheLimit'
  <2>1. MayBuy' => cPnl > -MaxDailyLoss
    BY <1>1, <1>2, <1>5 DEF MayBuy, ScalpIInv, WithinTheLimit
  <2> QED
    BY <1>5, <2>1 DEF ScalpIInv, WithinTheLimit
<1> QED
  BY <1>3, <1>4, <1>5 DEF ScalpIInv

LEMMA ScalpOpens ==
    ASSUME ScalpIInv, NEW out \in Outcomes, NEW network \in BOOLEAN, OpenLong(out, network)
    PROVE  ScalpIInv'
<1>1. ScalpTasks = {"run", "stop"}
  BY DEF ScalpTasks
<1>2. PICK place \in {"loop", "stopping"} : Goes("run", place)
  BY DEF OpenLong
<1>3. /\ cAt' \in [ScalpTasks -> ScalpPlaces] /\ cAt'["run"] = place
      /\ cAt'["stop"] = cAt["stop"]
  BY <1>1, <1>2 DEF Goes, ScalpIInv, ScalpPlacesOK, ScalpPlaces
<1>4. ~MayBuy' /\ cPnl' = cPnl /\ ~cPos
  BY <1>3 DEF OpenLong, MayBuy, ScalpIInv, ScalpPlacesOK
<1>5. /\ out = "refused" => cHeld' = cHeld
      /\ out # "refused" => cHeld' = cHeld + 1
      /\ out = "ok" => cPos'
      /\ out = "lost" => cLost'
      /\ cLost => cLost'
      /\ cLost' \in BOOLEAN /\ cPos' \in BOOLEAN
  <2>1. /\ out = "refused" => cHeld' = cHeld
        /\ out # "refused" => cHeld' = cHeld + 1
    BY DEF OpenLong, Outcomes, Served
  <2>2. cPos' = (cPos \/ out = "ok") /\ cLost' = (cLost \/ out = "lost")
    BY DEF OpenLong, AnswerCame
  <2> QED
    BY <2>1, <2>2
<1>6. cHeld' \in Nat
  BY <1>5 DEF ScalpIInv
<1>7. ScalpPlacesOK'
  BY <1>3, <1>4, <1>5 DEF ScalpIInv, ScalpPlacesOK, OpenLong
<1>8. ASSUME ~cLost' PROVE SoldWhenAnnounced' /\ WithinTheLimit'
  <2>1. ~cLost /\ out \in {"ok", "refused"}
    BY <1>5, <1>8 DEF Outcomes
  <2>2. cHeld = 0 /\ cPnl > -MaxDailyLoss /\ cPnl >= -MaxDailyLoss
    BY <1>4, <2>1 DEF ScalpIInv, WithinTheLimit, MayBuy, OpenLong
  <2>3. \A w \in ScalpTasks : ~Announces(w)'
    BY <1>1, <1>2, <1>3, <1>4, <2>1 DEF ScalpIInv, SoldWhenAnnounced, Announces
  <2>4. SoldWhenAnnounced'
    BY <1>1, <2>3 DEF SoldWhenAnnounced
  <2>5. WithinTheLimit'
    BY <1>4, <1>5, <2>1, <2>2 DEF WithinTheLimit
  <2> QED
    BY <2>4, <2>5
<1> QED
  BY <1>4, <1>6, <1>7, <1>8 DEF ScalpIInv

\* A sale that is served was of the position: the other closer finds nothing then.
LEMMA ScalpCloses ==
    ASSUME ScalpIInv, NEW w \in ScalpTasks, NEW out \in Outcomes, NEW network \in BOOLEAN,
           NEW pnl \in -1 .. 1, CloseScalp(w, out, network, pnl)
    PROVE  ScalpIInv'
<1>1. ScalpTasks = {"run", "stop"}
  BY DEF ScalpTasks
<1>2. PICK place \in {"loop", "off", "telling"} :
          /\ Goes(w, place)
          /\ place = "telling" <=> AnswerCame(out) /\ cPos
          /\ place = "loop" => w = "run"
  BY DEF CloseScalp, Returns
<1>3. /\ cAt' \in [ScalpTasks -> ScalpPlaces] /\ cAt'[w] = place
      /\ \A v \in ScalpTasks : v # w => cAt'[v] = cAt[v]
  BY <1>2 DEF Goes, ScalpIInv, ScalpPlacesOK, ScalpPlaces
<1>4. cPos' = cPos /\ cLost' = (cLost \/ out = "lost") /\ (MayBuy' => MayBuy)
  BY <1>1, <1>2, <1>3 DEF CloseScalp, MayBuy
<1>5. /\ out = "refused" => cHeld' = cHeld /\ cPnl' = cPnl
      /\ out # "refused" => cHeld > 0 /\ cHeld' = cHeld - 1
      /\ cPnl' = cPnl \/ cPnl' = cPnl + pnl
  BY DEF CloseScalp, Outcomes, Served, AnswerCame
<1>6. cHeld' \in Nat /\ cPnl' \in Int
  BY <1>5 DEF ScalpIInv
<1>7. ScalpPlacesOK'
  BY <1>1, <1>2, <1>3, <1>4 DEF ScalpIInv, ScalpPlacesOK
<1>8. ASSUME ~cLost' PROVE SoldWhenAnnounced' /\ WithinTheLimit'
  <2>1. ~cLost /\ out \in {"ok", "refused"}
    BY <1>4, <1>8 DEF Outcomes
  <2>2. SoldWhenAnnounced /\ WithinTheLimit
    BY <2>1 DEF ScalpIInv
  <2>3. CASE out = "refused"
    <3>1. \A v \in ScalpTasks : Announces(v)' => Announces(v)
      BY <1>2, <1>3, <2>3 DEF Announces, AnswerCame
    <3>2. cHeld' = cHeld /\ cPnl' = cPnl /\ cPos' = cPos /\ (MayBuy' => MayBuy)
      BY <1>4, <1>5, <2>3
    <3>3. SoldWhenAnnounced'
      BY <1>1, <2>2, <3>1, <3>2 DEF SoldWhenAnnounced
    <3> QED
      BY <2>2, <3>2, <3>3 DEF WithinTheLimit
  <2>4. CASE out = "ok"
    <3>1. cHeld = 1 /\ cHeld' = 0 /\ cPos /\ cPos' /\ cPnl > -MaxDailyLoss
      BY <1>4, <1>5, <2>2, <2>4 DEF WithinTheLimit
    <3>2. \A v \in ScalpTasks : ~Announces(v)
      BY <2>2, <3>1 DEF SoldWhenAnnounced
    <3>3. \A v \in ScalpTasks : v # w => ~Announces(v)'
      BY <1>3, <3>2 DEF Announces
    <3>4. SoldWhenAnnounced'
      BY <1>1, <3>1, <3>3 DEF SoldWhenAnnounced
    <3>5. cPnl' >= -MaxDailyLoss
      BY <1>5, <3>1, ScalpAssumption DEF ScalpIInv
    <3>6. ~MayBuy'
      BY <1>4, <3>1 DEF ScalpIInv, ScalpPlacesOK
    <3> QED
      BY <3>1, <3>4, <3>5, <3>6 DEF WithinTheLimit
  <2> QED
    BY <2>1, <2>3, <2>4
<1> QED
  BY <1>6, <1>7, <1>8 DEF ScalpIInv

LEMMA ScalpForgets == ASSUME ScalpIInv, NEW w \in ScalpTasks, ScalpClosed(w) PROVE ScalpIInv'
<1>1. ScalpTasks = {"run", "stop"}
  BY DEF ScalpTasks
<1>2. PICK place \in {"loop", "off"} : Goes(w, place) /\ (place = "loop" => w = "run")
  BY DEF ScalpClosed, Returns
<1>3. /\ cAt' \in [ScalpTasks -> ScalpPlaces] /\ cAt'[w] = place
      /\ \A v \in ScalpTasks : v # w => cAt'[v] = cAt[v]
  BY <1>2 DEF Goes, ScalpIInv, ScalpPlacesOK, ScalpPlaces
<1>4. ~cPos' /\ UNCHANGED <<cPnl, cHeld, cLost>> /\ Announces(w) /\ (MayBuy' => MayBuy)
  BY <1>1, <1>2, <1>3 DEF ScalpClosed, cBooks, Announces, MayBuy
<1>5. ScalpPlacesOK'
  BY <1>1, <1>2, <1>3, <1>4 DEF ScalpIInv, ScalpPlacesOK, ScalpClosed, MayBuy
<1>6. ASSUME ~cLost PROVE SoldWhenAnnounced' /\ WithinTheLimit'
  <2>1. SoldWhenAnnounced /\ WithinTheLimit /\ cHeld = 0
    BY <1>4, <1>6 DEF ScalpIInv, SoldWhenAnnounced
  <2>2. \A v \in ScalpTasks : ~Announces(v)'
    BY <1>1, <1>2, <1>3, <1>4, <2>1 DEF SoldWhenAnnounced, Announces
  <2>3. SoldWhenAnnounced'
    BY <1>1, <2>2 DEF SoldWhenAnnounced
  <2> QED
    BY <1>4, <2>1, <2>3 DEF WithinTheLimit
<1> QED
  BY <1>4, <1>5, <1>6 DEF ScalpIInv

LEMMA ScalpIsCancelled ==
    ASSUME ScalpIInv, NEW served \in BOOLEAN, CancelScalp(served)
    PROVE  ScalpIInv'
<1>1. PICK place \in {"off", "stopping"} : Goes("run", place)
  BY DEF CancelScalp
<1>2. "run" \in ScalpTasks /\ place \in ScalpPlaces
  BY DEF ScalpTasks, ScalpPlaces
<1>3. CASE ~served
  <2>1. UNCHANGED <<cPos, cPnl, cHeld, cLost>>
    BY <1>3 DEF CancelScalp, ScalpIInv, ScalpPlacesOK
  <2> QED
    BY <1>1, <1>2, <2>1, ScalpMoves
<1>4. CASE served
  <2>1. cHeld' \in Nat
    BY <1>4 DEF CancelScalp, ScalpIInv
  <2>2. cLost' /\ cPos' = cPos /\ cPnl' = cPnl /\ cLost' \in BOOLEAN
    BY <1>4 DEF CancelScalp
  <2>3. /\ cAt' \in [ScalpTasks -> ScalpPlaces] /\ cAt'["run"] = place /\ cAt'["stop"] = cAt["stop"]
    BY <1>1, <1>2 DEF Goes, ScalpIInv, ScalpPlacesOK, ScalpTasks
  <2>4. ScalpPlacesOK'
    BY <2>2, <2>3 DEF ScalpIInv, ScalpPlacesOK, MayBuy
  <2> QED
    BY <2>1, <2>2, <2>4 DEF ScalpIInv
<1> QED
  BY <1>3, <1>4

LEMMA ScalpStep == ScalpIInv /\ [ScalpNext]_cvars => ScalpIInv'
<1> SUFFICES ASSUME ScalpIInv, [ScalpNext]_cvars PROVE ScalpIInv'
  OBVIOUS
<1>0. {"run", "stop"} = ScalpTasks
  BY DEF ScalpTasks
<1>1. CASE UNCHANGED cvars
  <2>1. UNCHANGED <<cAt, cPos, cPnl, cHeld, cLost>>
    BY <1>1 DEF cvars
  <2> QED
    BY <2>1 DEF ScalpIInv, ScalpPlacesOK, SoldWhenAnnounced, WithinTheLimit, Announces, MayBuy
<1>2. CASE ScalpPass
  <2>1. PICK place \in {"off", "watching", "looking"} :
            /\ Goes("run", place)
            /\ place = "looking" => ~cPos /\ cPnl > -MaxDailyLoss
    BY <1>2 DEF ScalpPass
  <2>2. UNCHANGED <<cPos, cPnl, cHeld, cLost>>
    BY <1>2 DEF ScalpPass, cBooks
  <2> QED
    BY <1>0, <2>1, <2>2, ScalpMoves DEF ScalpPlaces
<1>3. CASE ScalpLooked
  <2>1. PICK place \in {"loop", "buying"} : Goes("run", place) /\ (place = "buying" => ~cPos)
    BY <1>3 DEF ScalpLooked
  <2>2. UNCHANGED <<cPos, cPnl, cHeld, cLost>>
    BY <1>3 DEF ScalpLooked, cBooks
  <2>3. ~cLost => cPnl > -MaxDailyLoss
    BY <1>3 DEF ScalpLooked, ScalpIInv, WithinTheLimit, MayBuy
  <2> QED
    BY <1>0, <2>1, <2>2, <2>3, ScalpMoves DEF ScalpPlaces
<1>4. CASE ScalpWatched
  <2>1. PICK place \in {"loop", "selling", "stopping"} : Goes("run", place)
    BY <1>4 DEF ScalpWatched
  <2>2. UNCHANGED <<cPos, cPnl, cHeld, cLost>>
    BY <1>4 DEF ScalpWatched, cBooks
  <2> QED
    BY <1>0, <2>1, <2>2, ScalpMoves DEF ScalpPlaces
<1>5. ASSUME NEW ready \in BOOLEAN, ScalpRun(ready) PROVE ScalpIInv'
  <2>1. PICK place \in {"loop", "off"} : Goes("run", place)
    BY <1>5 DEF ScalpRun
  <2>2. UNCHANGED <<cPos, cPnl, cHeld, cLost>>
    BY <1>5 DEF ScalpRun, cBooks
  <2> QED
    BY <1>0, <2>1, <2>2, ScalpMoves DEF ScalpPlaces
<1>6. ASSUME NEW w \in ScalpTasks, ScalpStopping(w) PROVE ScalpIInv'
  <2>1. PICK place \in {"loop", "off", "selling"} : Goes(w, place) /\ (place = "loop" => w = "run")
    BY <1>6 DEF ScalpStopping, Returns
  <2>2. UNCHANGED <<cPos, cPnl, cHeld, cLost>>
    BY <1>6 DEF ScalpStopping, cBooks
  <2> QED
    BY <2>1, <2>2, ScalpMoves DEF ScalpPlaces
<1>7. ASSUME NEW state \in {"idle", "error"}, ScalpStop(state) PROVE ScalpIInv'
  <2>1. Goes("stop", "stopping") /\ UNCHANGED <<cPos, cPnl, cHeld, cLost>>
    BY <1>7 DEF ScalpStop, cBooks
  <2> QED
    BY <1>0, <2>1, ScalpMoves DEF ScalpPlaces
<1> QED
  BY <1>1, <1>2, <1>3, <1>4, <1>5, <1>6, <1>7, ScalpOpens, ScalpCloses, ScalpForgets,
     ScalpIsCancelled DEF ScalpNext

LEMMA ScalpHolds == ScalpIInv => ScalpIsAccounted
  BY DEF ScalpIInv, ScalpPlacesOK, WithinTheLimit, ScalpIsAccounted, NothingForgotten, LossIsBounded

\* As long as no answer is lost the scalper holds no more than its position in
\* memory and the losses of its sales stop at the limit, for any limit, with the
\* loop and a stop closing the position at the same time.
THEOREM ScalpAccounted == ScalpSpec => []ScalpIsAccounted
  BY ScalpHolds, ScalpInitHolds, ScalpStep, PTL DEF ScalpSpec

------------------------------------------------------------------------------
(* The triangular arbitrage: the property is inductive once the wallet is known *)
(* to hold no negative amounts, which the exchange sees to, and the dollars     *)
(* spent to be at least the least order: a third leg that is executed buys for  *)
(* more than the profit it shows.                                               *)

Coins == {"usdt", "coin1", "coin2", "rest"}

TriTypes ==
    /\ tAt \in {"off", "loop", "validating", "funding", "legs", "paying"}
    /\ tWallet \in [Coins -> Nat]
    /\ tLeg \in [spent : Nat, coins : Nat, profit : Nat]
    /\ tSettled \in 0 .. 3 /\ tTrades \in Nat /\ tPaid \in Nat

TriIInv ==
    /\ TriTypes
    /\ tAt = "legs" => tSettled \in 0 .. 2 /\ tLeg.spent > 0
    /\ LegIsFunded

LEMMA TriInitHolds == TriInit => TriIInv
<1> SUFFICES ASSUME TriInit PROVE TriIInv
  OBVIOUS
<1>1. tWallet \in [Coins -> Nat] /\ tWallet.rest = 0
  BY TriAssumption DEF TriInit, Coins
<1>2. tLeg \in [spent : Nat, coins : Nat, profit : Nat]
  BY DEF TriInit
<1> QED
  BY <1>1, <1>2 DEF TriInit, TriIInv, TriTypes, LegIsFunded

LEMMA TriBought ==
    ASSUME tWallet \in [Coins -> Nat], tLeg \in [spent : Nat, coins : Nat, profit : Nat],
           NEW n \in 1 .. 3, CanBuy(n)
    PROVE  /\ Bought(n) \in [Coins -> Nat]
           /\ n = 1 => Bought(n).coin1 >= tLeg.spent
           /\ n = 2 => Bought(n).coin2 >= tLeg.coins
           /\ Bought(n).rest = IF n = 3 THEN tWallet.rest + tLeg.coins ELSE tWallet.rest
<1>0. /\ tWallet.usdt \in Nat /\ tWallet.coin1 \in Nat /\ tWallet.coin2 \in Nat /\ tWallet.rest \in Nat
      /\ tLeg.spent \in Nat /\ tLeg.coins \in Nat
  BY DEF Coins
<1>1. CASE n = 1
  <2>1. Bought(n) = Swapped("usdt", tLeg.spent, "coin1", tLeg.spent) /\ tWallet.usdt >= tLeg.spent
    BY <1>1 DEF Bought, CanBuy
  <2>2. PICK less, more \in Nat : less = tWallet.usdt - tLeg.spent /\ more = tWallet.coin1 + tLeg.spent
    BY <1>0, <2>1
  <2>3. Bought(n) = [[tWallet EXCEPT !["usdt"] = less] EXCEPT !["coin1"] = more]
    BY <2>1, <2>2 DEF Swapped
  <2>4. /\ Bought(n) \in [Coins -> Nat]
        /\ Bought(n).coin1 = more
        /\ Bought(n).coin2 = tWallet.coin2 /\ Bought(n).rest = tWallet.rest
    BY <2>3 DEF Coins
  <2> QED
    BY <1>0, <1>1, <2>2, <2>4
<1>2. CASE n = 2
  <2>1. Bought(n) = Swapped("coin1", tLeg.spent, "coin2", tLeg.coins) /\ tWallet.coin1 >= tLeg.spent
    BY <1>2 DEF Bought, CanBuy
  <2>2. PICK less, more \in Nat : less = tWallet.coin1 - tLeg.spent /\ more = tWallet.coin2 + tLeg.coins
    BY <1>0, <2>1
  <2>3. Bought(n) = [[tWallet EXCEPT !["coin1"] = less] EXCEPT !["coin2"] = more]
    BY <2>1, <2>2 DEF Swapped
  <2>4. /\ Bought(n) \in [Coins -> Nat]
        /\ Bought(n).coin2 = more
        /\ Bought(n).usdt = tWallet.usdt /\ Bought(n).rest = tWallet.rest
    BY <2>3 DEF Coins
  <2> QED
    BY <1>0, <1>2, <2>2, <2>4
<1>3. CASE n = 3
  <2>1. Bought(n) = Swapped("usdt", tLeg.coins, "rest", tLeg.coins) /\ tWallet.usdt >= tLeg.coins
    BY <1>3 DEF Bought, CanBuy
  <2>2. PICK less, more \in Nat : less = tWallet.usdt - tLeg.coins /\ more = tWallet.rest + tLeg.coins
    BY <1>0, <2>1
  <2>3. Bought(n) = [[tWallet EXCEPT !["usdt"] = less] EXCEPT !["rest"] = more]
    BY <2>1, <2>2 DEF Swapped
  <2>4. /\ Bought(n) \in [Coins -> Nat]
        /\ Bought(n).rest = more
        /\ Bought(n).coin1 = tWallet.coin1 /\ Bought(n).coin2 = tWallet.coin2
    BY <2>3 DEF Coins
  <2> QED
    BY <1>0, <1>3, <2>2, <2>4
<1> QED
  BY <1>1, <1>2, <1>3

LEMMA TriPaid ==
    ASSUME tWallet \in [Coins -> Nat], tLeg \in [spent : Nat, coins : Nat, profit : Nat], CanPay
    PROVE  AfterPayment \in [Coins -> Nat] /\ AfterPayment.rest = tWallet.rest
<1>1. tWallet.usdt \in Nat /\ tLeg.profit \in Nat
  BY DEF Coins
<1> QED
  BY <1>1 DEF CanPay, AfterPayment, Coins

\* What a step must keep, said of its next state: with no leg under way, or with
\* what the next one spends.
LEMMA TriKeeps ==
    ASSUME TriIInv, UNCHANGED <<tWallet, tTrades, tPaid>>,
           UNCHANGED tLeg, UNCHANGED tSettled, tAt' \in {"off", "loop", "validating", "funding"}
    PROVE  TriIInv'
<1>1. TriTypes'
  BY DEF TriIInv, TriTypes
<1>2. tPaid + tTrades <= tWallet.rest
  <2>1. /\ tPaid \in Nat /\ tTrades \in Nat /\ tLeg.profit \in Nat /\ tWallet.rest \in Nat
        /\ tPaid + tTrades + (IF tAt = "paying" THEN tLeg.profit ELSE 0) <= tWallet.rest
    BY DEF TriIInv, TriTypes, LegIsFunded, Coins
  <2> QED
    BY <2>1
<1>3. LegIsFunded'
  <2>1. tAt' # "legs" /\ tAt' # "paying" /\ tPaid + tTrades + 0 <= tWallet.rest
    BY <1>2 DEF TriIInv, TriTypes, Coins
  <2> QED
    BY <2>1 DEF LegIsFunded
<1> QED
  BY <1>1, <1>3 DEF TriIInv

LEMMA TriNextLegKeeps ==
    ASSUME TriIInv, NEW out \in Outcomes, NEW profit \in 0 .. tLeg.coins, NextLeg(out, profit)
    PROVE  TriIInv'
<1>1. PICK n \in 1 .. 3 : n = tSettled + 1
  BY DEF TriIInv, NextLeg
<1>2. tAt = "legs" /\ tLeg.spent > 0 /\ tPaid + tTrades <= tWallet.rest
  <2>1. tPaid \in Nat /\ tTrades \in Nat /\ tAt = "legs"
    BY DEF TriIInv, TriTypes, NextLeg
  <2> QED
    BY <2>1 DEF TriIInv, LegIsFunded
<1>3. /\ tWallet.rest \in Nat /\ tLeg.spent \in Nat /\ tLeg.coins \in Nat /\ profit \in Nat
      /\ tPaid \in Nat /\ tTrades \in Nat
  BY DEF TriIInv, TriTypes, Coins
<1>4. /\ tLeg' \in [spent : Nat, coins : Nat, profit : Nat]
      /\ tLeg'.spent = tLeg.spent /\ tLeg'.coins = tLeg.coins /\ tLeg'.profit = profit
      /\ tPaid' = tPaid
  BY <1>3 DEF NextLeg, TriIInv, TriTypes
<1>5. CASE Served(out)
  <2>1. /\ tWallet' \in [Coins -> Nat]
        /\ n = 1 => tWallet'.coin1 >= tLeg.spent
        /\ n = 2 => tWallet'.coin2 >= tLeg.coins
        /\ tWallet'.rest = IF n = 3 THEN tWallet.rest + tLeg.coins ELSE tWallet.rest
    BY <1>1, <1>5, TriBought DEF NextLeg, TriIInv, TriTypes
  <2>2. CASE AnswerCame(out) /\ n = 3
    <3>1. /\ tAt' = IF profit > 0 THEN "paying" ELSE "loop"
          /\ tSettled' = 3 /\ tTrades' = tTrades + 1
          /\ profit > 0 => profit <= tLeg.coins - tLeg.spent
      BY <1>1, <2>2 DEF NextLeg
    <3>2. TriTypes'
      BY <1>3, <1>4, <2>1, <3>1 DEF TriTypes
    <3>3. CASE profit > 0
      <4>1. tPaid + (tTrades + 1) + profit <= tWallet.rest + tLeg.coins
        BY <1>2, <1>3, <3>1, <3>3
      <4>2. tAt' = "paying" /\ tPaid' + tTrades' + tLeg'.profit <= tWallet'.rest
        BY <1>4, <2>1, <2>2, <3>1, <3>3, <4>1
      <4> QED
        BY <3>2, <4>2 DEF TriIInv, LegIsFunded
    <3>4. CASE profit = 0
      <4>1. tLeg.coins > 0
        <5>1. CanBuy(3)
          BY <1>1, <1>5, <2>2 DEF NextLeg
        <5>2. tLeg.coins >= MinNotional
          BY <5>1 DEF CanBuy
        <5> QED
          BY <1>3, <5>2, TriAssumption
      <4>2. tPaid + (tTrades + 1) <= tWallet.rest + tLeg.coins
        BY <1>2, <1>3, <4>1
      <4>3. tAt' = "loop" /\ tPaid' + tTrades' + 0 <= tWallet'.rest
        BY <1>3, <1>4, <2>1, <2>2, <3>1, <3>4, <4>2
      <4> QED
        BY <3>2, <4>3 DEF TriIInv, LegIsFunded
    <3> QED
      BY <1>3, <3>3, <3>4
  <2>3. CASE ~(AnswerCame(out) /\ n = 3)
    <3>1. /\ tTrades' = tTrades
          /\ tSettled' = IF AnswerCame(out) THEN n ELSE tSettled
          /\ tAt' = IF AnswerCame(out) THEN "legs" ELSE "loop"
      BY <1>1, <2>3 DEF NextLeg
    <3>2. tPaid' + tTrades' + 0 <= tWallet'.rest
      BY <1>2, <1>3, <1>4, <2>1, <3>1
    <3>3. TriTypes'
      BY <1>1, <1>3, <1>4, <2>1, <3>1 DEF TriTypes, TriIInv
    <3>4. LegIsFunded'
      BY <1>1, <1>4, <2>1, <2>3, <3>1, <3>2 DEF LegIsFunded
    <3>5. tAt' = "legs" => tSettled' \in 0 .. 2 /\ tLeg'.spent > 0
      BY <1>1, <1>2, <1>4, <2>3, <3>1
    <3> QED
      BY <3>3, <3>4, <3>5 DEF TriIInv
  <2> QED
    BY <2>2, <2>3
<1>6. CASE ~Served(out)
  <2>1. ~AnswerCame(out) /\ tAt' = "loop" /\ UNCHANGED <<tWallet, tSettled, tTrades, tPaid>>
    BY <1>6 DEF NextLeg, Served, AnswerCame
  <2>2. TriTypes'
    BY <1>4, <2>1 DEF TriIInv, TriTypes
  <2>3. tPaid' + tTrades' + 0 <= tWallet'.rest
    BY <1>2, <1>3, <2>1
  <2> QED
    BY <2>1, <2>2, <2>3 DEF TriIInv, LegIsFunded
<1> QED
  BY <1>5, <1>6

LEMMA TriPayKeeps == ASSUME TriIInv, NEW out \in Outcomes, PayProfit(out) PROVE TriIInv'
<1>1. /\ tAt = "paying" /\ tAt' = "loop" /\ UNCHANGED <<tLeg, tSettled, tTrades>>
      /\ tPaid' = IF Served(out) THEN tPaid + tLeg.profit ELSE tPaid
  BY DEF PayProfit
<1>2. tWallet' \in [Coins -> Nat] /\ tWallet'.rest = tWallet.rest
  BY TriPaid DEF PayProfit, TriIInv, TriTypes
<1>3. /\ tPaid \in Nat /\ tLeg.profit \in Nat /\ tTrades \in Nat /\ tWallet.rest \in Nat
      /\ tPaid + tTrades + tLeg.profit <= tWallet.rest
  BY <1>1 DEF TriIInv, TriTypes, LegIsFunded, Coins
<1>4. tPaid' \in Nat /\ tPaid' + tTrades' + 0 <= tWallet'.rest
  BY <1>1, <1>2, <1>3
<1>5. TriTypes'
  BY <1>1, <1>2, <1>4 DEF TriIInv, TriTypes
<1> QED
  BY <1>1, <1>4, <1>5 DEF TriIInv, LegIsFunded

LEMMA TriCancelKeeps ==
    ASSUME TriIInv, NEW served \in BOOLEAN, NEW read \in 0 .. 3, CancelTri(served, read)
    PROVE  TriIInv'
<1>1. tAt' = "off" /\ UNCHANGED <<tLeg, tSettled, tTrades>>
  BY DEF CancelTri
<1>2. CASE ~served
  BY <1>1, <1>2, TriKeeps DEF CancelTri
<1>3. CASE served /\ tAt = "legs"
  <2>1. PICK n \in 1 .. 3 : n = tSettled + 1
    BY <1>3 DEF TriIInv
  <2>2. tWallet' = Bought(n) /\ CanBuy(n) /\ tPaid' = tPaid
    BY <1>3, <2>1 DEF CancelTri
  <2>3. /\ tWallet' \in [Coins -> Nat]
        /\ tWallet'.rest = IF n = 3 THEN tWallet.rest + tLeg.coins ELSE tWallet.rest
    BY <2>1, <2>2, TriBought DEF TriIInv, TriTypes
  <2>4. /\ tPaid \in Nat /\ tTrades \in Nat /\ tWallet.rest \in Nat /\ tLeg.coins \in Nat
        /\ tPaid + tTrades + 0 <= tWallet.rest
    BY <1>3 DEF TriIInv, TriTypes, LegIsFunded, Coins
  <2>5. tPaid' + tTrades' + 0 <= tWallet'.rest
    BY <1>1, <2>2, <2>3, <2>4
  <2>6. TriTypes'
    BY <1>1, <2>2, <2>3 DEF TriIInv, TriTypes
  <2> QED
    BY <1>1, <2>5, <2>6 DEF TriIInv, LegIsFunded
<1>4. CASE served /\ tAt # "legs"
  <2>1. tAt = "paying" /\ CanPay /\ tWallet' = AfterPayment /\ tPaid' = tPaid + tLeg.profit
    BY <1>4 DEF CancelTri
  <2>2. tWallet' \in [Coins -> Nat] /\ tWallet'.rest = tWallet.rest
    BY <2>1, TriPaid DEF TriIInv, TriTypes
  <2>3. /\ tPaid \in Nat /\ tLeg.profit \in Nat /\ tTrades \in Nat /\ tWallet.rest \in Nat
        /\ tPaid + tTrades + tLeg.profit <= tWallet.rest
    BY <2>1 DEF TriIInv, TriTypes, LegIsFunded, Coins
  <2>4. tPaid' \in Nat /\ tPaid' + tTrades' + 0 <= tWallet'.rest
    BY <1>1, <2>1, <2>2, <2>3
  <2>5. TriTypes'
    BY <1>1, <2>2, <2>4 DEF TriIInv, TriTypes
  <2> QED
    BY <1>1, <2>4, <2>5 DEF TriIInv, LegIsFunded
<1> QED
  BY <1>2, <1>3, <1>4

\* An arbitrage begins: nothing is settled, and the dollars are an order.
LEMMA TriBegins ==
    ASSUME TriIInv, NEW out \in Outcomes, NEW coins \in LegCoins, FundsSeen(out, coins)
    PROVE  TriIInv'
<1>1. CASE AnswerCame(out) /\ LargeEnough(tWallet.usdt)
  <2>1. PICK spent : spent = TradeCapital(tWallet.usdt)
    OBVIOUS
  <2>2. spent \in Nat /\ spent > 0
    <3>1. tWallet.usdt \in Nat /\ spent \in {tWallet.usdt, TriCapital} /\ spent >= MinNotional
      BY <1>1, <2>1 DEF TriIInv, TriTypes, Coins, TradeCapital, LargeEnough
    <3> QED
      BY <3>1, TriAssumption
  <2>3. tLeg' = [spent |-> spent, coins |-> coins, profit |-> 0] /\ coins \in Nat
    BY <1>1, <2>1, TriAssumption DEF FundsSeen
  <2>4. tLeg' \in [spent : Nat, coins : Nat, profit : Nat] /\ tLeg'.spent > 0
    BY <2>2, <2>3
  <2>5. tAt = "funding" /\ tAt' = "legs" /\ tSettled' = 0 /\ UNCHANGED <<tWallet, tTrades, tPaid>>
    BY <1>1 DEF FundsSeen, tBooks
  <2>6. TriTypes'
    BY <2>4, <2>5 DEF TriIInv, TriTypes
  <2>7. LegIsFunded'
    BY <2>5 DEF TriIInv, LegIsFunded
  <2> QED
    BY <2>4, <2>5, <2>6, <2>7 DEF TriIInv
<1>2. CASE ~(AnswerCame(out) /\ LargeEnough(tWallet.usdt))
  <2>1. /\ tAt = "funding" /\ tAt' = "loop" /\ tSettled' = 0
        /\ UNCHANGED <<tWallet, tTrades, tPaid, tLeg>>
    BY <1>2 DEF FundsSeen, tBooks
  <2>2. TriTypes'
    BY <2>1 DEF TriIInv, TriTypes
  <2> QED
    BY <2>1, <2>2 DEF TriIInv, LegIsFunded
<1> QED
  BY <1>1, <1>2

LEMMA TriStep == TriIInv /\ [TriNext]_tvars => TriIInv'
<1> SUFFICES ASSUME TriIInv, [TriNext]_tvars PROVE TriIInv'
  OBVIOUS
<1>1. ASSUME UNCHANGED <<tAt, tWallet, tTrades, tPaid, tLeg, tSettled>> PROVE TriIInv'
  BY <1>1 DEF TriIInv, TriTypes, LegIsFunded
<1>2. CASE UNCHANGED tvars
  BY <1>1, <1>2 DEF tvars
<1>3. CASE TickersAge \/ StopTri
  BY <1>1, <1>3 DEF TickersAge, StopTri, tBooks
<1>4. CASE TriLoopEnds
  BY <1>4, TriKeeps DEF TriLoopEnds, tBooks
<1>5. ASSUME NEW ready \in BOOLEAN, TriRun(ready) PROVE TriIInv'
  BY <1>5, TriKeeps DEF TriRun, tBooks
<1>6. ASSUME NEW read \in 0 .. 3, NEW profit \in BOOLEAN, UpdateTickers(read, profit) PROVE TriIInv'
  BY <1>6, TriKeeps DEF UpdateTickers, tBooks
<1>7. ASSUME NEW out \in Outcomes, Opportunity(out) PROVE TriIInv'
  BY <1>7, TriKeeps DEF Opportunity, tBooks
<1> QED
  BY <1>2, <1>3, <1>4, <1>5, <1>6, <1>7, TriBegins, TriNextLegKeeps, TriPayKeeps, TriCancelKeeps
     DEF TriNext

\* Each leg of the triangle spends what the one before it bought, and what is
\* withdrawn as profit was spent by third legs before, for any capital and prices:
\* refused, lost and cut off orders included.
THEOREM TriFunded == TriSpec => []LegIsFunded
<1>1. TriIInv => LegIsFunded
  BY DEF TriIInv
<1> QED
  BY <1>1, TriInitHolds, TriStep, PTL DEF TriSpec

------------------------------------------------------------------------------
(* The funding rate bot: between the answer to a sale and its position's end    *)
(* nothing of it is held (fSold), and it is not on the list of those to sell.   *)

FundIInv ==
    /\ fAt \in {"off", "fetch", "enter", "exit", "stop"}
    /\ fHigh \subseteq Keys /\ fTodo \subseteq HeldSymbols
    /\ fPos \in [FundSymbols -> FundExchanges \cup {NoVenue}]
    /\ fHeld \in [Keys -> Int] /\ fLost \in BOOLEAN
    /\ fSold # NoVenue => /\ fAt \in {"exit", "stop"}
                          /\ fSold \in HeldSymbols \ fTodo
                          /\ ~fLost => fHeld[<<fPos[fSold], fSold>>] <= 0
    /\ HeldIsShown

LEMMA FundInitHolds == FundInit => FundIInv
<1> SUFFICES ASSUME FundInit PROVE FundIInv
  OBVIOUS
<1>1. \A key \in Keys : fHeld[key] = 0
  BY DEF FundInit
<1>2. HeldIsShown
  BY <1>1 DEF HeldIsShown
<1>3. /\ fPos \in [FundSymbols -> FundExchanges \cup {NoVenue}]
      /\ fHeld \in [Keys -> Int]
  BY DEF FundInit
<1>4. fHigh = {} /\ fTodo = {} /\ fSold = NoVenue /\ fAt = "off" /\ fLost \in BOOLEAN
  BY DEF FundInit
<1> QED
  BY <1>2, <1>3, <1>4 DEF FundIInv

LEMMA FundStep == FundIInv /\ [FundNext]_fvars => FundIInv'
<1> SUFFICES ASSUME FundIInv, [FundNext]_fvars PROVE FundIInv'
  OBVIOUS
<1> USE FundAssumption DEF FundIInv, NoVenue
<1>1. CASE UNCHANGED fvars
  BY <1>1 DEF fvars, HeldIsShown, HeldSymbols
<1>2. CASE FundRun
  BY <1>2 DEF FundRun, HeldIsShown, HeldSymbols
<1>3. CASE CheckExits
  <2>1. fTodo' \subseteq HeldSymbols /\ (fSold # NoVenue => fSold \notin fTodo')
    BY <1>3 DEF CheckExits, HeldSymbols
  <2> QED
    BY <1>3, <2>1 DEF CheckExits, HeldIsShown, HeldSymbols
<1>4. CASE Exited
  <2>1. PICK s \in FundSymbols : s = fSold /\ s \notin fTodo
    BY <1>4 DEF Exited, HeldSymbols
  <2>2. /\ fPos' = [fPos EXCEPT ![s] = NoVenue] /\ fSold' = NoVenue
        /\ UNCHANGED <<fAt, fHigh, fNeg, fTodo, fHeld, fLost>>
    BY <1>4, <2>1 DEF Exited
  <2>3. fPos' \in [FundSymbols -> FundExchanges \cup {NoVenue}]
    BY <2>2
  <2>4. fTodo' \subseteq HeldSymbols'
    BY <2>1, <2>2 DEF HeldSymbols
  <2>5. HeldIsShown'
    <3> SUFFICES ASSUME ~fLost', NEW key \in Keys
                 PROVE  fHeld'[key] <= IF fPos'[key[2]] = key[1] THEN 1 ELSE 0
      BY DEF HeldIsShown
    <3>1. PICK x \in FundExchanges, y \in FundSymbols : key = <<x, y>>
      BY DEF Keys
    <3>2. fHeld[key] \in Int /\ fHeld' = fHeld /\ fHeld[key] <= IF fPos[y] = x THEN 1 ELSE 0
      BY <2>2, <3>1 DEF HeldIsShown
    <3>3. CASE y = s
      <4>1. fPos[y] = x => fHeld[key] <= 0
        BY <1>4, <2>1, <2>2, <3>1, <3>3 DEF Exited
      <4>2. fHeld[key] <= 0
        BY <3>2, <4>1
      <4> QED
        BY <3>2, <4>2
    <3>4. CASE y # s
      BY <2>2, <3>1, <3>2, <3>4
    <3> QED
      BY <3>3, <3>4
  <2> QED
    BY <2>2, <2>3, <2>4, <2>5
<1>5. CASE ExitsDone
  BY <1>5 DEF ExitsDone, HeldIsShown, HeldSymbols
<1>6. CASE FundStop
  <2>1. fSold # NoVenue => fSold \notin fTodo'
    BY <1>6 DEF FundStop
  <2> QED
    BY <1>6, <2>1 DEF FundStop, HeldIsShown, HeldSymbols
<1>7. ASSUME NEW high \in SUBSET Keys, NEW neg \in SUBSET Keys, FetchRates(high, neg) PROVE FundIInv'
  BY <1>7 DEF FetchRates, HeldIsShown, HeldSymbols
<1>8. ASSUME NEW x \in FundExchanges, NEW y \in FundSymbols, NEW out \in Outcomes,
             EnterHedge(<<x, y>>, out)
      PROVE  FundIInv'
  <2>1. CASE fPos[y] # NoVenue
    BY <1>8, <2>1 DEF EnterHedge, HeldIsShown, HeldSymbols
  <2>2. CASE fPos[y] = NoVenue
    <3>1. /\ fAt' = fAt /\ fSold' = fSold /\ fTodo' = fTodo /\ fHigh' \subseteq fHigh
          /\ fSold = NoVenue /\ (fLost \/ out = "lost" <=> fLost') /\ fLost' \in BOOLEAN
          /\ fPos' = IF AnswerCame(out) THEN [fPos EXCEPT ![y] = x] ELSE fPos
          /\ fHeld' = IF Served(out) THEN [fHeld EXCEPT ![<<x, y>>] = @ + 1] ELSE fHeld
      BY <1>8, <2>2 DEF EnterHedge
    <3>2. fPos' \in [FundSymbols -> FundExchanges \cup {NoVenue}] /\ fHeld' \in [Keys -> Int]
      BY <3>1 DEF Keys
    <3>3. fTodo' \subseteq HeldSymbols'
      BY <2>2, <3>1 DEF HeldSymbols
    <3>4. HeldIsShown'
      <4> SUFFICES ASSUME ~fLost', NEW a \in FundExchanges, NEW b \in FundSymbols
                   PROVE  fHeld'[<<a, b>>] <= IF fPos'[b] = a THEN 1 ELSE 0
        BY DEF HeldIsShown, Keys
      <4>1. out \in {"ok", "refused"} /\ ~fLost
        BY <3>1 DEF Outcomes
      <4>2. <<a, b>> \in Keys /\ fHeld[<<a, b>>] \in Int
        BY DEF Keys
      <4>3. fHeld[<<a, b>>] <= IF fPos[b] = a THEN 1 ELSE 0
        BY <4>1, <4>2 DEF HeldIsShown
      <4>4. CASE out = "refused"
        BY <3>1, <4>3, <4>4 DEF Served, AnswerCame
      <4>5. CASE out = "ok" /\ b # y
        BY <3>1, <4>2, <4>3, <4>5 DEF Served, AnswerCame, Keys
      <4>6. CASE out = "ok" /\ b = y
        <5>1. fHeld[<<a, b>>] <= 0 /\ fPos'[b] = x
          BY <2>2, <3>1, <4>2, <4>3, <4>6 DEF AnswerCame
        <5>2. fHeld'[<<a, b>>] = IF a = x THEN fHeld[<<a, b>>] + 1 ELSE fHeld[<<a, b>>]
          BY <3>1, <4>2, <4>6 DEF Served, Keys
        <5> QED
          BY <4>2, <5>1, <5>2
      <4> QED
        BY <4>1, <4>4, <4>5, <4>6
    <3> QED
      BY <3>1, <3>2, <3>3, <3>4
  <2> QED
    BY <2>1, <2>2
<1>9. ASSUME NEW s \in FundSymbols, NEW out \in Outcomes, ExitPosition(s, out) PROVE FundIInv'
  <2>1. PICK x \in FundExchanges : fPos[s] = x
    BY <1>9 DEF ExitPosition, HeldSymbols
  <2>2. /\ fAt' = fAt /\ fHigh' = fHigh /\ fPos' = fPos /\ fTodo' = fTodo \ {s}
        /\ fAt \in {"exit", "stop"} /\ s \in fTodo
        /\ (fLost \/ out = "lost" <=> fLost') /\ fLost' \in BOOLEAN
        /\ fSold' = IF AnswerCame(out) THEN s ELSE NoVenue
        /\ fHeld' = IF Served(out) THEN [fHeld EXCEPT ![<<x, s>>] = @ - 1] ELSE fHeld
    BY <1>9, <2>1 DEF ExitPosition
  <2>3. <<x, s>> \in Keys /\ fHeld' \in [Keys -> Int]
    BY <2>2 DEF Keys
  <2>4. HeldSymbols' = HeldSymbols /\ s \in HeldSymbols
    BY <2>2 DEF HeldSymbols
  <2>5. \A key \in Keys : fHeld'[key] <= fHeld[key]
    BY <2>2, <2>3
  <2>6. HeldIsShown'
    <3> SUFFICES ASSUME ~fLost', NEW key \in Keys
                 PROVE  fHeld'[key] <= IF fPos[key[2]] = key[1] THEN 1 ELSE 0
      BY <2>2 DEF HeldIsShown
    <3>1. fHeld[key] <= IF fPos[key[2]] = key[1] THEN 1 ELSE 0
      BY <2>2 DEF HeldIsShown
    <3> QED
      BY <2>3, <2>5, <3>1
  <2>7. ASSUME fSold' # NoVenue, ~fLost' PROVE fHeld'[<<fPos'[fSold'], fSold'>>] <= 0
    <3>1. out = "ok" /\ fSold' = s /\ ~fLost
      BY <2>2, <2>7 DEF AnswerCame
    <3>2. fHeld[<<x, s>>] <= 1
      BY <2>1, <2>3, <3>1 DEF HeldIsShown
    <3>3. fHeld'[<<x, s>>] <= 0
      BY <2>2, <2>3, <3>1, <3>2 DEF Served
    <3> QED
      BY <2>1, <2>2, <3>1, <3>3
  <2> QED
    BY <2>2, <2>3, <2>4, <2>6, <2>7
<1>10. ASSUME NEW keep \in BOOLEAN, CancelFund(keep) PROVE FundIInv'
  <2>1. /\ fAt' \in {"off", "stop"} /\ fTodo' \in {{}, HeldSymbols} /\ fHigh' = {}
        /\ fSold' = NoVenue /\ fPos' = fPos
    BY <1>10 DEF CancelFund
  <2>2. HeldSymbols' = HeldSymbols
    BY <2>1 DEF HeldSymbols
  <2>3. (UNCHANGED <<fHeld, fLost>>) \/ (fHeld' \in [Keys -> Int] /\ fLost' = TRUE)
    <3>1. CASE keep
      BY <1>10, <3>1 DEF CancelFund
    <3>2. CASE ~keep
      <4>1. /\ fLost' = TRUE
            /\ \/ \E key \in fHigh : fHeld' = [fHeld EXCEPT ![key] = @ + 1]
               \/ \E s \in fTodo : fHeld' = [fHeld EXCEPT ![<<fPos[s], s>>] = @ - 1]
        BY <1>10, <3>2 DEF CancelFund
      <4>2. ASSUME NEW key \in fHigh, fHeld' = [fHeld EXCEPT ![key] = @ + 1]
            PROVE  fHeld' \in [Keys -> Int]
        BY <4>2
      <4>3. ASSUME NEW s \in fTodo, fHeld' = [fHeld EXCEPT ![<<fPos[s], s>>] = @ - 1]
            PROVE  fHeld' \in [Keys -> Int]
        <5>1. <<fPos[s], s>> \in Keys
          BY <4>3 DEF Keys, HeldSymbols
        <5> QED
          BY <4>3, <5>1
      <4> QED
        BY <4>1, <4>2, <4>3
    <3> QED
      BY <3>1, <3>2
  <2>4. HeldIsShown'
    BY <2>1, <2>3 DEF HeldIsShown
  <2> QED
    BY <2>1, <2>2, <2>3, <2>4
<1>11. ASSUME NEW key \in Keys, NEW out \in Outcomes, EnterHedge(key, out) PROVE FundIInv'
  <2>1. PICK x \in FundExchanges, y \in FundSymbols : key = <<x, y>>
    BY DEF Keys
  <2>2. EnterHedge(<<x, y>>, out)
    BY <1>11, <2>1
  <2> QED
    BY <1>8, <2>2
<1> HIDE FundAssumption DEF FundIInv
<1> QED
  BY <1>1, <1>2, <1>3, <1>4, <1>5, <1>6, <1>7, <1>9, <1>10, <1>11 DEF FundNext

LEMMA FundHolds == FundIInv => HeldIsShown
  BY DEF FundIInv

\* As long as every request is answered the account holds one unit of a symbol at
\* most, at the exchange its position names, for any exchanges and symbols.
THEOREM FundShown == FundSpec => []HeldIsShown
  BY FundHolds, FundInitHolds, FundStep, PTL DEF FundSpec

------------------------------------------------------------------------------
(* The grid bot.  A level that names a buy order gets no other one before the   *)
(* grid is left, and the orders of a grid that was left are old; the order a    *)
(* cancellation cut off is late.                                                *)

GridOrder == [side : Sides, level : GridSteps, st : {"open", "filled", "cancelled"},
              as : {"named", "lost", "late", "old"}]

GridTypes ==
    /\ gAt \in {"off", "place", "monitor", "levels", "rebalance", "stop"}
    /\ gNext \in GridSteps /\ gSide \in Sides
    /\ gCount \in 1 .. GridLevels /\ gTop \in 1 .. GridLevels
    /\ gLevels \in [GridSteps -> [Sides -> Nat]]
    /\ gOrd \in Seq(GridOrder)
    /\ gCut = NoOrder \/ (gCut \in GridOrder /\ gCut.as = "late")

GridIInv == GridTypes /\ OrdersAreKnown

\* Changing the orders of a sequence one by one leaves a sequence.
LEMMA Mapped ==
    ASSUME NEW S, NEW s \in Seq(S), NEW t, t = [i \in DOMAIN s |-> t[i]],
           \A i \in DOMAIN s : t[i] \in S
    PROVE  t \in Seq(S) /\ Len(t) = Len(s) /\ DOMAIN t = DOMAIN s
<1>1. t \in [1 .. Len(s) -> S] /\ Len(s) \in Nat
  OBVIOUS
<1> QED
  BY <1>1

LEMMA GridInitHolds == GridInit => GridIInv
<1> SUFFICES ASSUME GridInit PROVE GridIInv
  OBVIOUS
<1>1. GridTypes
  BY GridAssumption DEF GridInit, GridTypes, GridSteps, Sides, NoIds
<1>2. OpenIds = {}
  BY DEF GridInit, OpenIds
<1> QED
  BY <1>1, <1>2 DEF GridIInv, OrdersAreKnown, BuysAreNamed, StopLeavesNothing

LEMMA GridCreate ==
    ASSUME GridIInv, NEW side \in Sides, NEW l \in GridSteps, NEW out \in Outcomes,
           Create(side, l, out), side = "buy" => gLevels[l]["buy"] = 0
    PROVE  /\ gOrd' \in Seq(GridOrder) /\ gLevels' \in [GridSteps -> [Sides -> Nat]]
           /\ BuysAreNamed'
<1> USE DEF GridIInv, GridTypes
<1> DEFINE new == NewOrder(side, l, IF AnswerCame(out) THEN "named" ELSE "lost")
<1>1. new \in GridOrder /\ new.side = side /\ new.level = l /\ new.st = "open"
      /\ new.as = (IF AnswerCame(out) THEN "named" ELSE "lost")
  BY DEF NewOrder, GridOrder
<1>2. Len(gOrd) \in Nat /\ DOMAIN gOrd = 1 .. Len(gOrd)
  OBVIOUS
<1>3. CASE ~Served(out)
  BY <1>3 DEF Create, Served, AnswerCame, OrdersAreKnown, BuysAreNamed, OpenIds
<1>4. CASE Served(out)
  <2>1. gOrd' = Append(gOrd, new)
    BY <1>4 DEF Create
  <2> HIDE DEF new
  <2>2. /\ gOrd' \in Seq(GridOrder) /\ Len(gOrd') = Len(gOrd) + 1
        /\ gOrd'[Len(gOrd) + 1] = new
        /\ \A i \in 1 .. Len(gOrd) : gOrd'[i] = gOrd[i]
    BY <1>1, <1>2, <2>1
  <2>3. gLevels' = IF AnswerCame(out) THEN [gLevels EXCEPT ![l][side] = Len(gOrd) + 1] ELSE gLevels
    BY DEF Create
  <2>4. gLevels' \in [GridSteps -> [Sides -> Nat]]
    BY <1>2, <2>3
  <2>5. \A k \in GridSteps : k # l \/ side # "buy" \/ ~AnswerCame(out) => gLevels'[k]["buy"] = gLevels[k]["buy"]
    BY <2>3 DEF Sides
  <2>6. ASSUME NEW i \in OpenIds', gOrd'[i].side = "buy", gOrd'[i].as = "named"
        PROVE  gLevels'[gOrd'[i].level]["buy"] = i
    <3>1. i \in 1 .. Len(gOrd) + 1 /\ gOrd'[i].st = "open"
      BY <2>2, <2>6 DEF OpenIds
    <3>2. CASE i = Len(gOrd) + 1
      BY <1>1, <1>2, <2>2, <2>3, <2>6, <3>2 DEF Sides
    <3>3. CASE i # Len(gOrd) + 1
      <4>1. i \in OpenIds /\ gOrd[i].side = "buy" /\ gOrd[i].as = "named"
            /\ gOrd'[i] = gOrd[i] /\ gOrd[i].level \in GridSteps /\ i # 0
        <5>1. i \in 1 .. Len(gOrd) /\ gOrd'[i] = gOrd[i] /\ i \in DOMAIN gOrd
          BY <1>2, <2>2, <3>1, <3>3
        <5>2. gOrd[i] \in GridOrder
          BY <5>1
        <5> QED
          BY <2>6, <3>1, <5>1, <5>2 DEF OpenIds, GridOrder
      <4>2. gLevels[gOrd[i].level]["buy"] = i
        BY <4>1 DEF OrdersAreKnown, BuysAreNamed
      <4>3. gOrd[i].level # l \/ side # "buy"
        BY <4>1, <4>2
      <4> QED
        BY <2>5, <4>1, <4>2, <4>3
    <3> QED
      BY <3>2, <3>3
  <2> QED
    BY <2>2, <2>4, <2>6 DEF BuysAreNamed
<1> QED
  BY <1>3, <1>4

LEMMA GridPlace ==
    ASSUME GridIInv, NEW l \in GridSteps, NEW out \in Outcomes,
           PlaceBuyOrder(l, out) \/ PlaceSellOrder(l, out) \/ UNCHANGED <<gOrd, gLevels>>
    PROVE  /\ gOrd' \in Seq(GridOrder) /\ gLevels' \in [GridSteps -> [Sides -> Nat]]
           /\ BuysAreNamed'
<1>1. CASE UNCHANGED <<gOrd, gLevels>>
  BY <1>1 DEF GridIInv, GridTypes, OrdersAreKnown, BuysAreNamed, OpenIds
<1>2. CASE PlaceSellOrder(l, out)
  BY <1>2, GridCreate DEF PlaceSellOrder, Sides
<1>3. CASE PlaceBuyOrder(l, out)
  BY <1>1, <1>3, GridCreate DEF PlaceBuyOrder, Sides
<1> QED
  BY <1>1, <1>2, <1>3

LEMMA GridCancelled ==
    ASSUME GridIInv
    PROVE  /\ AllCancelled \in Seq(GridOrder) /\ Len(AllCancelled) = Len(gOrd)
           /\ \A i \in DOMAIN gOrd : /\ AllCancelled[i].st # "open"
                                     /\ AllCancelled[i].side = gOrd[i].side
<1>1. \A i \in DOMAIN gOrd : gOrd[i] \in GridOrder
  BY DEF GridIInv, GridTypes
<1>2. \A i \in DOMAIN gOrd : AllCancelled[i] = IF gOrd[i].st = "open" THEN [gOrd[i] EXCEPT !.st = "cancelled"]
                                                                     ELSE gOrd[i]
  BY DEF AllCancelled, OpenIds
<1>3. \A i \in DOMAIN gOrd : /\ AllCancelled[i] \in GridOrder /\ AllCancelled[i].st # "open"
                             /\ AllCancelled[i].side = gOrd[i].side
  BY <1>1, <1>2 DEF GridOrder
<1>4. AllCancelled = [i \in DOMAIN gOrd |-> AllCancelled[i]]
  BY DEF AllCancelled
<1> QED
  BY <1>3, <1>4, Mapped DEF GridIInv, GridTypes

LEMMA GridLeft ==
    ASSUME GridIInv, NEW out \in Outcomes, LeaveGrid(out)
    PROVE  /\ gOrd' \in Seq(GridOrder) /\ gLevels' \in [GridSteps -> [Sides -> Nat]]
           /\ BuysAreNamed'
<1>1. PICK t \in Seq(GridOrder) :
          /\ Len(t) = Len(gOrd) /\ DOMAIN t = DOMAIN gOrd
          /\ gOrd' = [i \in DOMAIN gOrd |-> [t[i] EXCEPT !.as = "old"]]
  <2>1. CASE Served(out)
    <3>1. gOrd' = [i \in DOMAIN gOrd |-> [AllCancelled[i] EXCEPT !.as = "old"]]
      BY <2>1 DEF LeaveGrid
    <3>2. Len(AllCancelled) = Len(gOrd) /\ DOMAIN AllCancelled = DOMAIN gOrd
      BY GridCancelled DEF GridIInv, GridTypes
    <3> QED
      BY <3>1, <3>2, GridCancelled
  <2>2. CASE ~Served(out)
    BY <2>2 DEF LeaveGrid, GridIInv, GridTypes
  <2> QED
    BY <2>1, <2>2
<1>2. \A i \in DOMAIN gOrd : t[i] \in GridOrder
  BY <1>1
<1>3. \A i \in DOMAIN gOrd : gOrd'[i] \in GridOrder /\ gOrd'[i].as = "old"
  BY <1>1, <1>2 DEF GridOrder
<1>4. gOrd' \in Seq(GridOrder) /\ DOMAIN gOrd' = DOMAIN gOrd
  BY <1>1, <1>3, Mapped DEF GridIInv, GridTypes
<1>5. BuysAreNamed'
  BY <1>3, <1>4 DEF BuysAreNamed, OpenIds
<1>6. gLevels' \in [GridSteps -> [Sides -> Nat]]
  BY DEF LeaveGrid, NoIds
<1> QED
  BY <1>4, <1>5, <1>6

LEMMA GridStep == GridIInv /\ [GridNext]_gvars => GridIInv'
<1> SUFFICES ASSUME GridIInv, [GridNext]_gvars PROVE GridIInv'
  OBVIOUS
<1>1. /\ GridTypes /\ BuysAreNamed /\ StopLeavesNothing
      /\ \A l \in GridSteps : l \in Nat /\ l < GridLevels
  BY GridAssumption DEF GridIInv, OrdersAreKnown, GridSteps
<1>2. SUFFICES GridTypes' /\ BuysAreNamed' /\ StopLeavesNothing'
  BY DEF GridIInv, OrdersAreKnown
<1>3. 0 \in GridSteps /\ \A n \in Nat, k \in 1 .. GridLevels : n % k \in GridSteps
  BY GridAssumption DEF GridSteps
<1>4. ASSUME UNCHANGED <<gOrd, gLevels>> PROVE BuysAreNamed'
  BY <1>1, <1>4 DEF BuysAreNamed, OpenIds
<1>5. CASE UNCHANGED gvars
  BY <1>1, <1>5 DEF gvars, GridTypes, BuysAreNamed, StopLeavesNothing, OpenIds
<1>6. ASSUME NEW out \in Outcomes, NEW permitted \in BOOLEAN, NEW count \in GridCounts,
             Initialize(out, permitted, count)
      PROVE  GridTypes' /\ BuysAreNamed' /\ StopLeavesNothing'
  <2>1. /\ gOrd' \in Seq(GridOrder) /\ gLevels' \in [GridSteps -> [Sides -> Nat]]
        /\ BuysAreNamed'
    BY <1>6, GridLeft DEF Initialize
  <2>2. gAt' \in {"place", "monitor"} /\ gNext' = 0 /\ gTop' = GridLevels /\ gCount' = count
        /\ UNCHANGED <<gSide, gCut>>
    BY <1>6 DEF Initialize
  <2>3. count \in 1 .. GridLevels /\ GridLevels \in 1 .. GridLevels
    BY GridAssumption
  <2> QED
    BY <1>1, <1>3, <2>1, <2>2, <2>3 DEF GridTypes, StopLeavesNothing
<1>7. ASSUME NEW out \in Outcomes, NEW skip \in BOOLEAN, PlaceInitial(out, skip)
      PROVE  GridTypes' /\ BuysAreNamed' /\ StopLeavesNothing'
  <2>1. /\ gOrd' \in Seq(GridOrder) /\ gLevels' \in [GridSteps -> [Sides -> Nat]]
        /\ BuysAreNamed'
    BY <1>1, <1>7, GridPlace DEF PlaceInitial, GridTypes
  <2>2. gAt' \in {"place", "monitor"} /\ gNext' = (gNext + 1) % gTop
        /\ UNCHANGED <<gSide, gCount, gTop, gCut>>
    BY <1>7 DEF PlaceInitial
  <2>3. gNext' \in GridSteps
    BY <1>1, <1>3, <2>2 DEF GridTypes
  <2> QED
    BY <1>1, <2>1, <2>2, <2>3 DEF GridTypes, StopLeavesNothing
<1>8. ASSUME NEW out \in Outcomes, MonitorOrders(out)
      PROVE  GridTypes' /\ BuysAreNamed' /\ StopLeavesNothing'
  BY <1>1, <1>3, <1>4, <1>8 DEF MonitorOrders, GridTypes, StopLeavesNothing, Sides
<1>9. ASSUME NEW out \in Outcomes, VisitLevel(out)
      PROVE  GridTypes' /\ BuysAreNamed' /\ StopLeavesNothing'
  <2>1. /\ gOrd' \in Seq(GridOrder) /\ gLevels' \in [GridSteps -> [Sides -> Nat]]
        /\ BuysAreNamed'
    <3>1. CASE gNext + 1 < gCount /\ PlaceSellOrder(gNext + 1, out)
      <4>1. gNext + 1 \in GridSteps
        BY <1>1, <3>1, GridAssumption DEF GridTypes, GridSteps
      <4> QED
        BY <3>1, <4>1, GridPlace
    <3>2. CASE gNext > 0 /\ PlaceBuyOrder(gNext - 1, out)
      <4>1. gNext - 1 \in GridSteps
        BY <1>1, <3>2, GridAssumption DEF GridTypes, GridSteps
      <4> QED
        BY <3>2, <4>1, GridPlace
    <3>3. CASE UNCHANGED <<gOrd, gLevels>>
      BY <1>3, <3>3, GridPlace, <1>4, <1>1 DEF GridTypes
    <3> QED
      BY <1>9, <3>1, <3>2, <3>3 DEF VisitLevel, HandleFilled
  <2>2. gAt' \in {"rebalance", "levels"} /\ gNext' \in {gNext, (gNext + 1) % gTop}
        /\ gSide' \in Sides /\ UNCHANGED <<gCount, gTop, gCut>>
    BY <1>9 DEF VisitLevel, Sides
  <2>3. gNext' \in GridSteps
    <3>1. gNext \in GridSteps /\ gNext + 1 \in Nat /\ gTop \in 1 .. GridLevels
      BY <1>1 DEF GridTypes
    <3>2. (gNext + 1) % gTop \in GridSteps
      BY <1>3, <3>1
    <3> QED
      BY <2>2, <3>1, <3>2
  <2> QED
    BY <1>1, <2>1, <2>2, <2>3 DEF GridTypes, StopLeavesNothing
<1>10. ASSUME NEW out \in Outcomes, Rebalance(out)
       PROVE  GridTypes' /\ BuysAreNamed' /\ StopLeavesNothing'
  <2>1. /\ gOrd' \in Seq(GridOrder) /\ gLevels' \in [GridSteps -> [Sides -> Nat]]
        /\ BuysAreNamed'
    BY <1>10, GridLeft DEF Rebalance
  <2> QED
    BY <1>1, <1>3, <1>10, <2>1 DEF Rebalance, GridTypes, StopLeavesNothing
<1>11. ASSUME NEW out \in Outcomes, StopGrid(out)
       PROVE  GridTypes' /\ BuysAreNamed' /\ StopLeavesNothing'
  <2>1. gAt' = "off" /\ UNCHANGED <<gNext, gSide, gCount, gTop, gLevels, gCut>> /\ gClean' = Served(out)
    BY <1>11 DEF StopGrid, CancelAll
  <2>2. CASE Served(out)
    <3>1. gOrd' = AllCancelled
      BY <1>11, <2>2 DEF StopGrid, CancelAll
    <3>2. gOrd' \in Seq(GridOrder) /\ DOMAIN gOrd' = DOMAIN gOrd
      BY <1>1, <3>1, GridCancelled DEF GridTypes
    <3>3. OpenIds' = {}
      BY <3>1, <3>2, GridCancelled DEF OpenIds
    <3> QED
      BY <1>1, <2>1, <3>2, <3>3 DEF GridTypes, BuysAreNamed, StopLeavesNothing
  <2>3. CASE ~Served(out)
    <3>1. gOrd' = gOrd
      BY <1>11, <2>3 DEF StopGrid, CancelAll
    <3> QED
      BY <1>1, <1>4, <2>1, <2>3, <3>1 DEF GridTypes, StopLeavesNothing
  <2> QED
    BY <2>2, <2>3
<1>12. ASSUME NEW cut \in BOOLEAN, CancelRun(cut)
       PROVE  GridTypes' /\ BuysAreNamed' /\ StopLeavesNothing'
  <2>1. PendingOrder = NoOrder \/ (PendingOrder \in GridOrder /\ PendingOrder.as = "late")
    <3>1. \A side \in Sides, l \in GridSteps :
              NewOrder(side, l, "late") \in GridOrder /\ NewOrder(side, l, "late").as = "late"
      BY DEF NewOrder, GridOrder
    <3>2. gNext \in GridSteps /\ gNext \in Nat /\ gCount \in Nat /\ gCount <= GridLevels
      BY <1>1, GridAssumption DEF GridTypes
    <3>3. gNext + 1 < gCount => gNext + 1 \in GridSteps
      BY <3>2, GridAssumption DEF GridSteps
    <3>4. gNext > 0 => gNext - 1 \in GridSteps
      BY <3>2, GridAssumption DEF GridSteps
    <3> HIDE DEF NewOrder
    <3> QED
      BY <3>1, <3>2, <3>3, <3>4 DEF PendingOrder, Sides
  <2>2. gAt' = "stop" /\ gNext' = 0 /\ gSide' = "buy" /\ gCut' \in {PendingOrder, NoOrder}
        /\ UNCHANGED <<gCount, gTop, gLevels, gOrd, gClean>>
    BY <1>12 DEF CancelRun
  <2>3. BuysAreNamed'
    BY <1>4, <2>2
  <2> QED
    BY <1>1, <1>3, <2>1, <2>2, <2>3 DEF GridTypes, StopLeavesNothing, Sides
<1>13. CASE StayInRange
  BY <1>1, <1>4, <1>13 DEF StayInRange, GridTypes, StopLeavesNothing
<1>14. CASE ServeCut
  <2>1. gCut \in GridOrder /\ gCut.as = "late" /\ gOrd' = Append(gOrd, gCut)
        /\ gCut' = NoOrder /\ UNCHANGED <<gAt, gNext, gSide, gCount, gTop, gLevels, gClean>>
    BY <1>1, <1>14 DEF ServeCut, GridTypes
  <2>2. gOrd \in Seq(GridOrder)
    BY <1>1 DEF GridTypes
  <2>3. /\ gOrd' \in Seq(GridOrder) /\ DOMAIN gOrd' = 1 .. Len(gOrd) + 1
        /\ gOrd'[Len(gOrd) + 1] = gCut
        /\ \A i \in 1 .. Len(gOrd) : gOrd'[i] = gOrd[i]
        /\ DOMAIN gOrd = 1 .. Len(gOrd) /\ Len(gOrd) \in Nat
    BY <2>1, <2>2
  <2>4. \A i \in OpenIds' : gOrd'[i].as = "late" \/ (i \in OpenIds /\ gOrd'[i] = gOrd[i])
    BY <2>1, <2>3 DEF OpenIds
  <2>5. BuysAreNamed'
    BY <1>1, <2>1, <2>4 DEF BuysAreNamed
  <2>6. StopLeavesNothing'
    BY <1>1, <2>1, <2>4 DEF StopLeavesNothing
  <2> QED
    BY <1>1, <2>1, <2>3, <2>5, <2>6 DEF GridTypes
<1>15. ASSUME NEW i \in DOMAIN gOrd, OrderFills(i)
       PROVE  GridTypes' /\ BuysAreNamed' /\ StopLeavesNothing'
  <2>1. gOrd \in Seq(GridOrder) /\ gOrd[i] \in GridOrder
    BY <1>1 DEF GridTypes
  <2> DEFINE filled == [gOrd[i] EXCEPT !.st = "filled"]
  <2>0. filled \in GridOrder /\ filled.st = "filled"
    BY <2>1 DEF GridOrder
  <2>2. PICK new \in GridOrder : new = filled /\ new.st = "filled"
    BY <2>0
  <2>3. gOrd' = [gOrd EXCEPT ![i] = new]
    BY <1>15, <2>2 DEF OrderFills
  <2>4. gOrd' \in Seq(GridOrder) /\ DOMAIN gOrd' = DOMAIN gOrd /\ gOrd'[i] = new
        /\ \A j \in DOMAIN gOrd : j # i => gOrd'[j] = gOrd[j]
    BY <2>1, <2>3
  <2>5. \A j \in OpenIds' : j \in OpenIds /\ gOrd'[j] = gOrd[j]
    BY <2>2, <2>4 DEF OpenIds
  <2>6. UNCHANGED <<gAt, gNext, gSide, gCount, gTop, gLevels, gCut, gClean>>
    BY <1>15 DEF OrderFills
  <2> QED
    BY <1>1, <2>4, <2>5, <2>6 DEF GridTypes, BuysAreNamed, StopLeavesNothing
<1> QED
  BY <1>5, <1>6, <1>7, <1>8, <1>9, <1>10, <1>11, <1>12, <1>13, <1>14, <1>15 DEF GridNext

LEMMA GridHolds == GridIInv => OrdersAreKnown
  BY DEF GridIInv

\* The level of a buy order shows its id until the exchange has closed it, and a
\* stop whose cancellation was taken leaves no order but a late one, for any grid
\* and any number of orders.
THEOREM GridKnown == GridSpec => []OrdersAreKnown
  BY GridHolds, GridInitHolds, GridStep, PTL DEF GridSpec

------------------------------------------------------------------------------
(* The bot of Hyperliquid: while every question for the position was answered,  *)
(* what a pass has seen is what is held, and an entry goes against or from      *)
(* nothing.                                                                     *)

HyperIInv ==
    ~hBlind =>
        /\ hHeld \in {-1, 0, 1}
        /\ hAt = "pass" => hSeen = hHeld /\ hSize = Abs(hHeld)
        /\ hAt = "long" => hHeld <= 0
        /\ hAt = "short" => hHeld >= 0

LEMMA Signs == \A x \in {-1, 0, 1} : Sign(x) = x /\ Abs(x) \in {0, 1} /\ (Abs(x) = 0 <=> x = 0)
<1> SUFFICES ASSUME NEW x \in {-1, 0, 1}
             PROVE  Sign(x) = x /\ Abs(x) \in {0, 1} /\ (Abs(x) = 0 <=> x = 0)
  OBVIOUS
<1>1. CASE x = -1
  BY <1>1 DEF Sign, Abs
<1>2. CASE x = 0
  BY <1>2 DEF Sign, Abs
<1>3. CASE x = 1
  BY <1>3 DEF Sign, Abs
<1> QED
  BY <1>1, <1>2, <1>3

LEMMA HyperClosed ==
    ASSUME HyperIInv, ~hBlind, hAt = "pass", hSeen # 0, NEW out \in Outcomes, CloseHyper(out)
    PROVE  hHeld' \in {hHeld, 0} /\ hSeen = hHeld
<1>1. hHeld \in {-1, 1} /\ hSeen = hHeld /\ hSize = Abs(hHeld)
  BY DEF HyperIInv
<1>2. Abs(hHeld) = 1 /\ Sign(hHeld) = hHeld
  BY <1>1, Signs
<1>3. hHeld' = IF Served(out) THEN hHeld - hHeld * 1 ELSE hHeld
  BY <1>1, <1>2 DEF CloseHyper
<1>4. CASE hHeld = 1
  BY <1>1, <1>3, <1>4
<1>5. CASE hHeld = -1
  BY <1>1, <1>3, <1>5
<1> QED
  BY <1>1, <1>4, <1>5

LEMMA HyperStep == HyperIInv /\ [HyperNext]_hvars => HyperIInv'
<1> SUFFICES ASSUME HyperIInv, [HyperNext]_hvars, ~hBlind' PROVE HyperIInv'
  BY DEF HyperIInv
<1>1. CASE UNCHANGED hvars
  BY <1>1 DEF hvars, HyperIInv
<1>2. CASE HyperRun \/ Hold \/ CancelHyper
  BY <1>2 DEF HyperRun, Hold, CancelHyper, HyperIInv
<1>3. ASSUME NEW answered \in BOOLEAN, GetCurrentPosition(answered) PROVE HyperIInv'
  <2>1. ~hBlind /\ answered /\ hHeld' = hHeld /\ hAt' = "pass"
    BY <1>3 DEF GetCurrentPosition
  <2>2. hHeld \in {-1, 0, 1} /\ hSeen' = Sign(hHeld) /\ hSize' = Abs(hHeld)
    BY <1>3, <2>1 DEF GetCurrentPosition, HyperIInv
  <2> QED
    BY <2>1, <2>2, Signs DEF HyperIInv
<1>4. ASSUME NEW out \in Outcomes, ExitHyper(out) PROVE HyperIInv'
  <2>1. ~hBlind /\ hHeld' \in {hHeld, 0} /\ hAt' = "loop"
    BY <1>4, HyperClosed DEF ExitHyper
  <2> QED
    BY <2>1 DEF HyperIInv
<1>5. ASSUME NEW out \in Outcomes, ReverseHyper(out) PROVE HyperIInv'
  <2>1. ~hBlind /\ hHeld' \in {hHeld, 0} /\ hSeen = hHeld
        /\ hAt' = (IF hSeen = 1 THEN "short" ELSE "long") /\ hSeen # 0
    BY <1>5, HyperClosed DEF ReverseHyper
  <2> QED
    BY <2>1 DEF HyperIInv
<1>6. ASSUME NEW out \in Outcomes, OpenHyper(out) PROVE HyperIInv'
  <2>1. ~hBlind /\ hAt' = "loop" /\ hAt \in {"long", "short"}
        /\ hHeld' = IF Served(out) THEN hHeld + (IF hAt = "long" THEN 1 ELSE -1) ELSE hHeld
    BY <1>6 DEF OpenHyper
  <2>2. hHeld' \in {-1, 0, 1}
    BY <2>1 DEF HyperIInv
  <2> QED
    BY <2>1, <2>2 DEF HyperIInv
<1>7. ASSUME NEW side \in {"long", "short"}, EnterHyper(side) PROVE HyperIInv'
  BY <1>7 DEF EnterHyper, HyperIInv
<1> QED
  BY <1>1, <1>2, <1>3, <1>4, <1>5, <1>6, <1>7 DEF HyperNext

LEMMA HyperInitHolds == HyperInit => HyperIInv
  BY DEF HyperInit, HyperIInv

LEMMA HyperHolds == HyperIInv => OneEntry
  BY Signs DEF HyperIInv, OneEntry

\* The bot never holds more than one entry while its questions for the position
\* are answered, whatever becomes of its orders and runs.
THEOREM HyperOneEntry == HyperSpec => []OneEntry
  BY HyperHolds, HyperInitHolds, HyperStep, PTL DEF HyperSpec

------------------------------------------------------------------------------
(* The sniper.  A token that is active has a purchase not yet sold and not yet  *)
(* paid for, and so has the one whose price is asked or whose profit is sent;   *)
(* what a price is asked for stays active until the launcher's stop races it.   *)

RunType ==
    [at : {"off", "loop", "swap", "monitor", "price", "pay", "stop"},
     token : SniperTokens \cup {""}, todo : SUBSET SniperTokens]
StopType == [at : {"off", "stop"}, token : {""}, todo : SUBSET SniperTokens]

RunSound ==
    /\ qRun \in RunType /\ qStop \in StopType
    /\ qRun.at \in {"swap", "price", "pay"} => qRun.token \in SniperTokens
    /\ qRun.todo \subseteq Sniped /\ qStop.todo \subseteq Sniped

BooksTyped ==
    /\ qSnipes \in [SniperTokens -> {"none", "active", "sold"}]
    /\ qBuys \in [SniperTokens -> Nat] /\ qSales \in [SniperTokens -> Nat]
    /\ qPaid \in [SniperTokens -> Nat]

SalesSound ==
    ~qRaced =>
        /\ \A t \in SniperTokens :
               /\ qSales[t] <= qBuys[t]
               /\ qSnipes[t] = "active" => qSales[t] < qBuys[t]
        /\ qRun.at = "price" => qSnipes[qRun.token] = "active"

PaidSound ==
    /\ \A t \in SniperTokens :
           /\ qPaid[t] <= qBuys[t]
           /\ qSnipes[t] = "active" => qPaid[t] < qBuys[t]
    /\ qRun.at \in {"price", "pay"} => qPaid[qRun.token] < qBuys[qRun.token]
    /\ qRun.at = "pay" => qSnipes[qRun.token] = "sold"

SniperIInv == RunSound /\ BooksTyped /\ SalesSound /\ PaidSound

LEMMA SniperInitHolds == SniperInit => SniperIInv
<1> SUFFICES ASSUME SniperInit PROVE SniperIInv
  OBVIOUS
<1>1. BooksTyped /\ \A t \in SniperTokens : qSnipes[t] = "none" /\ qSales[t] = 0 /\ qPaid[t] = 0 /\ qBuys[t] = 0
  BY DEF SniperInit, BooksTyped
<1>2. RunSound /\ qRun.at = "off"
  BY DEF SniperInit, RunSound, RunType, StopType, SniperOff, QAt, Sniped
<1> QED
  BY <1>1, <1>2 DEF SniperIInv, SalesSound, PaidSound

\* A step that touches no books: a price is asked for an active token only.
LEMMA RunMoves ==
    ASSUME SniperIInv, UNCHANGED sniperBooks, qRaced => qRaced',
           qRun' \in RunType, qStop' \in StopType,
           qRun'.at \in {"swap", "price", "pay"} => qRun'.token \in SniperTokens,
           qRun'.todo \subseteq Sniped, qStop'.todo \subseteq Sniped,
           \/ qRun'.at \notin {"price", "pay"}
           \/ qRun'.at = qRun.at /\ qRun'.token = qRun.token
           \/ qRun'.at = "price" /\ qSnipes[qRun'.token] = "active"
    PROVE  SniperIInv'
<1>1. qSnipes' = qSnipes /\ qBuys' = qBuys /\ qSales' = qSales /\ qPaid' = qPaid
  BY DEF sniperBooks
<1>2. RunSound' /\ BooksTyped'
  BY <1>1 DEF SniperIInv, RunSound, BooksTyped, Sniped
<1>3. SalesSound'
  BY <1>1 DEF SniperIInv, SalesSound
<1>4. PaidSound'
  BY <1>1 DEF SniperIInv, PaidSound
<1> QED
  BY <1>2, <1>3, <1>4 DEF SniperIInv

\* A purchase, after which the pass watches all that was bought.
LEMMA Buys ==
    ASSUME SniperIInv, NEW t \in SniperTokens,
           qSnipes' = [qSnipes EXCEPT ![t] = "active"], qBuys' = [qBuys EXCEPT ![t] = @ + 1],
           qRun' = QAt("monitor", "", Sniped \cup {t}),
           UNCHANGED <<qStop, qSales, qPaid, qRaced>>
    PROVE  SniperIInv'
<1> USE DEF SniperIInv
<1>1. BooksTyped'
  <2>1. qSnipes' \in [SniperTokens -> {"none", "active", "sold"}]
    BY DEF BooksTyped
  <2>2. qBuys \in [SniperTokens -> Nat]
    BY Zenon DEF BooksTyped
  <2>3. qBuys' \in [SniperTokens -> Nat]
    <3>1. \A u \in SniperTokens : qBuys[u] \in Nat /\ qBuys[u] + 1 \in Nat
      BY ONLY <2>2
    <3> QED
      BY ONLY <2>2, <3>1, qBuys' = [qBuys EXCEPT ![t] = @ + 1]
  <2> QED
    BY <2>1, <2>3 DEF BooksTyped
<1>2. \A u \in SniperTokens : /\ qSnipes'[u] = IF u = t THEN "active" ELSE qSnipes[u]
                              /\ qBuys'[u] = IF u = t THEN qBuys[u] + 1 ELSE qBuys[u]
                              /\ qBuys[u] \in Nat /\ qSales[u] \in Nat /\ qPaid[u] \in Nat
  BY DEF BooksTyped
<1>3. Sniped' = Sniped \cup {t} /\ Sniped \subseteq SniperTokens
  BY DEF BooksTyped, Sniped
<1>4. RunSound' /\ qRun'.at = "monitor"
  BY <1>3 DEF RunSound, RunType, QAt
<1>5. SalesSound'
  <2> SUFFICES ASSUME ~qRaced, NEW u \in SniperTokens
               PROVE  /\ qSales[u] <= qBuys'[u]
                      /\ qSnipes'[u] = "active" => qSales[u] < qBuys'[u]
    BY <1>4 DEF SalesSound
  <2>1. /\ qSales[u] \in Nat /\ qBuys[u] \in Nat /\ qSales[u] <= qBuys[u]
        /\ qSnipes[u] = "active" => qSales[u] < qBuys[u]
    BY <1>2 DEF SalesSound
  <2>2. CASE u = t
    <3>1. qBuys'[u] = qBuys[u] + 1
      BY <1>2, <2>2
    <3> QED
      BY ONLY <2>1, <3>1
  <2>3. CASE u # t
    <3>1. qBuys'[u] = qBuys[u] /\ qSnipes'[u] = qSnipes[u]
      BY <1>2, <2>3
    <3> QED
      BY ONLY <2>1, <3>1
  <2> QED
    BY <2>2, <2>3
<1>6. PaidSound'
  <2> SUFFICES ASSUME NEW u \in SniperTokens
               PROVE  /\ qPaid[u] <= qBuys'[u]
                      /\ qSnipes'[u] = "active" => qPaid[u] < qBuys'[u]
    BY <1>4 DEF PaidSound
  <2>1. /\ qPaid[u] \in Nat /\ qBuys[u] \in Nat /\ qPaid[u] <= qBuys[u]
        /\ qSnipes[u] = "active" => qPaid[u] < qBuys[u]
    BY <1>2 DEF PaidSound
  <2>2. CASE u = t
    <3>1. qBuys'[u] = qBuys[u] + 1
      BY <1>2, <2>2
    <3> QED
      BY ONLY <2>1, <3>1
  <2>3. CASE u # t
    <3>1. qBuys'[u] = qBuys[u] /\ qSnipes'[u] = qSnipes[u]
      BY <1>2, <2>3
    <3> QED
      BY ONLY <2>1, <3>1
  <2> QED
    BY <2>2, <2>3
<1> QED
  BY <1>1, <1>4, <1>5, <1>6

\* A sale is of an active token, or the stop has raced the price.
LEMMA Sells ==
    ASSUME SniperIInv, NEW t \in SniperTokens, NoteSale(t), UNCHANGED <<qBuys, qPaid>>,
           qRaced => qRaced', ~qRaced' => qSnipes[t] = "active" /\ qRun'.at # "price",
           qRun' \in RunType, qStop' \in StopType,
           qRun'.at \in {"swap", "price", "pay"} => qRun'.token \in SniperTokens,
           qRun'.todo \subseteq Sniped, qStop'.todo \subseteq Sniped,
           qRun'.at \in {"price", "pay"} =>
               qRun.at \in {"price", "pay"} /\ qRun'.token = qRun.token,
           qRun'.at = "pay" => qRun.at = "pay" \/ qRun'.token = t
    PROVE  SniperIInv'
<1> USE DEF SniperIInv
<1>1. BooksTyped'
  BY DEF BooksTyped, NoteSale
<1>2. \A u \in SniperTokens : qSnipes'[u] = IF u = t THEN "sold" ELSE qSnipes[u]
  BY DEF BooksTyped, NoteSale
<1>3. \A u \in SniperTokens : qSales'[u] = IF u = t THEN qSales[u] + 1 ELSE qSales[u]
  BY DEF BooksTyped, NoteSale
<1>4. Sniped \subseteq Sniped'
  BY <1>2 DEF Sniped
<1>5. RunSound'
  BY <1>4 DEF RunSound
<1>6. SalesSound'
  BY <1>2, <1>3 DEF SalesSound, BooksTyped
<1>7. PaidSound'
  BY <1>2 DEF PaidSound, RunSound
<1> QED
  BY <1>1, <1>5, <1>6, <1>7

LEMMA SniperStep == SniperIInv /\ [SniperNext]_qvars => SniperIInv'
<1> SUFFICES ASSUME SniperIInv, [SniperNext]_qvars PROVE SniperIInv'
  OBVIOUS
<1>1. /\ qRun \in RunType /\ qStop \in StopType
      /\ qRun.at \in {"swap", "price", "pay"} => qRun.token \in SniperTokens
      /\ qRun.todo \subseteq Sniped /\ qStop.todo \subseteq Sniped
      /\ Sniped \subseteq SniperTokens
  BY DEF SniperIInv, RunSound, Sniped
<1>2. \A where \in {"off", "loop", "monitor", "stop"}, todo \in SUBSET SniperTokens :
          /\ QAt(where, "", todo) \in RunType
          /\ QAt(where, "", todo).at = where /\ QAt(where, "", todo).todo = todo
  BY DEF QAt, RunType
<1>3. ASSUME UNCHANGED <<sniperBooks, qStop>>, qRaced' = qRaced,
             NEW where \in {"off", "loop", "monitor", "stop"}, NEW todo \in SUBSET Sniped,
             qRun' = QAt(where, "", todo)
      PROVE  SniperIInv'
  <2>1. todo \in SUBSET SniperTokens /\ where \notin {"swap", "price", "pay"}
    BY <1>1, <1>3
  <2>2. qRun' \in RunType /\ qRun'.at = where /\ qRun'.todo = todo
    <3>1. QAt(where, "", todo) \in RunType
      BY Zenon, <1>2, <2>1
    <3>2. QAt(where, "", todo).at = where /\ QAt(where, "", todo).todo = todo
      BY DEF QAt
    <3> QED
      BY Zenon, <3>1, <3>2, <1>3
  <2>3. UNCHANGED sniperBooks /\ qStop' = qStop /\ qRaced' = qRaced
    BY <1>3
  <2>4. /\ qStop' \in StopType /\ qStop'.todo \subseteq Sniped /\ qRun'.todo \subseteq Sniped
        /\ qRun'.at \in {"swap", "price", "pay"} => qRun'.token \in SniperTokens
        /\ qRun'.at \notin {"price", "pay"}
    BY <1>1, <1>3, <2>1, <2>2, <2>3
  <2>5. qRaced => qRaced'
    BY <2>3
  <2> QED
    BY ONLY SniperIInv, <2>2, <2>3, <2>4, <2>5, RunMoves
<1>4. SniperOff = QAt("off", "", {}) /\ \A p : SniperLoopIf(p) \in {QAt("off", "", {}), QAt("loop", "", {})}
  BY DEF SniperOff, SniperLoopIf
<1>5. CASE UNCHANGED qvars
  BY <1>1, <1>5, RunMoves DEF qvars, sniperBooks
<1>6. ASSUME NEW mock \in BOOLEAN, RunSniper(mock) PROVE SniperIInv'
  <2>1. /\ qRun' = QAt("loop", "", {}) /\ {} \in SUBSET Sniped
        /\ UNCHANGED <<sniperBooks, qStop>> /\ qRaced' = qRaced
    BY <1>6 DEF RunSniper
  <2> QED
    BY <1>3, <2>1
<1>7. ASSUME NEW t \in SniperTokens, HandleNewToken(t) PROVE SniperIInv'
  <2>1. CASE qMock
    BY <1>7, <2>1, Buys DEF HandleNewToken
  <2>2. CASE ~qMock
    <3>1. qRun' = QAt("swap", t, {}) /\ UNCHANGED <<sniperBooks, qStop, qRaced>>
      BY <1>7, <2>2 DEF HandleNewToken, sniperBooks
    <3>2. qRun' \in RunType /\ qRun'.at = "swap" /\ qRun'.token = t /\ qRun'.todo = {}
      BY <3>1 DEF QAt, RunType
    <3> QED
      BY <1>1, <3>1, <3>2, RunMoves
  <2> QED
    BY <2>1, <2>2
<1>8. ASSUME NEW bought \in BOOLEAN, NEW raises \in BOOLEAN, ExecuteSnipe(bought, raises)
      PROVE  SniperIInv'
  <2>1. CASE bought
    <3>1. qRun.token \in SniperTokens
      BY <1>1, <1>8 DEF ExecuteSnipe
    <3> QED
      BY <1>8, <2>1, <3>1, Buys DEF ExecuteSnipe
  <2>2. CASE ~bought
    <3>1. qRun' = QAt("monitor", "", Sniped) /\ UNCHANGED <<sniperBooks, qStop, qRaced>>
      BY <1>8, <2>2 DEF ExecuteSnipe, sniperBooks
    <3> QED
      BY <1>3, <3>1
  <2> QED
    BY <2>1, <2>2
<1>9. CASE NoLaunch \/ MonitorEnds \/ ConnectionClosed \/ SniperLoopEnds \/ CancelSniper \/ OwnStopped
  <2>1. UNCHANGED <<sniperBooks, qStop, qRaced>>
    BY <1>9 DEF NoLaunch, MonitorEnds, ConnectionClosed, SniperLoopEnds, CancelSniper, OwnStopped
  <2>2. qRun' \in {QAt("monitor", "", Sniped), QAt("stop", "", Sniped), QAt("off", "", {}), QAt("loop", "", {})}
    BY <1>4, <1>9 DEF NoLaunch, MonitorEnds, ConnectionClosed, SniperLoopEnds, CancelSniper, OwnStopped
  <2>3. Sniped \in SUBSET Sniped /\ {} \in SUBSET Sniped
    OBVIOUS
  <2> QED
    BY <1>3, <2>1, <2>2, <2>3
<1>10. CASE KeepToken
  BY <1>1, <1>3, <1>10 DEF KeepToken
<1>11. ASSUME NEW t \in SniperTokens, AskPrice(t) PROVE SniperIInv'
  <2>1. /\ UNCHANGED <<sniperBooks, qStop, qRaced>> /\ qRun.at = "monitor" /\ t \in Sniped
    BY <1>1, <1>11 DEF AskPrice
  <2>2. CASE qSnipes[t] = "sold"
    <3>1. /\ qRun' \in RunType /\ qRun'.at = "monitor" /\ qRun'.todo \subseteq Sniped
      BY <1>1, <1>11, <2>1, <2>2 DEF AskPrice, RunType
    <3> QED
      BY <1>1, <2>1, <3>1, RunMoves
  <2>3. CASE qSnipes[t] # "sold"
    <3>1. qRun' = QAt("price", t, qRun.todo \ {t})
      BY <1>11, <2>3 DEF AskPrice
    <3>2. qSnipes[t] = "active"
      BY <2>1, <2>3 DEF SniperIInv, BooksTyped, Sniped
    <3>3. /\ qRun' \in RunType /\ qRun'.at = "price" /\ qRun'.token = t
          /\ qRun'.todo \subseteq Sniped
      BY <1>1, <3>1 DEF QAt, RunType
    <3> QED
      BY <1>1, <2>1, <3>2, <3>3, RunMoves
  <2> QED
    BY <2>2, <2>3
<1>12. ASSUME NEW profit \in BOOLEAN, SellToken(profit) PROVE SniperIInv'
  <2>1. PICK t \in SniperTokens : t = qRun.token /\ NoteSale(t) /\ qRun.at = "price"
    BY <1>1, <1>12 DEF SellToken
  <2>2. UNCHANGED <<qStop, qBuys, qPaid, qRaced>>
    BY <1>12 DEF SellToken
  <2>3. ~qRaced' => qSnipes[t] = "active"
    BY <2>1, <2>2 DEF SniperIInv, SalesSound
  <2>4. /\ qRun' \in RunType /\ qRun'.at \in {"monitor", "pay"} /\ qRun'.todo \subseteq Sniped
        /\ qRun'.at = "pay" => qRun'.token = t
    <3>1. CASE profit
      BY <1>1, <1>12, <2>1, <3>1 DEF SellToken, RunType
    <3>2. CASE ~profit
      BY <1>1, <1>2, <1>12, <3>2 DEF SellToken
    <3> QED
      BY <3>1, <3>2
  <2> QED
    BY <1>1, <2>1, <2>2, <2>3, <2>4, Sells
<1>13. ASSUME NEW goesOut \in BOOLEAN, WithdrawProfits(goesOut) PROVE SniperIInv'
  <2>1. PICK t \in SniperTokens : t = qRun.token /\ qRun.at = "pay"
    BY <1>1, <1>13 DEF WithdrawProfits
  <2>2. /\ UNCHANGED <<qStop, qSnipes, qBuys, qSales, qRaced>>
        /\ qPaid' = IF goesOut THEN [qPaid EXCEPT ![t] = @ + 1] ELSE qPaid
        /\ qRun' = QAt("monitor", "", qRun.todo)
    BY <1>13, <2>1 DEF WithdrawProfits
  <2>3. qRun' \in RunType /\ qRun'.at = "monitor" /\ qRun'.todo \subseteq Sniped
    BY <1>1, <1>2, <2>2
  <2>4. BooksTyped'
    <3>1. qPaid \in [SniperTokens -> Nat] /\ qPaid[t] + 1 \in Nat
      BY DEF SniperIInv, BooksTyped
    <3>2. [qPaid EXCEPT ![t] = @ + 1] \in [SniperTokens -> Nat]
      BY <3>1
    <3>3. qPaid' \in [SniperTokens -> Nat]
      BY <2>2, <3>1, <3>2
    <3> QED
      BY <2>2, <3>3 DEF SniperIInv, BooksTyped
  <2>5. RunSound' /\ SalesSound'
    BY <1>1, <2>2, <2>3 DEF SniperIInv, RunSound, SalesSound, Sniped
  <2>6. /\ qPaid[t] < qBuys[t] /\ qSnipes[t] = "sold"
        /\ \A u \in SniperTokens : /\ qPaid[u] \in Nat /\ qBuys[u] \in Nat
                                   /\ u # t => qPaid'[u] = qPaid[u]
                                   /\ qPaid'[t] \in {qPaid[t], qPaid[t] + 1}
    BY <2>1, <2>2 DEF SniperIInv, PaidSound, BooksTyped
  <2>7. PaidSound'
    <3> SUFFICES ASSUME NEW u \in SniperTokens
                 PROVE  qPaid'[u] <= qBuys[u] /\ (qSnipes[u] = "active" => qPaid'[u] < qBuys[u])
      BY <2>2, <2>3 DEF PaidSound
    <3>1. CASE u = t
      BY <2>6, <3>1
    <3>2. CASE u # t
      BY <2>6, <3>2 DEF SniperIInv, PaidSound
    <3> QED
      BY <3>1, <3>2
  <2> QED
    BY <2>4, <2>5, <2>7 DEF SniperIInv
<1>14. CASE StopSniper \/ StopReturns
  <2>1. CASE StopSniper
    <3>1. UNCHANGED <<sniperBooks, qRun>> /\ qStop' = QAt("stop", "", Sniped)
      BY <2>1 DEF StopSniper
    <3>2. UNCHANGED sniperBooks /\ qRun' = qRun /\ (qRaced => qRaced')
      BY <2>1, <3>1 DEF StopSniper
    <3>3. qStop' \in StopType /\ qStop'.todo \subseteq Sniped
      BY <1>1, <3>1 DEF QAt, StopType
    <3> QED
      BY <1>1, <3>2, <3>3, RunMoves
  <2>2. CASE StopReturns
    <3>1. UNCHANGED <<sniperBooks, qRun, qRaced>> /\ qStop' = QAt("off", "", {})
      BY <1>4, <2>2 DEF StopReturns
    <3>2. UNCHANGED sniperBooks /\ qRun' = qRun /\ qRaced' = qRaced
      BY <3>1
    <3>3. qStop' \in StopType /\ qStop'.todo \subseteq Sniped
      BY <1>1, <3>1 DEF QAt, StopType
    <3> QED
      BY <1>1, <3>2, <3>3, RunMoves
  <2> QED
    BY <1>14, <2>1, <2>2
<1>15. ASSUME NEW t \in SniperTokens, OwnSell(t) PROVE SniperIInv'
  <2>1. /\ qRun' \in RunType /\ qRun'.at = "stop" /\ qRun'.todo \subseteq Sniped
        /\ t \in Sniped /\ UNCHANGED <<qStop, qBuys, qPaid, qRaced>>
    BY <1>1, <1>15 DEF OwnSell, RunType
  <2>2. CASE qSnipes[t] = "sold"
    <3>1. UNCHANGED sniperBooks
      BY <1>15, <2>1, <2>2 DEF OwnSell, SellOr, sniperBooks
    <3> QED
      BY <1>1, <2>1, <3>1, RunMoves
  <2>3. CASE qSnipes[t] # "sold"
    <3>1. NoteSale(t) /\ qSnipes[t] = "active"
      BY <1>15, <2>1, <2>3 DEF OwnSell, SellOr, SniperIInv, BooksTyped, Sniped
    <3> QED
      BY <1>1, <2>1, <3>1, Sells
  <2> QED
    BY <2>2, <2>3
<1>16. ASSUME NEW t \in SniperTokens, StopSell(t) PROVE SniperIInv'
  <2>1. /\ qStop' \in StopType /\ qStop'.todo \subseteq Sniped /\ qRun' = qRun
        /\ t \in Sniped /\ UNCHANGED <<qBuys, qPaid>>
        /\ qRaced' = (qRaced \/ qRun.at = "price")
    BY <1>1, <1>16 DEF StopSell, StopType
  <2>2. CASE qSnipes[t] = "sold"
    <3>1. UNCHANGED sniperBooks
      BY <1>16, <2>1, <2>2 DEF StopSell, SellOr, sniperBooks
    <3> QED
      BY <1>1, <2>1, <3>1, RunMoves
  <2>3. CASE qSnipes[t] # "sold"
    <3>1. NoteSale(t) /\ qSnipes[t] = "active"
      BY <1>16, <2>1, <2>3 DEF StopSell, SellOr, SniperIInv, BooksTyped, Sniped
    <3> QED
      BY <1>1, <2>1, <3>1, Sells
  <2> QED
    BY <2>2, <2>3
<1> QED
  BY <1>5, <1>6, <1>7, <1>8, <1>9, <1>10, <1>11, <1>12, <1>13, <1>14, <1>15, <1>16 DEF SniperNext

LEMMA SniperHolds == SniperIInv => SoldOnce /\ ProfitIsPaidOnce
  BY DEF SniperIInv, SalesSound, PaidSound, SoldOnce, ProfitIsPaidOnce

\* The sniper sells a purchase once unless the launcher's stop races a price, and
\* sends its profit once even then, for any tokens and number of purchases.
THEOREM SniperSellsOnce == SniperSpec => [](SoldOnce /\ ProfitIsPaidOnce)
  BY SniperHolds, SniperInitHolds, SniperStep, PTL DEF SniperSpec

------------------------------------------------------------------------------
(* The copy trading bot.  While the wallets have made no more transactions than *)
(* the set of signatures holds, nothing is ever taken out of it, for it holds  *)
(* transactions that were made; so what was copied, and what is being copied   *)
(* for the first time, is in it.                                               *)

CopiesAreSeen ==
    /\ \A tx \in Txs : yCopied[tx] <= 1 /\ (yCopied[tx] # 0 => tx \in ySeen)
    /\ yCopy # NoTx => yCopy \in ySeen /\ yCopied[yCopy] = 0

CopyIInv ==
    /\ yTxs \subseteq Made /\ ySeen \subseteq Made /\ yCopy \in Txs \cup {NoTx}
    /\ yMade \in [Wallets -> Nat] /\ yCopied \in [Txs -> 0 .. 2]
    /\ Cardinality(Made) <= MaxSeen => CopiesAreSeen

LEMMA SetsOfTxs ==
    ASSUME NEW S, NEW T, T \subseteq Txs, S \subseteq T
    PROVE  Cardinality(S) <= Cardinality(T) /\ Cardinality(S) \in Nat /\ Cardinality(T) \in Nat
<1>1. IsFiniteSet(1 .. MaxMade)
  BY CopyAssumption, FS_Interval
<1>2. IsFiniteSet(Wallets \X (1 .. MaxMade))
  BY <1>1, CopyAssumption, FS_Product
<1>3. IsFiniteSet(T)
  BY <1>2, FS_Subset DEF Txs
<1>4. IsFiniteSet(S) /\ Cardinality(S) <= Cardinality(T)
  BY <1>3, FS_Subset
<1> QED
  BY <1>3, <1>4, FS_CardinalityType

\* Within the limit nothing is forgotten.
LEMMA SeenIsKept ==
    ASSUME NEW tx, tx \in Made, Remember(tx), ySeen \subseteq Made
    PROVE  /\ ySeen' \subseteq Made
           /\ Cardinality(Made) <= MaxSeen => ySeen' = ySeen \cup {tx}
<1>1. ySeen \cup {tx} \subseteq Made /\ Made \subseteq Txs
  BY DEF Made
<1>2. PICK S : S = ySeen \cup {tx}
  OBVIOUS
<1>3. Cardinality(S) <= Cardinality(Made) /\ Cardinality(S) \in Nat /\ Cardinality(Made) \in Nat
  BY <1>1, <1>2, SetsOfTxs
<1>4. ySeen' \subseteq S
  BY <1>2 DEF Remember
<1>5. Cardinality(S) <= MaxSeen => ySeen' = S
  BY <1>2 DEF Remember
<1>6. Cardinality(Made) <= MaxSeen => Cardinality(S) <= MaxSeen
  BY <1>3, CopyAssumption
<1> QED
  BY <1>1, <1>2, <1>4, <1>5, <1>6

\* A step that changes neither the transactions made nor the set.
LEMMA CopyBooks ==
    ASSUME CopyIInv, UNCHANGED <<ySeen, yMade, yCopied>>, yTxs' \subseteq Made,
           yCopy' \in {yCopy, NoTx}
    PROVE  CopyIInv'
<1>1. Made' = Made
  BY DEF Made
<1>2. CopiesAreSeen => CopiesAreSeen'
  BY DEF CopiesAreSeen
<1>3. yCopy' \in Txs \cup {NoTx}
  BY DEF CopyIInv
<1> QED
  BY <1>1, <1>2, <1>3 DEF CopyIInv

\* The swap of the transaction is served, or not.
LEMMA CopySwap ==
    ASSUME CopyIInv, yCopy # NoTx, yCopy' = NoTx, UNCHANGED <<ySeen, yMade>>, yTxs' \subseteq Made,
           NEW served \in BOOLEAN,
           yCopied' = IF served THEN [yCopied EXCEPT ![yCopy] = CountOf(@)] ELSE yCopied
    PROVE  CopyIInv'
<1>1. Made' = Made /\ yCopy \in Txs
  BY DEF Made, CopyIInv
<1>2. yCopied \in [Txs -> 0 .. 2]
  BY DEF CopyIInv
<1>3. CountOf(yCopied[yCopy]) \in 0 .. 2
  BY <1>1, <1>2 DEF CountOf
<1>4. yCopied' \in [Txs -> 0 .. 2]
  BY <1>1, <1>2, <1>3
<1>5. ASSUME CopiesAreSeen PROVE CopiesAreSeen'
  <2>1. yCopy \in ySeen /\ yCopied[yCopy] = 0
    BY <1>5 DEF CopiesAreSeen
  <2>2. CountOf(yCopied[yCopy]) = 1
    BY <2>1 DEF CountOf
  <2>3. ASSUME NEW tx \in Txs PROVE yCopied'[tx] <= 1 /\ (yCopied'[tx] # 0 => tx \in ySeen)
    <3>1. CASE tx = yCopy
      BY <1>1, <1>2, <1>5, <2>1, <2>2, <3>1 DEF CopiesAreSeen
    <3>2. CASE tx # yCopy
      <4>1. yCopied'[tx] = yCopied[tx]
        BY <1>2, <3>2
      <4> QED
        BY <1>5, <4>1 DEF CopiesAreSeen
    <3> QED
      BY <3>1, <3>2
  <2> QED
    BY <2>3 DEF CopiesAreSeen
<1> QED
  BY <1>1, <1>4, <1>5 DEF CopyIInv

LEMMA CopyStep == CopyIInv /\ [CopyNext]_yvars => CopyIInv'
<1> SUFFICES ASSUME CopyIInv, [CopyNext]_yvars PROVE CopyIInv'
  OBVIOUS
<1>1. yTxs \subseteq Made /\ yMade \in [Wallets -> Nat] /\ ySeen \subseteq Made /\ {} \subseteq Made
  BY DEF CopyIInv
<1>2. CASE UNCHANGED yvars
  BY <1>1, <1>2, CopyBooks DEF yvars
<1>3. CASE NextPass \/ WalletDone
  BY <1>1, <1>3, CopyBooks DEF NextPass, WalletDone
<1>4. ASSUME NEW w \in Wallets, NEW out \in Outcomes, FetchTransactions(w, out) PROVE CopyIInv'
  <2>1. yTxs' \subseteq Made
    <3> SUFFICES ASSUME NEW tx \in yTxs' PROVE tx \in Made
      OBVIOUS
    <3>1. tx \in Txs /\ tx[1] = w /\ tx[2] \in yMade[w] - Window + 1 .. yMade[w]
      BY <1>4 DEF FetchTransactions
    <3>2. yMade[w] \in Nat /\ Window \in Nat /\ tx[2] \in Nat
      BY <1>1, <3>1, CopyAssumption DEF Txs
    <3>3. tx[2] <= yMade[tx[1]]
      BY <3>1, <3>2
    <3> QED
      BY <3>1, <3>3 DEF Made
  <2> QED
    BY <1>4, <2>1, CopyBooks DEF FetchTransactions
<1>5. ASSUME NEW tx \in Txs, NEW copy \in BOOLEAN, LookAt(tx, copy) PROVE CopyIInv'
  <2>1. tx \in Made /\ yTxs' \subseteq Made /\ UNCHANGED <<yMade, yCopied>> /\ yCopy = NoTx
    BY <1>1, <1>5 DEF LookAt
  <2>2. CASE tx \in ySeen
    BY <1>5, <2>1, <2>2, CopyBooks DEF LookAt
  <2>3. CASE tx \notin ySeen
    <3>1. Remember(tx) /\ yCopy' \in {tx, NoTx}
      BY <1>5, <2>3 DEF LookAt
    <3>2. ySeen' \subseteq Made /\ (Cardinality(Made) <= MaxSeen => ySeen' = ySeen \cup {tx})
      BY <1>1, <2>1, <3>1, SeenIsKept
    <3>3. Made' = Made
      BY <2>1 DEF Made
    <3>4. ASSUME Cardinality(Made) <= MaxSeen PROVE CopiesAreSeen'
      <4>1. CopiesAreSeen /\ ySeen' = ySeen \cup {tx}
        BY <3>2, <3>4 DEF CopyIInv
      <4>2. yCopied[tx] = 0
        BY <2>3, <4>1 DEF CopiesAreSeen
      <4> QED
        BY <2>1, <3>1, <4>1, <4>2 DEF CopiesAreSeen
    <3> QED
      BY <2>1, <3>1, <3>2, <3>3, <3>4 DEF CopyIInv
  <2> QED
    BY <2>2, <2>3
<1>6. ASSUME NEW out \in Outcomes, CopyTrade(out) PROVE CopyIInv'
  <2>1. Served(out) \in BOOLEAN
    BY DEF Served
  <2> QED
    BY <1>1, <1>6, <2>1, CopySwap DEF CopyTrade
<1>7. ASSUME NEW served \in BOOLEAN, CancelCopy(served) PROVE CopyIInv'
  <2>1. CASE served
    BY <1>1, <1>7, <2>1, CopySwap DEF CancelCopy
  <2>2. CASE ~served
    BY <1>1, <1>7, <2>2, CopyBooks DEF CancelCopy
  <2> QED
    BY <2>1, <2>2
<1>8. CASE ProcessRestarts
  <2>1. Made' = Made /\ yCopied' \in [Txs -> 0 .. 2]
    BY <1>8 DEF ProcessRestarts, Made
  <2>2. CopiesAreSeen'
    BY <1>8 DEF ProcessRestarts, CopiesAreSeen
  <2> QED
    BY <1>1, <1>8, <2>1, <2>2 DEF ProcessRestarts, CopyIInv
<1>9. ASSUME NEW w \in Wallets, WalletTrades(w) PROVE CopyIInv'
  <2>1. yMade' \in [Wallets -> Nat] /\ UNCHANGED <<yTxs, yCopy, ySeen, yCopied>>
    BY <1>1, <1>9 DEF WalletTrades
  <2>2. \A v \in Wallets : yMade[v] <= yMade'[v]
    BY <1>1, <1>9 DEF WalletTrades
  <2>3. Made \subseteq Made'
    <3> SUFFICES ASSUME NEW tx \in Made PROVE tx \in Made'
      OBVIOUS
    <3>1. tx \in Txs /\ tx[2] <= yMade[tx[1]] /\ tx[1] \in Wallets /\ tx[2] \in Nat
      BY CopyAssumption DEF Made, Txs
    <3>2. tx[2] <= yMade'[tx[1]]
      BY <1>1, <2>1, <2>2, <3>1
    <3> QED
      BY <3>1, <3>2 DEF Made
  <2>4. PICK M : M = Made'
    OBVIOUS
  <2>5. M \subseteq Txs /\ Made \subseteq M
    BY <2>3, <2>4 DEF Made
  <2>6. Cardinality(Made) <= Cardinality(M) /\ Cardinality(Made) \in Nat /\ Cardinality(M) \in Nat
    BY <2>5, SetsOfTxs
  <2>7. Cardinality(M) <= MaxSeen => CopiesAreSeen
    BY <2>6, CopyAssumption DEF CopyIInv
  <2>8. CopiesAreSeen => CopiesAreSeen'
    BY <2>1 DEF CopiesAreSeen
  <2> QED
    BY <1>1, <2>1, <2>3, <2>4, <2>7, <2>8 DEF CopyIInv
<1> QED
  BY <1>2, <1>3, <1>4, <1>5, <1>6, <1>7, <1>8, <1>9 DEF CopyNext

LEMMA CopyInitHolds == CopyInit => CopyIInv
  BY CopyAssumption DEF CopyInit, CopyIInv, CopiesAreSeen, Made

LEMMA CopyHolds == CopyIInv => CopiedOnce
  BY DEF CopyIInv, CopiesAreSeen, CopiedOnce

\* A transaction is copied once in a life of the process as long as the wallets have
\* made no more than the set of signatures holds, for any number of wallets,
\* transactions in an answer and signatures in the set.
THEOREM CopyCopiesOnce == CopySpec => []CopiedOnce
  BY CopyHolds, CopyInitHolds, CopyStep, PTL DEF CopySpec

------------------------------------------------------------------------------
(* The nest.  A pass takes the pending records from the oldest on, and until a  *)
(* request is turned down each of its payments marks the record it came from.  *)
(* So a bot's payments never overtake the gains noted with the record they     *)
(* have come to, whatever passes die between a mark and a payment.             *)

NestRecord == [bot : NestBots, amount : Profits, status : {"pending", "processing"}, gains : Nat]
NestRow == [current : Int, realized : Int, withdrawn : Int, pending : Int, known : BOOLEAN]

TurnOf(todo) == CHOOSE i \in todo : \A j \in todo : i <= j
RecordsOf(rs, b) == {i \in DOMAIN rs : rs[i].bot = b}
Due(rs, b) == {i \in DOMAIN rs : rs[i].bot = b /\ IsPending(rs[i])}
GainsIn(rs, b) ==
    IF RecordsOf(rs, b) = {} THEN 0
    ELSE rs[CHOOSE i \in RecordsOf(rs, b) : \A j \in RecordsOf(rs, b) : j <= i].gains

\* What a bot is being paid: sent, and not yet booked.
SentTo(rs, pass, b) ==
    IF pass.at = "sent" /\ rs[TurnOf(pass.todo)].bot = b THEN rs[TurnOf(pass.todo)].amount ELSE 0

NestTypes(rs, state, pass) ==
    /\ rs \in Seq(NestRecord) /\ state \in [NestBots -> NestRow]
    /\ pass \in [at : {"idle", "ask", "sent", "paid"}, todo : SUBSET Nat]
    /\ pass.todo \subseteq DOMAIN rs /\ (pass.at # "idle" => pass.todo # {})

GainsAddUp(rs) ==
    \A i, j \in DOMAIN rs :
        i < j /\ rs[i].bot = rs[j].bot => rs[i].gains + Gain(rs[j].amount) <= rs[j].gains

RowsKnown(rs, state) ==
    /\ \A i \in DOMAIN rs : state[rs[i].bot].known
    /\ \A b \in NestBots : ~state[b].known => state[b].withdrawn = 0

\* The records a pass has left are pending but for the one it has marked, and no
\* older one of the same bot is pending.
PassInOrder(rs, pass) ==
    pass.at # "idle" =>
        \A i \in pass.todo : rs[i].bot \notin Direct =>
            /\ (pass.at = "ask" \/ i # TurnOf(pass.todo)) <=> IsPending(rs[i])
            /\ \A j \in Due(rs, rs[i].bot) : j < i => j \in pass.todo

SentIsGain(rs, pass) == pass.at = "sent" => rs[TurnOf(pass.todo)].amount >= 1

Covered(rs, state, pass, b) ==
    /\ state[b].withdrawn + SentTo(rs, pass, b) <= GainsIn(rs, b)
    /\ \A i \in Due(rs, b) :
           state[b].withdrawn + SentTo(rs, pass, b) + Gain(rs[i].amount) <= rs[i].gains

NestSound(rs, state, pass) ==
    /\ PassInOrder(rs, pass) /\ SentIsGain(rs, pass)
    /\ \A b \in NestBots \ Direct : Covered(rs, state, pass, b)

NestIInv ==
    /\ NestTypes(nRecords, nState, nPass) /\ nRefused \in BOOLEAN
    /\ GainsAddUp(nRecords) /\ RowsKnown(nRecords, nState)
    /\ ~nRefused => NestSound(nRecords, nState, nPass)

\* A set of natural numbers that is not empty has a least element.
LEMMA LeastNumber ==
    ASSUME NEW T, T \subseteq Nat, T # {}
    PROVE  \E x \in T : \A y \in T : x <= y
<1>1. PICK R : R = {p \in Nat \X Nat : p[1] < p[2]}
  OBVIOUS
<1>2. IsWellFoundedOn(R, Nat)
  BY <1>1, NatLessThanWellFounded DEF OpToRel
<1>3. PICK x \in T : \A y \in T : ~(<<y, x>> \in R)
  BY <1>2, WFMin
<1>4. ASSUME NEW y \in T PROVE x <= y
  <2>1. x \in Nat /\ y \in Nat
    OBVIOUS
  <2>2. y < x => <<y, x>> \in R
    BY <1>1, <2>1
  <2> QED
    BY <1>3, <2>1, <2>2
<1> QED
  BY <1>4

LEMMA OnlyLeast ==
    ASSUME NEW T, T \subseteq Nat, NEW t \in T, \A j \in T : t <= j
    PROVE  {i \in T : \A j \in T : i <= j} = {t}
<1>1. ASSUME NEW i \in T, \A j \in T : i <= j PROVE i = t
  <2>1. i \in Nat /\ t \in Nat /\ i <= t /\ t <= i
    BY <1>1
  <2> QED
    BY <2>1
<1> QED
  BY <1>1

LEMMA TurnComesFirst ==
    ASSUME NEW todo, todo \subseteq Nat, todo # {}
    PROVE  TurnOf(todo) \in todo /\ \A j \in todo : TurnOf(todo) <= j
  BY LeastNumber DEF TurnOf

\* The gains of a bot are those noted with its last record.
LEMMA GainsAreLast ==
    ASSUME NEW rs, rs \in Seq(NestRecord), NEW b, RecordsOf(rs, b) # {}
    PROVE  \E k \in RecordsOf(rs, b) :
               GainsIn(rs, b) = rs[k].gains /\ \A j \in RecordsOf(rs, b) : j <= k
<1>1. PICK M : M = RecordsOf(rs, b)
  OBVIOUS
<1>2. PICK n \in Nat : n = Len(rs)
  OBVIOUS
<1>a. M \subseteq 1 .. n /\ M # {}
  BY <1>1, <1>2 DEF RecordsOf
<1>3. PICK T : T = {n - i : i \in M}
  OBVIOUS
<1>b. \A i \in M : n - i \in Nat
  BY <1>a
<1>4. T \subseteq Nat /\ T # {}
  BY <1>a, <1>b, <1>3
<1>5. PICK x \in T : \A y \in T : x <= y
  BY <1>4, LeastNumber
<1>6. PICK k \in M : x = n - k
  BY <1>3, <1>5
<1>7. \A j \in M : j <= k
  <2> SUFFICES ASSUME NEW j \in M PROVE j <= k
    OBVIOUS
  <2>1. x <= n - j
    BY <1>3, <1>5
  <2> QED
    BY <1>2, <1>a, <1>6, <2>1
<1>8. PICK c : c = CHOOSE i \in M : \A j \in M : j <= i
  OBVIOUS
<1>9. c \in M /\ \A j \in M : j <= c
  BY <1>7, <1>8
<1>10. GainsIn(rs, b) = rs[c].gains
  BY <1>1, <1>a, <1>8 DEF GainsIn
<1> QED
  BY <1>1, <1>9, <1>10

LEMMA GainsTyped ==
    ASSUME NEW rs, rs \in Seq(NestRecord), NEW b
    PROVE  GainsIn(rs, b) \in Nat
<1>1. CASE RecordsOf(rs, b) = {}
  BY <1>1 DEF GainsIn
<1>2. CASE RecordsOf(rs, b) # {}
  <2>1. PICK k \in RecordsOf(rs, b) : GainsIn(rs, b) = rs[k].gains
    BY <1>2, GainsAreLast
  <2>2. rs[k] \in NestRecord
    BY DEF RecordsOf
  <2> QED
    BY <2>1, <2>2 DEF NestRecord
<1> QED
  BY <1>1, <1>2

LEMMA GainsBound ==
    ASSUME NEW rs, rs \in Seq(NestRecord), GainsAddUp(rs), NEW i \in DOMAIN rs
    PROVE  rs[i].gains <= GainsIn(rs, rs[i].bot)
<1>1. PICK b : b = rs[i].bot
  OBVIOUS
<1>2. i \in RecordsOf(rs, b)
  BY <1>1 DEF RecordsOf
<1>3. PICK k \in RecordsOf(rs, b) : GainsIn(rs, b) = rs[k].gains /\ \A j \in RecordsOf(rs, b) : j <= k
  BY <1>2, GainsAreLast
<1>4. rs[i] \in NestRecord /\ rs[k] \in NestRecord /\ k \in DOMAIN rs /\ rs[k].bot = b
  BY <1>3 DEF RecordsOf
<1>5. rs[i].gains \in Nat /\ rs[k].gains \in Nat /\ rs[k].amount \in Int /\ i \in Nat /\ k \in Nat
  BY <1>4 DEF NestRecord, Profits
<1>6. Gain(rs[k].amount) \in Nat
  BY <1>5 DEF Gain
<1>7. CASE i = k
  BY <1>1, <1>3, <1>5, <1>7
<1>8. CASE i # k
  <2>1. i < k
    BY <1>2, <1>3, <1>5, <1>8
  <2>2. rs[i].gains + Gain(rs[k].amount) <= rs[k].gains
    BY <1>1, <1>4, <2>1 DEF GainsAddUp
  <2> QED
    BY <1>1, <1>3, <1>5, <1>6, <2>2
<1> QED
  BY <1>7, <1>8

\* The gains do not depend on what has been paid.
LEMMA GainsKept ==
    ASSUME NEW rs, NEW ts, rs \in Seq(NestRecord), ts \in Seq(NestRecord), DOMAIN ts = DOMAIN rs,
           \A i \in DOMAIN rs : ts[i].bot = rs[i].bot /\ ts[i].gains = rs[i].gains, NEW b
    PROVE  GainsIn(ts, b) = GainsIn(rs, b)
<1>1. RecordsOf(ts, b) = RecordsOf(rs, b)
  BY DEF RecordsOf
<1>2. CASE RecordsOf(rs, b) = {}
  BY <1>1, <1>2 DEF GainsIn
<1>3. CASE RecordsOf(rs, b) # {}
  <2>1. PICK k \in RecordsOf(rs, b) : GainsIn(rs, b) = rs[k].gains /\ \A j \in RecordsOf(rs, b) : j <= k
    BY <1>3, GainsAreLast
  <2>2. PICK l \in RecordsOf(ts, b) : GainsIn(ts, b) = ts[l].gains /\ \A j \in RecordsOf(ts, b) : j <= l
    BY <1>1, <1>3, GainsAreLast
  <2>3. k \in DOMAIN rs /\ l \in DOMAIN rs /\ k <= l /\ l <= k
    BY <1>1, <2>1, <2>2 DEF RecordsOf
  <2>4. k = l
    BY <2>3
  <2> QED
    BY <2>1, <2>2, <2>3, <2>4
<1> QED
  BY <1>2, <1>3

LEMMA GainsAdded ==
    ASSUME NEW rs, rs \in Seq(NestRecord), NEW r, r \in NestRecord, NEW ts, ts = Append(rs, r)
    PROVE  /\ GainsIn(ts, r.bot) = r.gains
           /\ \A b \in NestBots \ {r.bot} : GainsIn(ts, b) = GainsIn(rs, b)
<1>1. /\ Len(rs) \in Nat /\ DOMAIN rs = 1 .. Len(rs) /\ ts \in Seq(NestRecord)
      /\ DOMAIN ts = 1 .. Len(rs) + 1 /\ ts[Len(rs) + 1] = r
      /\ \A i \in 1 .. Len(rs) : ts[i] = rs[i]
  OBVIOUS
<1>2. PICK n : n = Len(rs) + 1
  OBVIOUS
<1>3. n \in RecordsOf(ts, r.bot) /\ ts[n] = r
  BY <1>1, <1>2 DEF RecordsOf
<1>4. PICK k \in RecordsOf(ts, r.bot) :
          GainsIn(ts, r.bot) = ts[k].gains /\ \A j \in RecordsOf(ts, r.bot) : j <= k
  BY <1>1, <1>3, GainsAreLast
<1>5. k \in 1 .. Len(rs) + 1 /\ n <= k
  BY <1>1, <1>3, <1>4 DEF RecordsOf
<1>6. k = n
  BY <1>1, <1>2, <1>5
<1>7. ASSUME NEW b, b # r.bot PROVE GainsIn(ts, b) = GainsIn(rs, b)
  <2>1. RecordsOf(ts, b) = RecordsOf(rs, b)
    BY <1>1, <1>7 DEF RecordsOf
  <2>2. CASE RecordsOf(rs, b) = {}
    BY <2>1, <2>2 DEF GainsIn
  <2>3. CASE RecordsOf(rs, b) # {}
    <3>1. PICK i \in RecordsOf(rs, b) : GainsIn(rs, b) = rs[i].gains /\ \A j \in RecordsOf(rs, b) : j <= i
      BY <2>3, GainsAreLast
    <3>2. PICK l \in RecordsOf(ts, b) : GainsIn(ts, b) = ts[l].gains /\ \A j \in RecordsOf(ts, b) : j <= l
      BY <1>1, <2>1, <2>3, GainsAreLast
    <3>3. i \in 1 .. Len(rs) /\ l \in 1 .. Len(rs) /\ i <= l /\ l <= i
      BY <1>1, <2>1, <3>1, <3>2 DEF RecordsOf
    <3>4. i = l
      BY <3>3
    <3> QED
      BY <1>1, <3>1, <3>2, <3>3, <3>4
  <2> QED
    BY <2>2, <2>3
<1> QED
  BY <1>3, <1>4, <1>6, <1>7

LEMMA RowFields ==
    ASSUME NEW row \in NestRow
    PROVE  row.current \in Int /\ row.realized \in Int /\ row.withdrawn \in Int /\ row.pending \in Int
  BY DEF NestRow

LEMMA RowWithProfit ==
    ASSUME NEW row \in NestRow, NEW amount \in Int, ~row.known => row.withdrawn = 0
    PROVE  /\ WithProfit(row, amount) \in NestRow /\ WithProfit(row, amount).known
           /\ WithProfit(row, amount).withdrawn = row.withdrawn
<1>1. CASE row.known
  <2>1. PICK c \in Int, r \in Int, p \in Int :
            c = row.current + amount /\ r = row.realized + amount /\ p = row.pending + amount
    BY RowFields
  <2>2. WithProfit(row, amount) = [row EXCEPT !.current = c, !.realized = r, !.pending = p]
    BY <1>1, <2>1 DEF WithProfit
  <2> QED
    BY <1>1, <2>2 DEF NestRow
<1>2. CASE ~row.known
  <2>1. WithProfit(row, amount) = [current |-> amount, realized |-> amount, withdrawn |-> 0,
                                   pending |-> 0, known |-> TRUE]
    BY <1>2 DEF WithProfit, Unknown
  <2> QED
    BY <1>2, <2>1 DEF NestRow
<1> QED
  BY <1>1, <1>2

LEMMA RowWithPayment ==
    ASSUME NEW row \in NestRow, NEW amount \in Int
    PROVE  /\ WithPayment(row, amount) \in NestRow
           /\ WithPayment(row, amount).known = row.known
           /\ WithPayment(row, amount).withdrawn = row.withdrawn + amount
<1>1. PICK c \in Int, w \in Int, p \in Int :
          c = row.current - amount /\ w = row.withdrawn + amount /\ p = row.pending - amount
  BY RowFields
<1>2. WithPayment(row, amount) = [row EXCEPT !.current = c, !.withdrawn = w, !.pending = p]
  BY <1>1 DEF WithPayment
<1> QED
  BY <1>1, <1>2 DEF NestRow

LEMMA NestParts ==
    ASSUME NEW rs, NEW state, NEW pass, NestTypes(rs, state, pass)
    PROVE  /\ rs \in Seq(NestRecord) /\ DOMAIN rs \subseteq Nat
           /\ \A i \in DOMAIN rs : /\ rs[i].bot \in NestBots /\ rs[i].amount \in Int
                                   /\ rs[i].gains \in Nat /\ Gain(rs[i].amount) \in Nat
           /\ \A b \in NestBots : state[b].withdrawn \in Int /\ state[b].known \in BOOLEAN
           /\ pass.at # "idle" => TurnOf(pass.todo) \in pass.todo \cap DOMAIN rs
           /\ \A j \in pass.todo : j \in DOMAIN rs /\ TurnOf(pass.todo) <= j
           /\ \A b : SentTo(rs, pass, b) \in Int
           /\ \A b : pass.at # "sent" => SentTo(rs, pass, b) = 0
<1>1. /\ rs \in Seq(NestRecord) /\ DOMAIN rs \subseteq Nat
      /\ pass.todo \subseteq Nat /\ pass.todo \subseteq DOMAIN rs
      /\ (pass.at # "idle" => pass.todo # {})
  BY DEF NestTypes
<1>2. ASSUME NEW i \in DOMAIN rs
      PROVE  /\ rs[i].bot \in NestBots /\ rs[i].amount \in Int /\ rs[i].gains \in Nat
             /\ Gain(rs[i].amount) \in Nat
  <2>1. rs[i] \in NestRecord
    BY <1>1, <1>2
  <2>2. rs[i].amount \in Int
    BY <2>1 DEF NestRecord, Profits
  <2> QED
    BY <2>1, <2>2 DEF NestRecord, Gain
<1>3. \A b \in NestBots : state[b].withdrawn \in Int /\ state[b].known \in BOOLEAN
  BY DEF NestTypes, NestRow
<1>4. pass.todo # {} => TurnOf(pass.todo) \in pass.todo /\ \A j \in pass.todo : TurnOf(pass.todo) <= j
  BY <1>1, TurnComesFirst
<1>5. \A b : SentTo(rs, pass, b) \in Int /\ (pass.at # "sent" => SentTo(rs, pass, b) = 0)
  BY <1>1, <1>2, <1>4 DEF SentTo
<1> QED
  BY <1>1, <1>2, <1>3, <1>4, <1>5

\* Money that is not sent any more leaves the payments covered.
LEMMA CoveredStill ==
    ASSUME NEW rs, NEW state, NEW pass, NestTypes(rs, state, pass), SentIsGain(rs, pass),
           NEW next, NestTypes(rs, state, next), next.at # "sent", NEW b \in NestBots,
           Covered(rs, state, pass, b)
    PROVE  Covered(rs, state, next, b)
<1>1. SentTo(rs, next, b) = 0 /\ SentTo(rs, pass, b) \in Int /\ state[b].withdrawn \in Int
  BY NestParts
<1>2. SentTo(rs, pass, b) >= 0
  BY <1>1 DEF SentIsGain, SentTo
<1>3. GainsIn(rs, b) \in Nat
  BY NestParts, GainsTyped
<1>4. state[b].withdrawn + SentTo(rs, next, b) <= GainsIn(rs, b)
  BY <1>1, <1>2, <1>3 DEF Covered
<1>5. ASSUME NEW i \in Due(rs, b)
      PROVE  state[b].withdrawn + SentTo(rs, next, b) + Gain(rs[i].amount) <= rs[i].gains
  <2>1. i \in DOMAIN rs
    BY DEF Due
  <2>2. Gain(rs[i].amount) \in Nat /\ rs[i].gains \in Nat
    BY <2>1, NestParts
  <2>3. state[b].withdrawn + SentTo(rs, pass, b) + Gain(rs[i].amount) <= rs[i].gains
    BY DEF Covered
  <2> QED
    BY <1>1, <1>2, <2>2, <2>3
<1> QED
  BY <1>4, <1>5 DEF Covered

LEMMA PassEnds ==
    ASSUME NEW rs, NEW state, NEW pass, NestTypes(rs, state, pass), NestSound(rs, state, pass)
    PROVE  NestTypes(rs, state, NestIdle) /\ NestSound(rs, state, NestIdle)
<1>1. NestTypes(rs, state, NestIdle)
  BY DEF NestTypes, NestIdle
<1>2. PassInOrder(rs, NestIdle) /\ SentIsGain(rs, NestIdle) /\ NestIdle.at # "sent"
  BY DEF PassInOrder, SentIsGain, NestIdle
<1>3. \A b \in NestBots \ Direct : Covered(rs, state, NestIdle, b)
  BY <1>1, <1>2, CoveredStill DEF NestSound
<1> QED
  BY <1>1, <1>2, <1>3 DEF NestSound

NextOf(pass) ==
    IF pass.todo = {TurnOf(pass.todo)} THEN NestIdle
    ELSE [at |-> "ask", todo |-> pass.todo \ {TurnOf(pass.todo)}]

LEMMA NextTyped ==
    ASSUME NEW rs, NEW state, NEW pass, NestTypes(rs, state, pass), pass.at # "idle"
    PROVE  NestTypes(rs, state, NextOf(pass))
<1>1. pass.todo \subseteq Nat /\ pass.todo \subseteq DOMAIN rs /\ TurnOf(pass.todo) \in pass.todo
  BY NestParts DEF NestTypes
<1>2. CASE pass.todo = {TurnOf(pass.todo)}
  BY <1>2 DEF NextOf, NestIdle, NestTypes
<1>3. CASE pass.todo # {TurnOf(pass.todo)}
  <2>1. PICK next : next = [at |-> "ask", todo |-> pass.todo \ {TurnOf(pass.todo)}]
    OBVIOUS
  <2>2. NextOf(pass) = next
    BY <1>3, <2>1 DEF NextOf
  <2>3. next.todo # {} /\ next.todo \subseteq DOMAIN rs /\ next.todo \subseteq Nat /\ next.at = "ask"
    BY <1>1, <1>3, <2>1
  <2>4. next \in [at : {"idle", "ask", "sent", "paid"}, todo : SUBSET Nat]
    BY <2>1, <2>3
  <2> QED
    BY <2>2, <2>3, <2>4 DEF NestTypes
<1> QED
  BY <1>2, <1>3

\* After a payment the rest of the pass is in order.
LEMMA NextInOrder ==
    ASSUME NEW rs, NEW state, NEW pass, NestTypes(rs, state, pass), NestSound(rs, state, pass),
           pass.at \in {"sent", "paid"}
    PROVE  NestSound(rs, state, NextOf(pass))
<1>1. CASE pass.todo = {TurnOf(pass.todo)}
  BY <1>1, PassEnds DEF NextOf
<1>2. CASE pass.todo # {TurnOf(pass.todo)}
  <2>1. PICK next : next = [at |-> "ask", todo |-> pass.todo \ {TurnOf(pass.todo)}]
    OBVIOUS
  <2>2. NextOf(pass) = next /\ next.at = "ask" /\ next.todo = pass.todo \ {TurnOf(pass.todo)}
    BY <1>2, <2>1 DEF NextOf
  <2>3. NestTypes(rs, state, next)
    BY <2>2, NextTyped
  <2>4. PassInOrder(rs, next)
    <3> SUFFICES ASSUME NEW i \in next.todo, rs[i].bot \notin Direct
                 PROVE  IsPending(rs[i]) /\ \A j \in Due(rs, rs[i].bot) : j < i => j \in next.todo
      BY <2>2 DEF PassInOrder
    <3>1. i \in pass.todo /\ i # TurnOf(pass.todo)
      BY <2>2
    <3>2. /\ IsPending(rs[i])
          /\ \A j \in Due(rs, rs[i].bot) : j < i => j \in pass.todo
      BY <3>1 DEF NestSound, PassInOrder
    <3>3. ASSUME NEW j \in Due(rs, rs[i].bot), j < i PROVE j # TurnOf(pass.todo)
      <4>1. j \in pass.todo /\ rs[j].bot \notin Direct /\ IsPending(rs[j])
        BY <3>2, <3>3 DEF Due
      <4> QED
        BY <4>1 DEF NestSound, PassInOrder
    <3> QED
      BY <2>2, <3>2, <3>3
  <2>5. SentIsGain(rs, next)
    BY <2>2 DEF SentIsGain
  <2>6. \A b \in NestBots \ Direct : Covered(rs, state, next, b)
    BY <2>2, <2>3, CoveredStill DEF NestSound
  <2> QED
    BY <2>2, <2>4, <2>5, <2>6 DEF NestSound
<1> QED
  BY <1>1, <1>2

LEMMA PassBegins ==
    ASSUME NEW rs, NEW state, NEW pass, NestTypes(rs, state, pass), NestSound(rs, state, pass),
           pass.at = "idle", NEW pending, pending = {i \in DOMAIN rs : IsPending(rs[i])},
           pending # {}, NEW next, next = [at |-> "ask", todo |-> pending]
    PROVE  NestTypes(rs, state, next) /\ NestSound(rs, state, next)
<1>1. next.at = "ask" /\ next.todo = pending /\ pending \subseteq DOMAIN rs /\ DOMAIN rs \subseteq Nat
  BY NestParts
<1>2. next \in [at : {"idle", "ask", "sent", "paid"}, todo : SUBSET Nat]
  BY <1>1
<1>3. NestTypes(rs, state, next)
  BY <1>1, <1>2 DEF NestTypes
<1>4. PassInOrder(rs, next) /\ SentIsGain(rs, next)
  BY <1>1 DEF PassInOrder, SentIsGain, Due
<1>5. \A b \in NestBots \ Direct : Covered(rs, state, next, b)
  BY <1>1, <1>3, CoveredStill DEF NestSound
<1> QED
  BY <1>3, <1>4, <1>5 DEF NestSound

LEMMA MovedOn ==
    ASSUME NEW rs, NEW state, NEW pass, NestTypes(rs, state, pass), pass.at # "idle",
           NEW at \in {"sent", "paid"}, NEW next, next = [pass EXCEPT !.at = at]
    PROVE  /\ NestTypes(rs, state, next) /\ next.at = at /\ next.todo = pass.todo
           /\ TurnOf(next.todo) = TurnOf(pass.todo)
<1>1. next.at = at /\ next.todo = pass.todo
  BY DEF NestTypes
<1>2. next \in [at : {"idle", "ask", "sent", "paid"}, todo : SUBSET Nat]
  BY DEF NestTypes
<1> QED
  BY <1>1, <1>2 DEF NestTypes

\* A wallet is paid: no exchange's records are marked.
LEMMA WalletInOrder ==
    ASSUME NEW rs, NEW state, NEW pass, NestTypes(rs, state, pass), NestSound(rs, state, pass),
           pass.at = "ask", rs[TurnOf(pass.todo)].amount >= 1, rs[TurnOf(pass.todo)].bot \in Direct,
           NEW next, next = [pass EXCEPT !.at = "sent"]
    PROVE  NestSound(rs, state, next)
<1>1. /\ NestTypes(rs, state, next) /\ next.at = "sent" /\ next.todo = pass.todo
      /\ TurnOf(next.todo) = TurnOf(pass.todo)
  BY MovedOn
<1>2. PassInOrder(rs, next)
  BY <1>1 DEF NestSound, PassInOrder
<1>3. SentIsGain(rs, next)
  BY <1>1 DEF SentIsGain
<1>4. ASSUME NEW b \in NestBots \ Direct PROVE Covered(rs, state, next, b)
  <2>1. SentTo(rs, next, b) = 0 /\ SentTo(rs, pass, b) = 0
    BY <1>1 DEF SentTo
  <2> QED
    BY <2>1 DEF NestSound, Covered
<1> QED
  BY <1>2, <1>3, <1>4 DEF NestSound

SameRecord(r, t) == t.bot = r.bot /\ t.amount = r.amount /\ t.gains = r.gains

\* The record a request marks is the one it is of.
LEMMA OldestIsTurn ==
    ASSUME NestTypes(nRecords, nState, nPass), NestSound(nRecords, nState, nPass),
           nPass.at = "ask", NEW turn, turn = TurnOf(nPass.todo), NEW b, b = nRecords[turn].bot,
           b \notin Direct
    PROVE  Oldest(b) = {turn} /\ turn \in Due(nRecords, b)
<1>1. PICK rs, pass : rs = nRecords /\ pass = nPass
  OBVIOUS
<1>2. /\ turn \in pass.todo /\ turn \in DOMAIN rs /\ \A j \in pass.todo : turn <= j
      /\ DOMAIN rs \subseteq Nat /\ pass.todo \subseteq DOMAIN rs
  BY <1>1, NestParts DEF NestTypes
<1>3. IsPending(rs[turn]) /\ \A j \in Due(rs, b) : j < turn => j \in pass.todo
  BY <1>1, <1>2 DEF NestSound, PassInOrder
<1>4. \A j \in Due(rs, b) : turn <= j /\ j \in DOMAIN rs /\ j \in Nat
  BY <1>2, <1>3 DEF Due
<1>5. turn \in Due(rs, b)
  BY <1>1, <1>2, <1>3 DEF Due
<1>6. Due(rs, b) \subseteq Nat
  BY <1>4
<1>7. PICK M : M = Due(rs, b)
  OBVIOUS
<1>8. {i \in M : \A j \in M : i <= j} = {turn}
  BY <1>4, <1>5, <1>6, <1>7, OnlyLeast
<1>9. Oldest(b) = {i \in M : \A j \in M : i <= j}
  BY <1>1, <1>7 DEF Oldest, Due
<1> QED
  BY <1>1, <1>5, <1>8, <1>9

Marks(rs, state, pass, ts, state2, next, turn, b) ==
    /\ NestTypes(rs, state, pass) /\ NestSound(rs, state, pass) /\ GainsAddUp(rs)
    /\ pass.at = "ask" /\ turn = TurnOf(pass.todo) /\ b = rs[turn].bot
    /\ rs[turn].amount >= 1 /\ b \notin Direct
    /\ ts \in Seq(NestRecord) /\ DOMAIN ts = DOMAIN rs /\ turn \in Due(rs, b)
    /\ \A i \in DOMAIN rs : SameRecord(rs[i], ts[i])
    /\ \A i \in DOMAIN rs : IsPending(ts[i]) <=> (i # turn /\ IsPending(rs[i]))
    /\ \A j \in Due(rs, b) : turn <= j
    /\ \A c \in NestBots : state2[c].withdrawn = state[c].withdrawn
    /\ NestTypes(rs, state, next) /\ next.at = "sent" /\ next.todo = pass.todo

\* An exchange is asked to pay: the record marked is the one the request is of, so
\* the payment is of gains no other payment has been of.
LEMMA MarkInOrder ==
    ASSUME NEW rs, NEW state, NEW pass, NEW ts, NEW state2, NEW next, NEW turn, NEW b,
           Marks(rs, state, pass, ts, state2, next, turn, b)
    PROVE  NestSound(ts, state2, next)
<1> USE DEF Marks
<1>1. next.at = "sent" /\ next.todo = pass.todo /\ TurnOf(next.todo) = turn
  OBVIOUS
<1>2. /\ turn \in pass.todo /\ turn \in DOMAIN rs /\ DOMAIN rs \subseteq Nat
      /\ pass.todo \subseteq DOMAIN rs
  BY NestParts DEF NestTypes
<1>4. \A j \in Due(rs, b) : turn <= j /\ j \in DOMAIN rs /\ j \in Nat
  BY <1>2 DEF Due
<1>5. turn \in Due(rs, b)
  OBVIOUS
<1>7. ASSUME NEW i \in DOMAIN rs
      PROVE  /\ ts[i].bot = rs[i].bot /\ ts[i].amount = rs[i].amount /\ ts[i].gains = rs[i].gains
             /\ IsPending(ts[i]) <=> (i # turn /\ IsPending(rs[i]))
  BY <1>7 DEF SameRecord
<1>8. ts \in Seq(NestRecord) /\ DOMAIN ts = DOMAIN rs
  OBVIOUS
<1>9. \A c : Due(ts, c) = Due(rs, c) \ {turn}
  BY <1>7, <1>8 DEF Due
<1>10. PassInOrder(ts, next)
  <2> SUFFICES ASSUME NEW i \in next.todo, ts[i].bot \notin Direct
               PROVE  /\ (i # turn) <=> IsPending(ts[i])
                      /\ \A j \in Due(ts, ts[i].bot) : j < i => j \in next.todo
    BY <1>1 DEF PassInOrder
  <2>1. i \in pass.todo /\ i \in DOMAIN rs /\ ts[i].bot = rs[i].bot
    BY <1>1, <1>2, <1>7
  <2>2. IsPending(rs[i]) /\ \A j \in Due(rs, rs[i].bot) : j < i => j \in pass.todo
    BY <2>1 DEF NestSound, PassInOrder
  <2>3. (i # turn) <=> IsPending(ts[i])
    BY <1>7, <2>1, <2>2
  <2> QED
    BY <1>1, <1>9, <2>1, <2>2, <2>3
<1>11. SentIsGain(ts, next)
  BY <1>1, <1>2, <1>7 DEF SentIsGain
<1>12. \A c : GainsIn(ts, c) = GainsIn(rs, c)
  <2>1. rs \in Seq(NestRecord)
    BY NestParts
  <2>2. \A i \in DOMAIN rs : ts[i].bot = rs[i].bot /\ ts[i].gains = rs[i].gains
    BY <1>7
  <2> QED
    BY <1>8, <2>1, <2>2, GainsKept
<1>13. ASSUME NEW c \in NestBots \ Direct, c # b PROVE Covered(ts, state2, next, c)
  <2>1. SentTo(ts, next, c) = 0 /\ SentTo(rs, pass, c) = 0
    BY <1>1, <1>2, <1>7, <1>13 DEF SentTo
  <2>2. Covered(rs, state, pass, c)
    BY DEF NestSound
  <2>3. \A i \in Due(ts, c) : i \in Due(rs, c) /\ ts[i].amount = rs[i].amount /\ ts[i].gains = rs[i].gains
    BY <1>7, <1>9 DEF Due
  <2> QED
    BY <1>12, <2>1, <2>2, <2>3 DEF Covered
<1>14. Covered(ts, state2, next, b)
  <2>1. SentTo(ts, next, b) = rs[turn].amount /\ SentTo(rs, pass, b) = 0 /\ b \in NestBots
    <3>1. b \in NestBots
      BY <1>2, NestParts
    <3> QED
      BY <1>1, <1>2, <1>7, <3>1 DEF SentTo
  <2>2. PICK w \in Int : w = state[b].withdrawn /\ w = state2[b].withdrawn
    BY <2>1, NestParts
  <2>3. PICK a \in Int : a = rs[turn].amount /\ a = Gain(rs[turn].amount)
    BY <1>2, NestParts DEF Gain
  <2>4. PICK g \in Nat : g = rs[turn].gains
    BY <1>2, NestParts
  <2>5. Covered(rs, state, pass, b)
    BY <2>1 DEF NestSound
  <2>a. state[b].withdrawn + SentTo(rs, pass, b) + Gain(rs[turn].amount) <= rs[turn].gains
    BY <1>5, <2>5 DEF Covered
  <2>6. w + a <= g
    BY <2>1, <2>2, <2>3, <2>4, <2>a
  <2>7. g <= GainsIn(rs, b) /\ GainsIn(rs, b) \in Nat
    BY <1>2, <2>4, GainsBound, GainsTyped, NestParts
  <2>8. w + a <= GainsIn(ts, b)
    BY <1>12, <2>6, <2>7
  <2>9. ASSUME NEW i \in Due(ts, b) PROVE w + a + Gain(ts[i].amount) <= ts[i].gains
    <3>a. i \in Due(rs, b) \ {turn}
      BY <1>9
    <3>1. i \in Due(rs, b) /\ i # turn /\ i \in DOMAIN rs /\ rs[i].bot = b
      BY <3>a DEF Due
    <3>b. turn <= i /\ i \in Nat /\ turn \in Nat
      BY <1>2, <1>4, <3>1
    <3>2. turn < i
      BY <3>1, <3>b
    <3>3. rs[turn].gains + Gain(rs[i].amount) <= rs[i].gains
      BY <1>2, <3>1, <3>2 DEF GainsAddUp
    <3>4. Gain(rs[i].amount) \in Nat /\ rs[i].gains \in Nat
      BY <3>1, NestParts
    <3>5. ts[i].amount = rs[i].amount /\ ts[i].gains = rs[i].gains
      BY <1>7, <3>1
    <3> QED
      BY <2>4, <2>6, <3>3, <3>4, <3>5
  <2> QED
    BY <2>1, <2>2, <2>3, <2>8, <2>9 DEF Covered
<1> QED
  BY <1>7, <1>8, <1>10, <1>11, <1>13, <1>14 DEF NestSound

Books(rs, state, pass, state2, next, turn, b) ==
    /\ NestTypes(rs, state, pass) /\ NestSound(rs, state, pass) /\ pass.at = "sent"
    /\ turn = TurnOf(pass.todo) /\ b = rs[turn].bot /\ b \in NestBots
    /\ state2 \in [NestBots -> NestRow]
    /\ \A c \in NestBots : c # b => state2[c].withdrawn = state[c].withdrawn
    /\ state2[b].withdrawn = state[b].withdrawn + rs[turn].amount
    /\ NestTypes(rs, state, next) /\ next.at = "paid" /\ next.todo = pass.todo

\* The money is booked as paid.
LEMMA BookedInOrder ==
    ASSUME NEW rs, NEW state, NEW pass, NEW state2, NEW next, NEW turn, NEW b,
           Books(rs, state, pass, state2, next, turn, b)
    PROVE  NestSound(rs, state2, next)
<1> USE DEF Books
<1>1. next.at = "paid" /\ next.todo = pass.todo /\ TurnOf(next.todo) = turn
  OBVIOUS
<1>2. PassInOrder(rs, next) /\ SentIsGain(rs, next)
  BY <1>1 DEF NestSound, PassInOrder, SentIsGain
<1>3. ASSUME NEW c \in NestBots \ Direct PROVE Covered(rs, state2, next, c)
  <2>1. SentTo(rs, next, c) = 0 /\ state2[c].withdrawn \in Int /\ state[c].withdrawn \in Int
        /\ SentTo(rs, pass, c) \in Int
    <3>1. state2[c].withdrawn \in Int
      BY DEF NestRow
    <3> QED
      BY <1>1, <3>1, NestParts DEF SentTo
  <2>2. state2[c].withdrawn = state[c].withdrawn + SentTo(rs, pass, c)
    <3>1. CASE c = b
      BY <3>1 DEF SentTo
    <3>2. CASE c # b
      <4>1. SentTo(rs, pass, c) = 0
        BY <3>2 DEF SentTo
      <4> QED
        BY <2>1, <3>2, <4>1
    <3> QED
      BY <3>1, <3>2
  <2>3. state2[c].withdrawn + SentTo(rs, next, c) = state[c].withdrawn + SentTo(rs, pass, c)
    BY <2>1, <2>2
  <2> QED
    BY <2>3 DEF NestSound, Covered
<1> QED
  BY <1>2, <1>3 DEF NestSound

LEMMA RowsMayChange ==
    ASSUME NEW rs, NEW state, NEW pass, NestSound(rs, state, pass), NEW state2,
           \A b \in NestBots : state2[b].withdrawn = state[b].withdrawn
    PROVE  NestSound(rs, state2, pass)
  BY DEF NestSound, Covered

Adds(rs, state, pass, r, ts, state2, b) ==
    /\ NestTypes(rs, state, pass) /\ GainsAddUp(rs) /\ b \in NestBots
    /\ r \in NestRecord /\ r.bot = b /\ r.status = "pending"
    /\ r.gains = GainsIn(rs, b) + Gain(r.amount) /\ ts = Append(rs, r)
    /\ state2 \in [NestBots -> NestRow]
    /\ \A c \in NestBots : state2[c].withdrawn = state[c].withdrawn

\* A record is added in the middle of a pass, or between two.
LEMMA RecordInOrder ==
    ASSUME NEW rs, NEW state, NEW pass, NEW r, NEW ts, NEW state2, NEW b,
           Adds(rs, state, pass, r, ts, state2, b)
    PROVE  /\ NestTypes(ts, state2, pass) /\ GainsAddUp(ts)
           /\ NestSound(rs, state, pass) => NestSound(ts, state2, pass)
<1> USE DEF Adds
<1>2. /\ r \in NestRecord /\ r.bot = b /\ r.status = "pending"
      /\ r.gains = GainsIn(rs, b) + Gain(r.amount)
  OBVIOUS
<1>a. rs \in Seq(NestRecord)
  BY NestParts
<1>b. r.amount \in Int
  BY <1>2 DEF NestRecord, Profits
<1>1. GainsIn(rs, b) \in Nat /\ r.amount \in Int /\ Gain(r.amount) \in Nat
  BY <1>a, <1>b, GainsTyped DEF Gain
<1>3. PICK n \in Nat : n = Len(rs)
  BY NestParts
<1>4. /\ DOMAIN rs = 1 .. n /\ ts \in Seq(NestRecord) /\ DOMAIN ts = 1 .. n + 1 /\ ts[n + 1] = r
      /\ \A i \in 1 .. n : ts[i] = rs[i]
  BY <1>2, <1>3, NestParts
<1>5. NestTypes(ts, state2, pass)
  <2>1. pass.todo \subseteq DOMAIN ts
    BY <1>4 DEF NestTypes
  <2> QED
    BY <1>4, <2>1 DEF NestTypes
<1>6. GainsIn(ts, b) = r.gains /\ \A c \in NestBots \ {b} : GainsIn(ts, c) = GainsIn(rs, c)
  <2>1. rs \in Seq(NestRecord)
    BY NestParts
  <2>2. GainsIn(ts, r.bot) = r.gains /\ \A c \in NestBots \ {r.bot} : GainsIn(ts, c) = GainsIn(rs, c)
    BY <1>2, <2>1, GainsAdded, ZenonT(30)
  <2> QED
    BY <1>2, <2>2
<1>7. GainsAddUp(ts)
  <2> SUFFICES ASSUME NEW i \in DOMAIN ts, NEW j \in DOMAIN ts, i < j, ts[i].bot = ts[j].bot
               PROVE  ts[i].gains + Gain(ts[j].amount) <= ts[j].gains
    BY DEF GainsAddUp
  <2>1. i \in 1 .. n /\ ts[i] = rs[i] /\ i \in DOMAIN rs
    BY <1>4
  <2>2. CASE j \in 1 .. n
    BY <1>4, <2>1, <2>2 DEF GainsAddUp
  <2>3. CASE j = n + 1
    <3>1. rs[i].bot = b /\ rs[i].gains \in Nat
      BY <1>2, <1>4, <2>1, <2>3, NestParts
    <3>2. rs[i].gains <= GainsIn(rs, b)
      BY <2>1, <3>1, NestParts, GainsBound
    <3> QED
      BY <1>1, <1>2, <1>4, <2>1, <2>3, <3>1, <3>2
  <2> QED
    BY <1>4, <2>2, <2>3
<1>8. \A i \in pass.todo : i \in 1 .. n /\ ts[i] = rs[i]
  BY <1>4 DEF NestTypes
<1>9. \A c : Due(rs, c) \subseteq Due(ts, c) /\ Due(ts, c) \subseteq Due(rs, c) \cup {n + 1}
  BY <1>4 DEF Due
<1>10. \A c \in NestBots : c # b => Due(ts, c) = Due(rs, c)
  BY <1>2, <1>4, <1>9 DEF Due
<1>11. \A c : SentTo(ts, pass, c) = SentTo(rs, pass, c)
  <2>1. pass.at # "idle" => TurnOf(pass.todo) \in pass.todo
    BY NestParts
  <2> QED
    BY <1>8, <2>1 DEF SentTo
<1>12. ASSUME NestSound(rs, state, pass) PROVE NestSound(ts, state2, pass)
  <2>1. PassInOrder(ts, pass)
    <3> SUFFICES ASSUME pass.at # "idle", NEW i \in pass.todo, ts[i].bot \notin Direct
                 PROVE  /\ (pass.at = "ask" \/ i # TurnOf(pass.todo)) <=> IsPending(ts[i])
                        /\ \A j \in Due(ts, ts[i].bot) : j < i => j \in pass.todo
      BY DEF PassInOrder
    <3>1. ts[i] = rs[i] /\ i \in 1 .. n
      BY <1>8
    <3>2. /\ (pass.at = "ask" \/ i # TurnOf(pass.todo)) <=> IsPending(rs[i])
          /\ \A j \in Due(rs, rs[i].bot) : j < i => j \in pass.todo
      BY <1>12, <3>1 DEF NestSound, PassInOrder
    <3>3. ASSUME NEW j \in Due(ts, ts[i].bot), j < i PROVE j \in Due(rs, rs[i].bot)
      <4>1. j \in Due(rs, rs[i].bot) \cup {n + 1}
        BY <1>9, <3>1, <3>3
      <4>2. j # n + 1
        BY <3>1, <3>3
      <4> QED
        BY <4>1, <4>2
    <3> QED
      BY <3>1, <3>2, <3>3
  <2>2. SentIsGain(ts, pass)
    <3>1. pass.at = "sent" => ts[TurnOf(pass.todo)] = rs[TurnOf(pass.todo)]
      BY <1>8, NestParts
    <3> QED
      BY <1>12, <3>1 DEF NestSound, SentIsGain
  <2>3. ASSUME NEW c \in NestBots \ Direct PROVE Covered(ts, state2, pass, c)
    <3>1. Covered(rs, state, pass, c)
      BY <1>12 DEF NestSound
    <3>2. \A i \in Due(rs, c) : ts[i] = rs[i]
      BY <1>4 DEF Due
    <3>3. CASE c # b
      BY <1>6, <1>10, <1>11, <3>1, <3>2, <3>3 DEF Covered
    <3>4. CASE c = b
      <4>1. PICK w \in Int : w = state[b].withdrawn /\ w = state2[b].withdrawn
        BY NestParts
      <4>2. PICK s \in Int : s = SentTo(rs, pass, b) /\ s = SentTo(ts, pass, b)
        BY <1>11, NestParts
      <4>3. w + s <= GainsIn(rs, b)
        BY <3>1, <3>4, <4>1, <4>2 DEF Covered
      <4>4. w + s <= GainsIn(ts, b) /\ w + s + Gain(r.amount) <= r.gains
        BY <1>1, <1>2, <1>6, <4>3
      <4>5. ASSUME NEW i \in Due(ts, b) PROVE w + s + Gain(ts[i].amount) <= ts[i].gains
        <5>1. CASE i \in Due(rs, b)
          BY <3>1, <3>2, <3>4, <4>1, <4>2, <5>1 DEF Covered
        <5>2. CASE i = n + 1
          BY <1>4, <4>4, <5>2
        <5> QED
          BY <1>9, <5>1, <5>2
      <4> QED
        BY <3>4, <4>1, <4>2, <4>4, <4>5 DEF Covered
    <3> QED
      BY <3>3, <3>4
  <2> QED
    BY <2>1, <2>2, <2>3 DEF NestSound
<1> QED
  BY <1>5, <1>7, <1>12

LEMMA NestInitHolds == NestInit => NestIInv
<1> SUFFICES ASSUME NestInit PROVE NestIInv
  OBVIOUS
<1>1. nRecords = <<>> /\ nRefused = FALSE /\ nPass = NestIdle /\ DOMAIN nRecords = {}
  BY DEF NestInit
<1>2. nState = [b \in NestBots |-> Unknown] /\ Unknown \in NestRow
  BY DEF NestInit, Unknown, NestRow
<1>3. NestTypes(nRecords, nState, nPass)
  BY <1>1, <1>2 DEF NestTypes, NestIdle
<1>4. GainsAddUp(nRecords) /\ RowsKnown(nRecords, nState)
  BY <1>1, <1>2 DEF GainsAddUp, RowsKnown, Unknown
<1>5. PassInOrder(nRecords, nPass) /\ SentIsGain(nRecords, nPass)
  BY <1>1 DEF PassInOrder, SentIsGain, NestIdle
<1>6. ASSUME NEW b \in NestBots PROVE Covered(nRecords, nState, nPass, b)
  <2>1. GainsIn(nRecords, b) = 0 /\ Due(nRecords, b) = {} /\ SentTo(nRecords, nPass, b) = 0
    BY <1>1 DEF GainsIn, RecordsOf, Due, SentTo, NestIdle
  <2>2. nState[b].withdrawn = 0
    BY <1>2 DEF Unknown
  <2> QED
    BY <2>1, <2>2 DEF Covered
<1> QED
  BY <1>1, <1>3, <1>4, <1>5, <1>6 DEF NestIInv, NestSound

\* A step of the pass that writes nothing.
LEMMA PassMoves ==
    ASSUME NestIInv, UNCHANGED <<nRecords, nState>>, NestTypes(nRecords, nState, nPass'),
           nRefused' \in BOOLEAN,
           ~nRefused' => ~nRefused /\ NestSound(nRecords, nState, nPass')
    PROVE  NestIInv'
<1>1. PICK rs, state, next : rs = nRecords /\ state = nState /\ next = nPass'
  OBVIOUS
<1>2. /\ NestTypes(rs, state, next) /\ GainsAddUp(rs) /\ RowsKnown(rs, state)
      /\ ~nRefused' => NestSound(rs, state, next)
  BY <1>1 DEF NestIInv
<1>3. nRecords' = rs /\ nState' = state /\ nPass' = next
  BY <1>1
<1> QED
  BY <1>2, <1>3 DEF NestIInv

\* A step that writes.
LEMMA NestWrites ==
    ASSUME NestIInv, UNCHANGED nRefused, NEW rs, rs = nRecords', NEW state, state = nState',
           NEW next, next = nPass',
           NestTypes(rs, state, next), GainsAddUp(rs), RowsKnown(rs, state),
           ~nRefused => NestSound(rs, state, next)
    PROVE  NestIInv'
  BY DEF NestIInv

LEMMA NestStep == NestIInv /\ [NestNext]_nvars => NestIInv'
<1> SUFFICES ASSUME NestIInv, [NestNext]_nvars PROVE NestIInv'
  OBVIOUS
<1>1. /\ NestTypes(nRecords, nState, nPass) /\ nRefused \in BOOLEAN
      /\ GainsAddUp(nRecords) /\ RowsKnown(nRecords, nState)
      /\ ~nRefused => NestSound(nRecords, nState, nPass)
  BY DEF NestIInv
<1>2. Turn = TurnOf(nPass.todo) /\ NestRequest = nRecords[TurnOf(nPass.todo)]
      /\ NextRequest = NextOf(nPass)
  BY DEF Turn, TurnOf, NestRequest, NextRequest, NextOf
<1>3. PICK turn : turn = TurnOf(nPass.todo)
  OBVIOUS
<1>4. nPass.at # "idle" => turn \in DOMAIN nRecords /\ nRecords[turn].bot \in NestBots
                          /\ nRecords[turn].amount \in Int
  BY <1>1, <1>3, NestParts
<1>5. CASE UNCHANGED nvars
  BY <1>1, <1>5, PassMoves DEF nvars
<1>6. CASE Refuse \/ MarkFails
  <2>1. nPass.at # "idle" /\ nPass' = NextOf(nPass) /\ nRefused' = TRUE
        /\ UNCHANGED <<nRecords, nState>>
    BY <1>2, <1>6 DEF Refuse, MarkFails, Consent
  <2>2. NestTypes(nRecords, nState, nPass')
    BY <1>1, <2>1, NextTyped
  <2> QED
    BY <2>1, <2>2, PassMoves
<1>7. CASE SendFails
  <2>1. nPass.at = "sent" /\ nPass' = NextOf(nPass) /\ UNCHANGED <<nRefused, nRecords, nState>>
    BY <1>2, <1>7 DEF SendFails
  <2>2. NestTypes(nRecords, nState, nPass')
    BY <1>1, <2>1, NextTyped
  <2>3. ~nRefused => NestSound(nRecords, nState, nPass')
    BY <1>1, <2>1, NextInOrder
  <2> QED
    BY <1>1, <2>1, <2>2, <2>3, PassMoves
<1>8. CASE PassDies
  <2>1. nPass' = NestIdle /\ UNCHANGED <<nRefused, nRecords, nState>>
    BY <1>8 DEF PassDies
  <2>2. NestTypes(nRecords, nState, nPass')
    BY <1>1, <2>1 DEF NestTypes, NestIdle
  <2>3. ~nRefused => NestSound(nRecords, nState, nPass')
    BY <1>1, <2>1, PassEnds
  <2> QED
    BY <1>1, <2>1, <2>2, <2>3, PassMoves
<1>9. CASE WithdrawPending
  <2>1. PICK pending : pending = {i \in DOMAIN nRecords : IsPending(nRecords[i])}
    OBVIOUS
  <2>2. /\ pending # {} /\ nPass.at = "idle" /\ nPass' = [at |-> "ask", todo |-> pending]
        /\ UNCHANGED <<nRefused, nRecords, nState>>
    BY <1>9, <2>1 DEF WithdrawPending
  <2>3. NestTypes(nRecords, nState, nPass')
    <3>1. pending \subseteq DOMAIN nRecords /\ pending \subseteq Nat
      BY <1>1, <2>1, NestParts
    <3> QED
      BY <1>1, <2>2, <3>1 DEF NestTypes
  <2>4. ~nRefused => NestSound(nRecords, nState, nPass')
    BY <1>1, <2>1, <2>2, PassBegins
  <2> QED
    BY <1>1, <2>2, <2>3, <2>4, PassMoves
<1>10. CASE SendToWallet
  <2>1. /\ nPass.at = "ask" /\ nRecords[turn].amount >= 1 /\ nRecords[turn].bot \in Direct
        /\ nPass' = [nPass EXCEPT !.at = "sent"] /\ UNCHANGED <<nRefused, nRecords, nState>>
    BY <1>2, <1>3, <1>10 DEF SendToWallet, Consent
  <2>2. NestTypes(nRecords, nState, nPass')
    BY <1>1, <2>1, MovedOn
  <2>3. ~nRefused => NestSound(nRecords, nState, nPass')
    BY <1>1, <1>3, <2>1, WalletInOrder
  <2> QED
    BY <1>1, <2>1, <2>2, <2>3, PassMoves
<1>11. PICK rs, state, next : rs = nRecords' /\ state = nState' /\ next = nPass'
  OBVIOUS
<1>12. CASE MarkProcessing
  <2>1. PICK b : b = nRecords[turn].bot
    OBVIOUS
  <2>2. /\ nPass.at = "ask" /\ nRecords[turn].amount >= 1 /\ b \notin Direct /\ b \in NestBots
        /\ next = [nPass EXCEPT !.at = "sent"] /\ UNCHANGED nRefused
        /\ state = [nState EXCEPT ![b].pending = @ + nRecords[turn].amount]
        /\ NestRequest.bot = b /\ turn \in DOMAIN nRecords /\ nRecords[turn].amount \in Int
    BY <1>2, <1>3, <1>4, <1>11, <1>12, <2>1 DEF MarkProcessing, Consent
  <2>4. PICK oldest : oldest = Oldest(b)
    OBVIOUS
  <2>5. rs = [i \in DOMAIN nRecords |-> IF i \in oldest THEN [nRecords[i] EXCEPT !.status = "processing"]
                                        ELSE nRecords[i]]
    BY <1>11, <1>12, <2>2, <2>4 DEF MarkProcessing
  <2>6. state \in [NestBots -> NestRow]
        /\ \A c \in NestBots : state[c].withdrawn = nState[c].withdrawn /\ state[c].known = nState[c].known
    <3>1. nState \in [NestBots -> NestRow]
      BY <1>1 DEF NestTypes
    <3> QED
      BY <2>2, <3>1 DEF NestRow
  <2>7. /\ rs \in Seq(NestRecord) /\ DOMAIN rs = DOMAIN nRecords
        /\ \A i \in DOMAIN nRecords :
               SameRecord(nRecords[i], rs[i]) /\ (IsPending(rs[i]) <=> (i \notin oldest /\ IsPending(nRecords[i])))
    <3>1. ASSUME NEW i \in DOMAIN nRecords
          PROVE  /\ rs[i] \in NestRecord /\ SameRecord(nRecords[i], rs[i])
                 /\ IsPending(rs[i]) <=> (i \notin oldest /\ IsPending(nRecords[i]))
      <4>1. nRecords[i] \in NestRecord
        BY <1>1 DEF NestTypes
      <4>2. CASE i \in oldest
        <5>1. rs[i] = [nRecords[i] EXCEPT !.status = "processing"]
          BY <2>5, <4>2
        <5> QED
          BY <4>1, <4>2, <5>1 DEF NestRecord, SameRecord, IsPending
      <4>3. CASE i \notin oldest
        BY <2>5, <4>1, <4>3 DEF SameRecord
      <4> QED
        BY <4>2, <4>3
    <3>2. nRecords \in Seq(NestRecord) /\ rs = [i \in DOMAIN nRecords |-> rs[i]]
      BY <1>1, <2>5 DEF NestTypes
    <3> QED
      BY <3>1, <3>2, Mapped
  <2>8. NestTypes(rs, state, next)
    <3>1. NestTypes(nRecords, nState, next)
      BY <1>1, <2>2, MovedOn
    <3> QED
      BY <2>6, <2>7, <3>1 DEF NestTypes
  <2>9. GainsAddUp(rs) /\ RowsKnown(rs, state)
    BY <1>1, <2>6, <2>7, NestParts DEF GainsAddUp, RowsKnown, SameRecord
  <2>10. ~nRefused => NestSound(rs, state, next)
    <3> SUFFICES ASSUME ~nRefused PROVE NestSound(rs, state, next)
      OBVIOUS
    <3>1. PICK old, was, pass : old = nRecords /\ was = nState /\ pass = nPass
      OBVIOUS
    <3>2. oldest = {turn} /\ turn \in Due(old, b)
      BY <1>1, <1>3, <2>1, <2>2, <2>4, <3>1, OldestIsTurn
    <3>3. \A j \in Due(old, b) : turn <= j
      <4>1. \A i \in oldest : \A j \in Due(old, b) : i <= j
        BY <2>4, <3>1 DEF Oldest, Due
      <4> QED
        BY <3>2, <4>1
    <3>4. NestTypes(old, was, next) /\ next.at = "sent" /\ next.todo = pass.todo
      BY <1>1, <2>2, <3>1, MovedOn
    <3>5. /\ NestTypes(old, was, pass) /\ NestSound(old, was, pass) /\ GainsAddUp(old)
          /\ turn = TurnOf(pass.todo) /\ pass.at = "ask" /\ b = old[turn].bot /\ old[turn].amount >= 1
      BY <1>1, <1>3, <2>1, <2>2, <3>1
    <3>6. /\ \A i \in DOMAIN old : SameRecord(old[i], rs[i])
          /\ \A i \in DOMAIN old : IsPending(rs[i]) <=> (i # turn /\ IsPending(old[i]))
          /\ rs \in Seq(NestRecord) /\ DOMAIN rs = DOMAIN old
      BY <2>7, <3>1, <3>2
    <3>7. \A c \in NestBots : state[c].withdrawn = was[c].withdrawn
      BY <2>6, <3>1
    <3> QED
      <4>1. Marks(old, was, pass, rs, state, next, turn, b)
        BY <2>2, <3>2, <3>3, <3>4, <3>5, <3>6, <3>7 DEF Marks
      <4> QED
        BY <4>1, MarkInOrder
  <2> QED
    BY <1>11, <2>2, <2>8, <2>9, <2>10, NestWrites
<1>13. CASE CompleteWithdrawal
  <2>1. PICK b, a : b = nRecords[turn].bot /\ a = nRecords[turn].amount
    OBVIOUS
  <2>2. /\ nPass.at = "sent" /\ b \in NestBots /\ a \in Int /\ turn \in DOMAIN nRecords
        /\ next = [nPass EXCEPT !.at = "paid"] /\ UNCHANGED nRefused /\ rs = nRecords
        /\ state = [nState EXCEPT ![b] = WithPayment(@, a)]
    BY <1>2, <1>3, <1>4, <1>11, <1>13, <2>1 DEF CompleteWithdrawal
  <2>3. nState \in [NestBots -> NestRow]
    BY <1>1 DEF NestTypes
  <2>4. PICK row : row = WithPayment(nState[b], a)
    OBVIOUS
  <2>5. row \in NestRow /\ row.withdrawn = nState[b].withdrawn + a /\ row.known = nState[b].known
    BY <2>2, <2>3, <2>4, RowWithPayment
  <2>6. state = [nState EXCEPT ![b] = row]
    BY <2>2, <2>4
  <2>7. /\ state \in [NestBots -> NestRow]
        /\ \A c \in NestBots : state[c].known = nState[c].known
        /\ \A c \in NestBots : c # b => state[c].withdrawn = nState[c].withdrawn
        /\ state[b].withdrawn = nState[b].withdrawn + a
    BY <2>2, <2>3, <2>5, <2>6
  <2>8. NestTypes(rs, state, next)
    <3>1. NestTypes(nRecords, nState, next)
      BY <1>1, <2>2, MovedOn
    <3> QED
      BY <2>2, <2>7, <3>1 DEF NestTypes
  <2>9. RowsKnown(rs, state)
    <3>1. \A i \in DOMAIN nRecords : nRecords[i].bot \in NestBots
      BY <1>1, NestParts
    <3>2. nState[b].known
      BY <1>1, <2>1, <2>2 DEF RowsKnown
    <3>3. \A c \in NestBots : ~state[c].known => c # b
      BY <2>7, <3>2
    <3> QED
      BY <1>1, <2>2, <2>7, <3>1, <3>3 DEF RowsKnown
  <2>10. ~nRefused => NestSound(nRecords, state, next)
    <3> SUFFICES ASSUME ~nRefused PROVE NestSound(nRecords, state, next)
      OBVIOUS
    <3>1. PICK old, was, pass : old = nRecords /\ was = nState /\ pass = nPass
      OBVIOUS
    <3>2. NestTypes(old, was, next) /\ next.at = "paid" /\ next.todo = pass.todo
      BY <1>1, <2>2, <3>1, MovedOn
    <3>3. /\ NestTypes(old, was, pass) /\ NestSound(old, was, pass) /\ pass.at = "sent"
          /\ turn = TurnOf(pass.todo) /\ b = old[turn].bot /\ a = old[turn].amount
      BY <1>1, <1>3, <2>1, <2>2, <3>1
    <3>4. /\ \A c \in NestBots : c # b => state[c].withdrawn = was[c].withdrawn
          /\ state[b].withdrawn = was[b].withdrawn + a
      BY <2>7, <3>1
    <3>5. NestSound(old, state, next)
      <4>1. Books(old, was, pass, state, next, turn, b)
        BY <2>2, <2>7, <3>2, <3>3, <3>4 DEF Books
      <4> QED
        BY <4>1, BookedInOrder
    <3> QED
      BY <3>1, <3>5
  <2> QED
    <3>1. ~nRefused => NestSound(rs, state, next)
      BY <2>2, <2>10
    <3>2. GainsAddUp(rs)
      BY <1>1, <2>2
    <3> QED
      BY <1>11, <2>2, <2>8, <2>9, <3>1, <3>2, NestWrites
<1>14. CASE ResetToPrincipal
  <2>1. PICK b : b = nRecords[turn].bot
    OBVIOUS
  <2>2. /\ nPass.at = "paid" /\ b \in NestBots /\ next = NextOf(nPass) /\ UNCHANGED nRefused
        /\ rs = nRecords /\ state = [nState EXCEPT ![b].current = Base]
    BY <1>2, <1>3, <1>4, <1>11, <1>14, <2>1 DEF ResetToPrincipal
  <2>3. nState \in [NestBots -> NestRow] /\ Base \in Int
    BY <1>1, NestAssumption DEF NestTypes
  <2>4. state \in [NestBots -> NestRow]
        /\ \A c \in NestBots : state[c].withdrawn = nState[c].withdrawn /\ state[c].known = nState[c].known
    BY <2>2, <2>3 DEF NestRow
  <2>5. NestTypes(nRecords, nState, next)
    BY <1>1, <2>2, NextTyped
  <2>6. NestTypes(rs, state, next) /\ RowsKnown(rs, state)
    <3>1. \A i \in DOMAIN nRecords : nRecords[i].bot \in NestBots
      BY <1>1, NestParts
    <3> QED
      BY <1>1, <2>2, <2>4, <2>5, <3>1 DEF NestTypes, RowsKnown
  <2>7. ~nRefused => NestSound(nRecords, nState, next)
    BY <1>1, <2>2, NextInOrder
  <2>8. ~nRefused => NestSound(rs, state, next)
    BY <2>2, <2>4, <2>7, RowsMayChange
  <2> QED
    BY <1>1, <1>11, <2>2, <2>6, <2>8, NestWrites
<1>15. ASSUME NEW b \in NestBots, NEW amount \in Profits, RecordProfit(b, amount) PROVE NestIInv'
  <2>1. GainsOf(b) = GainsIn(nRecords, b)
    BY DEF GainsOf, GainsIn, RecordsOf
  <2>2. PICK r : r = [bot |-> b, amount |-> amount, status |-> "pending",
                      gains |-> GainsIn(nRecords, b) + Gain(amount)]
    OBVIOUS
  <2>a. /\ r \in NestRecord /\ r.bot = b /\ r.amount = amount /\ r.status = "pending"
        /\ r.gains = GainsIn(nRecords, b) + Gain(amount)
    <3>1. GainsIn(nRecords, b) \in Nat /\ Gain(amount) \in Nat
      BY <1>1, GainsTyped DEF NestTypes, Profits, Gain
    <3> QED
      BY <2>2, <3>1 DEF NestRecord
  <2>3. rs = Append(nRecords, r) /\ next = nPass /\ UNCHANGED nRefused
    BY <1>11, <1>15, <2>1, <2>2 DEF RecordProfit
  <2>4. nState \in [NestBots -> NestRow] /\ amount \in Int
    BY <1>1 DEF NestTypes, Profits
  <2>5. PICK row : row = WithProfit(nState[b], amount)
    OBVIOUS
  <2>6. state = [nState EXCEPT ![b] = row]
    BY <1>11, <1>15, <2>5 DEF RecordProfit
  <2>7. nState[b] \in NestRow /\ (~nState[b].known => nState[b].withdrawn = 0)
    BY <1>1, <2>4 DEF RowsKnown
  <2>8. row \in NestRow /\ row.withdrawn = nState[b].withdrawn /\ row.known
    BY <2>4, <2>5, <2>7, RowWithProfit
  <2>9. /\ state \in [NestBots -> NestRow]
        /\ \A c \in NestBots : state[c].withdrawn = nState[c].withdrawn
        /\ \A c \in NestBots : nState[c].known \/ c = b => state[c].known
        /\ \A c \in NestBots : ~state[c].known => ~nState[c].known
    BY <2>4, <2>6, <2>8
  <2>10. /\ NestTypes(rs, state, next) /\ GainsAddUp(rs)
         /\ NestSound(nRecords, nState, nPass) => NestSound(rs, state, next)
    <3>1. PICK pass : pass = nPass
      OBVIOUS
    <3>2. NestTypes(nRecords, nState, pass) /\ GainsAddUp(nRecords)
      BY <1>1, <3>1
    <3>3. PICK old, was : old = nRecords /\ was = nState
      OBVIOUS
    <3>4. Adds(old, was, pass, r, rs, state, b)
      BY <2>a, <2>3, <2>9, <3>2, <3>3 DEF Adds
    <3>5. /\ NestTypes(rs, state, pass) /\ GainsAddUp(rs)
          /\ NestSound(old, was, pass) => NestSound(rs, state, pass)
      BY <3>4, RecordInOrder
    <3> QED
      BY <2>3, <3>1, <3>3, <3>5
  <2>11. RowsKnown(rs, state)
    <3>1. \A i \in DOMAIN rs : rs[i] = r \/ (i \in DOMAIN nRecords /\ rs[i] = nRecords[i])
      <4>1. nRecords \in Seq(NestRecord) /\ rs \in Seq(NestRecord)
        BY <1>1, <2>10 DEF NestTypes
      <4> QED
        BY <2>3, <4>1
    <3>2. \A i \in DOMAIN nRecords : nRecords[i].bot \in NestBots
      BY <1>1, NestParts
    <3>3. \A i \in DOMAIN rs : state[rs[i].bot].known
      BY <1>1, <2>2, <2>9, <3>1, <3>2 DEF RowsKnown
    <3> QED
      BY <1>1, <2>9, <3>3 DEF RowsKnown
  <2> QED
    BY <1>1, <1>11, <2>3, <2>10, <2>11, NestWrites
<1> QED
  BY <1>5, <1>6, <1>7, <1>8, <1>9, <1>10, <1>12, <1>13, <1>14, <1>15 DEF NestNext

LEMMA NestHolds == NestIInv => PaidWithinGains
<1> SUFFICES ASSUME NestIInv, ~nRefused, NEW b \in NestBots \ Direct
             PROVE  nState[b].withdrawn <= GainsOf(b)
  BY DEF PaidWithinGains
<1>1. NestTypes(nRecords, nState, nPass) /\ NestSound(nRecords, nState, nPass)
  BY DEF NestIInv
<1>2. NestTypes(nRecords, nState, NestIdle) /\ Covered(nRecords, nState, NestIdle, b)
  BY <1>1, PassEnds DEF NestSound
<1>3. SentTo(nRecords, NestIdle, b) = 0 /\ nState[b].withdrawn \in Int
  BY <1>2, NestParts DEF SentTo, NestIdle
<1>4. GainsOf(b) = GainsIn(nRecords, b)
  BY DEF GainsOf, GainsIn, RecordsOf
<1> QED
  BY <1>2, <1>3, <1>4 DEF Covered

\* Until a request is turned down no bot paid to an exchange is paid more than its
\* gains, for any number of bots, records and passes, and whatever passes die.
THEOREM NestPaysGains == NestSpec => []PaidWithinGains
  BY NestHolds, NestInitHolds, NestStep, PTL DEF NestSpec

------------------------------------------------------------------------------
(* The types of the parts.  Those that bound a count say more than a type and   *)
(* need the books they follow from.                                            *)

\* Withdrawals: no exchange has more waiting than was earned, in memory or on
\* disk, so no request is larger.
InBounds(hist) == \A i \in DOMAIN hist : hist[i].amount \in 1 .. MaxEarned

AmountsBounded ==
    /\ wEarned \in [Exchanges -> 0 .. MaxEarned] /\ wPaid \in [Exchanges -> Nat]
    /\ \A e \in Exchanges : wPend[e] <= wEarned[e] /\ wFile.pend[e] <= wEarned[e]
    /\ InBounds(wHist) /\ InBounds(wFile.hist)
    /\ \A t \in Withdrawers : \A item \in wTask[t].left : item.amount <= MaxEarned

LEMMA RequestInBounds ==
    ASSUME NEW t \in Withdrawers, NEW hist, Verdict(t, hist), InBounds(wHist), InBounds(hist),
           WTypes, NEW e \in Exchanges, NEW amount \in 1 .. MaxEarned
    PROVE  InBounds(Append(hist, Processing(e, amount)))
<1>1. Processing(e, amount) \in WRequest /\ Processing(e, amount).amount = amount
  BY DEF Processing, WRequest
<1> QED
  BY <1>1 DEF InBounds, Verdict

LEMMA SettledInBounds ==
    ASSUME WTypes, RequestsSound, InBounds(wHist), NEW t \in Withdrawers, NEW success \in BOOLEAN,
           wTask[t].on
    PROVE  InBounds(Settled(t, success)) /\ Verdict(t, Settled(t, success))
<1>1. /\ wTask[t].req \in DOMAIN wHist /\ wHist \in [1 .. Len(wHist) -> WRequest]
      /\ Len(wHist) \in Nat
  BY DEF WTypes, RequestsSound
<1>2. PICK v : v = IF success THEN "completed" ELSE "failed"
  OBVIOUS
<1>3. Settled(t, success) = [wHist EXCEPT ![wTask[t].req] = [@ EXCEPT !.status = v]]
  BY <1>2 DEF Settled
<1>4. \A i \in DOMAIN wHist : Settled(t, success)[i].amount = wHist[i].amount
  BY <1>1, <1>3 DEF WRequest
<1>5. DOMAIN Settled(t, success) = DOMAIN wHist
  BY <1>3
<1> QED
  BY <1>4, <1>5, SettledSound DEF InBounds

LEMMA AmountsStep == WSafe /\ AmountsBounded /\ [WNext]_wvars => AmountsBounded'
<1> SUFFICES ASSUME WSafe, AmountsBounded, [WNext]_wvars PROVE AmountsBounded'
  OBVIOUS
<1> USE WAssumption
<1>1. /\ WTypes /\ RequestsSound /\ QuietIsSaved
      /\ Confirmers \subseteq Withdrawers /\ Manuals \subseteq Withdrawers
  BY DEF WSafe, Withdrawers
<1>2. ASSUME NEW e \in Exchanges, AllocateProfit(e) PROVE AmountsBounded'
  <2>1. /\ wEarned[e] < MaxEarned /\ wEarned' = [wEarned EXCEPT ![e] = @ + 1]
        /\ wPend' = [wPend EXCEPT ![e] = @ + 1] /\ wHist' = wHist
        /\ wFile' = [pend |-> wPend', hist |-> wHist] /\ UNCHANGED <<wTask, wPaid>>
    BY <1>2 DEF AllocateProfit, SaveData
  <2>2. \A x \in Exchanges : wPend'[x] <= wEarned'[x]
    BY <1>1, <2>1 DEF AmountsBounded, WTypes
  <2>3. wEarned' \in [Exchanges -> 0 .. MaxEarned]
    BY <2>1 DEF AmountsBounded
  <2> QED
    BY <2>1, <2>2, <2>3 DEF AmountsBounded
\* what follows an answer, or the list of what is pending
<1>3. ASSUME NEW t \in Withdrawers, NEW hist, Verdict(t, hist), InBounds(hist),
             NEW items \in SUBSET WItem, \A item \in items : item.amount <= MaxEarned,
             Consolidate(t, items, hist), wEarned' = wEarned, wPaid' \in [Exchanges -> Nat]
      PROVE  AmountsBounded'
  <2>1. CASE AllDone(t, hist)
    <3>1. /\ wPend' = Zero /\ wHist' = hist /\ wFile' = [pend |-> Zero, hist |-> hist]
          /\ \A u \in Withdrawers : \A item \in wTask'[u].left : item.amount <= MaxEarned
      BY <1>1, <2>1 DEF AllDone, AmountsBounded, WIdle, WTypes
    <3> QED
      BY <1>3, <3>1 DEF AmountsBounded, Zero
  <2>2. CASE \E item \in items : Requesting(t, items, hist, item)
    <3>1. PICK item \in items : Requesting(t, items, hist, item)
      BY <2>2
    <3>2. item.exchange \in Exchanges /\ item.amount \in 1 .. MaxEarned
      BY <1>3, <3>1 DEF Requesting, WItem
    <3>3. InBounds(wHist') /\ UNCHANGED <<wPend, wFile>>
      BY <1>1, <1>3, <3>1, <3>2, RequestInBounds DEF Requesting, AmountsBounded
    <3>4. PICK left \in SUBSET items :
              wTask' = [wTask EXCEPT ![t] = [on |-> TRUE, left |-> left, req |-> Len(hist) + 1]]
      BY <3>1 DEF Requesting
    <3>5. \A u \in Withdrawers : \A x \in wTask'[u].left : x.amount <= MaxEarned
      BY <1>1, <1>3, <3>4 DEF AmountsBounded, WTypes
    <3> QED
      BY <1>3, <3>3, <3>5 DEF AmountsBounded
  <2> QED
    BY <1>3, <2>1, <2>2, ConsolidateCases
<1>4. ASSUME NEW t \in Confirmers, Confirm(t) PROVE AmountsBounded'
  <2>1. PendingItems \in SUBSET WItem /\ \A item \in PendingItems : item.amount <= MaxEarned
    BY <1>1 DEF PendingItems, WItem, WTypes, AmountsBounded
  <2>2. /\ Verdict(t, wHist) /\ Consolidate(t, PendingItems, wHist)
        /\ wEarned' = wEarned /\ wPaid' = wPaid
    BY <1>1, <1>4 DEF Confirm, Verdict, WTypes
  <2> QED
    BY <1>1, <1>3, <2>1, <2>2 DEF AmountsBounded
<1>5. ASSUME NEW t \in Confirmers, NEW success \in BOOLEAN, Withdrawn(t, success)
      PROVE  AmountsBounded'
  <2>1. /\ wTask[t].on /\ Consolidate(t, wTask[t].left, Settled(t, success)) /\ wEarned' = wEarned
        /\ wPaid' = wPaid \/ wPaid' = Paying(t)
    BY <1>5 DEF Withdrawn
  <2>2. wHist[wTask[t].req] \in WRequest /\ wTask[t].left \in SUBSET WItem
    BY <1>1, <2>1 DEF WTypes, RequestsSound
  <2>3. PICK r \in WRequest : r = wHist[wTask[t].req]
    BY <2>2
  <2>4. r.exchange \in Exchanges /\ r.amount \in Nat
    BY DEF WRequest
  <2>5. wPaid' \in [Exchanges -> Nat]
    BY <2>1, <2>3, <2>4 DEF Paying, AmountsBounded
  <2>6. \A item \in wTask[t].left : item.amount <= MaxEarned
    BY <1>1 DEF AmountsBounded
  <2>7. InBounds(Settled(t, success)) /\ Verdict(t, Settled(t, success))
    BY <1>1, <2>1, SettledInBounds DEF AmountsBounded
  <2> QED
    BY <1>1, <1>3, <2>1, <2>2, <2>5, <2>6, <2>7
<1>6. ASSUME NEW t \in Manuals, NEW e \in Exchanges, ManualRequest(t, e) PROVE AmountsBounded'
  <2>1. Verdict(t, wHist) /\ 1 \in 1 .. MaxEarned /\ ~wTask[t].on
    BY <1>1, <1>6 DEF Verdict, WTypes, ManualRequest
  <2>2. InBounds(wHist')
    BY <1>1, <1>6, <2>1, RequestInBounds DEF ManualRequest, AmountsBounded
  <2>3. \A u \in Withdrawers : wTask'[u].left \subseteq wTask[u].left
    BY <1>1, <1>6 DEF ManualRequest, WTypes
  <2> QED
    BY <1>1, <1>6, <2>2, <2>3 DEF ManualRequest, AmountsBounded
<1>7. ASSUME NEW t \in Manuals, NEW success \in BOOLEAN, ManualWithdrawn(t, success)
      PROVE  AmountsBounded'
  <2>1. /\ InBounds(wHist') /\ wPend' = wPend /\ wFile' = [pend |-> wPend, hist |-> wHist']
        /\ wEarned' = wEarned /\ wPaid' = wPaid
    BY <1>1, <1>7, SettledInBounds DEF ManualWithdrawn, SaveData, AmountsBounded
  <2>2. \A u \in Withdrawers : wTask'[u].left \subseteq wTask[u].left
    BY <1>1, <1>7 DEF ManualWithdrawn, WIdle, WTypes
  <2> QED
    BY <1>1, <2>1, <2>2 DEF AmountsBounded
<1>8. CASE Restart
  BY <1>1, <1>8 DEF Restart, WIdle, AmountsBounded
<1>9. CASE UNCHANGED wvars
  BY <1>9 DEF wvars, AmountsBounded
<1> QED
  BY <1>2, <1>4, <1>5, <1>6, <1>7, <1>8, <1>9 DEF WNext

LEMMA WithdrawalsTyped == WSafe /\ AmountsBounded => WTypeOK
<1> SUFFICES ASSUME WSafe, AmountsBounded PROVE WTypeOK
  OBVIOUS
<1> USE WAssumption
<1>1. wPend \in [Exchanges -> 0 .. MaxEarned] /\ \A i \in DOMAIN wHist : wHist[i] \in WRequest
  BY DEF WSafe, WTypes, AmountsBounded
<1> QED
  BY <1>1 DEF WSafe, RequestsSound, AmountsBounded, InBounds, WTypeOK, WBusy, WRequest

\* Grid: the ids of the levels are those of orders.
GridTyped ==
    /\ gTop \in {gCount, GridLevels} /\ gSnap \subseteq DOMAIN gOrd /\ gBooked \subseteq DOMAIN gOrd
    /\ Len(gOrd) <= MaxGridOrders /\ gClean \in BOOLEAN
    /\ \A l \in GridSteps, s \in Sides : gLevels[l][s] \in 0 .. Len(gOrd)

LEMMA GridCreateTyped ==
    ASSUME GridTypes, GridTyped, NEW l \in GridSteps, NEW side \in Sides, NEW out \in Outcomes,
           Create(side, l, out)
    PROVE  /\ Len(gOrd') <= MaxGridOrders /\ DOMAIN gOrd \subseteq DOMAIN gOrd'
           /\ \A k \in GridSteps, s \in Sides : gLevels'[k][s] \in 0 .. Len(gOrd')
<1> USE GridAssumption
<1>1. gOrd \in Seq(GridOrder) /\ Len(gOrd) < MaxGridOrders /\ gLevels \in [GridSteps -> [Sides -> Nat]]
  BY DEF Create, GridTypes
<1>2. CASE Served(out)
  <2>1. PICK o : gOrd' = Append(gOrd, o)
    BY <1>2 DEF Create
  <2>2. Len(gOrd') = Len(gOrd) + 1 /\ DOMAIN gOrd \subseteq DOMAIN gOrd'
    BY <1>1, <2>1
  <2>3. ASSUME NEW k \in GridSteps, NEW s \in Sides PROVE gLevels'[k][s] \in 0 .. Len(gOrd')
    <3>1. gLevels'[k][s] = gLevels[k][s] \/ gLevels'[k][s] = Len(gOrd) + 1
      BY <1>1 DEF Create
    <3> QED
      BY <1>1, <2>2, <3>1 DEF GridTyped
  <2> QED
    BY <1>1, <2>2, <2>3
<1>3. CASE ~Served(out)
  BY <1>1, <1>3 DEF Create, GridTyped, Served, AnswerCame
<1> QED
  BY <1>2, <1>3

LEMMA GridPlaceTyped ==
    ASSUME GridTypes, GridTyped, NEW l \in GridSteps, NEW out \in Outcomes,
           PlaceBuyOrder(l, out) \/ PlaceSellOrder(l, out) \/ UNCHANGED <<gOrd, gLevels>>
    PROVE  /\ Len(gOrd') <= MaxGridOrders /\ DOMAIN gOrd \subseteq DOMAIN gOrd'
           /\ \A k \in GridSteps, s \in Sides : gLevels'[k][s] \in 0 .. Len(gOrd')
<1>1. CASE UNCHANGED <<gOrd, gLevels>>
  BY <1>1 DEF GridTyped
<1>2. CASE Create("buy", l, out) \/ Create("sell", l, out)
  BY <1>2, GridCreateTyped DEF Sides
<1> QED
  BY <1>1, <1>2 DEF PlaceBuyOrder, PlaceSellOrder

\* The orders there were are still there, and the levels name them.
GridKept ==
    /\ DOMAIN gOrd \subseteq DOMAIN gOrd' /\ Len(gOrd') <= MaxGridOrders
    /\ \A l \in GridSteps, s \in Sides : gLevels'[l][s] \in 0 .. Len(gOrd')

LEMMA GridTypedStep == GridIInv /\ GridIInv' /\ GridTyped /\ [GridNext]_gvars => GridTyped'
<1> SUFFICES ASSUME GridIInv, GridIInv', GridTyped, [GridNext]_gvars PROVE GridTyped'
  OBVIOUS
<1> USE GridAssumption
<1>1. /\ GridTypes /\ gOrd \in Seq(GridOrder) /\ gOrd' \in Seq(GridOrder)
      /\ gLevels \in [GridSteps -> [Sides -> Nat]] /\ gNext \in GridSteps
      /\ gCount \in Nat /\ gCount <= GridLevels /\ gSide \in Sides
  BY DEF GridIInv, GridTypes
<1>2. ASSUME DOMAIN gOrd' = DOMAIN gOrd,
             gLevels' = gLevels \/ gLevels' = [l \in GridSteps |-> NoIds]
      PROVE  GridKept
  <2>1. Len(gOrd') = Len(gOrd) /\ Len(gOrd) \in Nat
    BY <1>1, <1>2
  <2>2. \A l \in GridSteps, s \in Sides : gLevels'[l][s] \in 0 .. Len(gOrd)
    BY <1>2, <2>1 DEF GridTyped, NoIds
  <2> QED
    BY <1>2, <2>1, <2>2 DEF GridKept, GridTyped
<1>3. ASSUME GridKept, gTop' \in {gCount', GridLevels},
             gSnap' \subseteq DOMAIN gOrd, gBooked' \subseteq DOMAIN gOrd, gClean' \in BOOLEAN
      PROVE  GridTyped'
  BY <1>3 DEF GridKept, GridTyped
<1>4. LooksFilled => gLevels[gNext][gSide] \in DOMAIN gOrd
  <2>1. gLevels[gNext][gSide] \in 0 .. Len(gOrd) /\ DOMAIN gOrd = 1 .. Len(gOrd) /\ Len(gOrd) \in Nat
    BY <1>1 DEF GridTyped
  <2> QED
    BY <2>1 DEF LooksFilled
<1>5. CASE UNCHANGED gvars
  BY <1>5 DEF gvars, GridTyped
<1>6. ASSUME NEW out \in Outcomes, LeaveGrid(out) PROVE GridKept /\ gClean' \in BOOLEAN
  <2>1. DOMAIN gOrd' = DOMAIN gOrd
    BY <1>6 DEF LeaveGrid
  <2>2. gLevels' = [l \in GridSteps |-> NoIds] /\ gClean' \in BOOLEAN
    BY <1>6 DEF LeaveGrid, Served
  <2> QED
    BY <1>2, <2>1, <2>2
<1>7. ASSUME NEW out \in Outcomes, NEW permitted \in BOOLEAN, NEW count \in GridCounts,
             Initialize(out, permitted, count)
      PROVE  GridTyped'
  BY <1>3, <1>6, <1>7 DEF Initialize, GridTyped
<1>8. ASSUME NEW out \in Outcomes, NEW skip \in BOOLEAN, PlaceInitial(out, skip) PROVE GridTyped'
  <2>1. GridKept
    BY <1>1, <1>8, GridPlaceTyped DEF PlaceInitial, GridKept
  <2> QED
    BY <1>3, <1>8, <2>1 DEF PlaceInitial, GridTyped
<1>9. ASSUME NEW out \in Outcomes, MonitorOrders(out) PROVE GridTyped'
  <2>1. GridKept
    BY <1>2, <1>9 DEF MonitorOrders
  <2>2. gSnap' \subseteq DOMAIN gOrd
    BY <1>9 DEF MonitorOrders, OpenIds
  <2> QED
    BY <1>3, <1>9, <2>1, <2>2 DEF MonitorOrders, GridTyped
<1>10. ASSUME NEW out \in Outcomes, VisitLevel(out) PROVE GridTyped'
  <2>1. GridKept
    <3>1. CASE gNext + 1 < gCount /\ PlaceSellOrder(gNext + 1, out)
      <4>1. gNext + 1 \in GridSteps
        BY <1>1, <3>1 DEF GridSteps
      <4> QED
        BY <1>1, <3>1, <4>1, GridPlaceTyped DEF GridKept
    <3>2. CASE gNext > 0 /\ PlaceBuyOrder(gNext - 1, out)
      <4>1. gNext - 1 \in GridSteps
        BY <1>1, <3>2 DEF GridSteps
      <4> QED
        BY <1>1, <3>2, <4>1, GridPlaceTyped DEF GridKept
    <3>3. CASE UNCHANGED <<gOrd, gLevels>>
      BY <1>2, <3>3
    <3> QED
      BY <1>10, <3>1, <3>2, <3>3 DEF VisitLevel, HandleFilled
  <2>2. gBooked' \subseteq DOMAIN gOrd
    BY <1>4, <1>10 DEF VisitLevel, HandleFilled, GridTyped
  <2>3. gSnap' \subseteq DOMAIN gOrd /\ gTop' = gTop /\ gCount' = gCount /\ gClean' = gClean
    BY <1>10 DEF VisitLevel, GridTyped
  <2> QED
    BY <1>3, <2>1, <2>2, <2>3 DEF GridTyped
<1>11. ASSUME NEW out \in Outcomes, Rebalance(out) PROVE GridTyped'
  BY <1>3, <1>6, <1>11 DEF Rebalance, GridTyped
<1>12. ASSUME NEW out \in Outcomes, StopGrid(out) PROVE GridTyped'
  <2>1. DOMAIN gOrd' = DOMAIN gOrd /\ gLevels' = gLevels /\ gClean' \in BOOLEAN
    BY <1>12 DEF StopGrid, CancelAll, AllCancelled, Served
  <2> QED
    BY <1>2, <1>3, <1>12, <2>1 DEF StopGrid, GridTyped
<1>13. ASSUME NEW cut \in BOOLEAN, CancelRun(cut) PROVE GridTyped'
  <2>1. GridKept
    BY <1>2, <1>13 DEF CancelRun
  <2>2. gBooked' \subseteq DOMAIN gOrd /\ gSnap' = {}
    BY <1>4, <1>13 DEF CancelRun, GridTyped
  <2> QED
    BY <1>3, <1>13, <2>1, <2>2 DEF CancelRun, GridTyped
<1>14. CASE StayInRange
  BY <1>14 DEF StayInRange, GridTyped
<1>15. CASE ServeCut
  <2>1. PICK o : gOrd' = Append(gOrd, o) /\ Len(gOrd) < MaxGridOrders
    BY <1>15 DEF ServeCut
  <2>2. Len(gOrd') = Len(gOrd) + 1 /\ DOMAIN gOrd \subseteq DOMAIN gOrd' /\ Len(gOrd) \in Nat
    BY <1>1, <2>1
  <2>3. gLevels' = gLevels
    BY <1>15 DEF ServeCut
  <2>4. GridKept
    BY <2>1, <2>2, <2>3 DEF GridKept, GridTyped
  <2> QED
    BY <1>3, <1>15, <2>4 DEF ServeCut, GridTyped
<1>16. ASSUME NEW i \in DOMAIN gOrd, OrderFills(i) PROVE GridTyped'
  <2>1. DOMAIN gOrd' = DOMAIN gOrd
    BY <1>16 DEF OrderFills
  <2> QED
    BY <1>2, <1>3, <1>16, <2>1 DEF OrderFills, GridTyped
<1> QED
  BY <1>5, <1>7, <1>8, <1>9, <1>10, <1>11, <1>12, <1>13, <1>14, <1>15, <1>16 DEF GridNext

LEMMA GridIsTyped == GridIInv /\ GridTyped => GridTypeOK
<1> SUFFICES ASSUME GridIInv, GridTyped PROVE GridTypeOK
  OBVIOUS
<1> USE GridAssumption
<1>1. gOrd \in Seq(GridOrder) /\ Len(gOrd) \in Nat /\ gLevels \in [GridSteps -> [Sides -> Nat]]
  BY DEF GridIInv, GridTypes
<1>2. \A l \in GridSteps, s \in Sides : gLevels[l][s] \in 0 .. MaxGridOrders
  BY <1>1 DEF GridTyped
<1>3. gLevels \in [GridSteps -> [Sides -> 0 .. MaxGridOrders]]
  BY <1>1, <1>2
<1> QED
  BY <1>3 DEF GridIInv, GridTypes, GridTyped, GridTypeOK

\* The funding bot: what is held is within its bound.
FundTyped == fNeg \subseteq Keys /\ fHeld \in [Keys -> 0 .. MaxFundHeld]

LEMMA FundTypedInit == FundInit => FundTyped
  BY FundAssumption DEF FundInit, FundTyped

LEMMA FundTypedStep == FundIInv /\ FundTyped /\ [FundNext]_fvars => FundTyped'
<1> SUFFICES ASSUME FundIInv, FundTyped, [FundNext]_fvars PROVE FundTyped'
  OBVIOUS
<1> USE FundAssumption DEF FundTyped
<1>1. CASE UNCHANGED fvars
  BY <1>1 DEF fvars
<1>2. CASE FundRun \/ CheckExits \/ Exited \/ ExitsDone \/ FundStop
  BY <1>2 DEF FundRun, CheckExits, Exited, ExitsDone, FundStop
<1>3. ASSUME NEW high \in SUBSET Keys, NEW neg \in SUBSET Keys, FetchRates(high, neg) PROVE FundTyped'
  BY <1>3 DEF FetchRates
<1>4. ASSUME NEW key \in Keys, NEW out \in Outcomes, EnterHedge(key, out) PROVE FundTyped'
  BY <1>4 DEF EnterHedge
<1>5. ASSUME NEW s \in FundSymbols, NEW out \in Outcomes, ExitPosition(s, out) PROVE FundTyped'
  <2>1. <<fPos[s], s>> \in Keys
    BY <1>5 DEF ExitPosition, FundIInv, HeldSymbols, Keys
  <2> QED
    BY <1>5, <2>1 DEF ExitPosition
<1>6. ASSUME NEW keep \in BOOLEAN, CancelFund(keep) PROVE FundTyped'
  <2>1. \A s \in fTodo : <<fPos[s], s>> \in Keys
    BY DEF FundIInv, HeldSymbols, Keys
  <2>2. fHigh \subseteq Keys
    BY DEF FundIInv
  <2>3. \/ fHeld' = fHeld
        \/ \E key \in fHigh : fHeld[key] < MaxFundHeld /\ fHeld' = [fHeld EXCEPT ![key] = @ + 1]
        \/ \E s \in fTodo : fHeld[<<fPos[s], s>>] > 0 /\ fHeld' = [fHeld EXCEPT ![<<fPos[s], s>>] = @ - 1]
    BY <1>6 DEF CancelFund
  <2>4. fHeld' \in [Keys -> 0 .. MaxFundHeld]
    <3>1. ASSUME NEW key \in Keys, fHeld[key] < MaxFundHeld, fHeld' = [fHeld EXCEPT ![key] = @ + 1]
          PROVE  fHeld' \in [Keys -> 0 .. MaxFundHeld]
      BY <3>1
    <3>2. ASSUME NEW key \in Keys, fHeld[key] > 0, fHeld' = [fHeld EXCEPT ![key] = @ - 1]
          PROVE  fHeld' \in [Keys -> 0 .. MaxFundHeld]
      BY <3>2
    <3> QED
      BY <2>1, <2>2, <2>3, <3>1, <3>2
  <2> QED
    BY <1>6, <2>4 DEF CancelFund
<1> QED
  BY <1>1, <1>2, <1>3, <1>4, <1>5, <1>6 DEF FundNext

LEMMA FundIsTyped == FundIInv /\ FundTyped => FundTypeOK
  BY DEF FundIInv, FundTyped, FundTypeOK

\* The scalper.
ScalpTyped == cState \in {"idle", "running", "error"} /\ cSafe \in BOOLEAN /\ cHeld <= MaxScalpHeld

LEMMA ScalpTypedInit == ScalpInit => ScalpTyped
<1> SUFFICES ASSUME ScalpInit PROVE ScalpTyped
  OBVIOUS
<1>1. cHeld <= MaxScalpHeld
  BY ScalpAssumption DEF ScalpInit
<1> QED
  BY <1>1 DEF ScalpInit, ScalpTyped

LEMMA ScalpTypedStep == ScalpIInv /\ ScalpTyped /\ [ScalpNext]_cvars => ScalpTyped'
<1> SUFFICES ASSUME ScalpIInv, ScalpTyped, [ScalpNext]_cvars PROVE ScalpTyped'
  OBVIOUS
<1>1. cHeld \in Nat /\ MaxScalpHeld \in Nat
  BY ScalpAssumption DEF ScalpIInv
<1>2. CASE UNCHANGED cvars
  BY <1>2 DEF cvars, ScalpTyped
<1>3. CASE ScalpPass \/ ScalpLooked \/ ScalpWatched
  BY <1>3 DEF ScalpPass, ScalpLooked, ScalpWatched, cBooks, ScalpTyped
<1>4. ASSUME NEW ready \in BOOLEAN, ScalpRun(ready) PROVE ScalpTyped'
  BY <1>4 DEF ScalpRun, cBooks, ScalpTyped
<1>5. ASSUME NEW out \in Outcomes, NEW network \in BOOLEAN, OpenLong(out, network) PROVE ScalpTyped'
  BY <1>1, <1>5 DEF OpenLong, ScalpTyped
<1>6. ASSUME NEW w \in ScalpTasks, ScalpStopping(w) \/ ScalpClosed(w) PROVE ScalpTyped'
  BY <1>6 DEF ScalpStopping, ScalpClosed, cBooks, ScalpTyped
<1>7. ASSUME NEW w \in ScalpTasks, NEW out \in Outcomes, NEW network \in BOOLEAN, NEW pnl \in -1 .. 1,
             CloseScalp(w, out, network, pnl)
      PROVE  ScalpTyped'
  BY <1>1, <1>7 DEF CloseScalp, ScalpTyped
<1>8. ASSUME NEW state \in {"idle", "error"}, ScalpStop(state) PROVE ScalpTyped'
  BY <1>8 DEF ScalpStop, cBooks, ScalpTyped
<1>9. ASSUME NEW served \in BOOLEAN, CancelScalp(served) PROVE ScalpTyped'
  <2>1. cHeld' <= MaxScalpHeld
    BY <1>1, <1>9 DEF CancelScalp, ScalpTyped
  <2> QED
    BY <1>9, <2>1 DEF CancelScalp, ScalpTyped
<1> QED
  BY <1>2, <1>3, <1>4, <1>5, <1>6, <1>7, <1>8, <1>9 DEF ScalpNext

LEMMA ScalpIsTyped == ScalpIInv /\ ScalpTyped => ScalpTypeOK
  BY ScalpAssumption DEF ScalpIInv, ScalpPlacesOK, ScalpTyped, ScalpTypeOK

\* The triangular bot: no dollar is made, so that what the third legs spent and
\* what was withdrawn of it are a part of the dollars there were.
TriTyped ==
    /\ tStatus \in {"idle", "running", "error"}
    /\ tTickers \in [TriLegs -> {"none", "fresh", "old"}]
    /\ tWallet.usdt + tWallet.coin1 + tWallet.rest <= Usdt

LEMMA TriTypedInit == TriInit => TriTyped
  BY TriAssumption DEF TriInit, TriTyped

LEMMA DollarsBought ==
    ASSUME tWallet \in [Coins -> Nat], tLeg \in [spent : Nat, coins : Nat, profit : Nat],
           NEW n \in 1 .. 3, CanBuy(n)
    PROVE  Bought(n).usdt + Bought(n).coin1 + Bought(n).rest
               <= tWallet.usdt + tWallet.coin1 + tWallet.rest
<1>0. /\ tWallet.usdt \in Nat /\ tWallet.coin1 \in Nat /\ tWallet.coin2 \in Nat /\ tWallet.rest \in Nat
      /\ tLeg.spent \in Nat /\ tLeg.coins \in Nat
  BY DEF Coins
<1>1. CASE n = 1
  <2>1. Bought(n) = Swapped("usdt", tLeg.spent, "coin1", tLeg.spent)
    BY <1>1 DEF Bought
  <2>2. PICK less, more \in Int : less = tWallet.usdt - tLeg.spent /\ more = tWallet.coin1 + tLeg.spent
    BY <1>0
  <2>3. Bought(n) = [[tWallet EXCEPT !["usdt"] = less] EXCEPT !["coin1"] = more]
    BY <2>1, <2>2 DEF Swapped
  <2>4. Bought(n).usdt = less /\ Bought(n).coin1 = more /\ Bought(n).rest = tWallet.rest
    BY <2>3 DEF Coins
  <2> QED
    BY <1>0, <2>2, <2>4
<1>2. CASE n = 2
  <2>1. Bought(n) = Swapped("coin1", tLeg.spent, "coin2", tLeg.coins)
    BY <1>2 DEF Bought
  <2>2. PICK less, more \in Int : less = tWallet.coin1 - tLeg.spent /\ more = tWallet.coin2 + tLeg.coins
    BY <1>0
  <2>3. Bought(n) = [[tWallet EXCEPT !["coin1"] = less] EXCEPT !["coin2"] = more]
    BY <2>1, <2>2 DEF Swapped
  <2>4. Bought(n).usdt = tWallet.usdt /\ Bought(n).coin1 = less /\ Bought(n).rest = tWallet.rest
    BY <2>3 DEF Coins
  <2> QED
    BY <1>0, <2>2, <2>4
<1>3. CASE n = 3
  <2>1. Bought(n) = Swapped("usdt", tLeg.coins, "rest", tLeg.coins)
    BY <1>3 DEF Bought
  <2>2. PICK less, more \in Int : less = tWallet.usdt - tLeg.coins /\ more = tWallet.rest + tLeg.coins
    BY <1>0
  <2>3. Bought(n) = [[tWallet EXCEPT !["usdt"] = less] EXCEPT !["rest"] = more]
    BY <2>1, <2>2 DEF Swapped
  <2>4. Bought(n).usdt = less /\ Bought(n).coin1 = tWallet.coin1 /\ Bought(n).rest = more
    BY <2>3 DEF Coins
  <2> QED
    BY <1>0, <2>2, <2>4
<1> QED
  BY <1>1, <1>2, <1>3

LEMMA DollarsPaid ==
    ASSUME tWallet \in [Coins -> Nat], tLeg \in [spent : Nat, coins : Nat, profit : Nat]
    PROVE  AfterPayment.usdt + AfterPayment.coin1 + AfterPayment.rest
               <= tWallet.usdt + tWallet.coin1 + tWallet.rest
<1>1. /\ tWallet.usdt \in Nat /\ tWallet.coin1 \in Nat /\ tWallet.rest \in Nat /\ tLeg.profit \in Nat
  BY DEF Coins
<1>2. /\ AfterPayment.usdt = tWallet.usdt - tLeg.profit
      /\ AfterPayment.coin1 = tWallet.coin1 /\ AfterPayment.rest = tWallet.rest
  BY DEF AfterPayment, Coins
<1> QED
  BY <1>1, <1>2

LEMMA TriTypedStep == TriIInv /\ TriIInv' /\ TriTyped /\ [TriNext]_tvars => TriTyped'
<1> SUFFICES ASSUME TriIInv, TriIInv', TriTyped, [TriNext]_tvars PROVE TriTyped'
  OBVIOUS
<1>0. /\ tWallet \in [Coins -> Nat] /\ tWallet' \in [Coins -> Nat]
      /\ tLeg \in [spent : Nat, coins : Nat, profit : Nat] /\ Usdt \in Nat
  BY TriAssumption DEF TriIInv, TriTypes
<1>1. ASSUME tWallet' = tWallet \/ (tWallet' = AfterPayment /\ CanPay)
                 \/ (\E n \in 1 .. 3 : tWallet' = Bought(n) /\ CanBuy(n))
      PROVE  tWallet'.usdt + tWallet'.coin1 + tWallet'.rest <= Usdt
  <2>1. /\ tWallet.usdt \in Nat /\ tWallet.coin1 \in Nat /\ tWallet.rest \in Nat
        /\ tWallet'.usdt \in Nat /\ tWallet'.coin1 \in Nat /\ tWallet'.rest \in Nat
        /\ tWallet.usdt + tWallet.coin1 + tWallet.rest <= Usdt
    BY <1>0 DEF Coins, TriTyped
  <2>2. tWallet'.usdt + tWallet'.coin1 + tWallet'.rest <= tWallet.usdt + tWallet.coin1 + tWallet.rest
    <3>1. CASE tWallet' = tWallet
      BY <2>1, <3>1
    <3>2. CASE tWallet' = AfterPayment
      BY <1>0, <3>2, DollarsPaid
    <3>3. ASSUME NEW n \in 1 .. 3, tWallet' = Bought(n), CanBuy(n)
          PROVE  tWallet'.usdt + tWallet'.coin1 + tWallet'.rest
                     <= tWallet.usdt + tWallet.coin1 + tWallet.rest
      BY <1>0, <3>3, DollarsBought
    <3> QED
      BY <1>1, <3>1, <3>2, <3>3
  <2> QED
    BY <1>0, <2>1, <2>2
<1>2. \A read \in 0 .. 3 : TickersRead(read) \in [TriLegs -> {"none", "fresh", "old"}]
  BY DEF TriTyped, TickersRead, TriLegs
<1>3. CASE UNCHANGED tvars
  BY <1>3 DEF tvars, TriTyped
<1>4. CASE TriLoopEnds \/ StopTri
  BY <1>4 DEF TriLoopEnds, StopTri, tBooks, TriTyped
<1>5. CASE TickersAge
  BY <1>5 DEF TickersAge, tBooks, TriTyped
<1>6. ASSUME NEW ready \in BOOLEAN, TriRun(ready) PROVE TriTyped'
  BY <1>6 DEF TriRun, tBooks, TriTyped
<1>7. ASSUME NEW read \in 0 .. 3, NEW profit \in BOOLEAN, UpdateTickers(read, profit) PROVE TriTyped'
  BY <1>2, <1>7 DEF UpdateTickers, tBooks, TriTyped
<1>8. ASSUME NEW out \in Outcomes, Opportunity(out) PROVE TriTyped'
  BY <1>8 DEF Opportunity, tBooks, TriTyped
<1>9. ASSUME NEW out \in Outcomes, PayProfit(out) PROVE TriTyped'
  <2>1. tWallet' = tWallet \/ (tWallet' = AfterPayment /\ CanPay)
    BY <1>9 DEF PayProfit
  <2>2. tWallet'.usdt + tWallet'.coin1 + tWallet'.rest <= Usdt
    BY <1>1, <2>1
  <2> QED
    BY <1>9, <2>2 DEF PayProfit, TriTyped
<1>10. ASSUME NEW out \in Outcomes, NEW coins \in LegCoins, FundsSeen(out, coins) PROVE TriTyped'
  BY <1>10 DEF FundsSeen, tBooks, TriTyped
<1>11. ASSUME NEW out \in Outcomes, NEW profit \in 0 .. tLeg.coins, NextLeg(out, profit) PROVE TriTyped'
  <2>1. PICK n \in 1 .. 3 : n = tSettled + 1
    BY <1>11 DEF TriIInv, NextLeg
  <2>2. tWallet' = tWallet \/ (tWallet' = Bought(n) /\ CanBuy(n))
    BY <1>11, <2>1 DEF NextLeg
  <2>3. tWallet'.usdt + tWallet'.coin1 + tWallet'.rest <= Usdt
    BY <1>1, <2>2
  <2> QED
    BY <1>11, <2>3 DEF NextLeg, TriTyped
<1>12. ASSUME NEW served \in BOOLEAN, NEW read \in 0 .. 3, CancelTri(served, read) PROVE TriTyped'
  <2>1. \/ tWallet' = tWallet \/ (tWallet' = AfterPayment /\ CanPay)
        \/ tAt = "legs" /\ tWallet' = Bought(tSettled + 1) /\ CanBuy(tSettled + 1)
    BY <1>12 DEF CancelTri
  <2>2. tAt = "legs" => tSettled + 1 \in 1 .. 3
    BY DEF TriIInv
  <2>3. tWallet'.usdt + tWallet'.coin1 + tWallet'.rest <= Usdt
    BY <1>1, <2>1, <2>2
  <2>4. tTickers' \in [TriLegs -> {"none", "fresh", "old"}] /\ tStatus' = "idle"
    BY <1>2, <1>12 DEF CancelTri
  <2> QED
    BY <2>3, <2>4 DEF TriTyped
<1> QED
  BY <1>3, <1>4, <1>5, <1>6, <1>7, <1>8, <1>9, <1>10, <1>11, <1>12 DEF TriNext

LEMMA TriIsTyped == TriIInv /\ TriTyped => TriTypeOK
<1> SUFFICES ASSUME TriIInv, TriTyped PROVE TriTypeOK
  OBVIOUS
<1>1. /\ tWallet.usdt \in Nat /\ tWallet.coin1 \in Nat /\ tWallet.rest \in Nat /\ tLeg.profit \in Nat
      /\ tPaid \in Nat /\ tTrades \in Nat /\ Usdt \in Nat
  BY TriAssumption DEF TriIInv, TriTypes, Coins
<1>2. tPaid + tTrades <= tWallet.rest
  <2>1. tPaid + tTrades + (IF tAt = "paying" THEN tLeg.profit ELSE 0) <= tWallet.rest
    BY DEF TriIInv, LegIsFunded
  <2> QED
    BY <1>1, <2>1
<1>3. tPaid \in 0 .. Usdt /\ tTrades \in 0 .. Usdt
  <2>1. tWallet.usdt + tWallet.coin1 + tWallet.rest <= Usdt
    BY DEF TriTyped
  <2> QED
    BY <1>1, <1>2, <2>1
<1>4. tLeg \in [{"spent", "coins", "profit"} -> Nat]
  BY DEF TriIInv, TriTypes
<1> QED
  BY <1>3, <1>4 DEF TriIInv, TriTypes, TriTyped, TriTypeOK, Coins

\* The bot of Hyperliquid: a sale reduces what is held, to nothing at most.
LEMMA HyperTypedInit == HyperInit => HyperTypeOK
<1> SUFFICES ASSUME HyperInit PROVE HyperTypeOK
  OBVIOUS
<1>1. hSize \in 0 .. MaxExposure /\ hHeld \in -MaxExposure .. MaxExposure
  BY HyperAssumption DEF HyperInit
<1> QED
  BY <1>1 DEF HyperInit, HyperTypeOK

LEMMA SignsOfAll ==
    \A x \in Int : /\ Sign(x) \in {-1, 0, 1} /\ Abs(x) \in Nat
                   /\ Sign(x) = 1 => x > 0 /\ Abs(x) = x
                   /\ Sign(x) = -1 => x < 0 /\ Abs(x) = -x
                   /\ Sign(x) = 0 => x = 0 /\ Abs(x) = 0
<1> SUFFICES ASSUME NEW x \in Int
             PROVE  /\ Sign(x) \in {-1, 0, 1} /\ Abs(x) \in Nat
                    /\ Sign(x) = 1 => x > 0 /\ Abs(x) = x
                    /\ Sign(x) = -1 => x < 0 /\ Abs(x) = -x
                    /\ Sign(x) = 0 => x = 0 /\ Abs(x) = 0
  OBVIOUS
<1>1. CASE x > 0
  <2>1. Sign(x) = 1 /\ Abs(x) = 1 * x
    BY <1>1 DEF Sign, Abs
  <2> QED
    BY <1>1, <2>1
<1>2. CASE x < 0
  <2>1. Sign(x) = -1 /\ Abs(x) = (-1) * x
    BY <1>2 DEF Sign, Abs
  <2> QED
    BY <1>2, <2>1
<1>3. CASE x = 0
  <2>1. Sign(x) = 0 /\ Abs(x) = 0 * x
    BY <1>3 DEF Sign, Abs
  <2> QED
    BY <1>3, <2>1
<1> QED
  BY <1>1, <1>2, <1>3

LEMMA ClosedWithin ==
    ASSUME HyperTypeOK, NEW out \in Outcomes, CloseHyper(out)
    PROVE  hHeld' \in -MaxExposure .. MaxExposure
<1>1. /\ MaxExposure \in Nat /\ hHeld \in Int /\ hHeld >= -MaxExposure /\ hHeld <= MaxExposure
      /\ hSize \in Nat /\ hSeen \in {-1, 0, 1}
  BY HyperAssumption DEF HyperTypeOK
<1>2. CASE hHeld' = hHeld
  BY <1>1, <1>2
<1>3. CASE hHeld' # hHeld
  <2>1. PICK m : m = IF hSize > Abs(hHeld) THEN Abs(hHeld) ELSE hSize
    OBVIOUS
  <2>2. hHeld' = hHeld - hSeen * m /\ Sign(hHeld) = hSeen
    BY <1>3, <2>1 DEF CloseHyper
  <2>3. m \in Nat /\ m <= Abs(hHeld) /\ Abs(hHeld) \in Nat
    BY <1>1, <2>1, SignsOfAll
  <2>4. CASE hSeen = 1
    <3>1. hHeld' = hHeld - m /\ hHeld > 0 /\ m <= hHeld
      BY <1>1, <2>2, <2>3, <2>4, SignsOfAll
    <3> QED
      BY <1>1, <2>3, <3>1
  <2>5. CASE hSeen = -1
    <3>1. hHeld' = hHeld + m /\ hHeld < 0 /\ m <= -hHeld
      BY <1>1, <2>2, <2>3, <2>5, SignsOfAll
    <3> QED
      BY <1>1, <2>3, <3>1
  <2>6. CASE hSeen = 0
    <3>1. hHeld' = hHeld
      BY <1>1, <2>2, <2>3, <2>6
    <3> QED
      BY <1>3, <3>1
  <2> QED
    BY <1>1, <2>4, <2>5, <2>6
<1> QED
  BY <1>2, <1>3

LEMMA HyperTypedStep == HyperTypeOK /\ [HyperNext]_hvars => HyperTypeOK'
<1> SUFFICES ASSUME HyperTypeOK, [HyperNext]_hvars PROVE HyperTypeOK'
  OBVIOUS
<1>1. CASE UNCHANGED hvars
  BY <1>1 DEF hvars, HyperTypeOK
<1>2. CASE HyperRun \/ Hold \/ CancelHyper
  BY <1>2 DEF HyperRun, Hold, CancelHyper, HyperTypeOK
<1>3. ASSUME NEW answered \in BOOLEAN, GetCurrentPosition(answered) PROVE HyperTypeOK'
  <2>1. /\ MaxExposure \in Nat /\ hHeld \in Int /\ hHeld >= -MaxExposure /\ hHeld <= MaxExposure
    BY HyperAssumption DEF HyperTypeOK
  <2>2. Sign(hHeld) \in {-1, 0, 1}
    BY <2>1, SignsOfAll
  <2>3. Abs(hHeld) \in 0 .. MaxExposure
    <3>1. Abs(hHeld) \in Nat /\ Abs(hHeld) \in {hHeld, -hHeld, 0}
      BY <2>1, <2>2, SignsOfAll
    <3> QED
      BY <2>1, <3>1
  <2>4. hSeen' \in {-1, 0, 1} /\ hAt' = "pass" /\ hHeld' = hHeld
    BY <1>3, <2>2 DEF GetCurrentPosition
  <2>5. hSize' \in 0 .. MaxExposure
    BY <1>3, <2>1, <2>3 DEF GetCurrentPosition
  <2>6. hBlind' \in BOOLEAN
    BY <1>3 DEF GetCurrentPosition
  <2> QED
    BY <2>4, <2>5, <2>6 DEF HyperTypeOK
<1>4. ASSUME NEW out \in Outcomes, ExitHyper(out) PROVE HyperTypeOK'
  BY <1>4, ClosedWithin DEF ExitHyper, HyperTypeOK
<1>5. ASSUME NEW out \in Outcomes, ReverseHyper(out) PROVE HyperTypeOK'
  BY <1>5, ClosedWithin DEF ReverseHyper, HyperTypeOK
<1>6. ASSUME NEW out \in Outcomes, OpenHyper(out) PROVE HyperTypeOK'
  <2>1. hHeld' \in Int /\ Abs(hHeld') <= MaxExposure /\ MaxExposure \in Nat
    BY <1>6, HyperAssumption DEF OpenHyper, HyperTypeOK
  <2>2. PICK h \in Int : h = hHeld' /\ Abs(h) <= MaxExposure
    BY <2>1
  <2>3. h \in -MaxExposure .. MaxExposure
    BY <2>1, <2>2, SignsOfAll
  <2> QED
    BY <1>6, <2>2, <2>3 DEF OpenHyper, HyperTypeOK
<1>7. ASSUME NEW side \in {"long", "short"}, EnterHyper(side) PROVE HyperTypeOK'
  BY <1>7 DEF EnterHyper, HyperTypeOK
<1> QED
  BY <1>1, <1>2, <1>3, <1>4, <1>5, <1>6, <1>7 DEF HyperNext

\* The stock bot: one rejected order at most sets what is held and what is shown
\* apart by one entry.
Shown(s) == IF s \in iPos THEN 1 ELSE 0
Apart == \A s \in IbkrSymbols : iHeld[s] - Shown(s) \in {-1, 0, 1}

IbkrTyped ==
    /\ iStatus \in {"idle", "running"} /\ iUp \in BOOLEAN /\ iLost \in BOOLEAN
    /\ iPos \subseteq IbkrSymbols /\ Apart
    /\ iRun \in [at : {"off", "connect", "trade", "manage", "stop"}, todo : SUBSET IbkrSymbols]
    /\ iStop \in [at : {"off", "stop"}, todo : SUBSET IbkrSymbols]

LEMMA IbkrTypedInit == IbkrInit => IbkrTyped
<1> SUFFICES ASSUME IbkrInit PROVE IbkrTyped
  OBVIOUS
<1>1. Apart
  BY DEF IbkrInit, Apart, Shown
<1> QED
  BY <1>1 DEF IbkrInit, IbkrTyped, IbkrAt

LEMMA IbkrOrderTyped ==
    ASSUME IbkrIInv, IbkrTyped, NEW s \in IbkrSymbols, NEW n, NEW positions,
           \/ n = 1 /\ s \notin iPos /\ positions = iPos \cup {s}
           \/ n = -1 /\ s \in iPos /\ positions = iPos \ {s},
           IbkrOrder(s, n, positions)
    PROVE  iPos' \subseteq IbkrSymbols /\ iLost' \in BOOLEAN /\ Apart'
<1>0. iHeld \in [IbkrSymbols -> Int] /\ iPos \subseteq IbkrSymbols /\ Apart /\ iLost \in BOOLEAN
  BY DEF IbkrIInv, IbkrTyped
<1>1. CASE UNCHANGED <<iPos, iHeld, iLost>>
  BY <1>0, <1>1 DEF Apart, Shown
<1>2. CASE iHeld' = [iHeld EXCEPT ![s] = @ + n] /\ iPos' = positions /\ UNCHANGED iLost
  <2>1. ASSUME NEW t \in IbkrSymbols PROVE iHeld'[t] - Shown(t)' = iHeld[t] - Shown(t)
    <3>1. CASE t = s
      BY <1>0, <1>2, <3>1 DEF Shown
    <3>2. CASE t # s
      BY <1>0, <1>2, <3>2 DEF Shown
    <3> QED
      BY <3>1, <3>2
  <2> QED
    BY <1>0, <1>2, <2>1 DEF Apart
<1>3. CASE ~iLost /\ iLost' = TRUE /\ iPos' = positions /\ UNCHANGED iHeld
  <2>1. \A t \in IbkrSymbols : iHeld[t] = Shown(t)
    BY <1>3 DEF IbkrIInv, BrokerHoldsPositions, Shown
  <2>2. \A t \in IbkrSymbols : iHeld'[t] - Shown(t)' \in {-1, 0, 1}
    BY <1>3, <2>1 DEF Shown
  <2> QED
    BY <1>0, <1>3, <2>2 DEF Apart
<1> QED
  BY <1>1, <1>2, <1>3 DEF IbkrOrder

LEMMA IbkrSellTyped ==
    ASSUME IbkrIInv, IbkrTyped, NEW s \in IbkrSymbols,
           IbkrSell(s) \/ UNCHANGED <<iPos, iHeld, iLost>>
    PROVE  iPos' \subseteq IbkrSymbols /\ iLost' \in BOOLEAN /\ Apart'
<1>1. CASE UNCHANGED <<iPos, iHeld, iLost>>
  BY <1>1 DEF IbkrTyped, Apart, Shown
<1>2. CASE s \in iPos /\ IbkrOrder(s, -1, iPos \ {s})
  BY <1>2, IbkrOrderTyped
<1> QED
  BY <1>1, <1>2 DEF IbkrSell

LEMMA IbkrTypedStep == IbkrIInv /\ IbkrTyped /\ [IbkrNext]_ivars => IbkrTyped'
<1> SUFFICES ASSUME IbkrIInv, IbkrTyped, [IbkrNext]_ivars PROVE IbkrTyped'
  OBVIOUS
<1>1. ASSUME UNCHANGED <<iPos, iHeld, iLost>>
      PROVE  iPos' \subseteq IbkrSymbols /\ iLost' \in BOOLEAN /\ Apart'
  BY <1>1 DEF IbkrTyped, Apart, Shown
<1>2. CASE UNCHANGED ivars
  BY <1>1, <1>2 DEF ivars, IbkrTyped
<1>3. CASE IbkrConnect \/ IbkrRun \/ BeginManage \/ IbkrPassEnds \/ CancelIbkr \/ LauncherStops
           \/ OwnStopEnds \/ LauncherStopEnds
  <2>1. CASE IbkrConnect
    BY <1>1, <2>1 DEF IbkrConnect, IbkrTyped, IbkrAt
  <2>2. CASE IbkrRun
    BY <1>1, <2>2 DEF IbkrRun, IbkrTyped, IbkrAt
  <2>3. CASE BeginManage
    BY <1>1, <2>3 DEF BeginManage, IbkrTyped, IbkrAt
  <2>4. CASE IbkrPassEnds
    BY <1>1, <2>4 DEF IbkrPassEnds, IbkrTyped, IbkrAt
  <2>5. CASE CancelIbkr
    BY <1>1, <2>5 DEF CancelIbkr, IbkrTyped, IbkrAt
  <2>6. CASE LauncherStops
    BY <1>1, <2>6 DEF LauncherStops, IbkrTyped, IbkrAt
  <2>7. CASE OwnStopEnds
    BY <1>1, <2>7 DEF OwnStopEnds, IbkrTyped, IbkrAt
  <2>8. CASE LauncherStopEnds
    BY <1>1, <2>8 DEF LauncherStopEnds, IbkrTyped, IbkrAt
  <2> QED
    BY <1>3, <2>1, <2>2, <2>3, <2>4, <2>5, <2>6, <2>7, <2>8
<1>4. ASSUME NEW s \in IbkrSymbols, ExecuteForecast(s) PROVE IbkrTyped'
  <2>1. iPos' \subseteq IbkrSymbols /\ iLost' \in BOOLEAN /\ Apart'
    BY <1>4, IbkrOrderTyped, IbkrSellTyped DEF ExecuteForecast
  <2> QED
    BY <1>4, <2>1 DEF ExecuteForecast, IbkrTyped
<1>5. ASSUME NEW s \in IbkrSymbols, ManagePosition(s) \/ OwnSale(s) \/ LauncherSale(s) PROVE IbkrTyped'
  <2>1. iPos' \subseteq IbkrSymbols /\ iLost' \in BOOLEAN /\ Apart'
    BY <1>5, IbkrSellTyped DEF ManagePosition, OwnSale, LauncherSale
  <2> QED
    BY <1>5, <2>1 DEF ManagePosition, OwnSale, LauncherSale, IbkrTyped
<1> QED
  BY <1>2, <1>3, <1>4, <1>5 DEF IbkrNext

LEMMA IbkrIsTyped == IbkrIInv /\ IbkrTyped => IbkrTypeOK
<1> SUFFICES ASSUME IbkrIInv, IbkrTyped PROVE IbkrTypeOK
  OBVIOUS
<1>1. ASSUME NEW s \in IbkrSymbols PROVE iHeld[s] \in -1 .. 2
  <2>1. iHeld[s] \in Int /\ Shown(s) \in {0, 1} /\ iHeld[s] - Shown(s) \in {-1, 0, 1}
    BY DEF IbkrIInv, IbkrTyped, Apart, Shown
  <2> QED
    BY <2>1
<1> QED
  BY <1>1 DEF IbkrTyped, IbkrTypeOK

\* The sniper: a purchase that is made was within the bound.
SniperTyped ==
    /\ qStatus \in {"idle", "mock", "running", "sniping", "error"}
    /\ \A t \in SniperTokens : qBuys[t] <= MaxBuys
    /\ qRun.at = "swap" => qBuys[qRun.token] < MaxBuys

LEMMA SniperTypedInit == SniperInit => SniperTyped
<1> SUFFICES ASSUME SniperInit PROVE SniperTyped
  OBVIOUS
<1>1. \A t \in SniperTokens : qBuys[t] <= MaxBuys
  BY SniperAssumption DEF SniperInit
<1> QED
  BY <1>1 DEF SniperInit, SniperTyped, SniperOff, QAt

LEMMA SniperTypedStep == SniperIInv /\ SniperTyped /\ [SniperNext]_qvars => SniperTyped'
<1> SUFFICES ASSUME SniperIInv, SniperTyped, [SniperNext]_qvars PROVE SniperTyped'
  OBVIOUS
<1>0. /\ qBuys \in [SniperTokens -> Nat] /\ MaxBuys \in Nat /\ qRun \in RunType
      /\ qRun.at = "swap" => qRun.token \in SniperTokens
  BY SniperAssumption DEF SniperIInv, RunSound, BooksTyped
<1>1. ASSUME qBuys' = qBuys, qRun'.at = "swap" => qRun' = qRun,
             qStatus' \in {"idle", "mock", "running", "sniping", "error"}
      PROVE  SniperTyped'
  BY <1>1 DEF SniperTyped
<1>2. ASSUME NEW t \in SniperTokens, qBuys[t] < MaxBuys, qBuys' = [qBuys EXCEPT ![t] = @ + 1],
             qRun'.at # "swap", qStatus' \in {"running", "error"}
      PROVE  SniperTyped'
  <2>1. ASSUME NEW u \in SniperTokens PROVE qBuys'[u] <= MaxBuys
    <3>1. CASE u = t
      BY <1>0, <1>2, <3>1
    <3>2. CASE u # t
      BY <1>0, <1>2, <3>2 DEF SniperTyped
    <3> QED
      BY <3>1, <3>2
  <2> QED
    BY <1>2, <2>1 DEF SniperTyped
<1>3. CASE UNCHANGED qvars
  BY <1>1, <1>3 DEF qvars, SniperTyped
<1>4. ASSUME NEW mock \in BOOLEAN, RunSniper(mock) PROVE SniperTyped'
  BY <1>1, <1>4 DEF RunSniper, sniperBooks, QAt
<1>5. ASSUME NEW t \in SniperTokens, HandleNewToken(t) PROVE SniperTyped'
  <2>1. CASE qMock
    <3>1. qBuys[t] < MaxBuys /\ qBuys' = [qBuys EXCEPT ![t] = @ + 1]
      BY <1>5, <2>1 DEF HandleNewToken
    <3>2. qRun' = QAt("monitor", "", Sniped \cup {t}) /\ qStatus' = "running"
      BY <1>5, <2>1, Zenon DEF HandleNewToken
    <3>3. qRun'.at # "swap"
      BY <3>2 DEF QAt
    <3> QED
      BY <1>2, <3>1, <3>2, <3>3
  <2>2. CASE ~qMock
    <3>1. /\ qBuys' = qBuys /\ qBuys[t] < MaxBuys /\ qRun'.token = t /\ qStatus' = "sniping"
      BY <1>5, <2>2 DEF HandleNewToken, QAt
    <3> QED
      BY <3>1 DEF SniperTyped
  <2> QED
    BY <2>1, <2>2
<1>6. ASSUME NEW bought \in BOOLEAN, NEW raises \in BOOLEAN, ExecuteSnipe(bought, raises) PROVE SniperTyped'
  <2>1. qRun'.at # "swap" /\ qStatus' \in {"running", "error"} /\ qRun.at = "swap"
    BY <1>6 DEF ExecuteSnipe, QAt
  <2>2. CASE bought
    <3>1. PICK t \in SniperTokens : t = qRun.token
      BY <1>0, <2>1
    <3>2. qBuys[t] < MaxBuys /\ qBuys' = [qBuys EXCEPT ![t] = @ + 1]
      BY <1>6, <2>1, <2>2, <3>1 DEF ExecuteSnipe, SniperTyped
    <3> QED
      BY <1>2, <2>1, <3>2
  <2>3. CASE ~bought
    BY <1>1, <1>6, <2>1, <2>3 DEF ExecuteSnipe
  <2> QED
    BY <2>2, <2>3
<1>7. ASSUME NEW t \in SniperTokens, AskPrice(t) PROVE SniperTyped'
  <2>1. qRun.at = "monitor" /\ qRun'.at # "swap"
    BY <1>0, <1>7 DEF AskPrice, QAt, RunType
  <2> QED
    BY <1>1, <1>7, <2>1 DEF AskPrice, sniperBooks, SniperTyped
<1>8. ASSUME NEW t \in SniperTokens, OwnSell(t) PROVE SniperTyped'
  <2>1. qRun.at = "stop" /\ qRun'.at # "swap"
    BY <1>0, <1>8 DEF OwnSell, RunType
  <2> QED
    BY <1>1, <1>8, <2>1 DEF OwnSell, SniperTyped
<1>9. ASSUME NEW t \in SniperTokens, StopSell(t) PROVE SniperTyped'
  BY <1>1, <1>9 DEF StopSell, SniperTyped
<1>10. ASSUME NEW b \in BOOLEAN, SellToken(b) PROVE SniperTyped'
  <2>1. qRun.at = "price" /\ qRun'.at # "swap"
    BY <1>0, <1>10 DEF SellToken, QAt, RunType
  <2> QED
    BY <1>1, <1>10, <2>1 DEF SellToken, SniperTyped
<1>11. ASSUME NEW b \in BOOLEAN, WithdrawProfits(b) PROVE SniperTyped'
  BY <1>1, <1>11 DEF WithdrawProfits, QAt, SniperTyped
<1>12. CASE NoLaunch \/ KeepToken \/ MonitorEnds \/ SniperLoopEnds \/ OwnStopped \/ StopReturns
  <2>1. qBuys' = qBuys /\ qStatus' = qStatus
    BY <1>12 DEF NoLaunch, KeepToken, MonitorEnds, SniperLoopEnds, OwnStopped, StopReturns, sniperBooks
  <2>2. \/ qRun' = qRun
        \/ \E todo : qRun' = QAt("monitor", "", todo) \/ qRun' = QAt("loop", "", todo)
                    \/ qRun' = QAt("off", "", todo)
    BY <1>12, Zenon DEF NoLaunch, KeepToken, MonitorEnds, SniperLoopEnds, OwnStopped, StopReturns,
       SniperLoopIf, SniperOff
  <2>3. qRun'.at = "swap" => qRun' = qRun
    <3>1. \A todo : /\ QAt("monitor", "", todo).at # "swap" /\ QAt("loop", "", todo).at # "swap"
                    /\ QAt("off", "", todo).at # "swap"
      BY DEF QAt
    <3>2. CASE qRun' = qRun
      BY <3>2
    <3>3. CASE qRun' # qRun
      <4>1. PICK todo : qRun' \in {QAt("monitor", "", todo), QAt("loop", "", todo), QAt("off", "", todo)}
        BY <2>2, <3>3
      <4>2. qRun'.at # "swap"
        BY <3>1, <4>1
      <4> QED
        BY <4>2
    <3> QED
      BY <3>2, <3>3
  <2> QED
    BY <1>1, <2>1, <2>3 DEF SniperTyped
<1>13. CASE ConnectionClosed \/ CancelSniper \/ StopSniper
  <2>1. qBuys' = qBuys
    BY <1>13 DEF ConnectionClosed, CancelSniper, StopSniper, sniperBooks
  <2>2. qStatus' \in {"idle", "mock", "running", "sniping", "error"}
    BY <1>13 DEF ConnectionClosed, CancelSniper, StopSniper
  <2>3. qRun'.at = "swap" => qRun' = qRun
    <3>1. CASE ConnectionClosed
      BY <3>1 DEF ConnectionClosed, QAt, SniperOff
    <3>2. CASE CancelSniper
      BY <3>2 DEF CancelSniper, QAt
    <3>3. CASE StopSniper
      BY <3>3 DEF StopSniper
    <3> QED
      BY <1>13, <3>1, <3>2, <3>3
  <2> QED
    BY <1>1, <2>1, <2>2, <2>3
<1> QED
  BY <1>3, <1>4, <1>5, <1>6, <1>7, <1>8, <1>9, <1>10, <1>11, <1>12, <1>13 DEF SniperNext

LEMMA SniperIsTyped == SniperIInv /\ SniperTyped => SniperTypeOK
<1> SUFFICES ASSUME SniperIInv, SniperTyped PROVE SniperTypeOK
  OBVIOUS
<1>1. ASSUME NEW t \in SniperTokens
      PROVE  qSnipes[t] \in {"none", "active", "sold"} /\ qBuys[t] \in 0 .. MaxBuys
  BY SniperAssumption DEF SniperIInv, BooksTyped, SniperTyped
<1> QED
  BY <1>1 DEF SniperIInv, RunSound, RunType, SniperTyped, SniperTypeOK

\* The copy bot: what is seen stays within the limit.
CopyTyped ==
    /\ yAt \in {"off", "loop", "wallet"} /\ yLeft \subseteq Wallets
    /\ Cardinality(ySeen) <= MaxSeen /\ \A w \in Wallets : yMade[w] <= MaxMade

LEMMA CopyTypedInit == CopyInit => CopyTyped
<1> SUFFICES ASSUME CopyInit PROVE CopyTyped
  OBVIOUS
<1>1. Cardinality(ySeen) <= MaxSeen
  BY FS_EmptySet, CopyAssumption DEF CopyInit
<1>2. \A w \in Wallets : yMade[w] <= MaxMade
  BY CopyAssumption DEF CopyInit
<1> QED
  BY <1>1, <1>2 DEF CopyInit, CopyTyped

\* Over the limit one is taken out for the one that came.
LEMMA SeenIsBounded ==
    ASSUME NEW tx, tx \in Txs, Remember(tx), ySeen \subseteq Txs, Cardinality(ySeen) <= MaxSeen
    PROVE  \E S : S = ySeen' /\ Cardinality(S) <= MaxSeen
<1>1. PICK S : S = ySeen \cup {tx}
  OBVIOUS
<1>2. S \subseteq Txs
  BY <1>1
<1>3. IsFiniteSet(1 .. MaxMade)
  BY CopyAssumption, FS_Interval
<1>4. IsFiniteSet(Wallets \X (1 .. MaxMade))
  BY <1>3, CopyAssumption, FS_Product
<1>5. IsFiniteSet(ySeen) /\ IsFiniteSet(S)
  BY <1>2, <1>4, FS_Subset DEF Txs
<1>6. CASE Cardinality(S) <= MaxSeen
  BY <1>1, <1>6 DEF Remember
<1>7. CASE ~(Cardinality(S) <= MaxSeen)
  <2>1. PICK old \in S : ySeen' = S \ {old}
    BY <1>1, <1>7 DEF Remember
  <2>2. PICK T : T = S \ {old}
    OBVIOUS
  <2>3. Cardinality(T) = Cardinality(S) - 1 /\ Cardinality(S) \in Nat
    BY <1>5, <2>2, FS_RemoveElement, FS_CardinalityType
  <2>4. Cardinality(S) <= Cardinality(ySeen) + 1 /\ Cardinality(ySeen) \in Nat
    BY <1>1, <1>5, FS_AddElement, FS_CardinalityType
  <2>5. Cardinality(T) <= MaxSeen
    BY <2>3, <2>4, CopyAssumption
  <2> QED
    BY <2>1, <2>2, <2>5
<1> QED
  BY <1>6, <1>7

LEMMA CopyTypedStep == CopyIInv /\ CopyTyped /\ [CopyNext]_yvars => CopyTyped'
<1> SUFFICES ASSUME CopyIInv, CopyTyped, [CopyNext]_yvars PROVE CopyTyped'
  OBVIOUS
<1>1. CASE UNCHANGED yvars
  BY <1>1 DEF yvars, CopyTyped
<1>2. CASE NextPass \/ WalletDone
  BY <1>2 DEF NextPass, WalletDone, CopyTyped
<1>3. ASSUME NEW w \in Wallets, NEW out \in Outcomes, FetchTransactions(w, out) PROVE CopyTyped'
  BY <1>3 DEF FetchTransactions, CopyTyped
<1>4. ASSUME NEW tx \in Txs, NEW copy \in BOOLEAN, LookAt(tx, copy) PROVE CopyTyped'
  <2>1. ySeen \subseteq Txs
    BY DEF CopyIInv, Made
  <2>2. ySeen' = ySeen \/ Remember(tx)
    BY <1>4 DEF LookAt
  <2>3. Cardinality(ySeen) <= MaxSeen
    BY DEF CopyTyped
  <2>4. Cardinality(ySeen') <= MaxSeen
    BY <2>1, <2>2, <2>3, SeenIsBounded
  <2> QED
    BY <1>4, <2>4 DEF LookAt, CopyTyped
<1>5. ASSUME NEW out \in Outcomes, CopyTrade(out) PROVE CopyTyped'
  BY <1>5 DEF CopyTrade, CopyTyped
<1>6. ASSUME NEW served \in BOOLEAN, CancelCopy(served) PROVE CopyTyped'
  BY <1>6 DEF CancelCopy, CopyTyped
<1>7. CASE ProcessRestarts
  <2>1. Cardinality(ySeen') <= MaxSeen
    BY <1>7, FS_EmptySet, CopyAssumption DEF ProcessRestarts
  <2> QED
    BY <1>7, <2>1 DEF ProcessRestarts, CopyTyped
<1>8. ASSUME NEW w \in Wallets, WalletTrades(w) PROVE CopyTyped'
  <2>1. \A v \in Wallets : yMade'[v] <= MaxMade
    BY <1>8, CopyAssumption DEF WalletTrades, CopyIInv, CopyTyped
  <2> QED
    BY <1>8, <2>1 DEF WalletTrades, CopyTyped
<1> QED
  BY <1>1, <1>2, <1>3, <1>4, <1>5, <1>6, <1>7, <1>8 DEF CopyNext

LEMMA CopyIsTyped == CopyIInv /\ CopyTyped => CopyTypeOK
<1> SUFFICES ASSUME CopyIInv, CopyTyped PROVE CopyTypeOK
  OBVIOUS
<1>1. yMade \in [Wallets -> 0 .. MaxMade]
  BY CopyAssumption DEF CopyIInv, CopyTyped
<1> QED
  BY <1>1 DEF CopyIInv, CopyTyped, CopyTypeOK, Made

\* The nest and the counters.
LEMMA NestIsTyped == NestIInv => NestTypeOK
<1> SUFFICES ASSUME NestIInv PROVE NestTypeOK
  OBVIOUS
<1>1. /\ nRecords \in Seq(NestRecord) /\ nState \in [NestBots -> NestRow]
      /\ nPass \in [at : {"idle", "ask", "sent", "paid"}, todo : SUBSET Nat]
      /\ nPass.todo \subseteq DOMAIN nRecords /\ nRefused \in BOOLEAN
  BY DEF NestIInv, NestTypes
<1>2. \A i \in DOMAIN nRecords : nRecords[i] \in NestRecord
  BY <1>1
<1>3. \A b \in NestBots : nState[b].known \in BOOLEAN
  BY <1>1 DEF NestRow
<1> QED
  BY <1>1, <1>2, <1>3 DEF NestRecord, NestTypeOK

LEMMA RateIsTyped == RateIInv => RateTypeOK
<1> SUFFICES ASSUME RateIInv PROVE RateTypeOK
  OBVIOUS
<1>1. resetAt \in Times
  BY RateAssumption DEF RateIInv, RateTypes, Times
<1> QED
  BY <1>1 DEF RateIInv, RateTypes, RateTypeOK

\* The profit calculator: a call has the id of a trade until it is done.
PnlTrade == [id : TradeIds, status : {"open", "closed"}, pnl : Int, day : Nat]
PnlCall == [at : {"idle", "add", "exit", "book"}, id : TradeIds \cup {"none"}, pnl : Int, day : Nat]

PnlTyped ==
    /\ plTrades \in Seq(PnlTrade) /\ plOpen \in TradeIds \cup {"none"}
    /\ plRaced \in BOOLEAN /\ plFrom \in PnlDays \cup {0}
    /\ plCall \in [PnlThreads -> PnlCall]
    /\ \A t \in PnlThreads : plCall[t].at # "idle" => plCall[t].id \in TradeIds

LEMMA PnlTypedInit == PnlInit => PnlTyped
<1> SUFFICES ASSUME PnlInit PROVE PnlTyped
  OBVIOUS
<1>1. PlIdle \in PnlCall /\ PlIdle.at = "idle"
  BY DEF PlIdle, PnlCall
<1>2. plTrades \in Seq(PnlTrade)
  BY DEF PnlInit
<1>3. plCall \in [PnlThreads -> PnlCall] /\ \A t \in PnlThreads : plCall[t].at = "idle"
  BY <1>1 DEF PnlInit
<1> QED
  BY <1>2, <1>3 DEF PnlInit, PnlTyped

LEMMA PnlTypedStep == PnlTyped /\ [PnlNext]_plVars => PnlTyped'
<1> SUFFICES ASSUME PnlTyped, [PnlNext]_plVars PROVE PnlTyped'
  OBVIOUS
<1>0. /\ plTrades \in Seq(PnlTrade) /\ plCall \in [PnlThreads -> PnlCall]
      /\ PnlDays \subseteq Nat /\ TradePnls \subseteq Int
      /\ PlIdle \in PnlCall /\ PlIdle.at = "idle" /\ plFrom \in PnlDays \cup {0}
  BY PnlAssumption DEF PnlTyped, PlIdle, PnlCall
<1>1. ASSUME NEW t \in PnlThreads, NEW theCall \in PnlCall, plCall' = [plCall EXCEPT ![t] = theCall],
             theCall.at # "idle" => theCall.id \in TradeIds
      PROVE  /\ plCall' \in [PnlThreads -> PnlCall]
             /\ \A u \in PnlThreads : plCall'[u].at # "idle" => plCall'[u].id \in TradeIds
  BY <1>0, <1>1 DEF PnlTyped
<1>2. CASE UNCHANGED plVars
  BY <1>2 DEF plVars, PnlTyped
<1>3. ASSUME NEW t \in PnlThreads, NEW id \in TradeIds, AddTrade(t, id) PROVE PnlTyped'
  <2>1. PICK theCall : theCall = [PlIdle EXCEPT !.at = "add", !.id = id]
    OBVIOUS
  <2>2. theCall \in PnlCall /\ theCall.id = id
    <3>1. theCall = [at |-> "add", id |-> id, pnl |-> 0, day |-> 0]
      BY <2>1 DEF PlIdle
    <3> QED
      BY <3>1 DEF PnlCall
  <2>3. plCall' = [plCall EXCEPT ![t] = theCall]
    BY <1>3, <2>1 DEF AddTrade
  <2> QED
    BY <1>1, <1>3, <2>2, <2>3 DEF AddTrade, PnlTyped
<1>4. ASSUME NEW t \in PnlThreads, NEW id \in TradeIds, NEW pnl \in TradePnls, NEW d \in PnlDays,
             CloseTrade(t, id, pnl, d)
      PROVE  PnlTyped'
  <2>1. PICK theCall : theCall = [at |-> "exit", id |-> id, pnl |-> pnl, day |-> d]
    OBVIOUS
  <2>2. theCall \in PnlCall /\ theCall.id = id
    BY <1>0, <2>1 DEF PnlCall
  <2>3. plCall' = [plCall EXCEPT ![t] = theCall]
    BY <1>4, <2>1 DEF CloseTrade
  <2> QED
    BY <1>1, <1>4, <2>2, <2>3 DEF CloseTrade, PnlTyped
<1>5. ASSUME NEW t \in PnlThreads, StoreTrade(t) PROVE PnlTyped'
  <2>1. plCall[t].id \in TradeIds
    BY <1>5 DEF StoreTrade, PnlTyped
  <2>2. PICK new : new = [id |-> plCall[t].id, status |-> "open", pnl |-> 0, day |-> 0]
    OBVIOUS
  <2>3. new \in PnlTrade
    BY <2>1, <2>2 DEF PnlTrade
  <2>4. \/ plTrades' = Append(plTrades, new)
        \/ plTrades' = [i \in DOMAIN plTrades |->
                            IF i \in Booked(plCall[t].id) THEN new ELSE plTrades[i]]
    BY <1>5, <2>2 DEF StoreTrade
  <2>5. plTrades' \in Seq(PnlTrade)
    <3>1. CASE plTrades' = Append(plTrades, new)
      BY <1>0, <2>3, <3>1
    <3>2. CASE plTrades' = [i \in DOMAIN plTrades |->
                                IF i \in Booked(plCall[t].id) THEN new ELSE plTrades[i]]
      BY <1>0, <2>3, <3>2, Mapped
    <3> QED
      BY <2>4, <3>1, <3>2
  <2>6. plCall' = [plCall EXCEPT ![t] = PlIdle]
    BY <1>5 DEF StoreTrade
  <2> QED
    BY <1>0, <1>1, <1>5, <2>1, <2>5, <2>6 DEF StoreTrade, PnlTyped
<1>6. ASSUME NEW t \in PnlThreads, UpdateExit(t) PROVE PnlTyped'
  <2>1. plTrades' \in Seq(PnlTrade)
    <3>1. PICK f : f = [i \in DOMAIN plTrades |->
             IF i \in Booked(plCall[t].id)
             THEN [plTrades[i] EXCEPT !.status = "closed", !.pnl = plCall[t].pnl,
                                      !.day = plCall[t].day]
             ELSE plTrades[i]]
      OBVIOUS
    <3>2. ASSUME NEW i \in DOMAIN plTrades PROVE f[i] \in PnlTrade
      <4>1. plTrades[i] \in PnlTrade /\ plCall[t].pnl \in Int /\ plCall[t].day \in Nat
        BY <1>0 DEF PnlCall
      <4> QED
        BY <3>1, <4>1 DEF PnlTrade
    <3>3. DOMAIN f = 1 .. Len(plTrades) /\ Len(plTrades) \in Nat
      <4>1. DOMAIN plTrades = 1 .. Len(plTrades) /\ Len(plTrades) \in Nat
        BY <1>0
      <4> QED
        BY <3>1, <4>1
    <3>4. f \in [1 .. Len(plTrades) -> PnlTrade]
      BY <1>0, <3>1, <3>2, <3>3
    <3>5. plTrades' = f
      BY <1>6, <3>1 DEF UpdateExit
    <3> QED
      BY <3>3, <3>4, <3>5
  <2>2. PICK theCall : theCall = [plCall[t] EXCEPT !.at = "book"]
    OBVIOUS
  <2>3. theCall \in PnlCall /\ theCall.id = plCall[t].id
    BY <1>0, <2>2 DEF PnlCall
  <2>4. plCall' = [plCall EXCEPT ![t] = theCall] /\ plCall[t].id \in TradeIds
    BY <1>0, <1>6, <2>2 DEF UpdateExit, PnlTyped
  <2> QED
    BY <1>1, <1>6, <2>1, <2>3, <2>4 DEF UpdateExit, PnlTyped
<1>7. ASSUME NEW t \in PnlThreads, BookDay(t) PROVE PnlTyped'
  <2>1. plCall' = [plCall EXCEPT ![t] = PlIdle]
    BY <1>7 DEF BookDay
  <2> QED
    BY <1>0, <1>1, <1>7, <2>1 DEF BookDay, PnlTyped
<1>8. ASSUME NEW t \in PnlThreads, ClearAll(t) PROVE PnlTyped'
  BY <1>8 DEF ClearAll, PnlTyped
<1>9. ASSUME NEW t \in PnlThreads, NEW d \in PnlDays, ClearBefore(t, d) PROVE PnlTyped'
  BY <1>9 DEF ClearBefore, PnlTyped
<1> QED
  BY <1>2, <1>3, <1>4, <1>5, <1>6, <1>7, <1>8, <1>9 DEF PnlNext

LEMMA PnlIsTyped == PnlTyped => PnlTypeOK
<1> SUFFICES ASSUME PnlTyped PROVE PnlTypeOK
  OBVIOUS
<1>1. \A i \in DOMAIN plTrades : plTrades[i].id \in TradeIds /\ plTrades[i].status \in {"open", "closed"}
  <2>1. plTrades \in Seq(PnlTrade)
    BY DEF PnlTyped
  <2>2. \A i \in DOMAIN plTrades : plTrades[i] \in PnlTrade
    BY <2>1
  <2> QED
    BY <2>2 DEF PnlTrade
<1>2. \A t \in PnlThreads : plCall[t].at \in {"idle", "add", "exit", "book"}
  BY DEF PnlTyped, PnlCall
<1> QED
  BY <1>1, <1>2 DEF PnlTyped, PnlTypeOK

LEMMA AmountsInit == WInit => AmountsBounded
<1> SUFFICES ASSUME WInit PROVE AmountsBounded
  OBVIOUS
<1>1. Zero \in [Exchanges -> {0}] /\ MaxEarned \in Nat
  BY WAssumption DEF Zero
<1>2. wEarned \in [Exchanges -> 0 .. MaxEarned] /\ wPaid \in [Exchanges -> Nat]
  BY <1>1 DEF WInit
<1>3. \A e \in Exchanges : wPend[e] <= wEarned[e] /\ wFile.pend[e] <= wEarned[e]
  BY <1>1 DEF WInit
<1>4. InBounds(wHist) /\ InBounds(wFile.hist)
  BY DEF WInit, InBounds
<1>5. \A t \in Withdrawers : wTask[t].left = {}
  BY DEF WInit, WIdle
<1> QED
  BY <1>2, <1>3, <1>4, <1>5 DEF AmountsBounded

LEMMA GridTypedInit == GridInit => GridTyped
<1> SUFFICES ASSUME GridInit PROVE GridTyped
  OBVIOUS
<1>1. Len(gOrd) = 0 /\ DOMAIN gOrd = {} /\ MaxGridOrders \in Nat
  BY GridAssumption DEF GridInit
<1>2. \A l \in GridSteps, s \in Sides : gLevels[l][s] = 0
  BY DEF GridInit, NoIds
<1>3. \A l \in GridSteps, s \in Sides : gLevels[l][s] \in 0 .. Len(gOrd)
  BY <1>1, <1>2
<1>4. gTop \in {gCount, GridLevels} /\ gClean \in BOOLEAN
  BY DEF GridInit
<1>5. gSnap \subseteq DOMAIN gOrd /\ gBooked \subseteq DOMAIN gOrd
  BY DEF GridInit
<1>6. Len(gOrd) <= MaxGridOrders
  BY <1>1
<1> QED
  BY <1>3, <1>4, <1>5, <1>6 DEF GridTyped

------------------------------------------------------------------------------
(* The composition: a step of it is one of the part that was chosen, and leaves *)
(* every other part as it is.                                                   *)

LEMMA PartsInitParts ==
    PartsInit =>
        /\ IbkrInit /\ ScalpInit /\ TriInit /\ FundInit /\ GridInit /\ HyperInit /\ SniperInit
        /\ CopyInit /\ NestInit
  BY DEF PartsInit

LEMMA PartsStepParts ==
    [PartsNext]_partVars =>
        /\ [IbkrNext]_ivars /\ [ScalpNext]_cvars /\ [TriNext]_tvars /\ [FundNext]_fvars
        /\ [GridNext]_gvars /\ [HyperNext]_hvars /\ [SniperNext]_qvars
        /\ [CopyNext]_yvars /\ [NestNext]_nvars /\ [PnlNext]_plVars
        /\ [Next]_vars /\ [RateNext]_rateVars /\ [WNext]_wvars
<1>1. CASE PartsNext
  BY <1>1 DEF PartsNext, Only
<1>2. CASE UNCHANGED partVars
  BY <1>2 DEF partVars
<1> QED
  BY <1>1, <1>2

\* What each of these bots shows as held is what it holds as long as every request
\* is answered, and the grid knows its orders by name: over failures, restarts,
\* stops and cancellations, for every value of the bots' constants.
THEOREM BotsShowHoldings == PartsSpec => []HoldingsAreShown
<1>1. FundIInv /\ ScalpIInv /\ TriIInv /\ IbkrIInv /\ GridIInv => HoldingsAreShown
  BY FundHolds, ScalpHolds, GridHolds DEF TriIInv, IbkrIInv, HoldingsAreShown
<1> QED
  BY <1>1, PartsInitParts, PartsStepParts, FundInitHolds, FundStep, ScalpInitHolds, ScalpStep,
     TriInitHolds, TriStep, IbkrInitHolds, IbkrStep, GridInitHolds, GridStep, PTL DEF PartsSpec

\* A perpetual position is entered once, and the sniper sells what it bought once
\* and sends the profit once, for every value of the bots' constants.
THEOREM BotsActOnce == PartsSpec => []ActsOnce
<1>1. HyperIInv /\ SniperIInv => ActsOnce
  BY HyperHolds, SniperHolds DEF ActsOnce
<1> QED
  BY <1>1, PartsInitParts, PartsStepParts, HyperInitHolds, HyperStep, SniperInitHolds, SniperStep,
     PTL DEF PartsSpec

\* While no more was traded than the copy bot's set holds, no trade of a tracked
\* wallet is copied twice; and the nest's passes, whichever of them die, pay a bot
\* no more than its profits were, for every value of the constants.
THEOREM BotsKnowDone == PartsSpec => []DoneIsKnown
<1>1. CopyIInv /\ NestIInv => DoneIsKnown
  BY CopyHolds, NestHolds DEF DoneIsKnown
<1> QED
  BY <1>1, PartsInitParts, PartsStepParts, CopyInitHolds, CopyStep, NestInitHolds, NestStep,
     PTL DEF PartsSpec

\* The invariant of the composition: that of every part, with its types.
PartsIInv ==
    /\ TypeOK /\ PmIInv
    /\ RateIInv
    /\ WSafe /\ AmountsBounded
    /\ GridIInv /\ GridTyped
    /\ FundIInv /\ FundTyped
    /\ ScalpIInv /\ ScalpTyped
    /\ CopyIInv /\ CopyTyped
    /\ HyperIInv /\ HyperTypeOK
    /\ TriIInv /\ TriTyped
    /\ NestIInv
    /\ IbkrIInv /\ IbkrTyped
    /\ SniperIInv /\ SniperTyped
    /\ PnlTyped

LEMMA PartsBegin == PartsInit => PartsIInv
<1> SUFFICES ASSUME PartsInit PROVE PartsIInv
  OBVIOUS
<1>1. TypeOK /\ PmIInv /\ RateIInv /\ WSafe /\ AmountsBounded
  BY StackInit, RateInitSound, WInitSound, AmountsInit DEF PartsInit
<1>2. GridIInv /\ GridTyped /\ FundIInv /\ FundTyped /\ ScalpIInv /\ ScalpTyped
  BY GridInitHolds, GridTypedInit, FundInitHolds, FundTypedInit, ScalpInitHolds, ScalpTypedInit
     DEF PartsInit
<1>3. CopyIInv /\ CopyTyped /\ HyperIInv /\ HyperTypeOK /\ TriIInv /\ TriTyped
  BY CopyInitHolds, CopyTypedInit, HyperInitHolds, HyperTypedInit, TriInitHolds, TriTypedInit
     DEF PartsInit
<1>4. NestIInv /\ IbkrIInv /\ IbkrTyped /\ SniperIInv /\ SniperTyped /\ PnlTyped
  BY NestInitHolds, IbkrInitHolds, IbkrTypedInit, SniperInitHolds, SniperTypedInit, PnlTypedInit
     DEF PartsInit
<1> QED
  BY <1>1, <1>2, <1>3, <1>4 DEF PartsIInv

LEMMA PartsStep == PartsIInv /\ [PartsNext]_partVars => PartsIInv'
<1> SUFFICES ASSUME PartsIInv, [PartsNext]_partVars PROVE PartsIInv'
  OBVIOUS
<1>1. /\ [Next]_vars /\ [RateNext]_rateVars /\ [WNext]_wvars /\ [GridNext]_gvars /\ [FundNext]_fvars
      /\ [ScalpNext]_cvars /\ [CopyNext]_yvars /\ [HyperNext]_hvars /\ [TriNext]_tvars
      /\ [NestNext]_nvars /\ [IbkrNext]_ivars /\ [SniperNext]_qvars /\ [PnlNext]_plVars
  BY PartsStepParts
<1>2. TypeOK' /\ PmIInv'
  <2>1. TypeOK /\ PmIInv
    BY DEF PartsIInv
  <2>2. PmIInv'
    BY <1>1, <2>1, BelowStep
  <2>3. TypeOK'
    BY <1>1, <2>1, <2>2, StackTypeStep DEF PmIInv
  <2> QED
    BY <2>2, <2>3
<1>3. RateIInv' /\ WSafe' /\ AmountsBounded'
  BY <1>1, RateStep, WithdrawalStep, AmountsStep DEF PartsIInv
<1>4. GridIInv' /\ GridTyped' /\ TriIInv' /\ TriTyped'
  <2>1. GridIInv' /\ TriIInv'
    BY <1>1, GridStep, TriStep DEF PartsIInv
  <2> QED
    BY <1>1, <2>1, GridTypedStep, TriTypedStep DEF PartsIInv
<1>5. FundIInv' /\ FundTyped' /\ ScalpIInv' /\ ScalpTyped'
  BY <1>1, FundStep, FundTypedStep, ScalpStep, ScalpTypedStep DEF PartsIInv
<1>6. CopyIInv' /\ CopyTyped' /\ HyperIInv' /\ HyperTypeOK'
  BY <1>1, CopyStep, CopyTypedStep, HyperStep, HyperTypedStep DEF PartsIInv
<1>7. NestIInv' /\ IbkrIInv' /\ IbkrTyped'
  BY <1>1, NestStep, IbkrStep, IbkrTypedStep DEF PartsIInv
<1>8. SniperIInv' /\ SniperTyped' /\ PnlTyped'
  BY <1>1, SniperStep, SniperTypedStep, PnlTypedStep DEF PartsIInv
<1> QED
  BY <1>2, <1>3, <1>4, <1>5, <1>6, <1>7, <1>8 DEF PartsIInv

\* Every part keeps its types and stays within its limits, for every value of the
\* constants: the exposure of a bot, the transactions remembered, the shares at the
\* broker, the dollars withdrawn, the amounts of the requests.
THEOREM PartsTyped == PartsSpec => []PartsTypeOK
<1>1. PartsIInv => PartsTypeOK
  <2> SUFFICES ASSUME PartsIInv PROVE PartsTypeOK
    OBVIOUS
  <2>1. TypeOK /\ RateTypeOK /\ WTypeOK /\ GridTypeOK /\ FundTypeOK /\ ScalpTypeOK
    BY RateIsTyped, WithdrawalsTyped, GridIsTyped, FundIsTyped, ScalpIsTyped DEF PartsIInv
  <2>2. CopyTypeOK /\ HyperTypeOK /\ TriTypeOK /\ NestTypeOK /\ IbkrTypeOK /\ SniperTypeOK /\ PnlTypeOK
    BY CopyIsTyped, TriIsTyped, NestIsTyped, IbkrIsTyped, SniperIsTyped, PnlIsTyped DEF PartsIInv
  <2> QED
    BY <2>1, <2>2 DEF PartsTypeOK
<1> QED
  BY <1>1, PartsBegin, PartsStep, PTL DEF PartsSpec
=============================================================================
