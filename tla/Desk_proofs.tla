----------------------------- MODULE Desk_proofs -----------------------------
(***************************************************************************)
(* Theorems about the bots that trade on paper and the pipelines, for any  *)
(* readings, prices, sizes, markets and numbers of attempts; about the     *)
(* watchdog and the blocks of addresses, for any limits, thresholds and    *)
(* durations; about what is asked of the chain, the language models, the   *)
(* machine and the exchanges, for any endpoints, workers, providers and    *)
(* tasks; and about their composition.                                     *)
(***************************************************************************)
EXTENDS MCDesk, FiniteSetTheorems, FunctionTheorems, TLAPS

------------------------------------------------------------------------------
(* The trend follower.  What was published so far are entries and closings in   *)
(* turn; between the two steps of an entry or of a closing the position and     *)
(* the signals differ by the one step that is left.                             *)

InTurn ==
    \A i \in DOMAIN tfSignals :
        IF i % 2 = 1 THEN tfSignals[i].act # "CLOSE"
        ELSE tfSignals[i].act = "CLOSE" /\ tfSignals[i].entry = tfSignals[i-1].entry

LastIsHeld ==
    IF Len(tfSignals) % 2 = 0 THEN ~Holding
    ELSE tfPosition = [side |-> tfSignals[Len(tfSignals)].act, entry |-> tfSignals[Len(tfSignals)].entry]

TrendIInv ==
    /\ tfSignals \in Seq([act : {"LONG", "SHORT", "CLOSE"}, entry : Nat])
    /\ tfPosition \in [side : {"LONG", "SHORT"}, entry : Nat] \cup {NoTrade}
    /\ tfAt \in {"idle", "entered", "closed"} /\ tfSeen \in Nat
    /\ InTurn
    /\ tfAt = "idle" => LastIsHeld
    /\ tfAt = "entered" => Len(tfSignals) % 2 = 0 /\ Holding
    /\ tfAt = "closed" => Len(tfSignals) % 2 = 0

\* One more signal: an entry in an odd place, the closing of the last one in an even.
LEMMA Publishes ==
    ASSUME NEW Sig, NEW s \in Seq(Sig), NEW e \in Sig
    PROVE  /\ Append(s, e) \in Seq(Sig) /\ Len(Append(s, e)) = Len(s) + 1
           /\ DOMAIN Append(s, e) = DOMAIN s \cup {Len(s) + 1} /\ Len(s) \in Nat
           /\ DOMAIN s = 1 .. Len(s)
           /\ \A i \in DOMAIN s : Append(s, e)[i] = s[i]
           /\ Append(s, e)[Len(s) + 1] = e
  OBVIOUS

LEMMA Parity == \A n \in Nat : (n % 2 = 1 <=> (n + 1) % 2 = 0) /\ n % 2 \in {0, 1} /\ (n = 0 => n % 2 = 0)
  OBVIOUS

LEMMA TurnTaken ==
    ASSUME NEW Sig, tfSignals \in Seq(Sig), NEW e \in Sig, tfSignals' = Append(tfSignals, e), InTurn,
           IF Len(tfSignals) % 2 = 0 THEN e.act # "CLOSE"
           ELSE e.act = "CLOSE" /\ e.entry = tfSignals[Len(tfSignals)].entry
    PROVE  InTurn'
<1>1. /\ DOMAIN tfSignals' = DOMAIN tfSignals \cup {Len(tfSignals) + 1} /\ Len(tfSignals) \in Nat
      /\ DOMAIN tfSignals = 1 .. Len(tfSignals)
      /\ \A i \in DOMAIN tfSignals : tfSignals'[i] = tfSignals[i]
      /\ tfSignals'[Len(tfSignals) + 1] = e
  BY Publishes
<1> SUFFICES ASSUME NEW i \in DOMAIN tfSignals'
             PROVE  IF i % 2 = 1 THEN tfSignals'[i].act # "CLOSE"
                    ELSE tfSignals'[i].act = "CLOSE" /\ tfSignals'[i].entry = tfSignals'[i-1].entry
  BY DEF InTurn
<1>2. CASE i \in DOMAIN tfSignals
  <2>1. tfSignals'[i] = tfSignals[i]
    BY <1>1, <1>2
  <2>2. CASE i % 2 = 1
    BY <1>2, <2>1, <2>2 DEF InTurn
  <2>3. CASE i % 2 # 1
    <3>1. i \in Nat /\ i # 1 /\ i >= 1
      BY <1>1, <1>2, <2>3
    <3>2. i - 1 \in DOMAIN tfSignals
      BY <1>1, <1>2, <3>1
    <3>3. tfSignals'[i-1] = tfSignals[i-1]
      BY <1>1, <3>2
    <3> QED
      BY <1>2, <2>1, <2>3, <3>3 DEF InTurn
  <2> QED
    BY <2>2, <2>3
<1>3. CASE i = Len(tfSignals) + 1
  <2>1. CASE Len(tfSignals) % 2 = 0
    <3>1. i % 2 = 1
      BY <1>1, <1>3, <2>1, Parity
    <3> QED
      BY <1>1, <1>3, <2>1, <3>1
  <2>2. CASE Len(tfSignals) % 2 # 0
    <3>1. i % 2 = 0 /\ i - 1 = Len(tfSignals) /\ Len(tfSignals) # 0
      BY <1>1, <1>3, <2>2, Parity
    <3>2. tfSignals'[i-1] = tfSignals[Len(tfSignals)]
      BY <1>1, <3>1
    <3>3. tfSignals'[i] = e /\ e.act = "CLOSE" /\ e.entry = tfSignals[Len(tfSignals)].entry
      BY <1>1, <1>3, <2>2
    <3> QED
      BY <3>1, <3>2, <3>3
  <2> QED
    BY <2>1, <2>2
<1> QED
  BY <1>1, <1>2, <1>3

LEMMA TrendInitHolds == TrendInit => TrendIInv
  BY DEF TrendInit, TrendIInv, InTurn, LastIsHeld, Holding, NoTrade

LEMMA TrendEvaluates ==
    ASSUME TrendIInv, NEW r, tfAt = "idle", tfSeen' = tfSeen + 1, EvaluateStrategy(r)
    PROVE  TrendIInv'
<1> USE DEF TrendIInv
<1>1. CASE Holding /\ ShouldClose(r)
  <2> DEFINE sig == [act |-> "CLOSE", entry |-> tfPosition.entry]
  <2>1. /\ tfSignals' = Append(tfSignals, sig) /\ tfAt' = "closed" /\ tfPosition' = tfPosition
    BY <1>1 DEF EvaluateStrategy
  <2>2. Len(tfSignals) % 2 = 1 /\ tfSignals[Len(tfSignals)].entry = tfPosition.entry
    BY <1>1 DEF LastIsHeld
  <2>3. sig \in [act : {"LONG", "SHORT", "CLOSE"}, entry : Nat]
    BY <1>1 DEF Holding
  <2> HIDE DEF sig
  <2>4. /\ tfSignals' \in Seq([act : {"LONG", "SHORT", "CLOSE"}, entry : Nat])
        /\ DOMAIN tfSignals' = DOMAIN tfSignals \cup {Len(tfSignals) + 1} /\ Len(tfSignals) \in Nat
        /\ Len(tfSignals') = Len(tfSignals) + 1 /\ DOMAIN tfSignals = 1 .. Len(tfSignals)
        /\ \A i \in DOMAIN tfSignals : tfSignals'[i] = tfSignals[i]
        /\ tfSignals'[Len(tfSignals) + 1] = sig
    BY <2>1, <2>3, Publishes
  <2>5. sig.act = "CLOSE" /\ sig.entry = tfPosition.entry
    BY DEF sig
  <2>6. InTurn'
    BY <2>1, <2>2, <2>3, <2>5, TurnTaken
  <2>7. Len(tfSignals') % 2 = 0
    BY <2>2, <2>4, Parity
  <2> QED
    BY <2>1, <2>4, <2>6, <2>7
<1>2. CASE ~Holding /\ Entry(r) # "none"
  <2>1. tfPosition' = [side |-> Entry(r), entry |-> tfSeen + 1] /\ tfAt' = "entered" /\ tfSignals' = tfSignals
    BY <1>2 DEF EvaluateStrategy
  <2>2. Entry(r) \in {"LONG", "SHORT"}
    BY <1>2 DEF Entry
  <2>3. Len(tfSignals) % 2 = 0
    <3> SUFFICES ASSUME Len(tfSignals) % 2 # 0 PROVE FALSE
      OBVIOUS
    <3>1. Len(tfSignals) \in DOMAIN tfSignals
      BY Parity
    <3> DEFINE Sig == [act : {"LONG", "SHORT", "CLOSE"}, entry : Nat]
    <3> HIDE DEF Sig
    <3>5. tfSignals \in Seq(Sig)
      BY DEF Sig
    <3>6. tfSignals[Len(tfSignals)] \in Sig
      BY ONLY <3>1, <3>5
    <3>2. tfSignals[Len(tfSignals)] \in [act : {"LONG", "SHORT", "CLOSE"}, entry : Nat]
      BY ONLY <3>6 DEF Sig
    <3>4. tfSignals[Len(tfSignals)].act # "none"
      BY <3>2
    <3>3. tfPosition.side = tfSignals[Len(tfSignals)].act
      BY DEF LastIsHeld
    <3> QED
      BY <1>2, <3>3, <3>4 DEF Holding, NoTrade
  <2> QED
    BY <2>1, <2>2, <2>3 DEF InTurn, Holding, NoTrade
<1>3. CASE ~(Holding /\ ShouldClose(r)) /\ ~(~Holding /\ Entry(r) # "none")
  BY <1>3 DEF EvaluateStrategy, InTurn, LastIsHeld, Holding
<1> QED
  BY <1>1, <1>2, <1>3

LEMMA TrendStep == TrendIInv /\ [TrendNext]_tfVars => TrendIInv'
<1> SUFFICES ASSUME TrendIInv, [TrendNext]_tfVars PROVE TrendIInv'
  OBVIOUS
<1>1. ASSUME NEW priced \in BOOLEAN, NEW r \in Readings, HandleCandle(priced, r) PROVE TrendIInv'
  <2>1. CASE tfHistory' = SlowPeriod
    BY <1>1, <2>1, TrendEvaluates DEF HandleCandle, Receives
  <2>2. CASE tfHistory' # SlowPeriod
    BY <1>1, <2>2 DEF HandleCandle, Receives, TrendIInv, InTurn, LastIsHeld, Holding
  <2> QED
    BY <2>1, <2>2
<1>2. CASE EntryPublished
  <2> DEFINE sig == [act |-> tfPosition.side, entry |-> tfPosition.entry]
  <2>1. tfSignals' = Append(tfSignals, sig) /\ tfAt = "entered" /\ tfAt' = "idle" /\ UNCHANGED <<tfPosition, tfSeen>>
    BY <1>2 DEF EntryPublished
  <2>2. Len(tfSignals) % 2 = 0 /\ tfPosition \in [side : {"LONG", "SHORT"}, entry : Nat]
    BY <2>1 DEF TrendIInv, Holding
  <2>3. sig \in [act : {"LONG", "SHORT", "CLOSE"}, entry : Nat]
    BY <2>2
  <2>4. sig.act = tfPosition.side /\ sig.entry = tfPosition.entry /\ sig.act # "CLOSE"
    BY <2>2
  <2> HIDE DEF sig
  <2>5. /\ tfSignals' \in Seq([act : {"LONG", "SHORT", "CLOSE"}, entry : Nat])
        /\ DOMAIN tfSignals' = DOMAIN tfSignals \cup {Len(tfSignals) + 1} /\ Len(tfSignals) \in Nat
        /\ Len(tfSignals') = Len(tfSignals) + 1 /\ DOMAIN tfSignals = 1 .. Len(tfSignals)
        /\ \A i \in DOMAIN tfSignals : tfSignals'[i] = tfSignals[i]
        /\ tfSignals'[Len(tfSignals) + 1] = sig
    BY <2>1, <2>3, Publishes DEF TrendIInv
  <2>6. InTurn'
    BY <2>1, <2>2, <2>3, <2>4, TurnTaken DEF TrendIInv
  <2>7. Len(tfSignals') % 2 = 1 /\ tfSignals'[Len(tfSignals')] = sig
    BY <2>2, <2>5, Parity
  <2>8. LastIsHeld'
    BY <2>1, <2>2, <2>4, <2>7 DEF LastIsHeld
  <2> QED
    BY <2>1, <2>5, <2>6, <2>8 DEF TrendIInv
<1>3. CASE PositionCleared
  BY <1>3 DEF PositionCleared, TrendIInv, InTurn, LastIsHeld, Holding
<1>4. CASE StopCommand \/ StatusCommand
  BY <1>4 DEF StopCommand, StatusCommand, Receives, TrendIInv, InTurn, LastIsHeld, Holding
<1>5. CASE ChecksRunning \/ TestsPosition \/ ReadsPosition \/ Wakes \/ Terminated \/ LoopStopped \/ UNCHANGED tfVars
  <2>1. UNCHANGED <<tfSignals, tfPosition, tfAt, tfSeen>>
    BY <1>5 DEF ChecksRunning, TestsPosition, ReadsPosition, Wakes, Terminated, LoopStopped, tfVars
  <2> QED
    BY <2>1 DEF TrendIInv, InTurn, LastIsHeld, Holding
<1> QED
  BY <1>1, <1>2, <1>3, <1>4, <1>5 DEF TrendNext

LEMMA TrendHolds == TrendIInv => SignalsTellPosition
  BY DEF TrendIInv, SignalsTellPosition, InTurn, LastIsHeld

\* Whoever follows the trend follower's signals holds what the bot believes it holds,
\* for any readings and number of candles.
THEOREM TrendTells == TrendSpec => []SignalsTellPosition
  BY TrendHolds, TrendInitHolds, TrendStep, PTL DEF TrendSpec

------------------------------------------------------------------------------
(* The market maker.  Half of the spread is more than the skew takes of it, as  *)
(* long as the inventory allows an order at all.                                *)

LEMMA QuotesAreApart ==
    ASSUME InventoryAllowed
    PROVE  Quotes.bid < 0 /\ Quotes.ask > 0
<1>1. Skew \in -3000 .. 3000
  BY DEF InventoryAllowed, Skew
<1>2. MaxSpread \in Nat \ {0} /\ BaseSpread \in Nat \ {0} /\ MinSpread \in Nat \ {0}
  BY MakerAssumption
<1>3. Size(Skew) \in Nat
  BY <1>1 DEF Size
<1>4. Spread \in Nat /\ Spread >= 1000
  BY <1>2, <1>3 DEF Spread, Least
<1>5. Spread \div 2 \in Nat /\ Spread \div 2 >= 500
  BY <1>4
<1>6. PICK half \in Nat : half = Spread \div 2 /\ half >= 500
  BY <1>5
<1>7. PICK skew \in -3000 .. 3000 : skew = Skew
  BY <1>1
<1>8. PICK shift \in Int : shift = (skew * half) \div 10000 /\ -half < shift /\ shift < half
  <2>1. (3000 - skew) * half >= 0 /\ (skew + 3000) * half >= 0
    BY ONLY <1>6, <1>7
  <2>2. skew * half \in Int
    BY ONLY <1>6, <1>7
  <2>3. PICK p \in Int : p = skew * half
    BY <2>2
  <2>6. (3000 - skew) * half = 3000 * half - skew * half /\ (skew + 3000) * half = skew * half + 3000 * half
    BY ONLY <1>6, <1>7
  <2>4. p <= 3000 * half /\ p >= -(3000 * half)
    BY ONLY <1>6, <2>1, <2>3, <2>6
  <2>5. p \div 10000 \in Int /\ -half < p \div 10000 /\ p \div 10000 < half
    BY ONLY <1>6, <2>3, <2>4
  <2> QED
    BY <2>3, <2>5
<1>9. Quotes = [bid |-> -(half + shift), ask |-> half - shift]
  BY <1>6, <1>7, <1>8 DEF Quotes
<1> QED
  BY <1>8, <1>9

MakerIInv == mmBase \in Int /\ QuotesStraddle

LEMMA MakerInitHolds == MakerInit => MakerIInv
  BY DEF MakerInit, MakerIInv, QuotesStraddle

LEMMA MakerStep == MakerIInv /\ [MakerNext]_mmVars => MakerIInv'
<1> SUFFICES ASSUME MakerIInv, [MakerNext]_mmVars PROVE MakerIInv'
  OBVIOUS
<1>1. ASSUME NEW mid \in Mids, MakerPass(mid) PROVE MakerIInv'
  <2>1. PlaceOrders(mid) /\ mmBase' = mmBase
    BY <1>1 DEF MakerPass
  <2>2. CASE InventoryAllowed /\ mid > 0
    <3>1. Quotes.bid < 0 /\ Quotes.ask > 0
      BY <2>2, QuotesAreApart
    <3>2. \A o \in mmOrders' \ mmOrders :
              \E s \in {"buy", "sell"} :
                  /\ PositionAllowed(s) /\ o.side = s /\ o.coins = mmBase
                  /\ o.off = IF s = "buy" THEN Quotes.bid ELSE Quotes.ask
      BY <2>1, <2>2 DEF PlaceOrders
    <3> QED
      BY <2>1, <3>1, <3>2 DEF MakerIInv, QuotesStraddle, PositionAllowed
  <2>3. CASE ~(InventoryAllowed /\ mid > 0)
    BY <2>1, <2>3 DEF PlaceOrders, MakerIInv, QuotesStraddle
  <2> QED
    BY <2>2, <2>3
<1>2. CASE MakerWakes \/ MakerStop \/ UNCHANGED mmVars
  BY <1>2 DEF MakerWakes, MakerStop, mmVars, MakerIInv, QuotesStraddle
<1>3. ASSUME NEW side \in {"buy", "sell"}, NEW size \in TradeSizes, NEW price \in Mids,
             UpdateInventory(side, size, price)
      PROVE  MakerIInv'
  BY <1>3, MakerAssumption DEF UpdateInventory, MakerIInv, QuotesStraddle
<1> QED
  BY <1>1, <1>2, <1>3 DEF MakerNext

\* A bid of the market maker lies below the middle and an ask above it, for any
\* spreads, sizes, middles and reported trades.
THEOREM MakerStraddles == MakerSpec => []QuotesStraddle
<1>1. MakerIInv => QuotesStraddle
  BY DEF MakerIInv
<1> QED
  BY <1>1, MakerInitHolds, MakerStep, PTL DEF MakerSpec

------------------------------------------------------------------------------
(* The arbitrage bot.  The best of the crossing pairs has the widest gap of all *)
(* pairs: one with a wider gap that does not cross buys at a dearer exchange,   *)
(* and so the one that sells there and buys where the best buys is better yet.  *)

LEMMA Cheaper ==
    ASSUME NEW k \in Nat, NEW x \in Nat, NEW y \in Nat, k * x < k * y
    PROVE  x < y
<1> SUFFICES ASSUME x >= y PROVE FALSE
  OBVIOUS
<1>1. PICK d \in Nat : x = y + d
  OBVIOUS
<1>2. k * x = k * y + k * d /\ k * d >= 0 /\ k * y \in Nat
  BY <1>1
<1> QED
  BY <1>2

Books == [bid : Nat \ {0}, ask : Nat]
PairGap(q, b, s) == q[s].bid - q[b].ask

LEMMA WidestGap ==
    ASSUME NEW q \in [Exchanges -> Books], \A e \in Exchanges : q[e].bid <= q[e].ask,
           NEW ob \in Exchanges, NEW os \in Exchanges, Crossing(q, ob, os),
           \A b, s \in Exchanges : b # s /\ Crossing(q, b, s) => PairGap(q, b, s) <= PairGap(q, ob, os),
           NEW b \in Exchanges, NEW s \in Exchanges
    PROVE  PairGap(q, b, s) <= PairGap(q, ob, os)
<1> SUFFICES ASSUME PairGap(q, b, s) > PairGap(q, ob, os) PROVE FALSE
  BY DEF PairGap, Books
<1> USE ArbAssumption
<1>1. PICK g \in Int : g = PairGap(q, ob, os)
  BY DEF PairGap, Books
<1>2. PICK h \in Int : h = PairGap(q, b, s)
  BY DEF PairGap, Books
<1>3. /\ q[b].ask \in Nat /\ q[ob].ask \in Nat /\ q[s].bid \in Nat /\ q[s].ask \in Nat
      /\ q[b].bid \in Nat /\ q[s].bid <= q[s].ask /\ q[b].bid <= q[b].ask
      /\ h = q[s].bid - q[b].ask
  BY <1>2 DEF PairGap, Books
<1>4. h > g /\ g > 0 /\ g * 10000 >= MinSpreadBps * q[ob].ask /\ g >= MinProfit
  BY <1>1, <1>2 DEF Crossing, PairGap
<1>5. b # s
  BY <1>3, <1>4
<1>6. h * 10000 < MinSpreadBps * q[b].ask
  <2>1. ~Crossing(q, b, s)
    BY <1>1, <1>2, <1>4, <1>5
  <2>2. h > 0 /\ h >= MinProfit /\ MinSpreadBps * q[b].ask \in Nat
    BY <1>3, <1>4
  <2> QED
    BY <1>2, <2>1, <2>2 DEF Crossing, PairGap
<1>7. q[ob].ask < q[b].ask
  <2>1. MinSpreadBps \in Nat /\ MinSpreadBps * q[ob].ask \in Nat /\ MinSpreadBps * q[b].ask \in Nat
    BY <1>3
  <2>2. MinSpreadBps * q[ob].ask < MinSpreadBps * q[b].ask
    BY <1>4, <1>6, <2>1
  <2> QED
    BY <1>3, <2>1, <2>2, Cheaper
<1>8. PICK m \in Int : m = PairGap(q, ob, s) /\ m > h
  BY <1>3, <1>7 DEF PairGap
<1>9. CASE ob = s
  BY <1>3, <1>4, <1>7, <1>9
<1>10. CASE ob # s
  <2>1. MinSpreadBps * q[ob].ask \in Nat /\ m * 10000 >= MinSpreadBps * q[ob].ask
    BY <1>3, <1>4, <1>8
  <2>2. Crossing(q, ob, s)
    BY <1>4, <1>8, <2>1 DEF Crossing, PairGap
  <2> QED
    BY <1>1, <1>4, <1>8, <1>10, <2>2
<1> QED
  BY <1>9, <1>10

LEMMA Scanned ==
    ASSUME NEW q, Quoted' = Exchanges
    PROVE  \A any : any \in ScanOpportunities(q) <=>
               \E x, y \in Exchanges : x # y /\ Crossing(q, x, y) /\ any = Opportunity(q, x, y)
<1> DEFINE pairs == {p \in Quoted' \X Quoted' : p[1] # p[2] /\ Crossing(q, p[1], p[2])}
<1>1. \A x, y : <<x, y>> \in pairs <=> x \in Exchanges /\ y \in Exchanges /\ x # y /\ Crossing(q, x, y)
  OBVIOUS
<1>2. \A p \in pairs : p = <<p[1], p[2]>>
  OBVIOUS
<1>3. ScanOpportunities(q) = {Opportunity(q, p[1], p[2]) : p \in pairs}
  BY DEF ScanOpportunities
<1> HIDE DEF pairs
<1>4. ASSUME NEW any \in ScanOpportunities(q)
      PROVE  \E x, y \in Exchanges : x # y /\ Crossing(q, x, y) /\ any = Opportunity(q, x, y)
  <2>1. PICK p \in pairs : any = Opportunity(q, p[1], p[2])
    BY <1>3, <1>4
  <2> QED
    BY <1>1, <1>2, <2>1
<1>5. ASSUME NEW x \in Exchanges, NEW y \in Exchanges, x # y, Crossing(q, x, y)
      PROVE  Opportunity(q, x, y) \in ScanOpportunities(q)
  <2>1. <<x, y>> \in pairs /\ <<x, y>>[1] = x /\ <<x, y>>[2] = y
    BY <1>1, <1>5
  <2> QED
    BY <1>3, <2>1
<1> QED
  BY <1>4, <1>5

Pays(d) ==
    /\ PairGap(d.quotes, d.of.buy, d.of.sell) * 10000 >= MinProfit * 10000 + d.of.price * SlippageBps
    /\ \A b, s \in Exchanges : PairGap(d.quotes, b, s) <= PairGap(d.quotes, d.of.buy, d.of.sell)

ArbIInv ==
    /\ arTrades \in Nat /\ arTrades <= MaxDailyTrades
    /\ \A d \in arDone : Pays(d)

LEMMA ArbInitHolds == ArbInit => ArbIInv
  BY ArbAssumption DEF ArbInit, ArbIInv

LEMMA ArbPasses ==
    ASSUME ArbIInv, NEW b \in [Exchanges -> Bids], NEW w \in [Exchanges -> Widths], ArbPass(b, w)
    PROVE  ArbIInv'
<1> USE ArbAssumption
<1>1. CASE UNCHANGED <<arTrades, arDone>>
  BY <1>1 DEF ArbIInv
<1>2. CASE ~UNCHANGED <<arTrades, arDone>>
  <2>1. PICK o \in Best(ScanOpportunities(arPrices')) : ExecuteArbitrage(o)
    BY <1>2 DEF ArbPass
  <2>2. PICK q : q = arPrices' /\ q = [e \in Exchanges |-> Bid(b[e], w[e])]
    BY DEF ArbPass
  <2>3. q \in [Exchanges -> Books] /\ \A e \in Exchanges : q[e].bid <= q[e].ask
    <3>1. \A e \in Exchanges : b[e] \in Nat \ {0} /\ w[e] \in Nat
      OBVIOUS
    <3>2. \A e \in Exchanges : Bid(b[e], w[e]) \in Books /\ Bid(b[e], w[e]).bid <= Bid(b[e], w[e]).ask
      BY <3>1 DEF Bid, Books
    <3> QED
      BY <2>2, <3>2
  <2>4. Quoted' = Exchanges
    BY <2>2, <2>3 DEF Quoted, NoQuote, Books
  <2>5. PICK found : found = ScanOpportunities(arPrices') /\ o \in Best(found)
    BY <2>1
  <2>6. \A any : any \in found <=> \E x, y \in Exchanges :
                                        x # y /\ Crossing(q, x, y) /\ any = Opportunity(q, x, y)
    BY Zenon, <2>2, <2>4, <2>5, Scanned
  <2>7. PICK ob \in Exchanges, os \in Exchanges : o = Opportunity(q, ob, os) /\ Crossing(q, ob, os)
    BY <2>5, <2>6 DEF Best
  <2>8. \A x, y \in Exchanges : x # y /\ Crossing(q, x, y) => PairGap(q, x, y) <= PairGap(q, ob, os)
    <3> SUFFICES ASSUME NEW x \in Exchanges, NEW y \in Exchanges, x # y, Crossing(q, x, y)
                 PROVE  PairGap(q, x, y) <= PairGap(q, ob, os)
      OBVIOUS
    <3>2. Opportunity(q, x, y) \in found
      BY <2>6
    <3>3. Opportunity(q, x, y).profit <= o.profit
      BY <2>5, <3>2 DEF Best
    <3> QED
      BY <2>7, <3>3 DEF Opportunity, PairGap
  <2>9. \A x, y \in Exchanges : PairGap(q, x, y) <= PairGap(q, ob, os)
    BY <2>3, <2>7, <2>8, WidestGap
  <2>10. /\ arTrades < MaxDailyTrades /\ arTrades' = arTrades + 1
         /\ o.profit * 10000 - o.price * SlippageBps >= MinProfit * 10000
         /\ arDone' = arDone \cup {[pass |-> arPasses, of |-> o, quotes |-> q]}
    BY <1>2, <2>1, <2>2 DEF ExecuteArbitrage, ValidateExecution
  <2>11. PairGap(q, ob, os) * 10000 >= MinProfit * 10000 + o.price * SlippageBps
    <3>1. o.profit = PairGap(q, ob, os) /\ o.profit \in Int /\ o.price \in Nat
      BY <2>3, <2>7 DEF Opportunity, PairGap, Books
    <3>2. PICK c \in Nat : c = o.price * SlippageBps
      BY <3>1
    <3> QED
      BY <2>10, <3>1, <3>2
  <2>12. o.buy = ob /\ o.sell = os
    BY <2>7 DEF Opportunity
  <2>13. Pays([pass |-> arPasses, of |-> o, quotes |-> q])
    BY <2>9, <2>11, <2>12 DEF Pays
  <2> QED
    BY <2>10, <2>13 DEF ArbIInv
<1> QED
  BY <1>1, <1>2

LEMMA ArbStep == ArbIInv /\ [ArbNext]_arVars => ArbIInv'
<1> SUFFICES ASSUME ArbIInv, [ArbNext]_arVars PROVE ArbIInv'
  OBVIOUS
<1>1. ASSUME NEW b \in [Exchanges -> Bids], NEW w \in [Exchanges -> Widths], ArbPass(b, w)
      PROVE  ArbIInv'
  BY <1>1, ArbPasses
<1>2. CASE ArbWakes \/ ArbStop \/ UNCHANGED arVars
  BY <1>2 DEF ArbWakes, ArbStop, arVars, ArbIInv
<1> QED
  BY <1>1, <1>2 DEF ArbNext

LEMMA ArbHolds == ArbIInv => TradesPay
  BY DEF ArbIInv, TradesPay, Pays, PairGap

\* What the arbitrage bot executes pays after the slippage, and no pair of the moment
\* paid more, for any exchanges, quotes and limits.
THEOREM ArbPays == ArbSpec => []TradesPay
  BY ArbHolds, ArbInitHolds, ArbStep, PTL DEF ArbSpec

------------------------------------------------------------------------------
(* The prediction-market bot.  A market still to be looked at in a pass has one *)
(* bet to come, so that the bets on it never exceed the passes.                 *)

BetType == [market : PredMarkets, side : {"yes", "no"}, edge : Int, amount : MinBet .. MaxBet, price : Int]
BetsOn(trades, id) == {i \in DOMAIN trades : trades[i].market = id}
ToCome(id, where) == IF id \in where.todo THEN 1 ELSE 0

PolyIInv ==
    /\ poAt \in [pc : {"initialize", "greet", "fetch", "predict", "notify", "sleep", "ended"},
                  todo : SUBSET PredMarkets]
    /\ poAt.pc \notin {"predict", "notify"} => poAt.todo = {}
    /\ poPasses \in Nat /\ poTrades \in Seq(BetType)
    /\ \A i \in DOMAIN poTrades : poTrades[i].side = "yes" <=> poTrades[i].edge >= MinEdge
    /\ \A id \in PredMarkets : Cardinality(BetsOn(poTrades, id)) + ToCome(id, poAt) <= poPasses

LEMMA BetsCounted ==
    ASSUME NEW trades \in Seq(BetType), NEW bet \in BetType, NEW id
    PROVE  /\ Cardinality(BetsOn(trades, id)) \in Nat
           /\ Cardinality(BetsOn(Append(trades, bet), id)) =
                  Cardinality(BetsOn(trades, id)) + (IF bet.market = id THEN 1 ELSE 0)
<1>1. /\ DOMAIN Append(trades, bet) = DOMAIN trades \cup {Len(trades) + 1} /\ Len(trades) \in Nat
      /\ DOMAIN trades = 1 .. Len(trades)
      /\ \A i \in DOMAIN trades : Append(trades, bet)[i] = trades[i]
      /\ Append(trades, bet)[Len(trades) + 1] = bet
  BY Publishes
<1>2. IsFiniteSet(BetsOn(trades, id))
  <2>1. IsFiniteSet(1 .. Len(trades))
    BY <1>1, FS_Interval
  <2>2. BetsOn(trades, id) \subseteq 1 .. Len(trades)
    BY <1>1 DEF BetsOn
  <2> QED
    BY <2>1, <2>2, FS_Subset
<1>3. Cardinality(BetsOn(trades, id)) \in Nat
  BY <1>2, FS_CardinalityType
<1>4. Len(trades) + 1 \notin BetsOn(trades, id)
  BY <1>1 DEF BetsOn
<1>5. CASE bet.market = id
  <2>1. BetsOn(Append(trades, bet), id) = BetsOn(trades, id) \cup {Len(trades) + 1}
    BY <1>1, <1>5 DEF BetsOn
  <2> QED
    BY <1>2, <1>3, <1>4, <1>5, <2>1, FS_AddElement
<1>6. CASE bet.market # id
  <2>1. BetsOn(Append(trades, bet), id) = BetsOn(trades, id)
    BY <1>1, <1>6 DEF BetsOn
  <2> QED
    BY <1>3, <1>6, <2>1
<1> QED
  BY <1>3, <1>5, <1>6

\* A bet lies within its bounds, and is on the side of the model's edge.
LEMMA BetFits ==
    ASSUME NEW id \in PredMarkets, NEW market \in YesPrices, NEW model \in ModelAnswers,
           Opportune(market, model)
    PROVE  /\ Bet(id, market, model) \in BetType /\ Bet(id, market, model).market = id
           /\ Bet(id, market, model).side = "yes" <=> Bet(id, market, model).edge >= MinEdge
<1> USE PolyAssumption
<1>1. PICK edge \in Int : edge = Edge(market, model)
  BY DEF Edge
<1>2. MinBet \in Nat /\ MaxBet \in Nat /\ MinBet <= MaxBet /\ BetCapital \in Nat /\ market \in 0 .. 100
      /\ MinEdge \in Nat \ {0}
  OBVIOUS
<1>3. Recommended(market, edge) \in MinBet .. MaxBet
  <2> DEFINE kelly == IF edge > 0 THEN (BetCapital * edge * 25) \div (market * (100 - market)) ELSE 0
             capped == IF kelly > BetCapital \div 2 THEN BetCapital \div 2 ELSE kelly
  <2>1. kelly \in Int
    <3>1. CASE edge > 0
      <4>1. market \in 1 .. 99
        BY <1>1, <1>2, <3>1 DEF Opportune
      <4>2. market * (100 - market) \in Nat \ {0}
        BY ONLY <4>1
      <4>3. BetCapital * edge * 25 \in Int
        BY <1>2
      <4> QED
        BY <3>1, <4>2, <4>3
    <3>2. CASE ~(edge > 0)
      BY <3>2
    <3> QED
      BY <3>1, <3>2
  <2>2. Recommended(market, edge) = IF capped < MinBet THEN MinBet ELSE IF capped > MaxBet THEN MaxBet ELSE capped
    BY DEF Recommended
  <2> HIDE DEF kelly
  <2>3. capped \in Int
    BY <1>2, <2>1
  <2> HIDE DEF capped
  <2> QED
    BY <1>2, <2>2, <2>3
<1>4. edge > 0 <=> edge >= MinEdge
  BY <1>1, <1>2 DEF Opportune, Abs
<1>5. Bet(id, market, model) =
          [market |-> id, side |-> IF edge > 0 THEN "yes" ELSE "no", edge |-> edge,
           amount |-> Recommended(market, edge), price |-> IF edge > 0 THEN market ELSE 100 - market]
  BY <1>1 DEF Bet
<1> HIDE DEF Recommended
<1> QED
  BY <1>2, <1>3, <1>4, <1>5 DEF BetType

LEMMA PolyInitHolds == PolyInit => PolyIInv
<1> SUFFICES ASSUME PolyInit PROVE PolyIInv
  OBVIOUS
<1>1. poTrades = <<>> /\ poAt = [pc |-> "initialize", todo |-> {}] /\ poPasses = 0
  BY DEF PolyInit, Where
<1>2. \A id : BetsOn(poTrades, id) = {}
  BY <1>1 DEF BetsOn
<1> QED
  BY <1>1, <1>2, FS_EmptySet DEF PolyIInv, ToCome

\* A step that bets nothing and takes nothing up: what is to come grows no larger.
LEMMA PolyMoves ==
    ASSUME PolyIInv, poTrades' = poTrades, poPasses' \in Nat,
           NEW pc \in {"greet", "fetch", "predict", "notify", "sleep", "ended"},
           NEW todo \in SUBSET PredMarkets,
           poAt' = Where(pc, todo), pc \notin {"predict", "notify"} => todo = {},
           \/ poPasses' = poPasses /\ todo \subseteq poAt.todo
           \/ poPasses' = poPasses + 1
    PROVE  PolyIInv'
<1>1. poAt' = [pc |-> pc, todo |-> todo]
  BY DEF Where
<1>2. \A id \in PredMarkets : Cardinality(BetsOn(poTrades, id)) + ToCome(id, poAt') <= poPasses'
  <2> SUFFICES ASSUME NEW id \in PredMarkets
               PROVE  Cardinality(BetsOn(poTrades, id)) + ToCome(id, poAt') <= poPasses'
    OBVIOUS
  <2>1. PICK n \in Nat : n = Cardinality(BetsOn(poTrades, id))
    <3>1. poTrades \in Seq(BetType) /\ BetsOn(poTrades, id) \subseteq DOMAIN poTrades
      BY DEF PolyIInv, BetsOn
    <3>2. Len(poTrades) \in Nat /\ DOMAIN poTrades = 1 .. Len(poTrades)
      BY <3>1
    <3>3. IsFiniteSet(DOMAIN poTrades)
      BY <3>2, FS_Interval
    <3> QED
      BY <3>1, <3>3, FS_Subset, FS_CardinalityType
  <2>2. n + ToCome(id, poAt) <= poPasses /\ ToCome(id, poAt) \in {0, 1} /\ poPasses \in Nat
    BY <2>1 DEF PolyIInv, ToCome
  <2>3. ToCome(id, poAt') \in {0, 1} /\ (todo \subseteq poAt.todo => ToCome(id, poAt') <= ToCome(id, poAt))
    BY <1>1 DEF ToCome
  <2> QED
    BY <2>1, <2>2, <2>3
<1> QED
  BY <1>1, <1>2 DEF PolyIInv

LEMMA PolyStep == PolyIInv /\ [PolyNext]_poVars => PolyIInv'
<1> SUFFICES ASSUME PolyIInv, [PolyNext]_poVars PROVE PolyIInv'
  OBVIOUS
<1>1. poPasses \in Nat /\ poAt.todo \subseteq PredMarkets /\ {} \subseteq poAt.todo
  BY DEF PolyIInv
<1>2. CASE PolyStop \/ PolyCancelled \/ UNCHANGED poVars
  <2>1. UNCHANGED <<poAt, poTrades, poPasses>>
    BY <1>2 DEF PolyStop, PolyCancelled, poVars, poCounts
  <2> QED
    BY <2>1 DEF PolyIInv
<1>3. ASSUME NEW live \in BOOLEAN, Initialized(live) PROVE PolyIInv'
  <2>1. poAt' = Where("greet", {}) /\ poTrades' = poTrades /\ poPasses' = poPasses
    BY <1>3 DEF Initialized, poCounts
  <2> QED
    BY <1>1, <2>1, PolyMoves
<1>4. CASE PolyChecks
  <2>1. /\ poTrades' = poTrades /\ poPasses' = poPasses
        /\ poAt' = Where("fetch", {}) \/ poAt' = Where("ended", {})
    BY <1>4 DEF PolyChecks, poCounts
  <2> QED
    BY <1>1, <2>1, PolyMoves
<1>5. CASE BetNotified
  <2>1. poTrades' = poTrades /\ poPasses' = poPasses /\ poAt' = Rest(poAt.todo)
    BY <1>5 DEF BetNotified, poCounts
  <2>2. CASE poAt.todo = {}
    <3>1. poAt' = Where("sleep", {})
      BY <2>1, <2>2 DEF Rest
    <3> QED
      BY <1>1, <2>1, <3>1, PolyMoves
  <2>3. CASE poAt.todo # {}
    <3>1. poAt' = Where("predict", poAt.todo)
      BY <2>1, <2>3 DEF Rest
    <3> QED
      BY <1>1, <2>1, <3>1, PolyMoves
  <2> QED
    BY <2>2, <2>3
<1>6. CASE CancelStops
  <2>1. poTrades' = poTrades /\ poPasses' = poPasses /\ poAt' = Where("ended", {})
    BY <1>6 DEF CancelStops, poCounts
  <2> QED
    BY <1>1, <2>1, PolyMoves
<1>7. ASSUME NEW ms \in SUBSET PredMarkets, MarketsFetched(ms) PROVE PolyIInv'
  <2>1. poTrades' = poTrades /\ poPasses' = poPasses + 1
    BY <1>7 DEF MarketsFetched, poCounts
  <2>2. CASE ms = {}
    <3>1. poAt' = Where("sleep", {})
      BY <1>7, <2>2 DEF MarketsFetched
    <3> QED
      BY <1>1, <2>1, <3>1, PolyMoves
  <2>3. CASE ms # {}
    <3>1. poAt' = Where("predict", ms)
      BY <1>7, <2>3 DEF MarketsFetched
    <3> QED
      BY <1>1, <2>1, <3>1, PolyMoves
  <2> QED
    BY <2>2, <2>3
<1>8. ASSUME NEW id \in PredMarkets, NEW market \in YesPrices, NEW model \in ModelAnswers,
             MarketAnalyzed(id, market, model)
      PROVE  PolyIInv'
  <2>1. id \in poAt.todo /\ poPasses' = poPasses
    BY <1>8 DEF MarketAnalyzed
  <2>2. CASE Opportune(market, model)
    <3>1. PICK bet \in BetType : /\ bet.market = id /\ (bet.side = "yes" <=> bet.edge >= MinEdge)
                                 /\ poTrades' = Append(poTrades, bet)
      BY <1>8, <2>2, BetFits DEF MarketAnalyzed, PlaceBet
    <3>2. poAt' = [pc |-> "notify", todo |-> poAt.todo \ {id}]
      BY <1>8, <2>2 DEF MarketAnalyzed, Where
    <3>3. poTrades \in Seq(BetType)
      BY DEF PolyIInv
    <3>4. /\ poTrades' \in Seq(BetType) /\ DOMAIN poTrades' = DOMAIN poTrades \cup {Len(poTrades) + 1}
          /\ \A i \in DOMAIN poTrades : poTrades'[i] = poTrades[i]
          /\ poTrades'[Len(poTrades) + 1] = bet
      BY <3>1, <3>3, Publishes
    <3>5. \A i \in DOMAIN poTrades' : poTrades'[i].side = "yes" <=> poTrades'[i].edge >= MinEdge
      BY <3>1, <3>4 DEF PolyIInv
    <3>6. \A any \in PredMarkets :
              Cardinality(BetsOn(poTrades', any)) + ToCome(any, poAt') <= poPasses
      <4> SUFFICES ASSUME NEW any \in PredMarkets
                   PROVE  Cardinality(BetsOn(poTrades', any)) + ToCome(any, poAt') <= poPasses
        OBVIOUS
      <4>1. PICK n \in Nat : /\ n = Cardinality(BetsOn(poTrades, any))
                             /\ Cardinality(BetsOn(poTrades', any)) = n + (IF bet.market = any THEN 1 ELSE 0)
        BY <3>1, <3>3, BetsCounted
      <4>2. n + ToCome(any, poAt) <= poPasses
        BY <4>1 DEF PolyIInv
      <4>3. /\ ToCome(any, poAt) \in {0, 1} /\ ToCome(any, poAt') \in {0, 1}
            /\ IF any = id THEN ToCome(any, poAt) = 1 /\ ToCome(any, poAt') = 0
               ELSE ToCome(any, poAt') = ToCome(any, poAt)
        BY <2>1, <3>2 DEF ToCome
      <4> QED
        BY <1>1, <3>1, <4>1, <4>2, <4>3
    <3> QED
      BY <1>1, <2>1, <3>2, <3>4, <3>5, <3>6 DEF PolyIInv
  <2>3. CASE ~Opportune(market, model)
    <3>1. poTrades' = poTrades /\ poAt' = Rest(poAt.todo \ {id})
      BY <1>8, <2>3 DEF MarketAnalyzed, poCounts
    <3>2. poAt' = Where("sleep", {}) \/ poAt' = Where("predict", poAt.todo \ {id})
      BY <3>1 DEF Rest
    <3>3. poAt.todo \ {id} \in SUBSET PredMarkets
      BY <1>1
    <3>4. CASE poAt' = Where("sleep", {})
      <4>1. poTrades' = poTrades /\ poPasses' = poPasses
        BY <2>1, <3>1
      <4> QED
        BY <1>1, <3>4, <4>1, PolyMoves
    <3>5. CASE poAt' = Where("predict", poAt.todo \ {id})
      BY <1>1, <2>1, <3>1, <3>3, <3>5, PolyMoves
    <3> QED
      BY <3>2, <3>4, <3>5
  <2> QED
    BY <2>2, <2>3
<1> QED
  BY <1>2, <1>3, <1>4, <1>5, <1>6, <1>7, <1>8 DEF PolyNext

LEMMA PolyHolds == PolyIInv => BetsAreBounded
<1> SUFFICES ASSUME PolyIInv PROVE BetsAreBounded
  OBVIOUS
<1>1. \A i \in DOMAIN poTrades : poTrades[i] \in BetType
  BY DEF PolyIInv
<1>2. \A id \in PredMarkets : Cardinality(BetsOn(poTrades, id)) <= poPasses
  <2> SUFFICES ASSUME NEW id \in PredMarkets PROVE Cardinality(BetsOn(poTrades, id)) <= poPasses
    OBVIOUS
  <2>1. IsFiniteSet(DOMAIN poTrades) /\ BetsOn(poTrades, id) \subseteq DOMAIN poTrades
    BY FS_Interval DEF PolyIInv, BetsOn
  <2>2. Cardinality(BetsOn(poTrades, id)) \in Nat
    BY <2>1, FS_Subset, FS_CardinalityType
  <2>3. Cardinality(BetsOn(poTrades, id)) + ToCome(id, poAt) <= poPasses /\ poPasses \in Nat
    BY DEF PolyIInv
  <2> QED
    BY <2>2, <2>3 DEF ToCome
<1>3. \A i \in DOMAIN poTrades : /\ poTrades[i].amount \in MinBet .. MaxBet
                                 /\ (poTrades[i].side = "yes") <=> (poTrades[i].edge >= MinEdge)
  BY <1>1 DEF PolyIInv, BetType
<1> QED
  BY <1>2, <1>3 DEF BetsAreBounded, BetsOn

\* A market is bet on once a pass at most, within the bounds and on the side the
\* model prefers, for any markets, prices, answers and cancellations.
THEOREM PolyBets == PolySpec => []BetsAreBounded
  BY PolyHolds, PolyInitHolds, PolyStep, PTL DEF PolySpec

------------------------------------------------------------------------------
(* The pipelines.  While a command is asked for, each attempt before this one   *)
(* has sent at most one command or is still to send it; afterwards what was     *)
(* sent and what is late fit in the attempts allowed.                           *)

PipeType ==
    [by : {"batch", "monitor"}, step : PipeSteps, attempt : Nat, action : {"BUY", "SELL", "HOLD"},
     status : {"none", "sent", "failed"}, sent : Nat, late : Nat, saved : SUBSET BOOLEAN, taken : BOOLEAN]

PipeFits(p) ==
    /\ p.sent + p.late <= Attempts["execute"]
    /\ p.step = "execute" => p.attempt <= Attempts["execute"] /\ p.sent + p.late <= p.attempt - 1
    /\ p.step \in {"collect", "signal"} => p.sent = 0 /\ p.late = 0
    /\ p.action = "HOLD" => p.sent = 0 /\ p.late = 0 /\ p.step # "execute"
    /\ p.status = "sent" => p.sent > 0
    /\ TRUE \in p.saved => p.sent > 0

PipesIInv == tpPipes \in Seq(PipeType) /\ \A i \in DOMAIN tpPipes : PipeFits(tpPipes[i])

LEMMA PipesInitHolds == PipesInit => PipesIInv
  BY DEF PipesInit, PipesIInv

LEMMA OnePipeSet ==
    ASSUME PipesIInv, NEW i \in DOMAIN tpPipes, NEW p \in PipeType, PipeFits(p),
           tpPipes' = [tpPipes EXCEPT ![i] = p]
    PROVE  PipesIInv'
<1>1. /\ tpPipes' \in Seq(PipeType) /\ DOMAIN tpPipes' = DOMAIN tpPipes
      /\ \A k \in DOMAIN tpPipes : tpPipes'[k] = IF k = i THEN p ELSE tpPipes[k]
  BY DEF PipesIInv
<1> QED
  BY <1>1 DEF PipesIInv

LEMMA PipeStarted ==
    ASSUME PipesIInv, NEW by \in {"batch", "monitor"}, tpPipes' = Append(tpPipes, NewPipe(by))
    PROVE  PipesIInv'
<1>1. NewPipe(by) \in PipeType
  BY DEF NewPipe, PipeType, PipeSteps
<1>2. PipeFits(NewPipe(by))
  BY PipelinesAssumption DEF NewPipe, PipeFits
<1>3. tpPipes \in Seq(PipeType)
  BY DEF PipesIInv
<1>4. /\ tpPipes' \in Seq(PipeType) /\ DOMAIN tpPipes' = DOMAIN tpPipes \cup {Len(tpPipes) + 1}
      /\ \A k \in DOMAIN tpPipes : tpPipes'[k] = tpPipes[k]
      /\ tpPipes'[Len(tpPipes) + 1] = NewPipe(by)
  BY <1>1, <1>3, Publishes
<1> QED
  BY <1>2, <1>4 DEF PipesIInv

\* What the next step of a pipeline is, and that the rest of it stays.
LEMMA GoesOn ==
    ASSUME NEW p \in PipeType, p.step \in {"collect", "signal", "execute", "save"}
    PROVE  /\ Onward(p) \in PipeType
           /\ Onward(p).attempt = 1 /\ Onward(p).action = p.action /\ Onward(p).status = p.status
           /\ Onward(p).sent = p.sent /\ Onward(p).late = p.late /\ Onward(p).saved = p.saved
           /\ p.step = "collect" => Onward(p).step = "signal"
           /\ p.step = "signal" => Onward(p).step = IF p.action = "HOLD" THEN "completed" ELSE "execute"
           /\ p.step = "execute" => Onward(p).step = "save"
           /\ p.step = "save" => Onward(p).step = "completed"
<1>1. PICK next \in PipeSteps : /\ Onward(p) = [p EXCEPT !.attempt = 1, !.step = next]
                                /\ p.step = "collect" => next = "signal"
                                /\ p.step = "signal" => next = IF p.action = "HOLD" THEN "completed" ELSE "execute"
                                /\ p.step = "execute" => next = "save"
                                /\ p.step = "save" => next = "completed"
  BY DEF Onward, PipeSteps
<1>2. PICK q : q = Onward(p)
  OBVIOUS
<1>5. q = [p EXCEPT !.attempt = 1, !.step = next]
  BY <1>1, <1>2
<1>3. q \in PipeType
  BY <1>5 DEF PipeType
<1>4. /\ q.attempt = 1 /\ q.step = next /\ q.action = p.action /\ q.status = p.status
      /\ q.sent = p.sent /\ q.late = p.late /\ q.saved = p.saved
  BY <1>1, <1>2 DEF PipeType
<1> QED
  BY <1>1, <1>2, <1>3, <1>4

\* An answer that leaves the counts and the results alone, outside "execute".
LEMMA GoesOnFitting ==
    ASSUME NEW p \in PipeType, PipeFits(p), p.step \in {"collect", "signal", "save"}
    PROVE  Onward(p) \in PipeType /\ PipeFits(Onward(p))
<1>1. Attempts["execute"] \in Nat \ {0}
  BY PipelinesAssumption
<1>2. CASE p.step = "collect"
  BY <1>1, <1>2, GoesOn DEF PipeFits
<1>3. CASE p.step = "signal"
  <2>1. PICK q \in PipeType :
            /\ q = Onward(p) /\ q.attempt = 1 /\ q.action = p.action /\ q.status = p.status
            /\ q.sent = p.sent /\ q.late = p.late /\ q.saved = p.saved
            /\ q.step = IF p.action = "HOLD" THEN "completed" ELSE "execute"
    BY <1>3, GoesOn
  <2>0. p.sent = 0 /\ p.late = 0 /\ ~(p.sent > 0)
    BY <1>3 DEF PipeFits
  <2>2. p.sent = 0 /\ p.late = 0 /\ p.status # "sent" /\ TRUE \notin p.saved
    BY <2>0 DEF PipeFits
  <2>3. q.sent + q.late = 0 /\ q.attempt <= Attempts["execute"]
    BY <1>1, <2>1, <2>2
  <2>4. q.status # "sent" /\ TRUE \notin q.saved
    BY <2>1, <2>2
  <2>5. q.action = "HOLD" => q.step = "completed"
    BY <2>1
  <2>7. /\ q.sent + q.late <= Attempts["execute"]
        /\ q.attempt <= Attempts["execute"] /\ q.sent + q.late <= q.attempt - 1
        /\ q.sent = 0 /\ q.late = 0
    BY ONLY <1>1, <2>1, <2>2, <2>3
  <2>8. q.action = "HOLD" => q.step # "execute"
    BY ONLY <2>5
  <2>6. PipeFits(q)
    BY ONLY <2>4, <2>7, <2>8, Zenon DEF PipeFits
  <2> QED
    BY <2>1, <2>6
<1>4. CASE p.step = "save"
  BY <1>1, <1>4, GoesOn DEF PipeFits
<1> QED
  BY <1>2, <1>3, <1>4

LEMMA CommandFits ==
    ASSUME NEW p \in PipeType, PipeFits(p), p.step = "execute", NEW status \in {"sent", "failed"},
           NEW q, q = Onward([p EXCEPT !.status = status, !.sent = @ + (IF status = "sent" THEN 1 ELSE 0)])
    PROVE  q \in PipeType /\ PipeFits(q)
<1>1. PICK n \in {0, 1} : (status = "sent" <=> n = 1) /\ n = IF status = "sent" THEN 1 ELSE 0
  OBVIOUS
<1>2. PICK r \in PipeType :
          /\ r = [p EXCEPT !.status = status, !.sent = @ + (IF status = "sent" THEN 1 ELSE 0)]
          /\ r.step = "execute" /\ r.action = p.action /\ r.status = status /\ r.sent = p.sent + n
          /\ r.late = p.late /\ r.saved = p.saved
  <2>1. PICK m \in Nat : m = p.sent + n
    BY DEF PipeType
  <2>2. PICK r : r = [p EXCEPT !.status = status, !.sent = m]
    OBVIOUS
  <2>3. r \in PipeType
    BY <2>2 DEF PipeType
  <2>4. /\ r.step = p.step /\ r.action = p.action /\ r.status = status /\ r.sent = m
        /\ r.late = p.late /\ r.saved = p.saved
    BY <2>2 DEF PipeType
  <2> QED
    BY <1>1, <2>1, <2>2, <2>3, <2>4
<1>3. /\ q \in PipeType /\ q.step = "save" /\ q.action = p.action /\ q.status = status
      /\ q.sent = p.sent + n /\ q.late = p.late /\ q.saved = p.saved
  <2>1. q = Onward(r)
    BY <1>2
  <2>3. r \in PipeType /\ r.step = "execute" /\ r.step \in {"collect", "signal", "execute", "save"}
    BY <1>2
  <2>4. /\ Onward(r) \in PipeType
        /\ Onward(r).action = r.action /\ Onward(r).status = r.status
        /\ Onward(r).sent = r.sent /\ Onward(r).late = r.late /\ Onward(r).saved = r.saved
        /\ r.step = "execute" => Onward(r).step = "save"
    BY ONLY <2>3, GoesOn
  <2>2. /\ q \in PipeType /\ q.step = "save" /\ q.action = r.action /\ q.status = r.status
        /\ q.sent = r.sent /\ q.late = r.late /\ q.saved = r.saved
    BY ONLY <2>1, <2>3, <2>4
  <2> QED
    BY <1>2, <2>1, <2>2
<1>4. Attempts["execute"] \in Nat /\ p.sent \in Nat /\ p.late \in Nat /\ p.attempt \in Nat
  BY PipelinesAssumption DEF PipeType
<1>5. p.attempt <= Attempts["execute"] /\ p.sent + p.late <= p.attempt - 1 /\ p.action # "HOLD"
  BY DEF PipeFits
<1>6. q.sent + q.late <= Attempts["execute"]
  BY <1>1, <1>3, <1>4, <1>5
<1>7. (q.status = "sent" \/ TRUE \in q.saved) => q.sent > 0
  <2>1. TRUE \in p.saved => p.sent > 0
    BY DEF PipeFits
  <2>2. CASE status = "sent"
    BY <1>1, <1>3, <1>4, <2>2
  <2>3. CASE status # "sent"
    <3>1. q.status # "sent" /\ q.sent = p.sent /\ q.saved = p.saved
      BY <1>1, <1>3, <1>4, <2>3
    <3> QED
      BY <2>1, <3>1
  <2> QED
    BY <2>2, <2>3
<1>8. PipeFits(q)
  BY <1>3, <1>5, <1>6, <1>7 DEF PipeFits
<1> QED
  BY <1>2, <1>3, <1>8

LEMMA LostFits ==
    ASSUME NEW p \in PipeType, PipeFits(p), p.step \in {"collect", "signal", "execute", "save"},
           NEW dSent \in {0, 1}, NEW dLate \in {0, 1}, dSent + dLate <= 1,
           p.step # "execute" => dSent = 0 /\ dLate = 0,
           NEW saved \in SUBSET BOOLEAN, TRUE \in saved => p.sent > 0,
           NEW q, q = NotAnswered([p EXCEPT !.sent = @ + dSent, !.late = @ + dLate, !.saved = saved])
    PROVE  q \in PipeType /\ PipeFits(q)
<1>1. PICK r \in PipeType :
          /\ r = [p EXCEPT !.sent = @ + dSent, !.late = @ + dLate, !.saved = saved]
          /\ r.step = p.step /\ r.action = p.action /\ r.status = p.status /\ r.sent = p.sent + dSent
          /\ r.late = p.late + dLate /\ r.saved = saved /\ r.attempt = p.attempt
  <2>1. PICK n \in Nat, l \in Nat : n = p.sent + dSent /\ l = p.late + dLate
    BY DEF PipeType
  <2>2. PICK r : r = [p EXCEPT !.sent = n, !.late = l, !.saved = saved]
    OBVIOUS
  <2>3. r \in PipeType
    BY <2>2 DEF PipeType
  <2>4. /\ r.step = p.step /\ r.action = p.action /\ r.status = p.status /\ r.sent = n
        /\ r.late = l /\ r.saved = saved /\ r.attempt = p.attempt
    BY <2>2 DEF PipeType
  <2> QED
    BY <2>1, <2>2, <2>3, <2>4
<1>2. /\ Attempts["execute"] \in Nat /\ Attempts[p.step] \in Nat /\ p.sent \in Nat /\ p.late \in Nat
      /\ p.attempt \in Nat
  BY PipelinesAssumption DEF PipeType
<1>3. p.sent + p.late + dSent + dLate <= Attempts["execute"]
  <2>1. CASE p.step = "execute"
    BY <1>2, <2>1 DEF PipeFits
  <2>2. CASE p.step # "execute"
    BY <1>2, <2>2 DEF PipeFits
  <2> QED
    BY <2>1, <2>2
<1>4. /\ r.status = "sent" => r.sent > 0
      /\ TRUE \in r.saved => r.sent > 0
      /\ r.action = "HOLD" => r.sent = 0 /\ r.late = 0 /\ p.step # "execute"
      /\ p.step \in {"collect", "signal"} => r.sent = 0 /\ r.late = 0
  <2>1. r.status = "sent" => r.sent > 0
    BY <1>1, <1>2 DEF PipeFits
  <2>2. TRUE \in r.saved => r.sent > 0
    BY <1>1, <1>2
  <2>3. /\ r.action = "HOLD" => r.sent = 0 /\ r.late = 0 /\ p.step # "execute"
        /\ p.step \in {"collect", "signal"} => r.sent = 0 /\ r.late = 0
    BY <1>1, <1>2 DEF PipeFits
  <2> QED
    BY <2>1, <2>2, <2>3
<1>5. CASE r.attempt < Attempts[r.step]
  <2>1. /\ q \in PipeType /\ q.step = p.step /\ q.attempt = p.attempt + 1 /\ q.action = r.action
        /\ q.status = r.status /\ q.sent = r.sent /\ q.late = r.late /\ q.saved = r.saved
    <3>1. PICK a \in Nat : a = p.attempt + 1
      BY <1>2
    <3>2. q = [r EXCEPT !.attempt = a]
      BY <1>1, <1>5, <3>1 DEF NotAnswered
    <3>3. q \in PipeType
      BY <3>2 DEF PipeType
    <3>4. /\ q.step = r.step /\ q.attempt = a /\ q.action = r.action
          /\ q.status = r.status /\ q.sent = r.sent /\ q.late = r.late /\ q.saved = r.saved
      BY <3>2 DEF PipeType
    <3> QED
      BY <1>1, <3>1, <3>3, <3>4
  <2>2. q.step = "execute" => q.attempt <= Attempts["execute"] /\ q.sent + q.late <= q.attempt - 1
    BY <1>1, <1>2, <1>5, <2>1 DEF PipeFits
  <2>3. q.sent + q.late <= Attempts["execute"]
    BY <1>1, <1>2, <1>3, <2>1
  <2> QED
    BY <1>4, <2>1, <2>2, <2>3 DEF PipeFits
<1>6. CASE ~(r.attempt < Attempts[r.step])
  <2>1. /\ q \in PipeType /\ q.step = "failed" /\ q.action = r.action
        /\ q.status = r.status /\ q.sent = r.sent /\ q.late = r.late /\ q.saved = r.saved
    <3>1. q = [r EXCEPT !.step = "failed"]
      BY <1>1, <1>6 DEF NotAnswered
    <3> QED
      BY <3>1 DEF PipeType, PipeSteps
  <2>2. q.sent + q.late <= Attempts["execute"]
    BY <1>1, <1>2, <1>3, <2>1
  <2> QED
    BY <1>4, <2>1, <2>2 DEF PipeFits
<1> QED
  BY <1>5, <1>6

LEMMA FlagFits ==
    ASSUME NEW p \in PipeType, PipeFits(p)
    PROVE  /\ p.saved \in SUBSET BOOLEAN /\ p.saved \cup {SavedFlag(p)} \in SUBSET BOOLEAN
           /\ TRUE \in p.saved => p.sent > 0
           /\ TRUE \in p.saved \cup {SavedFlag(p)} => p.sent > 0
<1>1. SavedFlag(p) \in BOOLEAN /\ p.saved \in SUBSET BOOLEAN
  BY DEF SavedFlag, PipeType
<1>2. (SavedFlag(p) = TRUE => p.sent > 0) /\ (TRUE \in p.saved => p.sent > 0)
  BY DEF SavedFlag, PipeFits
<1> QED
  BY <1>1, <1>2

LEMMA PipesStep == PipesIInv /\ [PipesNext]_tpVars => PipesIInv'
<1> SUFFICES ASSUME PipesIInv, [PipesNext]_tpVars PROVE PipesIInv'
  OBVIOUS
<1>1. \A i \in DOMAIN tpPipes : tpPipes[i] \in PipeType /\ PipeFits(tpPipes[i])
  BY DEF PipesIInv
<1>2. CASE UNCHANGED tpVars
  BY <1>2 DEF PipesIInv, tpVars
<1>3. CASE BatchStarts \/ MonitorStarts
  BY <1>3, PipeStarted DEF BatchStarts, MonitorStarts
<1>4. ASSUME NEW i \in DOMAIN tpPipes,
             \/ \E r \in MarketReadings : CollectAnswers(i, r)
             \/ SignalAnswers(i) \/ LateCommand(i) \/ BatchTakes(i) \/ MonitorTakes(i)
             \/ \E status \in {"sent", "failed"} : CommandAnswers(i, status)
             \/ \E published \in BOOLEAN : SaveAnswers(i, published)
             \/ \E work \in {"none", "done", "later"} : AttemptLost(i, work)
      PROVE  PipesIInv'
  <2>1. PICK p \in PipeType : p = tpPipes[i] /\ PipeFits(p)
    BY <1>1
  <2>2. ASSUME NEW r \in MarketReadings, CollectAnswers(i, r) PROVE PipesIInv'
    <3>1. PICK a \in {"BUY", "SELL", "HOLD"} : a = ActionOf(r)
      BY DEF ActionOf
    <3>3. p.step = "collect"
      BY <2>1, <2>2 DEF CollectAnswers
    <3>0. PICK q : q = [p EXCEPT !.action = a]
      OBVIOUS
    <3>2. /\ q \in PipeType /\ q.step = "collect" /\ q.sent = p.sent
          /\ q.late = p.late /\ q.saved = p.saved /\ q.status = p.status
      BY <3>0, <3>3 DEF PipeType
    <3>4. PipeFits(q)
      BY <2>1, <3>2, <3>3 DEF PipeFits
    <3>5. tpPipes' = [tpPipes EXCEPT ![i] = Onward(q)]
      BY <2>1, <2>2, <3>0, <3>1 DEF CollectAnswers, SetPipe
    <3> QED
      BY <3>2, <3>4, <3>5, GoesOnFitting, OnePipeSet
  <2>3. CASE SignalAnswers(i)
    <3>1. p.step = "signal" /\ tpPipes' = [tpPipes EXCEPT ![i] = Onward(p)]
      BY <2>1, <2>3 DEF SignalAnswers, SetPipe
    <3> QED
      BY <2>1, <3>1, GoesOnFitting, OnePipeSet
  <2>4. CASE LateCommand(i)
    <3>1. p.late > 0 /\ tpPipes' = [tpPipes EXCEPT ![i] = [p EXCEPT !.late = @ - 1, !.sent = @ + 1]]
      BY <2>1, <2>4 DEF LateCommand, SetPipe
    <3>2. PICK q \in PipeType :
              /\ q = [p EXCEPT !.late = @ - 1, !.sent = @ + 1]
              /\ q.sent = p.sent + 1 /\ q.late = p.late - 1 /\ q.step = p.step
              /\ q.action = p.action /\ q.attempt = p.attempt
      <4>1. PICK n \in Nat, l \in Nat : n = p.sent + 1 /\ l = p.late - 1
        BY <3>1 DEF PipeType
      <4>2. PICK q : q = [p EXCEPT !.late = l, !.sent = n]
        OBVIOUS
      <4>3. q \in PipeType
        BY <4>2 DEF PipeType
      <4>4. q.sent = n /\ q.late = l /\ q.step = p.step /\ q.action = p.action /\ q.attempt = p.attempt
        BY <4>2 DEF PipeType
      <4> QED
        BY <4>1, <4>2, <4>3, <4>4
    <3>3. p.sent \in Nat /\ p.late \in Nat /\ Attempts["execute"] \in Nat /\ p.attempt \in Nat
      BY PipelinesAssumption DEF PipeType
    <3>4. q.sent + q.late = p.sent + p.late /\ q.sent > 0
      BY <3>2, <3>3
    <3>5. PipeFits(q)
      <4>1. p.action # "HOLD" /\ p.step \notin {"collect", "signal"}
        BY <2>1, <3>1, <3>3 DEF PipeFits
      <4>2. /\ p.sent + p.late <= Attempts["execute"]
            /\ p.step = "execute" => p.attempt <= Attempts["execute"] /\ p.sent + p.late <= p.attempt - 1
        BY <2>1 DEF PipeFits
      <4> QED
        BY <3>2, <3>4, <4>1, <4>2 DEF PipeFits
    <3> QED
      BY <3>1, <3>2, <3>5, OnePipeSet
  <2>5. CASE BatchTakes(i) \/ MonitorTakes(i)
    <3>1. tpPipes' = [tpPipes EXCEPT ![i].taken = TRUE]
      BY <2>5 DEF BatchTakes, MonitorTakes
    <3>0. PICK q : q = [p EXCEPT !.taken = TRUE]
      OBVIOUS
    <3>2. /\ q \in PipeType /\ q.step = p.step /\ q.sent = p.sent /\ q.late = p.late
          /\ q.saved = p.saved /\ q.status = p.status /\ q.action = p.action /\ q.attempt = p.attempt
      BY <3>0 DEF PipeType
    <3>3. PipeFits(q)
      BY <2>1, <3>2 DEF PipeFits
    <3>4. tpPipes' = [tpPipes EXCEPT ![i] = q]
      BY <2>1, <3>0, <3>1
    <3> QED
      BY <3>2, <3>3, <3>4, OnePipeSet
  <2>6. ASSUME NEW status \in {"sent", "failed"}, CommandAnswers(i, status) PROVE PipesIInv'
    <3>1. p.step = "execute"
      BY <2>1, <2>6 DEF CommandAnswers
    <3>2. PICK q : q = Onward([p EXCEPT !.status = status, !.sent = @ + (IF status = "sent" THEN 1 ELSE 0)])
      OBVIOUS
    <3>3. q \in PipeType /\ PipeFits(q)
      BY ONLY <2>1, <2>6, <3>1, <3>2, CommandFits
    <3>4. tpPipes' = [tpPipes EXCEPT ![i] = q]
      BY <2>1, <2>6, <3>2 DEF CommandAnswers, SetPipe
    <3> QED
      BY <3>3, <3>4, OnePipeSet
  <2>7. ASSUME NEW published \in BOOLEAN, SaveAnswers(i, published) PROVE PipesIInv'
    <3>1. p.step = "save"
      BY <2>1, <2>7 DEF SaveAnswers
    <3>2. PICK kept : kept = IF published THEN p.saved \cup {SavedFlag(p)} ELSE p.saved
      OBVIOUS
    <3>6. kept \in SUBSET BOOLEAN /\ (TRUE \in kept => p.sent > 0)
      BY <2>1, <3>2, FlagFits
    <3>0. PICK q : q = [p EXCEPT !.saved = kept]
      OBVIOUS
    <3>3. /\ q \in PipeType /\ q.step = "save" /\ q.sent = p.sent /\ q.late = p.late
          /\ q.saved = kept /\ q.status = p.status /\ q.action = p.action
      BY <3>0, <3>1, <3>6 DEF PipeType
    <3>4. PipeFits(q)
      BY <2>1, <3>1, <3>3, <3>6 DEF PipeFits
    <3>5. tpPipes' = [tpPipes EXCEPT ![i] = Onward(q)]
      BY <2>1, <2>7, <3>0, <3>2 DEF SaveAnswers, SetPipe
    <3> QED
      BY <3>3, <3>4, <3>5, GoesOnFitting, OnePipeSet
  <2>8. ASSUME NEW work \in {"none", "done", "later"}, AttemptLost(i, work) PROVE PipesIInv'
    <3>1. p.step \in {"collect", "signal", "execute", "save"}
      BY <2>1, <2>8 DEF AttemptLost, Over, PipeType, PipeSteps
    <3>2. PICK dSent \in {0, 1}, dLate \in {0, 1} :
              /\ dSent = IF p.step = "execute" /\ work = "done" THEN 1 ELSE 0
              /\ dLate = IF p.step = "execute" /\ work = "later" THEN 1 ELSE 0
      OBVIOUS
    <3>7. PICK kept : kept = IF p.step = "save" /\ work = "done" THEN p.saved \cup {SavedFlag(p)} ELSE p.saved
      OBVIOUS
    <3>8. kept \in SUBSET BOOLEAN /\ (TRUE \in kept => p.sent > 0)
      BY <2>1, <3>7, FlagFits
    <3>3. PICK q : q = NotAnswered([p EXCEPT !.sent = @ + dSent, !.late = @ + dLate, !.saved = kept])
      OBVIOUS
    <3>4. q \in PipeType /\ PipeFits(q)
      <4>1. dSent + dLate <= 1 /\ (p.step # "execute" => dSent = 0 /\ dLate = 0)
        BY <3>2
      <4> QED
        BY ONLY <2>1, <3>1, <3>2, <3>3, <3>8, <4>1, LostFits, ZenonT(30)
    <3>5. (CASE p.step = "execute" /\ work = "done"  -> [p EXCEPT !.sent = @ + 1]
             [] p.step = "execute" /\ work = "later" -> [p EXCEPT !.late = @ + 1]
             [] p.step = "save" /\ work = "done"     -> [p EXCEPT !.saved = @ \cup {SavedFlag(p)}]
             [] OTHER -> p)
            = [p EXCEPT !.sent = @ + dSent, !.late = @ + dLate, !.saved = kept]
      <4>0. p.sent \in Nat /\ p.late \in Nat
        BY DEF PipeType
      <4>1. CASE p.step = "execute" /\ work = "done"
        <5>1. dSent = 1 /\ dLate = 0 /\ kept = p.saved /\ p.late + dLate = p.late
          BY <3>2, <3>7, <4>0, <4>1
        <5> QED
          BY <4>1, <5>1 DEF PipeType
      <4>2. CASE p.step = "execute" /\ work = "later"
        <5>1. dSent = 0 /\ dLate = 1 /\ kept = p.saved /\ p.sent + dSent = p.sent
          BY <3>2, <3>7, <4>0, <4>2
        <5> QED
          BY <4>2, <5>1 DEF PipeType
      <4>3. CASE p.step = "save" /\ work = "done"
        <5>1. p.sent + dSent = p.sent /\ p.late + dLate = p.late /\ kept = p.saved \cup {SavedFlag(p)}
          BY <3>2, <3>7, <4>0, <4>3
        <5> QED
          BY <4>3, <5>1 DEF PipeType
      <4>4. CASE /\ ~(p.step = "execute" /\ work = "done") /\ ~(p.step = "execute" /\ work = "later")
                 /\ ~(p.step = "save" /\ work = "done")
        <5>1. p.sent + dSent = p.sent /\ p.late + dLate = p.late /\ kept = p.saved
          BY <3>2, <3>7, <4>0, <4>4
        <5> QED
          BY <4>4, <5>1 DEF PipeType
      <4> QED
        BY <4>1, <4>2, <4>3, <4>4
    <3>6. tpPipes' = [tpPipes EXCEPT ![i] = q]
      BY <2>1, <2>8, <3>3, <3>5 DEF AttemptLost, SetPipe
    <3> QED
      BY <3>4, <3>6, OnePipeSet
  <2> QED
    BY <1>4, <2>2, <2>3, <2>4, <2>5, <2>6, <2>7, <2>8
<1> QED
  BY <1>2, <1>3, <1>4 DEF PipesNext

LEMMA PipesHold == PipesIInv => CommandsAreBounded /\ RecordedIsSent
<1> SUFFICES ASSUME PipesIInv, NEW i \in DOMAIN tpPipes
             PROVE  /\ tpPipes[i].sent + tpPipes[i].late <=
                           IF tpPipes[i].action = "HOLD" THEN 0 ELSE Attempts["execute"]
                    /\ TRUE \in tpPipes[i].saved => tpPipes[i].sent > 0
  BY DEF CommandsAreBounded, RecordedIsSent
<1>1. PICK p \in PipeType : p = tpPipes[i] /\ PipeFits(p)
  BY DEF PipesIInv
<1>2. p.sent + p.late <= IF p.action = "HOLD" THEN 0 ELSE Attempts["execute"]
  BY <1>1 DEF PipeFits
<1>3. TRUE \in p.saved => p.sent > 0
  BY <1>1 DEF PipeFits
<1> QED
  BY <1>1, <1>2, <1>3

\* However attempts are lost, repeated and late, a signal sends no more commands
\* than it has attempts, and what is saved as a success was sent.
THEOREM PipesSend == PipesSpec => [](CommandsAreBounded /\ RecordedIsSent)
  BY PipesHold, PipesInitHolds, PipesStep, PTL DEF PipesSpec

------------------------------------------------------------------------------
(* The watchdog.  What lies within the cooldown is still on the list that is    *)
(* cut, and with the threads that are past the test it never exceeds the limit  *)
(* by more than the threads that may be.                                        *)

LyingWithin(list, times, now, cooldown) == {i \in list : now - times[i] < cooldown}

EventsFit(times, list, now, cooldown, limit, passed) ==
    /\ \A i \in DOMAIN times : times[i] <= now
    /\ list \subseteq DOMAIN times
    /\ LyingWithin(DOMAIN times, times, now, cooldown) \subseteq list
    /\ Cardinality(LyingWithin(DOMAIN times, times, now, cooldown)) + passed <= limit + Cardinality(Checkers) - 1
    /\ \A from \in Nat : Within(times, from, cooldown) <= limit + Cardinality(Checkers) - 1

\* Threads that are past a test for p.
Past(check, procs, p, ats) == {t \in Checkers : check[t].at \in ats /\ procs[check[t].next] = p}
Asked == {"breaker", "restart"}

DogIInv ==
    /\ kClock \in Nat /\ kProcs \in Seq(DogNames)
    /\ kDone \in [DogNames -> Seq(Nat)] /\ kFailed \in [DogNames -> Seq(Nat)]
    /\ kRestarts \in [DogNames -> SUBSET Nat] /\ kFailures \in [DogNames -> SUBSET Nat]
    /\ kCheck \in [Checkers -> [at : {"idle", "loop", "breaker", "restart"}, next : Nat, size : Nat]]
    /\ \A t \in Checkers : kCheck[t].next >= 1
    /\ \A t \in Checkers : kCheck[t].at \in Asked => kCheck[t].next \in DOMAIN kProcs
    /\ \A p \in DogNames :
          EventsFit(kDone[p], kRestarts[p], kClock, RestartCooldown, MaxRestarts,
                    Cardinality(Past(kCheck, kProcs, p, Asked)))
    /\ \A p \in DogNames :
          EventsFit(kFailed[p], kFailures[p], kClock, BreakerCooldown, FailureThreshold,
                    Cardinality(Past(kCheck, kProcs, p, {"restart"})))

LEMMA Threads == Cardinality(Checkers) \in Nat
  BY DogAssumption, FS_CardinalityType

\* How many of a sequence there are.
LEMMA SomeCounted ==
    ASSUME NEW times \in Seq(Nat), NEW set \in SUBSET DOMAIN times
    PROVE  IsFiniteSet(set) /\ Cardinality(set) \in Nat
<1>1. IsFiniteSet(DOMAIN times)
  BY FS_Interval
<1> QED
  BY <1>1, FS_Subset, FS_CardinalityType

LEMMA EventNoted ==
    ASSUME NEW times \in Seq(Nat), NEW list, NEW now \in Nat, NEW cooldown \in Nat \ {0}, NEW limit \in Nat,
           NEW passed \in Nat \ {0}, EventsFit(times, list, now, cooldown, limit, passed)
    PROVE  EventsFit(Append(times, now), list \cup {Len(times) + 1}, now, cooldown, limit, passed - 1)
<1>1. PICK more \in Seq(Nat) : more = Append(times, now)
  BY Publishes
<1>2. PICK n \in Nat : n = Len(times) /\ DOMAIN times = 1 .. n
  OBVIOUS
<1>3. /\ DOMAIN more = DOMAIN times \cup {n + 1} /\ n + 1 \notin DOMAIN times
      /\ \A i \in DOMAIN times : more[i] = times[i]
      /\ more[n + 1] = now
  BY <1>1, <1>2, Publishes
<1>4. PICK old : old = LyingWithin(DOMAIN times, times, now, cooldown)
  OBVIOUS
<1>5. old \subseteq DOMAIN times /\ n + 1 \notin old /\ IsFiniteSet(old) /\ Cardinality(old) \in Nat
  BY <1>3, <1>4, SomeCounted DEF LyingWithin
<1>6. LyingWithin(DOMAIN more, more, now, cooldown) = old \cup {n + 1}
  BY <1>3, <1>4 DEF LyingWithin
<1>7. Cardinality(old \cup {n + 1}) = Cardinality(old) + 1
  BY <1>5, FS_AddElement
<1>8. PICK bound \in Int : bound = limit + Cardinality(Checkers) - 1
  BY Threads
<1>9. Cardinality(old) + passed <= bound
  BY <1>4, <1>8 DEF EventsFit
<1>10. \A from \in Nat : Within(more, from, cooldown) <= bound
  <2> SUFFICES ASSUME NEW from \in Nat PROVE Within(more, from, cooldown) <= bound
    OBVIOUS
  <2>1. PICK in : in = {i \in DOMAIN times : times[i] >= from /\ times[i] < from + cooldown}
    OBVIOUS
  <2>2. in \subseteq DOMAIN times /\ n + 1 \notin in /\ IsFiniteSet(in) /\ Cardinality(in) \in Nat
    BY <1>3, <2>1, SomeCounted
  <2>3. Cardinality(in) <= bound
    BY <1>8, <2>1 DEF EventsFit, Within
  <2>4. CASE now >= from /\ now < from + cooldown
    <3>1. {i \in DOMAIN more : more[i] >= from /\ more[i] < from + cooldown} = in \cup {n + 1}
      BY <1>3, <2>1, <2>4
    <3>2. Cardinality(in \cup {n + 1}) = Cardinality(in) + 1
      BY <2>2, FS_AddElement
    <3>3. in \subseteq old
      BY <1>4, <2>1, <2>4 DEF LyingWithin
    <3>4. Cardinality(in) <= Cardinality(old)
      BY <1>5, <3>3, FS_Subset
    <3>5. Cardinality(in) + 1 <= bound
      BY <1>5, <1>9, <2>2, <3>4
    <3> QED
      BY <3>1, <3>2, <3>5 DEF Within
  <2>5. CASE ~(now >= from /\ now < from + cooldown)
    <3>1. {i \in DOMAIN more : more[i] >= from /\ more[i] < from + cooldown} = in
      BY <1>3, <2>1, <2>5
    <3> QED
      BY <2>3, <3>1 DEF Within
  <2> QED
    BY <2>4, <2>5
<1>11. \A i \in DOMAIN more : more[i] <= now
  BY <1>3 DEF EventsFit
<1>12. list \cup {n + 1} \subseteq DOMAIN more /\ old \cup {n + 1} \subseteq list \cup {n + 1}
  BY <1>3, <1>4 DEF EventsFit
<1>13. Cardinality(old \cup {n + 1}) + (passed - 1) <= bound
  BY <1>5, <1>7, <1>9
<1> QED
  BY <1>1, <1>2, <1>6, <1>8, <1>10, <1>11, <1>12, <1>13 DEF EventsFit

\* Time passes, the list is cut, threads go: what fits still does.
LEMMA StillFits ==
    ASSUME NEW times \in Seq(Nat), NEW list, NEW now \in Nat, NEW cooldown \in Nat \ {0}, NEW limit \in Nat,
           NEW passed \in Nat, EventsFit(times, list, now, cooldown, limit, passed),
           NEW later \in Nat, later >= now, NEW kept, NEW fewer \in Nat, fewer <= passed,
           kept = list \/ kept = LyingWithin(list, times, later, cooldown)
    PROVE  EventsFit(times, kept, later, cooldown, limit, fewer)
<1>1. PICK old : old = LyingWithin(DOMAIN times, times, now, cooldown)
  OBVIOUS
<1>2. PICK new : new = LyingWithin(DOMAIN times, times, later, cooldown)
  OBVIOUS
<1>3. new \subseteq old /\ old \subseteq DOMAIN times
  BY <1>1, <1>2 DEF LyingWithin
<1>4. IsFiniteSet(old) /\ Cardinality(old) \in Nat /\ Cardinality(new) \in Nat /\ Cardinality(new) <= Cardinality(old)
  BY <1>3, SomeCounted, FS_Subset
<1>5. PICK bound \in Int : bound = limit + Cardinality(Checkers) - 1
  BY Threads
<1>6. Cardinality(new) + fewer <= bound
  <2>1. Cardinality(old) + passed <= bound
    BY <1>1, <1>5 DEF EventsFit
  <2> QED
    BY <1>4, <2>1
<1>7. kept \subseteq DOMAIN times /\ new \subseteq kept
  BY <1>1, <1>2, <1>3 DEF EventsFit, LyingWithin
<1>8. \A i \in DOMAIN times : times[i] <= later
  BY DEF EventsFit
<1> QED
  BY <1>2, <1>5, <1>6, <1>7, <1>8 DEF EventsFit

\* One more thread passes the test.
LEMMA OnePasses ==
    ASSUME NEW times \in Seq(Nat), NEW list, NEW now \in Nat, NEW cooldown \in Nat \ {0}, NEW limit \in Nat,
           NEW passed \in Nat, EventsFit(times, list, now, cooldown, limit, passed),
           NEW kept, kept = list \/ kept = LyingWithin(list, times, now, cooldown),
           Cardinality(LyingWithin(list, times, now, cooldown)) < limit,
           NEW more \in Nat, more <= Cardinality(Checkers)
    PROVE  EventsFit(times, kept, now, cooldown, limit, more)
<1>1. LyingWithin(list, times, now, cooldown) = LyingWithin(DOMAIN times, times, now, cooldown)
  BY DEF EventsFit, LyingWithin
<1>2. EventsFit(times, kept, now, cooldown, limit, 0)
  BY StillFits
<1>3. Cardinality(LyingWithin(DOMAIN times, times, now, cooldown)) \in Nat
  BY SomeCounted DEF LyingWithin
<1>4. Cardinality(LyingWithin(DOMAIN times, times, now, cooldown)) + more <= limit + Cardinality(Checkers) - 1
  BY <1>1, <1>3, Threads
<1> QED
  BY <1>2, <1>4 DEF EventsFit

LEMMA PastCounted ==
    ASSUME NEW check, NEW procs, NEW p, NEW ats
    PROVE  /\ IsFiniteSet(Past(check, procs, p, ats)) /\ Cardinality(Past(check, procs, p, ats)) \in Nat
           /\ Cardinality(Past(check, procs, p, ats)) <= Cardinality(Checkers)
           /\ \A t \in Past(check, procs, p, ats) :
                    Cardinality(Past(check, procs, p, ats) \ {t}) = Cardinality(Past(check, procs, p, ats)) - 1
                                      /\ Cardinality(Past(check, procs, p, ats)) # 0
<1>1. Past(check, procs, p, ats) \subseteq Checkers /\ IsFiniteSet(Checkers)
  BY DogAssumption DEF Past
<1>2. IsFiniteSet(Past(check, procs, p, ats)) /\ Cardinality(Past(check, procs, p, ats)) <= Cardinality(Checkers)
  BY <1>1, FS_Subset
<1>3. Cardinality(Past(check, procs, p, ats)) \in Nat
  BY <1>2, FS_CardinalityType
<1>4. \A t \in Past(check, procs, p, ats) :
            Cardinality(Past(check, procs, p, ats) \ {t}) = Cardinality(Past(check, procs, p, ats)) - 1
  BY <1>2, FS_RemoveElement
<1>5. Cardinality(Past(check, procs, p, ats)) = 0 => Past(check, procs, p, ats) = {}
  BY <1>2, FS_EmptySet
<1> QED
  BY <1>2, <1>3, <1>4, <1>5

LEMMA DogInitHolds == DogInit => DogIInv
<1> SUFFICES ASSUME DogInit PROVE DogIInv
  OBVIOUS
<1>1. \A p : Past(kCheck, kProcs, p, Asked) = {} /\ Past(kCheck, kProcs, p, {"restart"}) = {}
  BY DEF DogInit, CheckIdle, Past, Asked
<1>2. ASSUME NEW cooldown, NEW limit \in Nat \ {0}
      PROVE  EventsFit(<<>>, {}, 0, cooldown, limit, 0)
  <2>1. PICK none : none = <<>> /\ DOMAIN none = {}
    OBVIOUS
  <2>2. PICK bound \in Nat : bound = limit + Cardinality(Checkers) - 1
    BY Threads
  <2>3. Cardinality(LyingWithin(DOMAIN none, none, 0, cooldown)) + 0 <= bound
    BY <2>1, FS_EmptySet DEF LyingWithin
  <2>4. \A from \in Nat : Within(none, from, cooldown) <= bound
    BY <2>1, FS_EmptySet DEF Within
  <2>5. LyingWithin(DOMAIN none, none, 0, cooldown) \subseteq {}
    BY <2>1 DEF LyingWithin
  <2>6. EventsFit(none, {}, 0, cooldown, limit, 0)
    BY <2>1, <2>2, <2>3, <2>4, <2>5 DEF EventsFit
  <2> QED
    BY <2>1, <2>6
<1>3. MaxRestarts \in Nat \ {0} /\ FailureThreshold \in Nat \ {0} /\ Cardinality({}) = 0
  BY DogAssumption, FS_EmptySet
<1>4. /\ kClock \in Nat /\ kProcs \in Seq(DogNames)
      /\ kDone \in [DogNames -> Seq(Nat)] /\ kFailed \in [DogNames -> Seq(Nat)]
      /\ kRestarts \in [DogNames -> SUBSET Nat] /\ kFailures \in [DogNames -> SUBSET Nat]
  BY DEF DogInit
<1>5. /\ kCheck \in [Checkers -> [at : {"idle", "loop", "breaker", "restart"}, next : Nat, size : Nat]]
      /\ \A t \in Checkers : kCheck[t].next >= 1
      /\ \A t \in Checkers : kCheck[t].at \in Asked => kCheck[t].next \in DOMAIN kProcs
  BY DEF DogInit, CheckIdle, Asked
<1>6. \A p \in DogNames : /\ kDone[p] = <<>> /\ kFailed[p] = <<>> /\ kRestarts[p] = {} /\ kFailures[p] = {}
                          /\ kClock = 0
  BY DEF DogInit
<1>7. ASSUME NEW p \in DogNames
      PROVE  /\ EventsFit(kDone[p], kRestarts[p], kClock, RestartCooldown, MaxRestarts,
                          Cardinality(Past(kCheck, kProcs, p, Asked)))
             /\ EventsFit(kFailed[p], kFailures[p], kClock, BreakerCooldown, FailureThreshold,
                          Cardinality(Past(kCheck, kProcs, p, {"restart"})))
  <2>1. EventsFit(<<>>, {}, 0, RestartCooldown, MaxRestarts, 0)
    BY <1>2, <1>3
  <2>2. EventsFit(<<>>, {}, 0, BreakerCooldown, FailureThreshold, 0)
    BY <1>2, <1>3
  <2>3. Cardinality(Past(kCheck, kProcs, p, Asked)) = 0 /\ Cardinality(Past(kCheck, kProcs, p, {"restart"})) = 0
    BY <1>1, <1>3
  <2> QED
    BY <1>6, <2>1, <2>2, <2>3
<1> QED
  BY <1>4, <1>5, <1>7 DEF DogIInv

\* Nothing happens to the lists, and no thread passes a test: time may pass.
LEMMA DogQuiet ==
    ASSUME DogIInv, kDone' = kDone, kFailed' = kFailed, kRestarts' = kRestarts, kFailures' = kFailures,
           kClock' \in Nat, kClock' >= kClock, kProcs' \in Seq(DogNames),
           kCheck' \in [Checkers -> [at : {"idle", "loop", "breaker", "restart"}, next : Nat, size : Nat]],
           \A t \in Checkers : kCheck'[t].next >= 1,
           \A t \in Checkers : kCheck'[t].at \in Asked =>
               /\ kCheck'[t] = kCheck[t] /\ kCheck'[t].next \in DOMAIN kProcs'
               /\ kProcs'[kCheck[t].next] = kProcs[kCheck[t].next]
    PROVE  DogIInv'
<1>1. ASSUME NEW p \in DogNames, NEW ats \in {Asked, {"restart"}}
      PROVE  /\ Cardinality(Past(kCheck', kProcs', p, ats)) \in Nat
             /\ Cardinality(Past(kCheck', kProcs', p, ats)) <= Cardinality(Past(kCheck, kProcs, p, ats))
  <2>1. Past(kCheck', kProcs', p, ats) \subseteq Past(kCheck, kProcs, p, ats)
    BY DEF Past, Asked
  <2> QED
    BY <2>1, PastCounted, FS_Subset, FS_CardinalityType
<1>2. ASSUME NEW p \in DogNames
      PROVE  /\ EventsFit(kDone[p], kRestarts[p], kClock', RestartCooldown, MaxRestarts,
                          Cardinality(Past(kCheck', kProcs', p, Asked)))
             /\ EventsFit(kFailed[p], kFailures[p], kClock', BreakerCooldown, FailureThreshold,
                          Cardinality(Past(kCheck', kProcs', p, {"restart"})))
  <2>1. /\ kDone[p] \in Seq(Nat) /\ kFailed[p] \in Seq(Nat) /\ kClock \in Nat
        /\ {MaxRestarts, RestartCooldown, FailureThreshold, BreakerCooldown} \subseteq Nat \ {0}
    BY DogAssumption DEF DogIInv
  <2>2. /\ Cardinality(Past(kCheck, kProcs, p, Asked)) \in Nat
        /\ Cardinality(Past(kCheck, kProcs, p, {"restart"})) \in Nat
    BY PastCounted
  <2>3. /\ EventsFit(kDone[p], kRestarts[p], kClock, RestartCooldown, MaxRestarts,
                     Cardinality(Past(kCheck, kProcs, p, Asked)))
        /\ EventsFit(kFailed[p], kFailures[p], kClock, BreakerCooldown, FailureThreshold,
                     Cardinality(Past(kCheck, kProcs, p, {"restart"})))
    BY DEF DogIInv
  <2>4. EventsFit(kDone[p], kRestarts[p], kClock', RestartCooldown, MaxRestarts,
                  Cardinality(Past(kCheck', kProcs', p, Asked)))
    BY <1>1, <2>1, <2>2, <2>3, StillFits
  <2>5. EventsFit(kFailed[p], kFailures[p], kClock', BreakerCooldown, FailureThreshold,
                  Cardinality(Past(kCheck', kProcs', p, {"restart"})))
    BY <1>1, <2>1, <2>2, <2>3, StillFits
  <2> QED
    BY <2>4, <2>5
<1>3. /\ kDone' \in [DogNames -> Seq(Nat)] /\ kFailed' \in [DogNames -> Seq(Nat)]
      /\ kRestarts' \in [DogNames -> SUBSET Nat] /\ kFailures' \in [DogNames -> SUBSET Nat]
      /\ \A t \in Checkers : kCheck'[t].at \in Asked => kCheck'[t].next \in DOMAIN kProcs'
  BY DEF DogIInv
<1> QED
  BY <1>2, <1>3 DEF DogIInv

\* A thread that works on p leaves the other processes as they fit.
LEMMA DogActs ==
    ASSUME DogIInv, NEW t \in Checkers, kProcs' = kProcs, kClock' = kClock,
           NEW to \in [at : {"idle", "loop", "breaker", "restart"}, next : Nat, size : Nat],
           to.next >= 1, to.at \in Asked => to.next \in DOMAIN kProcs,
           kCheck' = [kCheck EXCEPT ![t] = to],
           kDone' \in [DogNames -> Seq(Nat)], kFailed' \in [DogNames -> Seq(Nat)],
           kRestarts' \in [DogNames -> SUBSET Nat], kFailures' \in [DogNames -> SUBSET Nat],
           NEW p \in DogNames, to.at \in Asked => kProcs[to.next] = p,
           \A q \in DogNames : q # p => /\ kDone'[q] = kDone[q] /\ kFailed'[q] = kFailed[q]
                                        /\ kRestarts'[q] = kRestarts[q] /\ kFailures'[q] = kFailures[q],
           EventsFit(kDone'[p], kRestarts'[p], kClock, RestartCooldown, MaxRestarts,
                     Cardinality(Past(kCheck', kProcs', p, Asked))),
           EventsFit(kFailed'[p], kFailures'[p], kClock, BreakerCooldown, FailureThreshold,
                     Cardinality(Past(kCheck', kProcs', p, {"restart"})))
    PROVE  DogIInv'
<1>1. ASSUME NEW q \in DogNames
      PROVE  /\ EventsFit(kDone'[q], kRestarts'[q], kClock, RestartCooldown, MaxRestarts,
                          Cardinality(Past(kCheck', kProcs', q, Asked)))
             /\ EventsFit(kFailed'[q], kFailures'[q], kClock, BreakerCooldown, FailureThreshold,
                          Cardinality(Past(kCheck', kProcs', q, {"restart"})))
  <2>1. CASE q = p
    BY <2>1
  <2>2. CASE q # p
    <3>0. DOMAIN kCheck = Checkers
      BY DEF DogIInv
    <3>1. /\ kDone[q] \in Seq(Nat) /\ kFailed[q] \in Seq(Nat) /\ kClock \in Nat
          /\ {MaxRestarts, RestartCooldown, FailureThreshold, BreakerCooldown} \subseteq Nat \ {0}
      BY DogAssumption DEF DogIInv
    <3>2. /\ ~(to.at \in Asked /\ kProcs[to.next] = q)
          /\ ~(to.at \in {"restart"} /\ kProcs[to.next] = q)
      BY <2>2 DEF Asked
    <3>3. /\ Cardinality(Past(kCheck, kProcs, q, Asked)) \in Nat
          /\ Cardinality(Past(kCheck, kProcs, q, {"restart"})) \in Nat
      BY PastCounted
    <3>4. ASSUME NEW ats, ~(to.at \in ats /\ kProcs[to.next] = q)
          PROVE  /\ Cardinality(Past(kCheck', kProcs', q, ats)) \in Nat
                 /\ Cardinality(Past(kCheck', kProcs', q, ats)) <= Cardinality(Past(kCheck, kProcs, q, ats))
      <4>1. \A u \in Checkers : kCheck'[u] = IF u = t THEN to ELSE kCheck[u]
        BY <3>0
      <4>2. Past(kCheck', kProcs', q, ats) \subseteq Past(kCheck, kProcs, q, ats)
        BY <3>4, <4>1 DEF Past
      <4> QED
        BY <4>2, PastCounted, FS_Subset
    <3>5. /\ Cardinality(Past(kCheck', kProcs', q, Asked)) \in Nat
          /\ Cardinality(Past(kCheck', kProcs', q, Asked)) <= Cardinality(Past(kCheck, kProcs, q, Asked))
          /\ Cardinality(Past(kCheck', kProcs', q, {"restart"})) \in Nat
          /\ Cardinality(Past(kCheck', kProcs', q, {"restart"})) <=
                 Cardinality(Past(kCheck, kProcs, q, {"restart"}))
      BY <3>2, <3>4
    <3>6. /\ EventsFit(kDone[q], kRestarts[q], kClock, RestartCooldown, MaxRestarts,
                       Cardinality(Past(kCheck, kProcs, q, Asked)))
          /\ EventsFit(kFailed[q], kFailures[q], kClock, BreakerCooldown, FailureThreshold,
                       Cardinality(Past(kCheck, kProcs, q, {"restart"})))
      BY DEF DogIInv
    <3>7. EventsFit(kDone[q], kRestarts[q], kClock, RestartCooldown, MaxRestarts,
                    Cardinality(Past(kCheck', kProcs', q, Asked)))
      BY <3>1, <3>3, <3>5, <3>6, StillFits, SMTT(30)
    <3>8. EventsFit(kFailed[q], kFailures[q], kClock, BreakerCooldown, FailureThreshold,
                    Cardinality(Past(kCheck', kProcs', q, {"restart"})))
      BY <3>1, <3>3, <3>5, <3>6, StillFits, SMTT(30)
    <3> QED
      BY <2>2, <3>7, <3>8
  <2> QED
    BY <2>1, <2>2
<1>2. /\ kCheck' \in [Checkers -> [at : {"idle", "loop", "breaker", "restart"}, next : Nat, size : Nat]]
      /\ \A u \in Checkers : kCheck'[u] = IF u = t THEN to ELSE kCheck[u]
  BY DEF DogIInv
<1>3. /\ \A u \in Checkers : kCheck'[u].next >= 1
      /\ \A u \in Checkers : kCheck'[u].at \in Asked => kCheck'[u].next \in DOMAIN kProcs'
  BY <1>2 DEF DogIInv
<1>4. kClock' \in Nat /\ kProcs' \in Seq(DogNames)
  BY DEF DogIInv
<1> QED
  BY <1>1, <1>2, <1>3, <1>4 DEF DogIInv

LEMMA DogStep == DogIInv /\ [DogNext]_kvars => DogIInv'
<1> SUFFICES ASSUME DogIInv, [DogNext]_kvars PROVE DogIInv'
  OBVIOUS
<1>0. /\ kClock \in Nat /\ kProcs \in Seq(DogNames)
      /\ kCheck \in [Checkers -> [at : {"idle", "loop", "breaker", "restart"}, next : Nat, size : Nat]]
      /\ \A t \in Checkers : kCheck[t].next >= 1
      /\ \A t \in Checkers : kCheck[t].at \in Asked => kCheck[t].next \in DOMAIN kProcs
      /\ \A i \in DOMAIN kProcs : kProcs[i] \in DogNames
  BY DEF DogIInv
<1>1. CASE UNCHANGED kvars
  <2>1. UNCHANGED <<kProcs, kDone, kFailed, kRestarts, kFailures, kCheck, kClock>>
    BY <1>1 DEF kvars, kLists
  <2> QED
    BY <1>0, <2>1, DogQuiet
<1>2. CASE RegisterProcess
  <2>1. PICK p \in DogNames : kProcs' = Append(kProcs, p)
    <3>1. Len(kProcs) + 1 \in DOMAIN Watched
      BY <1>0, <1>2, DogAssumption DEF RegisterProcess, IsInjective
    <3> QED
      BY <1>2, <3>1 DEF RegisterProcess, DogNames, Range
  <2>2. /\ kProcs' \in Seq(DogNames) /\ DOMAIN kProcs \subseteq DOMAIN kProcs'
        /\ \A i \in DOMAIN kProcs : kProcs'[i] = kProcs[i]
    BY <1>0, <2>1, Publishes
  <2>3. UNCHANGED <<kDone, kFailed, kRestarts, kFailures, kCheck, kClock>>
    BY <1>2 DEF RegisterProcess, kLists
  <2> QED
    BY <1>0, <2>2, <2>3, DogQuiet
<1>3. ASSUME NEW t \in Checkers, CheckBegin(t) \/ CheckEnd(t) PROVE DogIInv'
  <2>1. UNCHANGED <<kProcs, kDone, kFailed, kRestarts, kFailures, kClock>>
    BY <1>3 DEF CheckBegin, CheckEnd, kLists
  <2>2. PICK at \in {"loop", "idle"}, size \in Nat :
            kCheck' = [kCheck EXCEPT ![t] = [at |-> at, next |-> 1, size |-> size]]
    BY <1>0, <1>3 DEF CheckBegin, CheckEnd, CheckIdle
  <2>3. /\ kCheck' \in [Checkers -> [at : {"idle", "loop", "breaker", "restart"}, next : Nat, size : Nat]]
        /\ \A u \in Checkers : kCheck'[u] = IF u = t THEN [at |-> at, next |-> 1, size |-> size] ELSE kCheck[u]
    BY <1>0, <2>2
  <2>4. \A u \in Checkers : kCheck'[u].next >= 1 /\ (kCheck'[u].at \in Asked => kCheck'[u] = kCheck[u])
    BY <1>0, <2>3 DEF Asked
  <2> QED
    BY <1>0, <2>1, <2>3, <2>4, DogQuiet
<1>4. ASSUME NEW p \in DogNames, ProcessDies(p) PROVE DogIInv'
  <2>1. UNCHANGED <<kProcs, kDone, kFailed, kRestarts, kFailures, kCheck, kClock>>
    BY <1>4 DEF ProcessDies, kLists
  <2> QED
    BY <1>0, <2>1, DogQuiet
<1>5. CASE ClockTicks
  <2>1. UNCHANGED <<kProcs, kDone, kFailed, kRestarts, kFailures, kCheck>> /\ kClock' = kClock + 1
    BY <1>5 DEF ClockTicks, kLists
  <2> QED
    BY <1>0, <2>1, DogQuiet
<1>6. ASSUME NEW t \in Checkers, NEW p \in DogNames, kCheck[t].next \in DOMAIN kProcs, p = kProcs[kCheck[t].next],
             CheckOne(t) \/ CheckBreaker(t) \/ \E success \in BOOLEAN : RestartProcess(t, success)
      PROVE  DogIInv'
  <2>1. PICK here, on, past :
            /\ here = kCheck[t] /\ on = [here EXCEPT !.at = "loop", !.next = @ + 1]
            /\ past = [here EXCEPT !.next = @ + 1]
    OBVIOUS
  <2>2. /\ here \in [at : {"idle", "loop", "breaker", "restart"}, next : Nat, size : Nat] /\ here.next >= 1
        /\ on \in [at : {"idle", "loop", "breaker", "restart"}, next : Nat, size : Nat] /\ on.next >= 1
        /\ on.at = "loop"
    <3>1. here \in [at : {"idle", "loop", "breaker", "restart"}, next : Nat, size : Nat] /\ here.next >= 1
      BY <1>0, <1>6, <2>1
    <3>2. PICK n \in Nat : n = here.next + 1 /\ n >= 1
      BY <3>1
    <3>3. on \in [at : {"idle", "loop", "breaker", "restart"}, next : Nat, size : Nat]
      BY <2>1, <3>1, <3>2
    <3>4. on.at = "loop" /\ on.next = n
      BY <2>1, <3>1, <3>2
    <3> QED
      BY <3>1, <3>2, <3>3, <3>4
  <2>3. here.at = "loop" => past = on
    BY <2>2, <2>1
  <2>4. /\ kProcs' = kProcs /\ kClock' = kClock
    BY <1>6 DEF CheckOne, CheckBreaker, RestartProcess
  <2>5. /\ kDone[p] \in Seq(Nat) /\ kFailed[p] \in Seq(Nat)
        /\ kDone \in [DogNames -> Seq(Nat)] /\ kFailed \in [DogNames -> Seq(Nat)]
        /\ kRestarts \in [DogNames -> SUBSET Nat] /\ kFailures \in [DogNames -> SUBSET Nat]
        /\ {MaxRestarts, RestartCooldown, FailureThreshold, BreakerCooldown} \subseteq Nat \ {0}
    BY <1>6, DogAssumption DEF DogIInv
  <2>6. /\ EventsFit(kDone[p], kRestarts[p], kClock, RestartCooldown, MaxRestarts,
                     Cardinality(Past(kCheck, kProcs, p, Asked)))
        /\ EventsFit(kFailed[p], kFailures[p], kClock, BreakerCooldown, FailureThreshold,
                     Cardinality(Past(kCheck, kProcs, p, {"restart"})))
    BY <1>6 DEF DogIInv
  <2>7. /\ Cardinality(Past(kCheck, kProcs, p, Asked)) \in Nat
        /\ Cardinality(Past(kCheck, kProcs, p, {"restart"})) \in Nat
    BY PastCounted
  <2>8. /\ RecentRestarts(p) = LyingWithin(kRestarts[p], kDone[p], kClock, RestartCooldown)
        /\ RecentFailed(p) = LyingWithin(kFailures[p], kFailed[p], kClock, BreakerCooldown)
        /\ RecentRestarts(p) \subseteq kRestarts[p] /\ RecentFailed(p) \subseteq kFailures[p]
    BY DEF RecentRestarts, RecentFailed, WithinCooldown, LyingWithin
  <2>9. ASSUME NEW to \in [at : {"idle", "loop", "breaker", "restart"}, next : Nat, size : Nat],
               kCheck' = [kCheck EXCEPT ![t] = to], NEW ats
        PROVE  /\ Cardinality(Past(kCheck', kProcs', p, ats)) \in Nat
               /\ Cardinality(Past(kCheck', kProcs', p, ats)) <= Cardinality(Checkers)
               /\ to.at \notin ats => Cardinality(Past(kCheck', kProcs', p, ats)) <=
                      Cardinality(Past(kCheck, kProcs, p, ats))
               /\ to.at \in ats /\ here.at \in ats /\ to.next = here.next =>
                        Past(kCheck', kProcs', p, ats) = Past(kCheck, kProcs, p, ats)
               /\ to.at \notin ats /\ here.at \in ats =>
                     /\ Cardinality(Past(kCheck', kProcs', p, ats)) = Cardinality(Past(kCheck, kProcs, p, ats)) - 1
                     /\ Cardinality(Past(kCheck, kProcs, p, ats)) # 0
    <3>0. /\ t \in Checkers /\ here = kCheck[t] /\ kProcs' = kProcs /\ kProcs[here.next] = p
          /\ \A u \in Checkers : kCheck'[u] = IF u = t THEN to ELSE kCheck[u]
      BY <1>0, <1>6, <2>1, <2>4, <2>9
    <3>1. /\ t \in Past(kCheck, kProcs, p, ats) <=> here.at \in ats
          /\ to.at \in ats /\ kProcs[to.next] = p =>
                Past(kCheck', kProcs', p, ats) = Past(kCheck, kProcs, p, ats) \cup {t}
          /\ to.at \notin ats => Past(kCheck', kProcs', p, ats) = Past(kCheck, kProcs, p, ats) \ {t}
      BY <3>0 DEF Past
    <3>4. to.at \notin ats => Cardinality(Past(kCheck', kProcs', p, ats)) <=
              Cardinality(Past(kCheck, kProcs, p, ats))
      BY <3>1, PastCounted, FS_Subset
    <3>2. to.at \in ats /\ here.at \in ats /\ to.next = here.next =>
                Past(kCheck', kProcs', p, ats) = Past(kCheck, kProcs, p, ats)
      BY <3>0, <3>1
    <3>3. to.at \notin ats /\ here.at \in ats =>
              /\ Cardinality(Past(kCheck', kProcs', p, ats)) = Cardinality(Past(kCheck, kProcs, p, ats)) - 1
              /\ Cardinality(Past(kCheck, kProcs, p, ats)) # 0
      BY <3>1, PastCounted
    <3> QED
      BY <3>1, <3>2, <3>3, <3>4, PastCounted
  <2>10. CASE CheckOne(t)
    <3>1. here.at = "loop" /\ UNCHANGED <<kDone, kFailed, kFailures>>
      BY <2>1, <2>10 DEF CheckOne
    <3>2. CASE p \in kAlive
      <4>1. kCheck' = [kCheck EXCEPT ![t] = on] /\ kRestarts' = kRestarts
        BY <1>6, <2>1, <2>3, <2>10, <3>1, <3>2 DEF CheckOne
      <4>2. /\ kCheck' \in [Checkers -> [at : {"idle", "loop", "breaker", "restart"}, next : Nat, size : Nat]]
            /\ \A u \in Checkers : kCheck'[u] = IF u = t THEN on ELSE kCheck[u]
        BY <1>0, <2>2, <4>1
      <4>3. \A u \in Checkers : kCheck'[u].next >= 1 /\ (kCheck'[u].at \in Asked => kCheck'[u] = kCheck[u])
        BY <1>0, <2>2, <4>2 DEF Asked
      <4> QED
        BY <1>0, <2>4, <3>1, <4>1, <4>2, <4>3, DogQuiet
    <3>3. CASE p \notin kAlive
      <4>1. kRestarts' = [kRestarts EXCEPT ![p] = RecentRestarts(p)]
        BY <1>6, <2>10, <3>3 DEF CheckOne
      <4>2. /\ kRestarts' \in [DogNames -> SUBSET Nat] /\ kRestarts'[p] = RecentRestarts(p)
            /\ \A q \in DogNames : q # p => kRestarts'[q] = kRestarts[q]
        BY <1>6, <2>5, <2>8, <4>1
      <4>3. CASE CanRestart(p)
        <5>1. PICK to : to = [here EXCEPT !.at = "breaker"]
          OBVIOUS
        <5>2. /\ to \in [at : {"idle", "loop", "breaker", "restart"}, next : Nat, size : Nat]
              /\ to.next = here.next /\ to.at = "breaker"
          BY <2>2, <5>1
        <5>3. kCheck' = [kCheck EXCEPT ![t] = to]
          BY <1>6, <2>1, <2>10, <3>3, <4>3, <5>1 DEF CheckOne
        <5>4. /\ Cardinality(Past(kCheck', kProcs', p, Asked)) \in Nat
              /\ Cardinality(Past(kCheck', kProcs', p, Asked)) <= Cardinality(Checkers)
          BY <2>9, <5>2, <5>3
        <5>5. /\ Cardinality(Past(kCheck', kProcs', p, {"restart"})) \in Nat
              /\ Cardinality(Past(kCheck', kProcs', p, {"restart"})) <=
                     Cardinality(Past(kCheck, kProcs, p, {"restart"}))
          BY <2>9, <5>2, <5>3
        <5>6. Cardinality(LyingWithin(kRestarts[p], kDone[p], kClock, RestartCooldown)) < MaxRestarts
          BY <2>8, <4>3 DEF CanRestart
        <5>7. EventsFit(kDone[p], kRestarts'[p], kClock, RestartCooldown, MaxRestarts,
                        Cardinality(Past(kCheck', kProcs', p, Asked)))
          BY <1>0, <2>5, <2>6, <2>7, <2>8, <4>2, <5>4, <5>6, OnePasses
        <5>8. EventsFit(kFailed[p], kFailures[p], kClock, BreakerCooldown, FailureThreshold,
                        Cardinality(Past(kCheck', kProcs', p, {"restart"})))
          BY <1>0, <2>5, <2>6, <2>7, <5>5, StillFits
        <5>9. to.next >= 1 /\ to.next \in DOMAIN kProcs /\ kProcs[to.next] = p
          BY <1>6, <2>1, <2>2, <5>2
        <5> QED
          BY <1>6, <2>4, <2>5, <3>1, <4>2, <5>2, <5>3, <5>7, <5>8, <5>9, DogActs
      <4>4. CASE ~CanRestart(p)
        <5>1. kCheck' = [kCheck EXCEPT ![t] = on]
          BY <1>6, <2>1, <2>3, <2>10, <3>1, <3>3, <4>4 DEF CheckOne
        <5>2. on.at \notin Asked /\ on.at \notin {"restart"}
          BY <2>2 DEF Asked
        <5>4. /\ Cardinality(Past(kCheck', kProcs', p, Asked)) \in Nat
              /\ Cardinality(Past(kCheck', kProcs', p, Asked)) <= Cardinality(Past(kCheck, kProcs, p, Asked))
          BY <2>2, <2>9, <5>1, <5>2
        <5>5. /\ Cardinality(Past(kCheck', kProcs', p, {"restart"})) \in Nat
              /\ Cardinality(Past(kCheck', kProcs', p, {"restart"})) <=
                     Cardinality(Past(kCheck, kProcs, p, {"restart"}))
          BY <2>2, <2>9, <5>1, <5>2
        <5>7. EventsFit(kDone[p], kRestarts'[p], kClock, RestartCooldown, MaxRestarts,
                        Cardinality(Past(kCheck', kProcs', p, Asked)))
          BY <1>0, <2>5, <2>6, <2>7, <2>8, <4>2, <5>4, StillFits
        <5>8. EventsFit(kFailed[p], kFailures[p], kClock, BreakerCooldown, FailureThreshold,
                        Cardinality(Past(kCheck', kProcs', p, {"restart"})))
          BY <1>0, <2>5, <2>6, <2>7, <5>5, StillFits
        <5> QED
          BY <1>6, <2>2, <2>4, <2>5, <3>1, <4>2, <5>1, <5>2, <5>7, <5>8, DogActs
      <4> QED
        BY <4>3, <4>4
    <3> QED
      BY <3>2, <3>3
  <2>11. CASE CheckBreaker(t)
    <3>1. here.at = "breaker" /\ UNCHANGED <<kDone, kFailed, kRestarts>>
      BY <2>1, <2>11 DEF CheckBreaker
    <3>2. kFailures' = [kFailures EXCEPT ![p] = RecentFailed(p)]
      BY <1>6, <2>11 DEF CheckBreaker
    <3>3. /\ kFailures' \in [DogNames -> SUBSET Nat] /\ kFailures'[p] = RecentFailed(p)
          /\ \A q \in DogNames : q # p => kFailures'[q] = kFailures[q]
      BY <1>6, <2>5, <2>8, <3>2
    <3>4. CASE BreakerClosed(p)
      <4>1. PICK to : to = [here EXCEPT !.at = "restart"]
        OBVIOUS
      <4>2. /\ to \in [at : {"idle", "loop", "breaker", "restart"}, next : Nat, size : Nat]
            /\ to.next = here.next /\ to.at = "restart"
        BY <2>2, <4>1
      <4>3. kCheck' = [kCheck EXCEPT ![t] = to]
        BY <1>6, <2>1, <2>11, <3>4, <4>1 DEF CheckBreaker
      <4>4. Past(kCheck', kProcs', p, Asked) = Past(kCheck, kProcs, p, Asked)
        BY <2>9, <3>1, <4>2, <4>3 DEF Asked
      <4>5. /\ Cardinality(Past(kCheck', kProcs', p, {"restart"})) \in Nat
            /\ Cardinality(Past(kCheck', kProcs', p, {"restart"})) <= Cardinality(Checkers)
        BY <2>9, <4>2, <4>3
      <4>6. Cardinality(LyingWithin(kFailures[p], kFailed[p], kClock, BreakerCooldown)) < FailureThreshold
        BY <2>8, <3>4 DEF BreakerClosed
      <4>7. EventsFit(kFailed[p], kFailures'[p], kClock, BreakerCooldown, FailureThreshold,
                      Cardinality(Past(kCheck', kProcs', p, {"restart"})))
        BY <1>0, <2>5, <2>6, <2>7, <2>8, <3>3, <4>5, <4>6, OnePasses
      <4>8. EventsFit(kDone[p], kRestarts[p], kClock, RestartCooldown, MaxRestarts,
                      Cardinality(Past(kCheck', kProcs', p, Asked)))
        BY <2>6, <4>4
      <4>9. to.next >= 1 /\ to.next \in DOMAIN kProcs /\ kProcs[to.next] = p
        BY <1>6, <2>1, <2>2, <4>2
      <4> QED
        BY <1>6, <2>4, <2>5, <3>1, <3>3, <4>2, <4>3, <4>7, <4>8, <4>9, DogActs
    <3>5. CASE ~BreakerClosed(p)
      <4>1. kCheck' = [kCheck EXCEPT ![t] = on]
        BY <1>6, <2>1, <2>11, <3>5 DEF CheckBreaker
      <4>2. on.at \notin Asked /\ on.at \notin {"restart"}
        BY <2>2 DEF Asked
      <4>4. /\ Cardinality(Past(kCheck', kProcs', p, Asked)) \in Nat
            /\ Cardinality(Past(kCheck', kProcs', p, Asked)) <= Cardinality(Past(kCheck, kProcs, p, Asked))
        BY <2>2, <2>9, <4>1, <4>2
      <4>5. /\ Cardinality(Past(kCheck', kProcs', p, {"restart"})) \in Nat
            /\ Cardinality(Past(kCheck', kProcs', p, {"restart"})) <=
                   Cardinality(Past(kCheck, kProcs, p, {"restart"}))
        BY <2>2, <2>9, <4>1, <4>2
      <4>7. EventsFit(kDone[p], kRestarts[p], kClock, RestartCooldown, MaxRestarts,
                      Cardinality(Past(kCheck', kProcs', p, Asked)))
        BY <1>0, <2>5, <2>6, <2>7, <4>4, StillFits
      <4>8. EventsFit(kFailed[p], kFailures'[p], kClock, BreakerCooldown, FailureThreshold,
                      Cardinality(Past(kCheck', kProcs', p, {"restart"})))
        BY <1>0, <2>5, <2>6, <2>7, <2>8, <3>3, <4>5, StillFits
      <4> QED
        BY <1>6, <2>2, <2>4, <2>5, <3>1, <3>3, <4>1, <4>2, <4>7, <4>8, DogActs
    <3> QED
      BY <3>4, <3>5
  <2>12. ASSUME NEW success \in BOOLEAN, RestartProcess(t, success) PROVE DogIInv'
    <3>1. here.at = "restart" /\ kCheck' = [kCheck EXCEPT ![t] = on]
      BY <2>1, <2>12 DEF RestartProcess
    <3>2. /\ Cardinality(Past(kCheck', kProcs', p, Asked)) \in Nat
          /\ Cardinality(Past(kCheck', kProcs', p, {"restart"})) \in Nat
          /\ Cardinality(Past(kCheck', kProcs', p, Asked)) = Cardinality(Past(kCheck, kProcs, p, Asked)) - 1
          /\ Cardinality(Past(kCheck, kProcs, p, Asked)) # 0
          /\ Cardinality(Past(kCheck', kProcs', p, {"restart"})) = Cardinality(Past(kCheck, kProcs, p, {"restart"})) - 1
          /\ Cardinality(Past(kCheck, kProcs, p, {"restart"})) # 0
      <4>1. on.at \notin Asked /\ on.at \notin {"restart"} /\ here.at \in Asked /\ here.at \in {"restart"}
        BY <2>2, <3>1 DEF Asked
      <4> QED
        BY <2>2, <2>9, <3>1, <4>1
    <3>3. CASE success
      <4>1. /\ kDone' = [kDone EXCEPT ![p] = Append(kDone[p], kClock)]
            /\ kRestarts' = [kRestarts EXCEPT ![p] = kRestarts[p] \cup {Len(kDone[p]) + 1}]
            /\ UNCHANGED <<kFailed, kFailures>>
        BY <1>6, <2>12, <3>3 DEF RestartProcess, Noted, Listed
      <4>2. Append(kDone[p], kClock) \in Seq(Nat) /\ Len(kDone[p]) + 1 \in Nat
        BY <1>0, <2>5, Publishes
      <4>3. /\ kDone' \in [DogNames -> Seq(Nat)] /\ kRestarts' \in [DogNames -> SUBSET Nat]
            /\ kDone'[p] = Append(kDone[p], kClock) /\ kRestarts'[p] = kRestarts[p] \cup {Len(kDone[p]) + 1}
            /\ \A q \in DogNames : q # p => kDone'[q] = kDone[q] /\ kRestarts'[q] = kRestarts[q]
        BY <1>6, <2>5, <4>1, <4>2
      <4>4. EventsFit(kDone'[p], kRestarts'[p], kClock, RestartCooldown, MaxRestarts,
                      Cardinality(Past(kCheck', kProcs', p, Asked)))
        <5>1. PICK n \in Nat \ {0} : n = Cardinality(Past(kCheck, kProcs, p, Asked))
          BY <2>7, <3>2
        <5>2. EventsFit(kDone[p], kRestarts[p], kClock, RestartCooldown, MaxRestarts, n)
          BY <2>6, <5>1
        <5>3. EventsFit(Append(kDone[p], kClock), kRestarts[p] \cup {Len(kDone[p]) + 1},
                        kClock, RestartCooldown, MaxRestarts, n - 1)
          BY <1>0, <2>5, <5>2, EventNoted
        <5>4. EventsFit(kDone'[p], kRestarts'[p], kClock, RestartCooldown, MaxRestarts, n - 1)
          BY <4>3, <5>3
        <5> QED
          BY <3>2, <5>1, <5>4
      <4>5. EventsFit(kFailed[p], kFailures[p], kClock, BreakerCooldown, FailureThreshold,
                      Cardinality(Past(kCheck', kProcs', p, {"restart"})))
        BY <1>0, <2>5, <2>6, <2>7, <3>2, StillFits
      <4>6. on.at \notin Asked
        BY <2>2 DEF Asked
      <4> QED
        BY <1>6, <2>2, <2>4, <2>5, <3>1, <4>1, <4>3, <4>4, <4>5, <4>6, DogActs
    <3>4. CASE ~success
      <4>1. /\ kFailed' = [kFailed EXCEPT ![p] = Append(kFailed[p], kClock)]
            /\ kFailures' = [kFailures EXCEPT ![p] = kFailures[p] \cup {Len(kFailed[p]) + 1}]
            /\ UNCHANGED <<kDone, kRestarts>>
        BY <1>6, <2>12, <3>4 DEF RestartProcess, Noted, Listed
      <4>2. Append(kFailed[p], kClock) \in Seq(Nat) /\ Len(kFailed[p]) + 1 \in Nat
        BY <1>0, <2>5, Publishes
      <4>3. /\ kFailed' \in [DogNames -> Seq(Nat)] /\ kFailures' \in [DogNames -> SUBSET Nat]
            /\ kFailed'[p] = Append(kFailed[p], kClock)
            /\ kFailures'[p] = kFailures[p] \cup {Len(kFailed[p]) + 1}
            /\ \A q \in DogNames : q # p => kFailed'[q] = kFailed[q] /\ kFailures'[q] = kFailures[q]
        BY <1>6, <2>5, <4>1, <4>2
      <4>4. EventsFit(kFailed'[p], kFailures'[p], kClock, BreakerCooldown, FailureThreshold,
                      Cardinality(Past(kCheck', kProcs', p, {"restart"})))
        <5>1. PICK n \in Nat \ {0} : n = Cardinality(Past(kCheck, kProcs, p, {"restart"}))
          BY <2>7, <3>2
        <5>2. EventsFit(kFailed[p], kFailures[p], kClock, BreakerCooldown, FailureThreshold, n)
          BY <2>6, <5>1
        <5>3. EventsFit(Append(kFailed[p], kClock), kFailures[p] \cup {Len(kFailed[p]) + 1},
                        kClock, BreakerCooldown, FailureThreshold, n - 1)
          BY <1>0, <2>5, <5>2, EventNoted
        <5>4. EventsFit(kFailed'[p], kFailures'[p], kClock, BreakerCooldown, FailureThreshold, n - 1)
          BY <4>3, <5>3
        <5> QED
          BY <3>2, <5>1, <5>4
      <4>5. EventsFit(kDone[p], kRestarts[p], kClock, RestartCooldown, MaxRestarts,
                      Cardinality(Past(kCheck', kProcs', p, Asked)))
        BY <1>0, <2>5, <2>6, <2>7, <3>2, StillFits
      <4>6. on.at \notin Asked
        BY <2>2 DEF Asked
      <4> QED
        BY <1>6, <2>2, <2>4, <2>5, <3>1, <4>1, <4>3, <4>4, <4>5, <4>6, DogActs
    <3> QED
      BY <3>3, <3>4
  <2> QED
    BY <1>6, <2>10, <2>11, <2>12
<1>7. ASSUME NEW t \in Checkers,
             CheckOne(t) \/ CheckBreaker(t) \/ \E success \in BOOLEAN : RestartProcess(t, success)
      PROVE  DogIInv'
  <2>1. kCheck[t].next \in DOMAIN kProcs
    <3>1. CASE CheckOne(t)
      <4>1. kCheck[t].next <= Len(kProcs)
        BY <1>0, <3>1 DEF CheckOne, CheckOver
      <4> QED
        BY <1>0, <4>1
    <3>2. CASE CheckBreaker(t) \/ \E success \in BOOLEAN : RestartProcess(t, success)
      BY <1>0, <3>2 DEF CheckBreaker, RestartProcess, Asked
    <3> QED
      BY <1>7, <3>1, <3>2
  <2> QED
    BY <1>0, <1>6, <1>7, <2>1
<1> QED
  BY <1>1, <1>2, <1>3, <1>4, <1>5, <1>7 DEF DogNext

LEMMA DogHolds == DogIInv => LimitsHold
<1> SUFFICES ASSUME DogIInv, NEW p \in DogNames, NEW from \in 0..MaxClock
             PROVE  /\ Within(kDone[p], from, RestartCooldown) <= MaxRestarts + Cardinality(Checkers) - 1
                    /\ Within(kFailed[p], from, BreakerCooldown) <= FailureThreshold + Cardinality(Checkers) - 1
  BY DEF LimitsHold, RestartsBounded, BreakerBounds
<1>1. from \in Nat
  BY DogAssumption
<1> QED
  BY <1>1 DEF DogIInv, EventsFit

\* However the cooldown is laid over time, restarts and failed restarts stay within
\* their limits, one more for every further thread that is past the test, for any
\* processes, threads, limits and cooldowns.
THEOREM DogLimits == DogSpec => []LimitsHold
  BY DogHolds, DogInitHolds, DogStep, PTL DEF DogSpec

------------------------------------------------------------------------------
(* Blocks.  The monitor remembers every failure that is in its window, and the  *)
(* end it keeps for a denied address lies no earlier than the block that was    *)
(* promised, unless a request or a restart has dropped it.                      *)

BlockTypes ==
    /\ abNow \in Nat /\ abNow >= FailWindow
    /\ abFails \in [Addresses -> SUBSET Nat] /\ abSeen \in [Addresses -> SUBSET Nat]
    /\ \A p \in Addresses : IsFiniteSet(abFails[p]) /\ IsFiniteSet(abSeen[p])
    /\ abUntil \in [Addresses -> Nat] /\ abPromise \in [Addresses -> Nat]
    /\ abAcl \subseteq Addresses

\* The failures seen lie in the past, and those of the window are still known.
SeenIsKnown == \A p \in Addresses : \A z \in abSeen[p] : z <= abNow /\ (z >= abNow - FailWindow => z \in abFails[p])

PromiseIsKept ==
    \A p \in Addresses \ abDropped :
        abPromise[p] > 0 /\ abNow <= abPromise[p] => p \in abAcl /\ abUntil[p] >= abPromise[p]

\* What keeps p denied for the failures up to z.
Denies(acl, until, now, p, z) ==
    p \in acl /\ (until >= z + BlockTime \/ (until = 0 /\ now >= z + BlockTime))

FailuresDeny ==
    \A p \in Addresses : \A z \in abSeen[p] :
        Cardinality(RecentFailures(abSeen[p], z)) >= FailThreshold /\ abNow <= z + BlockTime
            => Denies(abAcl, abUntil[p], abNow, p, z)

BlocksIInv == BlockTypes /\ SeenIsKnown /\ PromiseIsKept /\ BlockIsTracked /\ FailuresDeny

LEMMA BlocksInitHolds == BlocksInit => BlocksIInv
<1> SUFFICES ASSUME BlocksInit PROVE BlocksIInv
  OBVIOUS
<1>1. BlockTypes
  BY BlockAssumption, FS_EmptySet DEF BlocksInit, BlockTypes
<1> QED
  BY <1>1 DEF BlocksIInv, BlocksInit, SeenIsKnown, PromiseIsKept, BlockIsTracked, FailuresDeny

\* An address whose own entries stay, and whose past does, at the same minute.
LEMMA BlocksQuiet ==
    ASSUME BlocksIInv, abNow' = abNow, abFails' = abFails, abSeen' = abSeen, abUntil' = abUntil,
           abAcl' = abAcl, abPromise' = abPromise, abDropped' = abDropped
    PROVE  BlocksIInv'
<1>1. BlockTypes' /\ SeenIsKnown' /\ PromiseIsKept'
  BY DEF BlocksIInv, BlockTypes, SeenIsKnown, PromiseIsKept
<1>2. BlockIsTracked' /\ FailuresDeny'
  BY DEF BlocksIInv, BlockIsTracked, FailuresDeny
<1> QED
  BY <1>1, <1>2 DEF BlocksIInv

\* A block that replaces what p had: its failures are forgotten, or are denied by it.
LEMMA BlockSet ==
    ASSUME BlocksIInv, NEW p \in Addresses, NEW end \in Nat, end >= abNow, Block(p, end), abNow' = abNow,
           abFails' \in [Addresses -> SUBSET Nat], abSeen' \in [Addresses -> SUBSET Nat],
           \A q \in Addresses : IsFiniteSet(abFails'[q]) /\ IsFiniteSet(abSeen'[q]),
           \A q \in Addresses : q # p => abFails'[q] = abFails[q] /\ abSeen'[q] = abSeen[q],
           \A z \in abSeen'[p] : z <= abNow /\ (z >= abNow - FailWindow => z \in abFails'[p]),
           abSeen'[p] = {} \/ end = abNow + BlockTime
    PROVE  BlocksIInv'
<1>1. /\ abNow \in Nat /\ abNow >= FailWindow /\ FailWindow \in Nat \ {0} /\ BlockTime \in Nat
      /\ abUntil \in [Addresses -> Nat] /\ abPromise \in [Addresses -> Nat] /\ abAcl \subseteq Addresses
  BY BlockAssumption DEF BlocksIInv, BlockTypes
<1>2. /\ abUntil' \in [Addresses -> Nat] /\ abPromise' \in [Addresses -> Nat] /\ abAcl' = abAcl \cup {p}
      /\ abDropped' = abDropped \ {p}
      /\ \A q \in Addresses : abUntil'[q] = IF q = p THEN end ELSE abUntil[q]
      /\ \A q \in Addresses : abPromise'[q] = IF q = p THEN end ELSE abPromise[q]
  BY <1>1 DEF Block
<1>3. BlockTypes'
  BY <1>1, <1>2 DEF BlockTypes
<1>4. SeenIsKnown'
  BY DEF BlocksIInv, SeenIsKnown
<1>5. PromiseIsKept'
  BY <1>1, <1>2 DEF BlocksIInv, PromiseIsKept
<1>6. BlockIsTracked'
  BY <1>1, <1>2 DEF BlocksIInv, BlockIsTracked
<1>7. ASSUME NEW q \in Addresses, NEW z \in abSeen'[q],
             Cardinality(RecentFailures(abSeen'[q], z)) >= FailThreshold, abNow <= z + BlockTime
      PROVE  Denies(abAcl', abUntil'[q], abNow, q, z)
  <2>1. CASE q # p
    <3>1. Denies(abAcl, abUntil[q], abNow, q, z)
      BY <1>7, <2>1 DEF BlocksIInv, FailuresDeny
    <3> QED
      BY <1>2, <2>1, <3>1 DEF Denies
  <2>2. CASE q = p
    <3>1. end = abNow + BlockTime /\ z <= abNow /\ z \in Nat
      BY <1>7, <2>2
    <3>2. end >= z + BlockTime
      BY <1>1, <3>1
    <3> QED
      BY <1>2, <2>2, <3>2 DEF Denies
  <2> QED
    BY <2>1, <2>2
<1>8. FailuresDeny'
  BY <1>7 DEF FailuresDeny
<1> QED
  BY <1>3, <1>4, <1>5, <1>6, <1>8 DEF BlocksIInv

LEMMA BlocksStep == BlocksIInv /\ [BlocksNext]_abVars => BlocksIInv'
<1> SUFFICES ASSUME BlocksIInv, [BlocksNext]_abVars PROVE BlocksIInv'
  OBVIOUS
<1>0. /\ abNow \in Nat /\ abNow >= FailWindow /\ FailWindow \in Nat \ {0} /\ FailThreshold \in Nat \ {0}
      /\ {BlockTime, RateBlock} \cup BlockTimes \subseteq Nat
      /\ abFails \in [Addresses -> SUBSET Nat] /\ abSeen \in [Addresses -> SUBSET Nat]
      /\ \A p \in Addresses : IsFiniteSet(abFails[p]) /\ IsFiniteSet(abSeen[p])
      /\ abUntil \in [Addresses -> Nat] /\ abPromise \in [Addresses -> Nat] /\ abAcl \subseteq Addresses
  BY BlockAssumption DEF BlocksIInv, BlockTypes
<1>1. CASE UNCHANGED abVars
  BY <1>1, BlocksQuiet DEF abVars
<1>2. ASSUME NEW p \in Addresses, RecordFailedAttempt(p) PROVE BlocksIInv'
  <2>1. /\ abNow \notin abFails[p] /\ abNow' = abNow
        /\ abFails' = [abFails EXCEPT ![p] = abFails[p] \cup {abNow}]
        /\ abSeen' = [abSeen EXCEPT ![p] = abSeen[p] \cup {abNow}]
    BY <1>2 DEF RecordFailedAttempt
  <2>2. /\ abFails' \in [Addresses -> SUBSET Nat] /\ abSeen' \in [Addresses -> SUBSET Nat]
        /\ abFails'[p] = abFails[p] \cup {abNow} /\ abSeen'[p] = abSeen[p] \cup {abNow}
        /\ \A q \in Addresses : q # p => abFails'[q] = abFails[q] /\ abSeen'[q] = abSeen[q]
    BY <1>0, <1>2, <2>1
  <2>3. ASSUME NEW q \in Addresses PROVE IsFiniteSet(abFails'[q]) /\ IsFiniteSet(abSeen'[q])
    <3>1. IsFiniteSet(abFails[q] \cup {abNow}) /\ IsFiniteSet(abSeen[q] \cup {abNow})
      BY <1>0, FS_AddElement
    <3> QED
      BY <1>0, <2>2, <3>1
  <2>4. \A z \in abSeen[p] : z \in Nat /\ z < abNow /\ (z >= abNow - FailWindow => z \in abFails[p])
    <3>1. \A z \in abSeen[p] : z \in Nat /\ z <= abNow /\ (z >= abNow - FailWindow => z \in abFails[p])
      BY <1>0, <1>2 DEF BlocksIInv, SeenIsKnown
    <3> QED
      BY <1>0, <2>1, <3>1
  <2>5. \A z \in abSeen'[p] : z <= abNow /\ (z >= abNow - FailWindow => z \in abFails'[p])
    BY <1>0, <2>2, <2>4
  <2>6. CASE Cardinality(RecentFailures(abFails'[p], abNow)) >= FailThreshold
    <3>1. Block(p, abNow + BlockTime)
      BY <1>2, <2>6 DEF RecordFailedAttempt
    <3>2. PICK end \in Nat : end = abNow + BlockTime /\ end >= abNow
      BY <1>0
    <3> QED
      BY <1>2, <2>1, <2>2, <2>3, <2>5, <3>1, <3>2, BlockSet
  <2>7. CASE ~(Cardinality(RecentFailures(abFails'[p], abNow)) >= FailThreshold)
    <3>1. UNCHANGED <<abUntil, abAcl, abPromise, abDropped>>
      BY <1>2, <2>7 DEF RecordFailedAttempt
    <3>2. BlockTypes'
      BY <1>0, <2>1, <2>2, <2>3, <3>1 DEF BlockTypes
    <3>3. SeenIsKnown'
      BY <2>1, <2>2, <2>5 DEF BlocksIInv, SeenIsKnown
    <3>4. PromiseIsKept' /\ BlockIsTracked'
      BY <2>1, <3>1 DEF BlocksIInv, PromiseIsKept, BlockIsTracked
    <3>5. ~(Cardinality(RecentFailures(abSeen'[p], abNow)) >= FailThreshold)
      <4>1. PICK seen, known : seen = RecentFailures(abSeen'[p], abNow) /\ known = RecentFailures(abFails'[p], abNow)
        OBVIOUS
      <4>2. seen \subseteq known /\ known \subseteq abFails'[p]
        BY <1>0, <2>2, <2>5, <4>1 DEF RecentFailures
      <4>3. IsFiniteSet(known)
        BY <1>2, <2>3, <4>2, FS_Subset
      <4>4. Cardinality(seen) <= Cardinality(known) /\ IsFiniteSet(seen)
        BY <4>2, <4>3, FS_Subset
      <4>5. Cardinality(seen) \in Nat /\ Cardinality(known) \in Nat
        BY <4>3, <4>4, FS_CardinalityType
      <4>6. ~(Cardinality(known) >= FailThreshold)
        BY <2>7, <4>1
      <4>7. ~(Cardinality(seen) >= FailThreshold)
        BY <1>0, <4>4, <4>5, <4>6
      <4> QED
        BY <4>1, <4>7
    <3>6. ASSUME NEW q \in Addresses, NEW z \in abSeen'[q],
                 Cardinality(RecentFailures(abSeen'[q], z)) >= FailThreshold, abNow <= z + BlockTime
          PROVE  Denies(abAcl, abUntil[q], abNow, q, z)
      <4>1. z \in abSeen[q] /\ RecentFailures(abSeen'[q], z) = RecentFailures(abSeen[q], z)
        <5>1. CASE q # p
          BY <2>2, <3>6, <5>1
        <5>2. CASE q = p
          <6>1. z # abNow
            BY <3>5, <3>6, <5>2
          <6>2. z \in abSeen[p] /\ z \in Nat /\ z < abNow
            BY <2>2, <2>4, <3>6, <5>2, <6>1
          <6>3. RecentFailures(abSeen[p] \cup {abNow}, z) = RecentFailures(abSeen[p], z)
            BY <1>0, <6>2 DEF RecentFailures
          <6> QED
            BY <2>2, <5>2, <6>2, <6>3
        <5> QED
          BY <5>1, <5>2
      <4> QED
        BY <3>6, <4>1 DEF BlocksIInv, FailuresDeny
    <3>7. FailuresDeny'
      BY <2>1, <3>1, <3>6 DEF FailuresDeny
    <3> QED
      BY <3>2, <3>3, <3>4, <3>7 DEF BlocksIInv
  <2> QED
    BY <2>6, <2>7
<1>3. ASSUME NEW p \in Addresses, RecordRequest(p) PROVE BlocksIInv'
  <2>1. PICK end : end = IF abRequests'[p] > RateThreshold THEN abNow + RateBlock ELSE 0
    OBVIOUS
  <2>2. /\ abNow >= abUntil[p] /\ abUntil' = [abUntil EXCEPT ![p] = end]
        /\ UNCHANGED <<abNow, abFails, abAcl, abPromise, abSeen>>
    BY <1>3, <2>1 DEF RecordRequest
  <2>3. end \in Nat /\ (end = 0 \/ end >= abNow)
    BY <1>0, <2>1
  <2>4. /\ abUntil' \in [Addresses -> Nat] /\ abUntil'[p] = end /\ abUntil[p] \in Nat
        /\ \A q \in Addresses : q # p => abUntil'[q] = abUntil[q]
    BY <1>0, <1>3, <2>2, <2>3
  <2>5. abDropped' = IF end = 0 THEN abDropped \cup ({p} \cap abAcl) ELSE abDropped
    BY <1>3, <2>4 DEF RecordRequest
  <2>6. BlockTypes' /\ SeenIsKnown'
    BY <1>0, <2>2, <2>4 DEF BlocksIInv, BlockTypes, SeenIsKnown
  <2>7. PromiseIsKept'
    <3>1. ASSUME NEW q \in Addresses \ abDropped', abPromise[q] > 0, abNow <= abPromise[q]
          PROVE  q \in abAcl /\ abUntil'[q] >= abPromise[q]
      <4>1. q \in abAcl /\ abUntil[q] >= abPromise[q] /\ abPromise[q] \in Nat
        BY <1>0, <2>5, <3>1 DEF BlocksIInv, PromiseIsKept
      <4>2. CASE q = p
        <5>1. end # 0
          BY <2>5, <3>1, <4>1, <4>2
        <5> QED
          BY <1>0, <2>2, <2>3, <2>4, <4>1, <4>2, <5>1
      <4>3. CASE q # p
        BY <2>4, <3>1, <4>1, <4>3
      <4> QED
        BY <4>2, <4>3
    <3> QED
      BY <2>2, <3>1 DEF PromiseIsKept
  <2>8. BlockIsTracked'
    BY <1>0, <2>2, <2>3, <2>4, <2>5 DEF BlocksIInv, BlockIsTracked
  <2>9. ASSUME NEW q \in Addresses, NEW z \in abSeen[q],
               Cardinality(RecentFailures(abSeen[q], z)) >= FailThreshold, abNow <= z + BlockTime
        PROVE  Denies(abAcl, abUntil'[q], abNow, q, z)
    <3>1. Denies(abAcl, abUntil[q], abNow, q, z)
      BY <2>9 DEF BlocksIInv, FailuresDeny
    <3>2. CASE q # p
      BY <2>4, <2>9, <3>1, <3>2
    <3>3. CASE q = p
      <4>1. z \in Nat /\ BlockTime \in Nat
        BY <1>0, <2>9
      <4>2. abNow >= z + BlockTime
        BY <1>0, <2>2, <2>4, <3>1, <3>3, <4>1 DEF Denies
      <4>3. end >= z + BlockTime \/ end = 0
        BY <1>0, <2>3, <4>1, <4>2
      <4> QED
        BY <2>4, <3>1, <3>3, <4>2, <4>3 DEF Denies
    <3> QED
      BY <3>2, <3>3
  <2>10. FailuresDeny'
    BY <2>2, <2>9 DEF FailuresDeny
  <2> QED
    BY <2>6, <2>7, <2>8, <2>10 DEF BlocksIInv
<1>4. ASSUME NEW p \in Addresses, Unblock(p) PROVE BlocksIInv'
  <2>1. /\ abUntil' = [abUntil EXCEPT ![p] = 0] /\ abAcl' = abAcl \ {p}
        /\ abPromise' = [abPromise EXCEPT ![p] = 0] /\ abSeen' = [abSeen EXCEPT ![p] = {}]
        /\ UNCHANGED <<abNow, abFails, abDropped>>
    BY <1>4 DEF Unblock
  <2>2. /\ abUntil' \in [Addresses -> Nat] /\ abPromise' \in [Addresses -> Nat] /\ abSeen' \in [Addresses -> SUBSET Nat]
        /\ abUntil'[p] = 0 /\ abPromise'[p] = 0 /\ abSeen'[p] = {}
        /\ \A q \in Addresses : q # p => /\ abUntil'[q] = abUntil[q] /\ abPromise'[q] = abPromise[q]
                                         /\ abSeen'[q] = abSeen[q]
    BY <1>0, <1>4, <2>1
  <2>3. \A q \in Addresses : IsFiniteSet(abSeen'[q])
    BY <1>0, <2>2, FS_EmptySet
  <2>4. BlockTypes' /\ SeenIsKnown'
    BY <1>0, <2>1, <2>2, <2>3 DEF BlocksIInv, BlockTypes, SeenIsKnown
  <2>5. PromiseIsKept' /\ BlockIsTracked'
    BY <1>0, <2>1, <2>2 DEF BlocksIInv, PromiseIsKept, BlockIsTracked
  <2>6. ASSUME NEW q \in Addresses, NEW z \in abSeen'[q],
               Cardinality(RecentFailures(abSeen'[q], z)) >= FailThreshold, abNow <= z + BlockTime
        PROVE  Denies(abAcl', abUntil'[q], abNow, q, z)
    <3>1. q # p
      BY <2>2, <2>6
    <3>2. Denies(abAcl, abUntil[q], abNow, q, z)
      BY <2>2, <2>6, <3>1 DEF BlocksIInv, FailuresDeny
    <3> QED
      BY <2>1, <2>2, <2>6, <3>1, <3>2 DEF Denies
  <2>7. FailuresDeny'
    BY <2>1, <2>6 DEF FailuresDeny
  <2> QED
    BY <2>4, <2>5, <2>7 DEF BlocksIInv
<1>5. ASSUME NEW p \in Addresses, NEW minutes \in BlockTimes, ManualBlock(p, minutes) PROVE BlocksIInv'
  <2>1. /\ Block(p, abNow + minutes) /\ abSeen' = [abSeen EXCEPT ![p] = {}]
        /\ UNCHANGED <<abNow, abFails>>
    BY <1>5 DEF ManualBlock
  <2>2. /\ abSeen' \in [Addresses -> SUBSET Nat] /\ abSeen'[p] = {}
        /\ \A q \in Addresses : q # p => abSeen'[q] = abSeen[q]
    BY <1>0, <1>5, <2>1
  <2>3. \A q \in Addresses : IsFiniteSet(abFails'[q]) /\ IsFiniteSet(abSeen'[q])
    BY <1>0, <2>1, <2>2, FS_EmptySet
  <2>4. PICK end \in Nat : end = abNow + minutes /\ end >= abNow
    BY <1>0, <1>5
  <2> QED
    BY <1>0, <1>5, <2>1, <2>2, <2>3, <2>4, BlockSet
<1>6. CASE CleanUp
  <2>1. /\ \A p \in Addresses : abUntil'[p] = IF p \in Expired THEN 0 ELSE abUntil[p]
        /\ abUntil' \in [Addresses -> Nat]
        /\ abAcl' = abAcl \ Expired
        /\ abFails' \in [Addresses -> SUBSET Nat]
        /\ \A p \in Addresses : abFails'[p] = {z \in abFails[p] : z >= abNow - FailWindow}
        /\ UNCHANGED <<abNow, abPromise, abDropped, abSeen>>
    BY <1>0, <1>6 DEF CleanUp
  <2>2. \A p \in Addresses : IsFiniteSet(abFails'[p])
    <3>1. \A p \in Addresses : abFails'[p] \subseteq abFails[p]
      BY <2>1
    <3> QED
      BY <1>0, <3>1, FS_Subset
  <2>3. BlockTypes'
    BY <1>0, <2>1, <2>2 DEF BlockTypes
  <2>4. SeenIsKnown'
    BY <2>1 DEF BlocksIInv, SeenIsKnown
  <2>5. PromiseIsKept' /\ BlockIsTracked'
    BY <1>0, <2>1 DEF BlocksIInv, PromiseIsKept, BlockIsTracked, Expired
  <2>6. ASSUME NEW q \in Addresses, NEW z \in abSeen[q],
               Cardinality(RecentFailures(abSeen[q], z)) >= FailThreshold, abNow <= z + BlockTime
        PROVE  Denies(abAcl', abUntil'[q], abNow, q, z)
    <3>1. Denies(abAcl, abUntil[q], abNow, q, z)
      BY <2>6 DEF BlocksIInv, FailuresDeny
    <3>2. q \notin Expired
      BY <1>0, <2>6, <3>1 DEF Denies, Expired
    <3> QED
      BY <2>1, <2>6, <3>1, <3>2 DEF Denies
  <2>7. FailuresDeny'
    BY <2>1, <2>6 DEF FailuresDeny
  <2> QED
    BY <2>3, <2>4, <2>5, <2>7 DEF BlocksIInv
<1>7. CASE RestartMonitor
  <2>1. /\ abFails' = [p \in Addresses |-> {}] /\ abUntil' = [p \in Addresses |-> 0]
        /\ abSeen' = [p \in Addresses |-> {}] /\ abDropped' = abDropped \cup abAcl
        /\ UNCHANGED <<abNow, abAcl, abPromise>>
    BY <1>7 DEF RestartMonitor
  <2>2. BlockTypes'
    BY <1>0, <2>1, FS_EmptySet DEF BlockTypes
  <2>3. SeenIsKnown' /\ FailuresDeny'
    BY <2>1 DEF SeenIsKnown, FailuresDeny
  <2>4. PromiseIsKept' /\ BlockIsTracked'
    BY <1>0, <2>1 DEF BlocksIInv, PromiseIsKept, BlockIsTracked
  <2> QED
    BY <2>2, <2>3, <2>4 DEF BlocksIInv
<1>8. CASE BlockMinutePasses
  <2>1. abNow' = abNow + 1 /\ UNCHANGED <<abFails, abUntil, abAcl, abPromise, abDropped, abSeen>>
    BY <1>8 DEF BlockMinutePasses
  <2>2. BlockTypes' /\ BlockIsTracked'
    BY <1>0, <2>1 DEF BlocksIInv, BlockTypes, BlockIsTracked
  <2>3. SeenIsKnown' /\ PromiseIsKept'
    BY <1>0, <2>1 DEF BlocksIInv, SeenIsKnown, PromiseIsKept
  <2>4. ASSUME NEW q \in Addresses, NEW z \in abSeen[q],
               Cardinality(RecentFailures(abSeen[q], z)) >= FailThreshold, abNow + 1 <= z + BlockTime
        PROVE  Denies(abAcl, abUntil[q], abNow + 1, q, z)
    <3>1. z \in Nat /\ BlockTime \in Nat
      BY <1>0, <2>4
    <3>2. abNow <= z + BlockTime
      BY <1>0, <2>4, <3>1
    <3>3. Denies(abAcl, abUntil[q], abNow, q, z)
      BY <2>4, <3>2 DEF BlocksIInv, FailuresDeny
    <3> QED
      BY <1>0, <3>1, <3>3 DEF Denies
  <2>5. FailuresDeny'
    BY <2>1, <2>4 DEF FailuresDeny
  <2> QED
    BY <2>2, <2>3, <2>5 DEF BlocksIInv
<1> QED
  BY <1>1, <1>2, <1>3, <1>4, <1>5, <1>6, <1>7, <1>8 DEF BlocksNext

LEMMA BlocksHold == BlocksIInv => BlockHolds /\ BlockIsTracked /\ FailuresBlock
<1> SUFFICES ASSUME BlocksIInv PROVE BlockHolds /\ BlockIsTracked /\ FailuresBlock
  OBVIOUS
<1>1. BlockHolds /\ BlockIsTracked
  BY DEF BlocksIInv, PromiseIsKept, BlockHolds
<1>2. FailuresBlock
  BY DEF BlocksIInv, FailuresDeny, Denies, FailuresBlock
<1> QED
  BY <1>1, <1>2

\* A block holds to the end that was promised, is known to the cleanup until it is
\* dropped, and failures up to the threshold deny the address for a block's time,
\* for any addresses, thresholds, windows and durations.
THEOREM BlocksSafe == BlocksSpec => [](BlockHolds /\ BlockIsTracked /\ FailuresBlock)
  BY BlocksHold, BlocksInitHolds, BlocksStep, PTL DEF BlocksSpec

------------------------------------------------------------------------------
(* The Solana engine.  The slot a listener announces next is newer than the one *)
(* it announced last, which is the last block of this start.                    *)

ListenerPlaces == {"off", "first", "slot", "sleep", "cached_time", "time", "hash", "cache"}
Listeners == [pc : ListenerPlaces, asks : Nat, slot : Nat, last : Nat]
Blocks == [slot : Nat, parent : Nat, start : Nat]
OnTheWay == {"cached_time", "time", "hash", "cache"}

ChainSound ==
    /\ \A i \in DOMAIN jeBlocks :
         /\ jeBlocks[i].slot > jeBlocks[i].parent /\ jeBlocks[i].slot \in jeCached
         /\ jeBlocks[i].start <= jeStarts
         /\ jeBlocks[i].start = jeStarts => jeListener.pc # "first"
         /\ i > 1 /\ jeBlocks[i - 1].start = jeBlocks[i].start => jeBlocks[i].parent = jeBlocks[i - 1].slot
    /\ jeBlocks # <<>> /\ jeBlocks[Len(jeBlocks)].start = jeStarts /\ jeListener.pc # "off"
         => jeListener.last = jeBlocks[Len(jeBlocks)].slot

EngineIInv ==
    /\ jeChain \in Nat /\ jeListener \in Listeners /\ jeBlocks \in Seq(Blocks) /\ jeStarts \in Nat
    /\ jeRunning \in BOOLEAN /\ jeRaced \in BOOLEAN /\ jeHealth \in BOOLEAN
    /\ jeListener.slot <= jeChain
    /\ jeListener.pc \in OnTheWay => jeListener.slot > jeListener.last
    /\ ChainSound
    /\ jeRunning <=> jeListener.pc # "off"
    /\ jeRunning /\ ~jeRaced => jeStop = "none" /\ jeHealth

LEMMA EngineInitHolds == EngineInit => EngineIInv
<1> SUFFICES ASSUME EngineInit PROVE EngineIInv
  OBVIOUS
<1>1. /\ jeChain = 1 /\ jeRunning = FALSE /\ jeListener = NoListener /\ jeHealth = FALSE
      /\ jeStop = "none" /\ jeBlocks = <<>> /\ jeStarts = 0 /\ jeRaced = FALSE
  BY DEF EngineInit
<1>2. NoListener \in Listeners /\ NoListener.pc = "off" /\ NoListener.slot = 0
  BY DEF NoListener, Listeners, ListenerPlaces
<1>3. jeBlocks \in Seq(Blocks) /\ DOMAIN jeBlocks = {}
  BY <1>1
<1>4. ChainSound
  BY <1>1, <1>3 DEF ChainSound
<1>5. /\ jeChain \in Nat /\ jeListener \in Listeners /\ jeBlocks \in Seq(Blocks) /\ jeStarts \in Nat
      /\ jeListener.slot <= jeChain /\ (jeListener.pc \in OnTheWay => jeListener.slot > jeListener.last)
  BY <1>1, <1>2, <1>3 DEF OnTheWay
<1>6. /\ jeRunning \in BOOLEAN /\ jeRaced \in BOOLEAN /\ jeHealth \in BOOLEAN
      /\ jeRunning = FALSE /\ jeListener.pc = "off"
  BY <1>1, <1>2
<1> QED
  BY <1>4, <1>5, <1>6 DEF EngineIInv

\* The listener goes on, and the blocks stay as they are.
LEMMA ListenerGoes ==
    ASSUME EngineIInv, NEW next \in Listeners, jeListener' = next, jeListener.pc # "off", next.pc \notin {"off", "first"},
           next.slot <= jeChain, next.pc \in OnTheWay => next.slot > next.last,
           next.last = jeListener.last \/ jeListener.pc = "first",
           UNCHANGED <<jeChain, jeRunning, jeHealth, jeStop, jeStarts, jeRaced, jeBlocks, jeCached>>
    PROVE  EngineIInv'
<1>1. ChainSound'
  <2>1. ASSUME NEW i \in DOMAIN jeBlocks
        PROVE  /\ jeBlocks[i].slot > jeBlocks[i].parent /\ jeBlocks[i].slot \in jeCached
               /\ jeBlocks[i].start <= jeStarts
               /\ i > 1 /\ jeBlocks[i - 1].start = jeBlocks[i].start => jeBlocks[i].parent = jeBlocks[i - 1].slot
    BY <2>1 DEF EngineIInv, ChainSound
  <2>2. jeBlocks # <<>> /\ jeBlocks[Len(jeBlocks)].start = jeStarts => next.last = jeBlocks[Len(jeBlocks)].slot
    <3>1. SUFFICES ASSUME jeBlocks # <<>>, jeBlocks[Len(jeBlocks)].start = jeStarts
                   PROVE  next.last = jeBlocks[Len(jeBlocks)].slot
      OBVIOUS
    <3>2. Len(jeBlocks) \in DOMAIN jeBlocks
      BY <3>1 DEF EngineIInv
    <3> QED
      BY <3>1, <3>2 DEF EngineIInv, ChainSound
  <2> QED
    BY <2>1, <2>2 DEF ChainSound
<1>2. jeRunning <=> next.pc # "off"
  BY DEF EngineIInv
<1>3. /\ jeChain' \in Nat /\ jeListener' \in Listeners /\ jeBlocks' \in Seq(Blocks) /\ jeStarts' \in Nat
      /\ jeListener'.slot <= jeChain' /\ (jeListener'.pc \in OnTheWay => jeListener'.slot > jeListener'.last)
  BY DEF EngineIInv
<1>4. /\ jeRunning' \in BOOLEAN /\ jeRaced' \in BOOLEAN /\ jeHealth' \in BOOLEAN
      /\ jeRunning' /\ ~jeRaced' => jeStop' = "none" /\ jeHealth'
  BY DEF EngineIInv
<1> QED
  BY <1>1, <1>2, <1>3, <1>4 DEF EngineIInv

\* The listener is off or has just begun, and the blocks are those of earlier starts or stay.
LEMMA EngineTurns ==
    ASSUME EngineIInv, jeChain' \in Nat, jeChain' >= jeChain, UNCHANGED <<jeBlocks, jeCached>>,
           jeStarts' \in Nat, jeStarts' >= jeStarts, jeListener' \in Listeners,
           \/ jeListener' = jeListener /\ jeStarts' = jeStarts
           \/ jeListener' = NoListener /\ jeStarts' = jeStarts
           \/ jeListener' = [NoListener EXCEPT !.pc = "first"] /\ jeStarts' = jeStarts + 1,
           jeRunning' \in BOOLEAN, jeRaced' \in BOOLEAN, jeHealth' \in BOOLEAN,
           jeRunning' <=> jeListener'.pc # "off",
           jeRunning' /\ ~jeRaced' => jeStop' = "none" /\ jeHealth'
    PROVE  EngineIInv'
<1>0. /\ jeChain \in Nat /\ jeListener \in Listeners /\ jeBlocks \in Seq(Blocks) /\ jeStarts \in Nat
      /\ \A i \in DOMAIN jeBlocks : jeBlocks[i] \in Blocks /\ jeBlocks[i].start <= jeStarts
  BY DEF EngineIInv, ChainSound
<1>1. CASE jeListener' = jeListener /\ jeStarts' = jeStarts
  <2>1. ChainSound'
    BY <1>1 DEF EngineIInv, ChainSound
  <2>2. jeListener'.slot <= jeChain' /\ (jeListener'.pc \in OnTheWay => jeListener'.slot > jeListener'.last)
    BY <1>0, <1>1 DEF EngineIInv, Listeners
  <2> QED
    BY <1>0, <1>1, <2>1, <2>2 DEF EngineIInv
<1>2. CASE jeListener' = NoListener /\ jeStarts' = jeStarts
  <2>1. ChainSound'
    BY <1>0, <1>2 DEF EngineIInv, ChainSound, NoListener
  <2>2. jeListener'.slot <= jeChain' /\ jeListener'.pc \notin OnTheWay
    BY <1>0, <1>2 DEF NoListener, OnTheWay
  <2> QED
    BY <1>0, <1>2, <2>1, <2>2 DEF EngineIInv
<1>3. CASE jeListener' = [NoListener EXCEPT !.pc = "first"] /\ jeStarts' = jeStarts + 1
  <2>1. \A i \in DOMAIN jeBlocks : jeBlocks[i].start # jeStarts' /\ jeBlocks[i].start <= jeStarts'
    BY <1>0, <1>3 DEF Blocks
  <2>2. jeBlocks # <<>> => Len(jeBlocks) \in DOMAIN jeBlocks
    BY <1>0
  <2>3. ChainSound'
    BY <1>0, <2>1, <2>2 DEF EngineIInv, ChainSound
  <2>4. jeListener'.slot <= jeChain' /\ jeListener'.pc \notin OnTheWay
    BY <1>0, <1>3 DEF NoListener, OnTheWay
  <2> QED
    BY <1>0, <1>3, <2>3, <2>4 DEF EngineIInv
<1> QED
  BY <1>1, <1>2, <1>3

LEMMA EngineStep == EngineIInv /\ [EngineNext]_jeVars => EngineIInv'
<1> SUFFICES ASSUME EngineIInv, [EngineNext]_jeVars PROVE EngineIInv'
  OBVIOUS
<1>0. /\ jeChain \in Nat /\ jeListener \in Listeners /\ jeBlocks \in Seq(Blocks) /\ jeStarts \in Nat
      /\ jeRunning \in BOOLEAN /\ jeRaced \in BOOLEAN /\ jeHealth \in BOOLEAN
      /\ jeListener.slot <= jeChain /\ (jeListener.pc \in OnTheWay => jeListener.slot > jeListener.last)
  BY DEF EngineIInv
<1>a. /\ jeRunning <=> jeListener.pc # "off"
      /\ jeRunning /\ ~jeRaced => jeStop = "none" /\ jeHealth
  BY DEF EngineIInv
<1>b. NoListener \in Listeners /\ [NoListener EXCEPT !.pc = "first"] \in Listeners /\ NoListener.pc = "off"
      /\ [NoListener EXCEPT !.pc = "first"].pc = "first"
  BY DEF NoListener, Listeners, ListenerPlaces
<1>1. CASE UNCHANGED jeVars \/ SlotPasses \/ SubmitBundle
  <2>1. /\ UNCHANGED <<jeBlocks, jeCached, jeStarts, jeListener, jeRunning, jeRaced, jeHealth, jeStop>>
        /\ jeChain' \in Nat /\ jeChain' >= jeChain
    BY <1>0, <1>1 DEF jeVars, SlotPasses, SubmitBundle
  <2> QED
    BY <1>0, <1>a, <2>1, EngineTurns
<1>2. CASE EngineStarts
  <2>1. /\ UNCHANGED <<jeBlocks, jeCached, jeChain, jeStop>> /\ jeStarts' = jeStarts + 1
        /\ jeListener' = [NoListener EXCEPT !.pc = "first"] /\ jeRunning' = TRUE /\ jeHealth' = TRUE
        /\ jeRaced' = (jeRaced \/ jeStop # "none")
    BY <1>2 DEF EngineStarts
  <2>2. jeStarts' \in Nat /\ jeStarts' >= jeStarts /\ jeChain' \in Nat /\ jeChain' >= jeChain
    BY <1>0, <2>1
  <2>3. /\ jeListener' \in Listeners /\ jeListener'.pc = "first"
        /\ jeRunning' \in BOOLEAN /\ jeRaced' \in BOOLEAN /\ jeHealth' \in BOOLEAN
    BY <1>0, <1>b, <2>1
  <2>4. jeRunning' /\ ~jeRaced' => jeStop' = "none" /\ jeHealth'
    BY <2>1
  <2>5. jeRunning' <=> jeListener'.pc # "off"
    BY <2>1, <2>3
  <2> QED
    BY <1>0, <2>1, <2>2, <2>3, <2>4, <2>5, EngineTurns
<1>3. CASE EngineStops
  <2>1. /\ UNCHANGED <<jeBlocks, jeCached, jeChain, jeStarts, jeRaced, jeHealth>>
        /\ jeListener' = NoListener /\ jeRunning' = FALSE
    BY <1>3 DEF EngineStops
  <2>2. /\ jeListener' \in Listeners /\ jeListener'.pc = "off" /\ jeChain' \in Nat /\ jeChain' >= jeChain
        /\ jeStarts' \in Nat /\ jeStarts' >= jeStarts
    BY <1>0, <1>b, <2>1
  <2>3. jeRunning' \in BOOLEAN /\ jeRaced' \in BOOLEAN /\ jeHealth' \in BOOLEAN
    BY <1>0, <2>1
  <2>4. jeRunning' <=> jeListener'.pc # "off"
    BY <2>1, <2>2
  <2> QED
    BY <2>1, <2>2, <2>3, <2>4, EngineTurns
<1>4. CASE StopGoesOn
  <2>1. /\ UNCHANGED <<jeBlocks, jeCached, jeChain, jeStarts, jeRaced, jeListener, jeRunning>>
        /\ jeStop # "none" /\ jeHealth' \in BOOLEAN
    BY <1>0, <1>4 DEF StopGoesOn
  <2> QED
    BY <1>0, <1>a, <2>1, EngineTurns
<1>5. ASSUME NEW pc \in ListenerPlaces
      PROVE  /\ To(pc) \in Listeners /\ To(pc).pc = pc /\ To(pc).slot = jeListener.slot /\ To(pc).last = jeListener.last
  BY <1>0, <1>5 DEF To, Listeners
<1>6. CASE EndpointFails
  <2>1. jeListener.pc \in {"first", "slot", "time", "hash"}
    BY <1>6 DEF EndpointFails
  <2>2. CASE jeListener.asks < Endpoints
    <3>1. PICK next : next = [jeListener EXCEPT !.asks = jeListener.asks + 1]
      OBVIOUS
    <3>2. next \in Listeners /\ next.pc = jeListener.pc /\ next.slot = jeListener.slot /\ next.last = jeListener.last
      BY <1>0, <3>1 DEF Listeners
    <3>3. jeListener' = next /\ UNCHANGED <<jeChain, jeRunning, jeHealth, jeStop, jeStarts, jeRaced, jeBlocks, jeCached>>
      BY <1>6, <2>2, <3>1 DEF EndpointFails, ListenerSteps
    <3>4. CASE jeListener.pc # "first"
      BY <1>0, <2>1, <3>2, <3>3, <3>4, ListenerGoes
    <3>5. CASE jeListener.pc = "first"
      <4>1. ChainSound'
        BY <3>2, <3>3, <3>5 DEF EngineIInv, ChainSound
      <4> QED
        BY <1>0, <1>a, <2>1, <3>2, <3>3, <4>1 DEF EngineIInv
    <3> QED
      BY <3>4, <3>5
  <2>3. CASE ~(jeListener.asks < Endpoints)
    <3>1. PICK pc \in {"slot", "sleep", "hash", "cache"} :
              jeListener' = To(pc) /\ (pc \in OnTheWay => jeListener.pc \in OnTheWay)
      BY <1>6, <2>1, <2>3 DEF EndpointFails, ListenerSteps, Unanswered, OnTheWay
    <3>2. UNCHANGED <<jeChain, jeRunning, jeHealth, jeStop, jeStarts, jeRaced, jeBlocks, jeCached>>
      BY <1>6 DEF EndpointFails, ListenerSteps
    <3>3. pc \in ListenerPlaces \ {"off", "first"}
      BY <3>1 DEF ListenerPlaces
    <3> QED
      BY <1>0, <1>5, <2>1, <3>1, <3>2, <3>3, ListenerGoes
  <2> QED
    BY <2>2, <2>3
<1>7. CASE SlotAnswered
  <2>1. PICK slot \in (jeChain - MaxLag)..jeChain :
            /\ slot > 0
            /\ \/ jeListener.pc = "first" /\ ListenerSteps([To("slot") EXCEPT !.last = slot])
               \/ /\ jeListener.pc = "slot"
                  /\ ListenerSteps(IF IsNewer(slot) THEN [To("cached_time") EXCEPT !.slot = slot] ELSE To("sleep"))
    BY <1>7 DEF SlotAnswered
  <2>2. slot \in Nat /\ slot <= jeChain
    BY <1>0, <2>1, EngineAssumption
  <2>3. UNCHANGED <<jeChain, jeRunning, jeHealth, jeStop, jeStarts, jeRaced, jeBlocks, jeCached>>
    BY <1>7 DEF SlotAnswered, ListenerSteps
  <2>4. CASE jeListener.pc = "first"
    <3>1. PICK next : next = [To("slot") EXCEPT !.last = slot]
      OBVIOUS
    <3>2. next \in Listeners /\ next.pc = "slot" /\ next.slot = jeListener.slot
      BY <1>0, <2>2, <3>1 DEF Listeners, ListenerPlaces, To
    <3>3. jeListener' = next
      BY <2>1, <2>4, <3>1 DEF ListenerSteps
    <3> QED
      BY <1>0, <2>3, <2>4, <3>2, <3>3, ListenerGoes DEF OnTheWay
  <2>5. CASE jeListener.pc = "slot" /\ IsNewer(slot)
    <3>1. PICK next : next = [To("cached_time") EXCEPT !.slot = slot]
      OBVIOUS
    <3>2. next \in Listeners /\ next.pc = "cached_time" /\ next.slot = slot /\ next.last = jeListener.last
      BY <1>0, <2>2, <3>1 DEF Listeners, ListenerPlaces, To
    <3>3. jeListener' = next
      BY <2>1, <2>5, <3>1 DEF ListenerSteps
    <3>4. next.slot > next.last /\ next.pc \notin {"off", "first"} /\ jeListener.pc # "off"
      BY <2>5, <3>2 DEF IsNewer
    <3> QED
      BY <1>0, <2>2, <2>3, <3>2, <3>3, <3>4, ListenerGoes
  <2>6. CASE jeListener.pc = "slot" /\ ~IsNewer(slot)
    <3>1. jeListener' = To("sleep")
      BY <2>1, <2>6 DEF ListenerSteps
    <3>2. "sleep" \in ListenerPlaces \ {"off", "first"} /\ "sleep" \notin OnTheWay /\ jeListener.pc # "off"
      BY <2>6 DEF ListenerPlaces, OnTheWay
    <3> QED
      BY <1>0, <1>5, <2>3, <3>1, <3>2, ListenerGoes
  <2> QED
    BY <2>1, <2>4, <2>5, <2>6
<1>8. CASE TimeLooked \/ DetailAnswered
  <2>1. PICK pc \in {"time", "hash", "cache"} : jeListener' = To(pc) /\ jeListener.pc \in OnTheWay
    BY <1>8 DEF TimeLooked, DetailAnswered, ListenerSteps, OnTheWay
  <2>2. UNCHANGED <<jeChain, jeRunning, jeHealth, jeStop, jeStarts, jeRaced, jeBlocks, jeCached>>
    BY <1>8 DEF TimeLooked, DetailAnswered, ListenerSteps
  <2>3. pc \in ListenerPlaces \ {"off", "first"} /\ jeListener.pc # "off"
    BY <2>1 DEF ListenerPlaces, OnTheWay
  <2> QED
    BY <1>0, <1>5, <2>1, <2>2, <2>3, ListenerGoes
<1>9. CASE BlockAnnounced
  <2>1. PICK block : block = [slot |-> jeListener.slot, parent |-> jeListener.last, start |-> jeStarts]
    OBVIOUS
  <2>2. /\ block \in Blocks /\ block.slot = jeListener.slot /\ block.parent = jeListener.last /\ block.start = jeStarts
    BY <1>0, <2>1 DEF Blocks, Listeners
  <2>3. PICK next : next = [To("sleep") EXCEPT !.last = jeListener.slot]
    OBVIOUS
  <2>4. next \in Listeners /\ next.pc = "sleep" /\ next.slot = jeListener.slot /\ next.last = jeListener.slot
    BY <1>0, <2>3 DEF Listeners, ListenerPlaces, To
  <2>5. /\ jeListener.pc = "cache" /\ jeListener' = next /\ jeCached' = jeCached \cup {jeListener.slot}
        /\ jeBlocks' = Append(jeBlocks, block)
        /\ UNCHANGED <<jeChain, jeRunning, jeHealth, jeStop, jeStarts, jeRaced>>
    BY <1>9, <2>1, <2>3 DEF BlockAnnounced, Afterwards, ListenerSteps
  <2>6. PICK n \in Nat : n = Len(jeBlocks) /\ DOMAIN jeBlocks = 1 .. n
    BY <1>0
  <2>7. /\ jeBlocks' \in Seq(Blocks) /\ DOMAIN jeBlocks' = 1 .. (n + 1) /\ Len(jeBlocks') = n + 1
        /\ \A i \in 1 .. n : jeBlocks'[i] = jeBlocks[i]
        /\ jeBlocks'[n + 1] = block
    BY <1>0, <2>2, <2>5, <2>6, Publishes
  <2>8. jeListener.slot > jeListener.last
    BY <1>0, <2>5 DEF OnTheWay
  <2>9. ASSUME NEW i \in 1 .. (n + 1)
        PROVE  /\ jeBlocks'[i].slot > jeBlocks'[i].parent /\ jeBlocks'[i].slot \in jeCached'
               /\ jeBlocks'[i].start <= jeStarts
               /\ i > 1 /\ jeBlocks'[i - 1].start = jeBlocks'[i].start => jeBlocks'[i].parent = jeBlocks'[i - 1].slot
    <3>1. CASE i = n + 1
      <4>1. jeBlocks'[i] = block /\ jeStarts <= jeStarts
        BY <1>0, <2>7, <3>1
      <4>2. ASSUME i > 1, jeBlocks'[i - 1].start = jeStarts PROVE jeListener.last = jeBlocks'[i - 1].slot
        <5>1. i - 1 = n /\ n \in 1 .. n /\ jeBlocks # <<>> /\ jeBlocks'[n] = jeBlocks[n]
          BY <2>6, <2>7, <3>1, <4>2
        <5> QED
          BY <2>5, <2>6, <4>2, <5>1 DEF EngineIInv, ChainSound
      <4> QED
        BY <2>2, <2>5, <2>8, <4>1, <4>2
    <3>2. CASE i \in 1 .. n
      <4>1. jeBlocks'[i] = jeBlocks[i] /\ (i > 1 => i - 1 \in 1 .. n /\ jeBlocks'[i - 1] = jeBlocks[i - 1])
        BY <2>6, <2>7, <3>2
      <4> QED
        BY <2>5, <2>6, <3>2, <4>1 DEF EngineIInv, ChainSound
    <3> QED
      BY <2>6, <2>9, <3>1, <3>2
  <2>10. ChainSound'
    BY <2>2, <2>4, <2>5, <2>6, <2>7, <2>9 DEF ChainSound
  <2> QED
    BY <1>0, <1>a, <2>4, <2>5, <2>7, <2>10 DEF EngineIInv, OnTheWay
<1>10. CASE RedisFails
  <2>1. /\ jeListener' = To("sleep") /\ jeListener.pc # "off"
        /\ UNCHANGED <<jeChain, jeRunning, jeHealth, jeStop, jeStarts, jeRaced, jeBlocks, jeCached>>
    BY <1>10 DEF RedisFails, ListenerSteps
  <2>2. "sleep" \in ListenerPlaces \ {"off", "first"} /\ "sleep" \notin OnTheWay
    BY DEF ListenerPlaces, OnTheWay
  <2> QED
    BY <1>0, <1>5, <2>1, <2>2, ListenerGoes
<1>11. CASE ListenerWakes
  <2>1. /\ jeRunning /\ jeListener' = To("slot") /\ jeListener.pc = "sleep"
        /\ UNCHANGED <<jeChain, jeRunning, jeHealth, jeStop, jeStarts, jeRaced, jeBlocks, jeCached>>
    BY <1>a, <1>11 DEF ListenerWakes, ListenerSteps
  <2>2. "slot" \in ListenerPlaces \ {"off", "first"} /\ "slot" \notin OnTheWay
    BY DEF ListenerPlaces, OnTheWay
  <2> QED
    BY <1>0, <1>5, <2>1, <2>2, ListenerGoes
<1> QED
  BY <1>1, <1>2, <1>3, <1>4, <1>6, <1>7, <1>8, <1>9, <1>10, <1>11 DEF EngineNext

LEMMA EngineHolds == EngineIInv => BlocksChain /\ EngineIsWhole
  BY DEF EngineIInv, ChainSound, BlocksChain, EngineIsWhole

\* Within one start of the engine the blocks that are told form a chain, whatever
\* endpoints lag or fail, and while it runs its tasks do.
THEOREM EngineServes == EngineSpec => [](BlocksChain /\ EngineIsWhole)
  BY EngineHolds, EngineInitHolds, EngineStep, PTL DEF EngineSpec

------------------------------------------------------------------------------
(* The shredstream proxy.  What a stop has put into the queue is there still or *)
(* has ended a worker, so that a stop that has put one for every worker ever   *)
(* made leaves one for every worker that lives.                                *)

Messages == {"tx", "end"}
Places(queue, x) == {i \in DOMAIN queue : queue[i] = x}

\* The places of a value in a queue are finitely many.
LEMMA PlacesFinite ==
    ASSUME NEW S, NEW queue \in Seq(S), NEW x
    PROVE  IsFiniteSet(Places(queue, x)) /\ Cardinality(Places(queue, x)) \in Nat
<1>1. Places(queue, x) \subseteq 1 .. Len(queue) /\ Len(queue) \in Nat
  BY DEF Places
<1>2. IsFiniteSet(1 .. Len(queue))
  BY <1>1, FS_Interval
<1>3. IsFiniteSet(Places(queue, x))
  BY <1>1, <1>2, FS_Subset
<1> QED
  BY <1>3, FS_CardinalityType

\* What is put at the end of the queue has one more place in it.
LEMMA PutCounts ==
    ASSUME NEW S, NEW queue \in Seq(S), NEW m \in S, NEW x
    PROVE  Cardinality(Places(Append(queue, m), x)) = Cardinality(Places(queue, x)) + (IF m = x THEN 1 ELSE 0)
<1>1. /\ DOMAIN Append(queue, m) = DOMAIN queue \cup {Len(queue) + 1} /\ Len(queue) + 1 \notin DOMAIN queue
      /\ \A i \in DOMAIN queue : Append(queue, m)[i] = queue[i]
      /\ Append(queue, m)[Len(queue) + 1] = m
  BY Publishes
<1>2. IsFiniteSet(Places(queue, x)) /\ Cardinality(Places(queue, x)) \in Nat
  BY PlacesFinite
<1>3. CASE m = x
  <2>1. Places(Append(queue, m), x) = Places(queue, x) \cup {Len(queue) + 1} /\ Len(queue) + 1 \notin Places(queue, x)
    BY <1>1, <1>3 DEF Places
  <2> QED
    BY <1>2, <1>3, <2>1, FS_AddElement
<1>4. CASE m # x
  <2>1. Places(Append(queue, m), x) = Places(queue, x)
    BY <1>1, <1>4 DEF Places
  <2> QED
    BY <1>2, <1>4, <2>1
<1> QED
  BY <1>3, <1>4

\* What is taken from its head has one less.
LEMMA TakeCounts ==
    ASSUME NEW S, NEW queue \in Seq(S), queue # <<>>, NEW x
    PROVE  Cardinality(Places(queue, x)) = Cardinality(Places(Tail(queue), x)) + (IF Head(queue) = x THEN 1 ELSE 0)
<1>1. PICK n \in Nat : n = Len(queue) /\ n > 0
  OBVIOUS
<1>2. /\ Tail(queue) \in Seq(S) /\ DOMAIN Tail(queue) = 1 .. (n - 1) /\ DOMAIN queue = 1 .. n
      /\ \A i \in 1 .. (n - 1) : Tail(queue)[i] = queue[i + 1]
      /\ Head(queue) = queue[1]
  BY <1>1
<1>3. PICK rest : rest = Places(queue, x) \ {1}
  OBVIOUS
<1>4. IsFiniteSet(Places(Tail(queue), x)) /\ Cardinality(Places(Tail(queue), x)) \in Nat
  BY <1>2, PlacesFinite
<1>5. IsFiniteSet(rest) /\ Cardinality(rest) = Cardinality(Places(Tail(queue), x))
  <2>1. PICK f : f = [i \in Places(Tail(queue), x) |-> i + 1]
    OBVIOUS
  <2>2. f \in [Places(Tail(queue), x) -> rest]
    <3>1. ASSUME NEW i \in Places(Tail(queue), x) PROVE i + 1 \in rest
      BY <1>1, <1>2, <1>3, <3>1 DEF Places
    <3> QED
      BY <2>1, <3>1
  <2>3. \A a, b \in Places(Tail(queue), x) : f[a] = f[b] => a = b
    <3>1. Places(Tail(queue), x) \subseteq Int
      BY <1>2 DEF Places
    <3> QED
      BY <2>1, <3>1
  <2>4. \A t \in rest : \E s \in Places(Tail(queue), x) : f[s] = t
    <3>1. ASSUME NEW t \in rest PROVE t - 1 \in Places(Tail(queue), x) /\ f[t - 1] = t
      <4>1. t \in 1 .. n /\ t # 1 /\ queue[t] = x
        BY <1>2, <1>3, <3>1 DEF Places
      <4>2. t - 1 \in 1 .. (n - 1) /\ (t - 1) + 1 = t
        BY <1>1, <4>1
      <4>3. t - 1 \in Places(Tail(queue), x)
        BY <1>2, <4>1, <4>2 DEF Places
      <4> QED
        BY <2>1, <4>2, <4>3
    <3> QED
      BY <3>1
  <2>5. f \in Bijection(Places(Tail(queue), x), rest)
    BY <2>2, <2>3, <2>4, Fun_IsBij
  <2>6. ExistsBijection(Places(Tail(queue), x), rest)
    BY <2>5 DEF ExistsBijection
  <2> QED
    BY <1>4, <2>6, FS_Bijection
<1>6. CASE Head(queue) = x
  <2>1. Places(queue, x) = rest \cup {1} /\ 1 \notin rest
    BY <1>1, <1>2, <1>3, <1>6 DEF Places
  <2>2. Cardinality(rest \cup {1}) = Cardinality(rest) + 1
    BY <1>5, <2>1, FS_AddElement
  <2> QED
    BY <1>5, <1>6, <2>1, <2>2
<1>7. CASE Head(queue) # x
  <2>1. Places(queue, x) = rest
    BY <1>1, <1>2, <1>3, <1>7 DEF Places
  <2> QED
    BY <1>4, <1>5, <1>7, <2>1
<1> QED
  BY <1>6, <1>7

LEMMA JoinedSequences ==
    ASSUME NEW S, NEW a \in Seq(S), NEW b \in Seq(S)
    PROVE  /\ a \o b \in Seq(S) /\ DOMAIN (a \o b) = 1 .. (Len(a) + Len(b))
           /\ \A k \in 1 .. (Len(a) + Len(b)) : (a \o b)[k] = IF k <= Len(a) THEN a[k] ELSE b[k - Len(a)]
  OBVIOUS

\* Removing one of a sequence leaves the others.
LEMMA RemoveKeeps ==
    ASSUME NEW S, NEW s \in Seq(S), NEW i \in DOMAIN s
    PROVE  /\ RemoveAt(s, i) \in Seq(S)
           /\ \A k \in DOMAIN RemoveAt(s, i) : \E j \in DOMAIN s : RemoveAt(s, i)[k] = s[j]
<1>1. PICK n \in Nat : n = Len(s) /\ DOMAIN s = 1 .. n
  OBVIOUS
<1>2. i \in 1 .. n /\ \A j \in 1 .. n : s[j] \in S
  BY <1>1
<1>3. PICK a : a = SubSeq(s, 1, i - 1)
  OBVIOUS
<1>4. PICK b : b = SubSeq(s, i + 1, n)
  OBVIOUS
<1>5. a \in Seq(S) /\ Len(a) = i - 1 /\ \A k \in 1 .. (i - 1) : a[k] = s[k]
  BY <1>1, <1>2, <1>3
<1>6. b \in Seq(S) /\ Len(b) = n - i /\ \A k \in 1 .. (n - i) : b[k] = s[i + k]
  BY <1>1, <1>2, <1>4
<1>7. RemoveAt(s, i) = a \o b
  BY <1>1, <1>3, <1>4 DEF RemoveAt
<1>8. /\ a \o b \in Seq(S) /\ DOMAIN (a \o b) = 1 .. (n - 1)
      /\ \A k \in 1 .. (n - 1) : (a \o b)[k] = IF k <= i - 1 THEN a[k] ELSE b[k - (i - 1)]
  <2>1. /\ a \o b \in Seq(S) /\ DOMAIN (a \o b) = 1 .. (Len(a) + Len(b))
        /\ \A k \in 1 .. (Len(a) + Len(b)) : (a \o b)[k] = IF k <= Len(a) THEN a[k] ELSE b[k - Len(a)]
    BY <1>5, <1>6, JoinedSequences
  <2>2. Len(a) = i - 1 /\ Len(b) = n - i /\ i \in Int /\ n \in Int
    BY <1>1, <1>2, <1>5, <1>6
  <2>3. Len(a) + Len(b) = n - 1
    BY ONLY <2>2
  <2> QED
    BY <1>5, <2>1, <2>3
<1>9. ASSUME NEW k \in 1 .. (n - 1) PROVE \E j \in 1 .. n : (a \o b)[k] = s[j]
  <2>1. CASE k <= i - 1
    <3>1. k \in 1 .. (i - 1) /\ k \in 1 .. n
      BY <1>2, <2>1
    <3> QED
      BY <1>5, <1>8, <2>1, <3>1
  <2>2. CASE ~(k <= i - 1)
    <3>1. k - (i - 1) \in 1 .. (n - i) /\ i + (k - (i - 1)) = k + 1 /\ k + 1 \in 1 .. n
      BY <1>2, <2>2
    <3>2. (a \o b)[k] = s[k + 1]
      BY <1>6, <1>8, <2>2, <3>1
    <3> QED
      BY <3>1, <3>2
  <2> QED
    BY <2>1, <2>2
<1>10. DOMAIN RemoveAt(s, i) = 1 .. (n - 1) /\ RemoveAt(s, i) \in Seq(S)
  BY <1>7, <1>8
<1>11. ASSUME NEW k \in DOMAIN RemoveAt(s, i) PROVE \E j \in DOMAIN s : RemoveAt(s, i)[k] = s[j]
  <2>1. k \in 1 .. (n - 1) /\ DOMAIN s = 1 .. n
    BY <1>1, <1>10
  <2> QED
    BY <1>7, <1>9, <2>1
<1> QED
  BY <1>10, <1>11

ShredIInv ==
    /\ shQueue \in Seq(Messages) /\ shWorkers \in Nat /\ shLive \subseteq 1 .. shWorkers
    /\ shStops \in Seq(Nat) /\ shReceived \in Nat /\ shParsed \in Nat
    /\ \A i \in DOMAIN shStops :
           shStops[i] + Cardinality(shLive) <= Cardinality(Places(shQueue, "end")) + shWorkers
    /\ StopEndsWorkers /\ ReceivedIsParsed

LEMMA LiveFinite ==
    ASSUME ShredIInv
    PROVE  IsFiniteSet(shLive) /\ Cardinality(shLive) \in Nat
<1>1. IsFiniteSet(1 .. shWorkers) /\ shLive \subseteq 1 .. shWorkers
  BY FS_Interval DEF ShredIInv
<1> QED
  BY <1>1, FS_Subset, FS_CardinalityType

LEMMA ShredInitHolds == ShredInit => ShredIInv
<1> SUFFICES ASSUME ShredInit PROVE ShredIInv
  OBVIOUS
<1>1. /\ shQueue = <<>> /\ shWorkers = 0 /\ shLive = {} /\ shStops = <<>> /\ shReceived = 0 /\ shParsed = 0
  BY DEF ShredInit
<1>2. shQueue \in Seq(Messages) /\ shStops \in Seq(Nat) /\ DOMAIN shStops = {} /\ DOMAIN shQueue = {}
  BY <1>1
<1>3. Places(shQueue, "end") = {} /\ Places(shQueue, "tx") = {} /\ Cardinality({}) = 0
  BY <1>2, FS_EmptySet DEF Places
<1>4. StopEndsWorkers
  BY <1>1, <1>3 DEF StopEndsWorkers, Places
<1>5. ReceivedIsParsed
  BY <1>1, <1>3 DEF ReceivedIsParsed, Places
<1> QED
  BY <1>1, <1>2, <1>4, <1>5 DEF ShredIInv

LEMMA ShredStep == ShredIInv /\ [ShredNext]_shVars => ShredIInv'
<1> SUFFICES ASSUME ShredIInv, [ShredNext]_shVars PROVE ShredIInv'
  OBVIOUS
<1>1. /\ shQueue \in Seq(Messages) /\ shWorkers \in Nat /\ shLive \subseteq 1 .. shWorkers
      /\ shStops \in Seq(Nat) /\ shReceived \in Nat /\ shParsed \in Nat
  BY DEF ShredIInv
<1>2. PICK ends \in Nat : ends = Cardinality(Places(shQueue, "end"))
  BY <1>1, PlacesFinite
<1>3. PICK txs \in Nat : txs = Cardinality(Places(shQueue, "tx"))
  BY <1>1, PlacesFinite
<1>4. PICK live \in Nat : live = Cardinality(shLive)
  BY LiveFinite
<1>5. /\ \A i \in DOMAIN shStops : shStops[i] \in Nat /\ shStops[i] + live <= ends + shWorkers
      /\ ~shRunning /\ shStops = <<>> => ends >= live
      /\ shReceived = shParsed + txs
  BY <1>1, <1>2, <1>3, <1>4 DEF ShredIInv, StopEndsWorkers, ReceivedIsParsed, Places
<1>6. IsFiniteSet(shLive)
  BY LiveFinite
\* What is left to show of a step, in numbers.
<1>7. ASSUME NEW e \in Nat, NEW x \in Nat, NEW l \in Nat,
             e = Cardinality(Places(shQueue', "end")), x = Cardinality(Places(shQueue', "tx")), l = Cardinality(shLive'),
             shQueue' \in Seq(Messages), shWorkers' \in Nat, shLive' \subseteq 1 .. shWorkers',
             shStops' \in Seq(Nat), shReceived' \in Nat, shParsed' \in Nat,
             \A i \in DOMAIN shStops' : shStops'[i] + l <= e + shWorkers',
             ~shRunning' /\ shStops' = <<>> => e >= l,
             shReceived' = shParsed' + x
      PROVE  ShredIInv'
  <2>1. StopEndsWorkers'
    BY <1>7 DEF StopEndsWorkers, Places
  <2>2. ReceivedIsParsed'
    BY <1>7 DEF ReceivedIsParsed, Places
  <2>3. \A i \in DOMAIN shStops' :
            shStops'[i] + Cardinality(shLive') <= Cardinality(Places(shQueue', "end")) + shWorkers'
    BY <1>7
  <2> QED
    BY <1>7, <2>1, <2>2, <2>3 DEF ShredIInv
<1>8. CASE StartProxy
  <2>1. PICK new : new = (shWorkers + 1) .. (shWorkers + NumWorkers)
    OBVIOUS
  <2>2. /\ shRunning' = TRUE /\ shWorkers' = shWorkers + NumWorkers /\ shLive' = shLive \cup new
        /\ UNCHANGED <<shQueue, shStops, shReceived, shParsed>>
    BY <1>8, <2>1 DEF StartProxy
  <2>3. NumWorkers \in Nat
    BY ShredAssumption
  <2>4. IsFiniteSet(new) /\ Cardinality(new) = NumWorkers
    <3>1. shWorkers + 1 \in Int /\ shWorkers + NumWorkers \in Int
      BY <1>1, <2>3
    <3>2. /\ IsFiniteSet(new)
          /\ Cardinality(new) = IF shWorkers + 1 > shWorkers + NumWorkers THEN 0
                                ELSE (shWorkers + NumWorkers) - (shWorkers + 1) + 1
      BY <2>1, <3>1, FS_Interval
    <3> QED
      BY <1>1, <2>3, <3>2
  <2>5. shLive \cap new = {} /\ shLive' \subseteq 1 .. shWorkers'
    BY <1>1, <2>1, <2>2, <2>3
  <2>6. Cardinality(shLive') = live + NumWorkers
    BY <1>4, <1>6, <2>2, <2>3, <2>4, <2>5, FS_Union, FS_EmptySet
  <2>7. \A i \in DOMAIN shStops : shStops[i] + (live + NumWorkers) <= ends + (shWorkers + NumWorkers)
    BY <1>1, <1>5, <2>3
  <2> QED
    BY <1>1, <1>2, <1>3, <1>5, <1>7, <2>2, <2>3, <2>5, <2>6, <2>7
<1>9. CASE StopProxy
  <2>1. /\ shStops' = Append(shStops, 0) /\ UNCHANGED <<shQueue, shWorkers, shLive, shReceived, shParsed>>
    BY <1>9 DEF StopProxy
  <2>2. /\ shStops' \in Seq(Nat) /\ DOMAIN shStops' = DOMAIN shStops \cup {Len(shStops) + 1}
        /\ \A i \in DOMAIN shStops : shStops'[i] = shStops[i]
        /\ shStops'[Len(shStops) + 1] = 0 /\ shStops' # <<>>
    BY <1>1, <2>1, Publishes
  <2>3. live <= shWorkers
    <3>1. Cardinality(1 .. shWorkers) = shWorkers /\ IsFiniteSet(1 .. shWorkers)
      BY <1>1, FS_Interval
    <3> QED
      BY <1>1, <1>4, <3>1, FS_Subset
  <2>4. \A i \in DOMAIN shStops' : shStops'[i] + live <= ends + shWorkers
    BY <1>1, <1>5, <2>2, <2>3
  <2> QED
    BY <1>1, <1>2, <1>3, <1>4, <1>5, <1>7, <2>1, <2>2, <2>4
<1>10. ASSUME NEW i \in DOMAIN shStops, PutSentinel(i) PROVE ShredIInv'
  <2>1. /\ shStops[i] < shWorkers /\ shQueue' = Append(shQueue, "end")
        /\ shStops' = [shStops EXCEPT ![i] = shStops[i] + 1]
        /\ UNCHANGED <<shRunning, shWorkers, shLive, shReceived, shParsed>>
    BY <1>10 DEF PutSentinel, Sentinels
  <2>2. /\ Cardinality(Places(shQueue', "end")) = ends + 1 /\ Cardinality(Places(shQueue', "tx")) = txs
        /\ shQueue' \in Seq(Messages)
    <3>1. "end" \in Messages /\ "end" # "tx"
      BY DEF Messages
    <3>2. /\ Cardinality(Places(Append(shQueue, "end"), "end")) = Cardinality(Places(shQueue, "end")) + 1
          /\ Cardinality(Places(Append(shQueue, "end"), "tx")) = Cardinality(Places(shQueue, "tx")) + 0
      BY <1>1, <3>1, PutCounts
    <3> QED
      BY <1>1, <1>2, <1>3, <2>1, <3>1, <3>2
  <2>3. PICK stops : stops = [shStops EXCEPT ![i] = shStops[i] + 1]
    OBVIOUS
  <2>4. /\ stops \in Seq(Nat) /\ DOMAIN stops = DOMAIN shStops
        /\ \A j \in DOMAIN shStops : stops[j] = IF j = i THEN shStops[j] + 1 ELSE shStops[j]
    <3>1. shStops \in Seq(Nat)
      BY <1>1
    <3>2. /\ DOMAIN stops = DOMAIN shStops
          /\ \A j \in DOMAIN shStops : stops[j] = IF j = i THEN shStops[j] + 1 ELSE shStops[j]
      BY <2>3
    <3>3. shStops[i] + 1 \in Nat
      BY <3>1
    <3>4. stops \in Seq(Nat)
      BY <2>3, <3>1, <3>3
    <3> QED
      BY <3>2, <3>4
  <2>5. stops # <<>>
    BY <2>4
  <2>6. \A j \in DOMAIN stops : stops[j] + live <= (ends + 1) + shWorkers
    <3>1. SUFFICES ASSUME NEW j \in DOMAIN shStops PROVE stops[j] + live <= (ends + 1) + shWorkers
      BY <2>4
    <3>2. shStops[j] \in Nat /\ shStops[j] + live <= ends + shWorkers
      BY <1>5
    <3>3. stops[j] = shStops[j] + 1 \/ stops[j] = shStops[j]
      BY <2>4
    <3> QED
      BY <1>1, <3>2, <3>3
  <2>7. shStops' = stops /\ ends + 1 \in Nat /\ live = Cardinality(shLive')
    BY <1>4, <2>1, <2>3
  <2> QED
    BY <1>1, <1>5, <1>7, <2>1, <2>2, <2>4, <2>5, <2>6, <2>7
<1>11. ASSUME NEW i \in DOMAIN shStops, StopReturns(i) PROVE ShredIInv'
  <2>1. /\ shStops[i] >= shWorkers /\ shStops' = RemoveAt(shStops, i)
        /\ UNCHANGED <<shRunning, shQueue, shWorkers, shLive, shReceived, shParsed>>
    BY <1>11 DEF StopReturns, Sentinels
  <2>2. shStops' \in Seq(Nat) /\ \A k \in DOMAIN shStops' : \E j \in DOMAIN shStops : shStops'[k] = shStops[j]
    BY <1>1, <2>1, RemoveKeeps
  <2>3. ends >= live
    BY <1>1, <1>5, <2>1
  <2> QED
    BY <1>1, <1>2, <1>3, <1>4, <1>5, <1>7, <2>1, <2>2, <2>3
<1>12. ASSUME NEW w \in shLive, WorkerTakes(w) PROVE ShredIInv'
  <2>1. /\ shQueue # <<>> /\ shQueue' = Tail(shQueue) /\ UNCHANGED <<shRunning, shWorkers, shStops, shReceived>>
        /\ IF Head(shQueue) = "end" THEN shLive' = shLive \ {w} /\ UNCHANGED shParsed
           ELSE shParsed' = shParsed + 1 /\ UNCHANGED shLive
    BY <1>12 DEF WorkerTakes
  <2>2. shQueue' \in Seq(Messages) /\ Head(shQueue) \in Messages
    BY <1>1, <2>1
  <2>3. PICK e \in Nat : e = Cardinality(Places(shQueue', "end"))
    BY <2>2, PlacesFinite
  <2>4. PICK x \in Nat : x = Cardinality(Places(shQueue', "tx"))
    BY <2>2, PlacesFinite
  <2>5. CASE Head(shQueue) = "end"
    <3>1. ends = e + 1 /\ txs = x
      <4>1. /\ Cardinality(Places(shQueue, "end")) = Cardinality(Places(Tail(shQueue), "end")) + 1
            /\ Cardinality(Places(shQueue, "tx")) = Cardinality(Places(Tail(shQueue), "tx")) + 0
        BY <1>1, <2>1, <2>5, TakeCounts
      <4> QED
        BY <1>2, <1>3, <2>1, <2>3, <2>4, <4>1
    <3>2. shLive' = shLive \ {w} /\ shParsed' = shParsed
      BY <2>1, <2>5
    <3>3. Cardinality(shLive') = live - 1 /\ live - 1 \in Nat
      <4>1. Cardinality(shLive \ {w}) = Cardinality(shLive) - 1 /\ IsFiniteSet(shLive \ {w})
        BY <1>6, FS_RemoveElement
      <4>2. Cardinality(shLive \ {w}) \in Nat
        BY <4>1, FS_CardinalityType
      <4> QED
        BY <1>4, <3>2, <4>1, <4>2
    <3>4. /\ \A i \in DOMAIN shStops : shStops[i] + (live - 1) <= e + shWorkers
          /\ ~shRunning /\ shStops = <<>> => e >= live - 1
      BY <1>1, <1>5, <3>1
    <3> QED
      BY <1>1, <1>5, <1>7, <2>1, <2>2, <2>3, <2>4, <3>1, <3>2, <3>3, <3>4
  <2>6. CASE Head(shQueue) # "end"
    <3>1. ends = e /\ txs = x + 1
      <4>1. Head(shQueue) = "tx"
        BY <2>2, <2>6 DEF Messages
      <4>2. /\ Cardinality(Places(shQueue, "end")) = Cardinality(Places(Tail(shQueue), "end")) + 0
            /\ Cardinality(Places(shQueue, "tx")) = Cardinality(Places(Tail(shQueue), "tx")) + 1
        BY <1>1, <2>1, <4>1, TakeCounts
      <4> QED
        BY <1>2, <1>3, <2>1, <2>3, <2>4, <4>2
    <3>2. shLive' = shLive /\ shParsed' = shParsed + 1
      BY <2>1, <2>6
    <3>3. /\ live = Cardinality(shLive') /\ shParsed + 1 \in Nat /\ shReceived = (shParsed + 1) + x
      BY <1>1, <1>4, <1>5, <3>1, <3>2
    <3> QED
      BY <1>1, <1>5, <1>7, <2>1, <2>2, <2>3, <2>4, <3>1, <3>2, <3>3
  <2> QED
    BY <2>5, <2>6
<1>13. ASSUME NEW i \in DOMAIN shReceivers, PutTransaction(i) PROVE ShredIInv'
  <2>1. /\ shQueue' = Append(shQueue, "tx") /\ shReceived' = shReceived + 1
        /\ UNCHANGED <<shRunning, shWorkers, shLive, shStops, shParsed>>
    BY <1>13 DEF PutTransaction
  <2>2. /\ Cardinality(Places(shQueue', "end")) = ends /\ Cardinality(Places(shQueue', "tx")) = txs + 1
        /\ shQueue' \in Seq(Messages)
    <3>1. "tx" \in Messages /\ "tx" # "end"
      BY DEF Messages
    <3>2. /\ Cardinality(Places(Append(shQueue, "tx"), "tx")) = Cardinality(Places(shQueue, "tx")) + 1
          /\ Cardinality(Places(Append(shQueue, "tx"), "end")) = Cardinality(Places(shQueue, "end")) + 0
      BY <1>1, <3>1, PutCounts
    <3> QED
      BY <1>1, <1>2, <1>3, <2>1, <3>1, <3>2
  <2> QED
    BY <1>1, <1>4, <1>5, <1>7, <2>1, <2>2
<1>14. CASE UNCHANGED <<shRunning, shQueue, shWorkers, shLive, shStops, shReceived, shParsed>>
  BY <1>1, <1>2, <1>3, <1>4, <1>5, <1>7, <1>14
<1>15. ASSUME NEW i \in DOMAIN shReceivers,
              Connects(i) \/ RetryLater(i) \/ ConnectionEnds(i) \/ MessageComes(i)
       PROVE  ShredIInv'
  BY <1>14, <1>15 DEF Connects, RetryLater, ConnectionEnds, MessageComes, ReceiverGoes
<1>16. CASE UNCHANGED shVars
  BY <1>14, <1>16 DEF shVars
<1> QED
  BY <1>8, <1>9, <1>10, <1>11, <1>12, <1>13, <1>15, <1>16 DEF ShredNext

\* Once a stop has returned, the queue holds a sentinel for each worker that lives,
\* and every transaction counted is parsed or in the queue.
THEOREM ShredsEnd == ShredSpec => [](StopEndsWorkers /\ ReceivedIsParsed)
<1>1. ShredIInv => StopEndsWorkers /\ ReceivedIsParsed
  BY DEF ShredIInv
<1> QED
  BY <1>1, ShredInitHolds, ShredStep, PTL DEF ShredSpec

------------------------------------------------------------------------------
(* The gateway.  What a request has called is bounded by the failures that are *)
(* counted, and the failures that count are bounded by the limits.             *)

LEMMA LeastIsFound ==
    ASSUME NEW T, T \subseteq Nat, T # {}
    PROVE  Min(T) \in T /\ \A y \in T : Min(T) <= y
<1>1. \E x \in T : \A y \in T : x <= y
  <2>1. PICK R : R = {ss \in Nat \X Nat : ss[1] < ss[2]}
    OBVIOUS
  <2>2. IsWellFoundedOn(R, Nat)
    BY <2>1, NatLessThanWellFounded DEF OpToRel
  <2>3. PICK x \in T : \A y \in T : ~(<<y, x>> \in R)
    BY <2>2, WFMin
  <2>4. ASSUME NEW y \in T PROVE x <= y
    <3>1. x \in Nat /\ y \in Nat
      OBVIOUS
    <3>2. y < x => <<y, x>> \in R
      BY <2>1, <3>1
    <3> QED
      BY <2>3, <3>1, <3>2
  <2> QED
    BY <2>4
<1> QED
  BY <1>1 DEF Min

\* The provider with the least priority is one of those asked for.
LEMMA FirstIsOne ==
    ASSUME NEW ps, ps \subseteq Llms
    PROVE  IF ps = {} THEN FirstByPriority(ps) = 0 ELSE FirstByPriority(ps) \in ps
<1>1. SUFFICES ASSUME ps # {} PROVE FirstByPriority(ps) \in ps
  BY DEF FirstByPriority
<1>2. Llms \subseteq Nat /\ \A p \in Llms : Priority[p] \in Nat
  BY GatewayAssumption DEF Llms
<1>3. PICK T : T = {Priority[p] : p \in ps}
  OBVIOUS
<1>4. T \subseteq Nat /\ T # {}
  BY <1>1, <1>2, <1>3
<1>a. PICK least : least = Min(T)
  OBVIOUS
<1>b. least \in T /\ \A y \in T : least <= y
  BY <1>4, <1>a, LeastIsFound
<1>5. PICK p \in ps : \A q \in ps : Priority[p] <= Priority[q]
  BY <1>3, <1>b
<1>6. PICK firsts : firsts = {r \in ps : \A q \in ps : Priority[r] <= Priority[q]}
  OBVIOUS
<1>7. firsts \subseteq Nat /\ firsts # {} /\ firsts \subseteq ps
  BY <1>2, <1>5, <1>6
<1>8. Min(firsts) \in firsts
  BY <1>7, LeastIsFound
<1> QED
  BY <1>1, <1>6, <1>7, <1>8 DEF FirstByPriority

LEMMA ChosenIsOpen ==
    ASSUME NEW state, NEW kind \in Kinds, NEW failed
    PROVE  /\ SelectProvider(kind, state) = 0 \/ (SelectProvider(kind, state) \in Llms /\ state[SelectProvider(kind, state)] = "ok")
           /\ Fallback(failed, state) = 0 \/ (Fallback(failed, state) \in Llms /\ state[Fallback(failed, state)] = "ok")
<1>1. PICK open : open = {p \in Llms : state[p] = "ok"}
  OBVIOUS
<1>2. open \subseteq Llms /\ \A p \in open : p \in Llms /\ state[p] = "ok"
  BY <1>1
<1>3. PICK preferred : preferred = {i \in DOMAIN Prefers[kind] : Prefers[kind][i] \in open}
  OBVIOUS
<1>4. SelectProvider(kind, state) = IF preferred # {} THEN Prefers[kind][Min(preferred)] ELSE FirstByPriority(open)
  BY <1>1, <1>3 DEF SelectProvider
<1>7. Fallback(failed, state) = 0 \/ (Fallback(failed, state) \in Llms /\ state[Fallback(failed, state)] = "ok")
  <2>1. PICK ps : ps = {p \in Llms \ {failed} : state[p] = "ok"}
    OBVIOUS
  <2>2. ps \subseteq Llms /\ Fallback(failed, state) = FirstByPriority(ps) /\ \A p \in ps : state[p] = "ok"
    BY <2>1 DEF Fallback
  <2> QED
    BY <2>2, FirstIsOne
<1>5. CASE preferred # {}
  <2>1. Prefers[kind] \in Seq(Nat)
    BY GatewayAssumption
  <2>2. preferred \subseteq Nat
    BY <1>3, <2>1
  <2>3. Min(preferred) \in preferred
    BY <1>5, <2>2, LeastIsFound
  <2> QED
    BY <1>2, <1>3, <1>4, <1>5, <2>3, <1>7
<1>6. CASE preferred = {}
  <2>1. SelectProvider(kind, state) = FirstByPriority(open)
    BY <1>4, <1>6
  <2>2. FirstByPriority(open) = 0 \/ FirstByPriority(open) \in open
    BY <1>2, FirstIsOne
  <2> QED
    BY <1>2, <1>7, <2>1, <2>2
<1> QED
  BY <1>5, <1>6, <1>7

\* The failures that count: of each provider, as many as it has, up to the limit.
Failures(errors) == {f \in Llms \X (1 .. MaxErrors) : f[2] <= errors[f[1]]}
Failed(errors) == Cardinality(Failures(errors))

LEMMA FailuresBounded ==
    ASSUME NEW errors \in [Llms -> Nat]
    PROVE  /\ IsFiniteSet(Llms) /\ IsFiniteSet(Failures(errors)) /\ Failed(errors) \in Nat
           /\ Failed(errors) <= Cardinality(Llms) * MaxErrors
           /\ Cardinality(Llms) \in Nat
           /\ \A p \in Llms : errors[p] < MaxErrors => Failed(errors) + 1 <= Cardinality(Llms) * MaxErrors
<1>1. Llms = 1 .. Len(Priority) /\ Len(Priority) \in Nat /\ MaxErrors \in Nat /\ MaxErrors > 0
  BY GatewayAssumption DEF Llms
<1>2. /\ IsFiniteSet(Llms) /\ Cardinality(Llms) \in Nat
      /\ IsFiniteSet(1 .. MaxErrors) /\ Cardinality(1 .. MaxErrors) = MaxErrors
  <2>1. 1 \in Int /\ Len(Priority) \in Int /\ MaxErrors \in Int
    BY <1>1
  <2>2. IsFiniteSet(Llms) /\ IsFiniteSet(1 .. MaxErrors) /\ Cardinality(Llms) \in Nat
    BY <1>1, <2>1, FS_Interval, FS_CardinalityType
  <2>3. Cardinality(1 .. MaxErrors) = IF 1 > MaxErrors THEN 0 ELSE MaxErrors - 1 + 1
    BY <2>1, FS_Interval
  <2> QED
    BY <1>1, <2>2, <2>3
<1>3. PICK all : all = Llms \X (1 .. MaxErrors)
  OBVIOUS
<1>4. IsFiniteSet(all) /\ Cardinality(all) = Cardinality(Llms) * MaxErrors
  BY <1>2, <1>3, FS_Product
<1>5. Failures(errors) \subseteq all
  BY <1>3 DEF Failures
<1>6. IsFiniteSet(Failures(errors)) /\ Failed(errors) \in Nat /\ Failed(errors) <= Cardinality(all)
  BY <1>4, <1>5, FS_Subset, FS_CardinalityType DEF Failed
<1>7. ASSUME NEW p \in Llms, errors[p] < MaxErrors PROVE Failed(errors) + 1 <= Cardinality(all)
  <2>1. <<p, MaxErrors>> \in all /\ <<p, MaxErrors>> \notin Failures(errors)
    BY <1>1, <1>3, <1>7 DEF Failures
  <2>2. Failures(errors) \subseteq all \ {<<p, MaxErrors>>}
    BY <1>5, <2>1
  <2>3. IsFiniteSet(all \ {<<p, MaxErrors>>}) /\ Cardinality(all \ {<<p, MaxErrors>>}) = Cardinality(all) - 1
    BY <1>4, <2>1, FS_RemoveElement
  <2>4. Failed(errors) <= Cardinality(all \ {<<p, MaxErrors>>})
    BY <2>2, <2>3, FS_Subset DEF Failed
  <2> QED
    BY <1>2, <1>4, <1>6, <2>3, <2>4, <1>1, FS_CardinalityType
<1> QED
  BY <1>2, <1>4, <1>6, <1>7

\* A failure of a provider below the limit is one more that counts.
LEMMA FailureCounts ==
    ASSUME NEW errors \in [Llms -> Nat], NEW p \in Llms, NEW after, after = [errors EXCEPT ![p] = errors[p] + 1]
    PROVE  Failed(after) = Failed(errors) + (IF errors[p] < MaxErrors THEN 1 ELSE 0)
<1>1. after \in [Llms -> Nat] /\ \A q \in Llms : after[q] = IF q = p THEN errors[p] + 1 ELSE errors[q]
  OBVIOUS
<1>2. IsFiniteSet(Failures(errors)) /\ Failed(errors) \in Nat
  BY FailuresBounded
<1>3. MaxErrors \in Nat
  BY GatewayAssumption
<1>4. CASE errors[p] < MaxErrors
  <2>1. PICK f : f = <<p, errors[p] + 1>>
    OBVIOUS
  <2>2. f \in Llms \X (1 .. MaxErrors) /\ f[1] = p /\ f[2] = errors[p] + 1
    BY <1>3, <1>4, <2>1
  <2>3. f \notin Failures(errors)
    BY <2>2 DEF Failures
  <2>4. ASSUME NEW g \in Llms \X (1 .. MaxErrors) PROVE g[2] <= after[g[1]] <=> g[2] <= errors[g[1]] \/ g = f
    <3>1. g = <<g[1], g[2]>> /\ g[1] \in Llms /\ g[2] \in 1 .. MaxErrors /\ errors[g[1]] \in Nat
      OBVIOUS
    <3>2. CASE g[1] = p
      <4>1. g = f <=> g[2] = errors[p] + 1
        BY <2>1, <2>2, <3>1, <3>2
      <4> QED
        BY <1>1, <3>1, <3>2, <4>1
    <3>3. CASE g[1] # p
      BY <1>1, <2>2, <3>1, <3>3
    <3> QED
      BY <3>2, <3>3
  <2>5. Failures(after) = Failures(errors) \cup {f}
    BY <2>2, <2>4 DEF Failures
  <2> QED
    BY <1>2, <1>4, <2>3, <2>5, FS_AddElement DEF Failed
<1>5. CASE ~(errors[p] < MaxErrors)
  <2>1. ASSUME NEW g \in Llms \X (1 .. MaxErrors) PROVE g[2] <= after[g[1]] <=> g[2] <= errors[g[1]]
    <3>1. g[1] \in Llms /\ g[2] \in 1 .. MaxErrors /\ errors[g[1]] \in Nat
      OBVIOUS
    <3> QED
      BY <1>1, <1>3, <1>5, <3>1
  <2>2. Failures(after) = Failures(errors)
    BY <2>1 DEF Failures
  <2> QED
    BY <1>2, <1>5, <2>2 DEF Failed
<1> QED
  BY <1>4, <1>5

GatewayCalls == [pc : {"calling"}, kind : Kinds, provider : Llms, calls : Nat]
CallsCovered(r, errors) ==
    r.pc = "calling" => r.calls <= Failed(errors) + (IF errors[r.provider] < MaxErrors THEN 1 ELSE 0)

GatewayIInv ==
    /\ lgState \in [Llms -> {"ok", "error"}] /\ lgErrors \in [Llms -> Nat]
    /\ lgRequest \in [Askers -> {NoRequest} \cup GatewayCalls] /\ lgHelped \in [Askers -> BOOLEAN]
    /\ lgMetrics \in [hits : Nat, misses : Nat] /\ lgCalls \in Nat /\ lgRefused \in Nat
    /\ DownIsMarked /\ MissesAreCalls
    /\ \A a \in Askers : ~lgHelped[a] => CallsCovered(lgRequest[a], lgErrors)

LEMMA GatewayInitHolds == GatewayInit => GatewayIInv
<1> SUFFICES ASSUME GatewayInit PROVE GatewayIInv
  OBVIOUS
<1>1. /\ lgState = [p \in Llms |-> "ok"] /\ lgErrors = [p \in Llms |-> 0]
      /\ lgRequest = [a \in Askers |-> NoRequest] /\ lgMetrics = [hits |-> 0, misses |-> 0]
      /\ lgCalls = 0 /\ lgRefused = 0 /\ lgHelped = [a \in Askers |-> FALSE]
  BY DEF GatewayInit
<1>2. MissesAreCalls
  BY <1>1 DEF MissesAreCalls
<1>3. DownIsMarked
  BY <1>1, GatewayAssumption DEF DownIsMarked
<1>4. \A a \in Askers : CallsCovered(lgRequest[a], lgErrors)
  BY <1>1 DEF CallsCovered, NoRequest
<1>5. /\ lgState \in [Llms -> {"ok", "error"}] /\ lgErrors \in [Llms -> Nat]
      /\ lgMetrics \in [hits : Nat, misses : Nat] /\ lgCalls \in Nat /\ lgRefused \in Nat
  BY <1>1
<1>6. lgRequest \in [Askers -> {NoRequest} \cup GatewayCalls] /\ lgHelped \in [Askers -> BOOLEAN]
  BY <1>1
<1> QED
  BY <1>2, <1>3, <1>4, <1>5, <1>6 DEF GatewayIInv

LEMMA GatewayImplies == GatewayIInv => FallbackEnds /\ DownIsMarked /\ MissesAreCalls
<1> SUFFICES ASSUME GatewayIInv PROVE FallbackEnds
  BY DEF GatewayIInv
<1>1. SUFFICES ASSUME NEW a \in Askers, ~lgHelped[a] PROVE lgRequest[a].calls <= Cardinality(Llms) * MaxErrors
  BY DEF FallbackEnds
<1>2. /\ lgErrors \in [Llms -> Nat] /\ lgRequest[a] \in {NoRequest} \cup GatewayCalls
      /\ CallsCovered(lgRequest[a], lgErrors)
  BY <1>1 DEF GatewayIInv
<1>3. PICK all : all = Cardinality(Llms) * MaxErrors
  OBVIOUS
<1>4. all \in Nat
  BY <1>2, <1>3, FailuresBounded, GatewayAssumption
<1>5. PICK failed \in Nat : failed = Failed(lgErrors)
  BY <1>2, FailuresBounded
<1>6. failed <= all /\ \A p \in Llms : lgErrors[p] < MaxErrors => failed + 1 <= all
  BY <1>2, <1>3, <1>5, FailuresBounded
<1>7. CASE lgRequest[a] = NoRequest
  BY <1>3, <1>4, <1>7 DEF NoRequest
<1>8. CASE lgRequest[a] \in GatewayCalls
  <2>1. /\ lgRequest[a].pc = "calling" /\ lgRequest[a].provider \in Llms /\ lgRequest[a].calls \in Nat
    BY <1>8 DEF GatewayCalls
  <2>2. lgRequest[a].calls <= failed + (IF lgErrors[lgRequest[a].provider] < MaxErrors THEN 1 ELSE 0)
    BY <1>2, <1>5, <2>1 DEF CallsCovered
  <2> QED
    BY <1>3, <1>4, <1>6, <2>1, <2>2
<1> QED
  BY <1>2, <1>7, <1>8

\* Asking counts a hit, or a miss and what it leads to.
LEMMA AskCounts ==
    ASSUME GatewayIInv, NEW a \in Askers, NEW kind \in Kinds, NEW provider \in Llms \cup {0}, NEW calls \in Nat,
           AskProvider(a, kind, provider, calls)
    PROVE  /\ lgMetrics' \in [hits : Nat, misses : Nat] /\ lgCalls' \in Nat /\ lgRefused' \in Nat
           /\ MissesAreCalls'
           /\ lgRequest' \in [Askers -> {NoRequest} \cup GatewayCalls]
           /\ \A b \in Askers : b # a => lgRequest'[b] = lgRequest[b]
           /\ \/ lgRequest'[a] = NoRequest
              \/ provider \in Llms /\ lgRequest'[a].provider = provider /\ lgRequest'[a].calls = calls + 1
<1>1. /\ lgMetrics \in [hits : Nat, misses : Nat] /\ lgCalls \in Nat /\ lgRefused \in Nat
      /\ lgRequest \in [Askers -> {NoRequest} \cup GatewayCalls]
      /\ lgMetrics.misses = lgCalls + lgRefused
  BY DEF GatewayIInv, MissesAreCalls
<1>2. 0 \notin Llms
  BY GatewayAssumption DEF Llms
<1>3. CASE kind \in lgCache
  <2>1. /\ lgMetrics' = [lgMetrics EXCEPT !.hits = lgMetrics.hits + 1]
        /\ lgRequest' = [lgRequest EXCEPT ![a] = NoRequest] /\ UNCHANGED <<lgCalls, lgRefused>>
    BY <1>3 DEF AskProvider
  <2>2. lgMetrics' \in [hits : Nat, misses : Nat] /\ lgMetrics'.misses = lgMetrics.misses
    BY <1>1, <2>1
  <2> QED
    BY <1>1, <2>1, <2>2 DEF MissesAreCalls
<1>4. CASE kind \notin lgCache
  <2>1. lgMetrics' = [lgMetrics EXCEPT !.misses = lgMetrics.misses + 1]
    BY <1>4 DEF AskProvider
  <2>2. lgMetrics' \in [hits : Nat, misses : Nat] /\ lgMetrics'.misses = lgMetrics.misses + 1
    BY <1>1, <2>1
  <2>3. CASE provider = 0
    <3>1. lgRequest' = [lgRequest EXCEPT ![a] = NoRequest] /\ lgCalls' = lgCalls + 0 /\ lgRefused' = lgRefused + 1
      BY <1>4, <2>3 DEF AskProvider
    <3> QED
      BY <1>1, <2>2, <3>1 DEF MissesAreCalls
  <2>4. CASE provider # 0
    <3>1. PICK r : r = [pc |-> "calling", kind |-> kind, provider |-> provider, calls |-> calls + 1]
      OBVIOUS
    <3>2. r \in GatewayCalls /\ r.provider = provider /\ r.calls = calls + 1
      BY <2>4, <3>1 DEF GatewayCalls
    <3>3. lgRequest' = [lgRequest EXCEPT ![a] = r] /\ lgCalls' = lgCalls + 1 /\ lgRefused' = lgRefused + 0
      BY <1>4, <2>4, <3>1 DEF AskProvider
    <3> QED
      BY <1>1, <2>2, <2>4, <3>2, <3>3 DEF MissesAreCalls
  <2> QED
    BY <2>3, <2>4
<1> QED
  BY <1>3, <1>4

LEMMA GatewayStep == GatewayIInv /\ [GatewayNext]_lgVars => GatewayIInv'
<1> SUFFICES ASSUME GatewayIInv, [GatewayNext]_lgVars PROVE GatewayIInv'
  OBVIOUS
<1>1. /\ lgState \in [Llms -> {"ok", "error"}] /\ lgErrors \in [Llms -> Nat]
      /\ lgRequest \in [Askers -> {NoRequest} \cup GatewayCalls] /\ lgHelped \in [Askers -> BOOLEAN]
      /\ lgMetrics \in [hits : Nat, misses : Nat] /\ lgCalls \in Nat /\ lgRefused \in Nat
      /\ lgMetrics.misses = lgCalls + lgRefused
      /\ \A p \in Llms : lgState[p] = "ok" => lgErrors[p] < MaxErrors
  BY DEF GatewayIInv, DownIsMarked, MissesAreCalls
<1>2. \A a \in Askers : ~lgHelped[a] => CallsCovered(lgRequest[a], lgErrors)
  BY DEF GatewayIInv
<1>3. /\ MaxErrors \in Nat \ {0}
      /\ \A errors \in [Llms -> Nat] : Failed(errors) \in Nat
  BY FailuresBounded, GatewayAssumption
<1>4. NoRequest.pc = "idle" /\ \A r \in GatewayCalls : r.pc = "calling" /\ r.kind \in Kinds /\ r.provider \in Llms /\ r.calls \in Nat
  BY DEF NoRequest, GatewayCalls
<1>5. ASSUME NEW a \in Askers, NEW kind \in Kinds, Ask(a, kind) PROVE GatewayIInv'
  <2>1. PICK p : p = SelectProvider(kind, lgState)
    OBVIOUS
  <2>2. p \in Llms \cup {0} /\ (p \in Llms => p = 0 \/ lgErrors[p] < MaxErrors)
    BY <1>1, <2>1, ChosenIsOpen
  <2>3. /\ AskProvider(a, kind, p, 0) /\ lgHelped' = [lgHelped EXCEPT ![a] = FALSE]
        /\ UNCHANGED <<lgState, lgErrors>>
    BY <1>5, <2>1 DEF Ask
  <2>4. /\ lgMetrics' \in [hits : Nat, misses : Nat] /\ lgCalls' \in Nat /\ lgRefused' \in Nat
        /\ MissesAreCalls'
        /\ lgRequest' \in [Askers -> {NoRequest} \cup GatewayCalls]
        /\ \A b \in Askers : b # a => lgRequest'[b] = lgRequest[b]
        /\ \/ lgRequest'[a] = NoRequest
           \/ p \in Llms /\ lgRequest'[a].provider = p /\ lgRequest'[a].calls = 0 + 1
    BY <2>2, <2>3, AskCounts
  <2>5. 0 \notin Llms
    BY GatewayAssumption DEF Llms
  <2>6. CallsCovered(lgRequest'[a], lgErrors)
    BY <1>1, <1>3, <1>4, <2>2, <2>4, <2>5 DEF CallsCovered
  <2>7. \A b \in Askers : ~lgHelped'[b] => CallsCovered(lgRequest'[b], lgErrors)
    BY <1>1, <1>2, <2>3, <2>4, <2>6
  <2>8. lgHelped' \in [Askers -> BOOLEAN] /\ DownIsMarked'
    BY <1>1, <2>3 DEF DownIsMarked
  <2> QED
    BY <1>1, <2>3, <2>4, <2>7, <2>8 DEF GatewayIInv
<1>6. ASSUME NEW a \in Askers, AnswerArrives(a) PROVE GatewayIInv'
  <2>1. /\ lgErrors' = [lgErrors EXCEPT ![lgRequest[a].provider] = 0]
        /\ lgRequest' = [lgRequest EXCEPT ![a] = NoRequest] /\ lgHelped' = [b \in Askers |-> lgHelped[b] \/ b # a]
        /\ UNCHANGED <<lgState, lgMetrics, lgCalls, lgRefused>>
    BY <1>6 DEF AnswerArrives
  <2>2. \A b \in Askers : ~lgHelped'[b] => lgRequest'[b] = NoRequest
    BY <1>1, <2>1
  <2>3. /\ lgErrors' \in [Llms -> Nat] /\ lgHelped' \in [Askers -> BOOLEAN]
        /\ lgRequest' \in [Askers -> {NoRequest} \cup GatewayCalls]
    BY <1>1, <2>1
  <2>4. DownIsMarked' /\ MissesAreCalls'
    BY <1>1, <1>3, <2>1 DEF DownIsMarked, MissesAreCalls
  <2>5. \A b \in Askers : ~lgHelped'[b] => CallsCovered(lgRequest'[b], lgErrors')
    BY <1>4, <2>2 DEF CallsCovered
  <2> QED
    BY <1>1, <2>1, <2>3, <2>4, <2>5 DEF GatewayIInv
<1>7. ASSUME NEW a \in Askers, CallFails(a) PROVE GatewayIInv'
  <2>1. PICK r : r = lgRequest[a]
    OBVIOUS
  <2>2. PICK p : p = r.provider
    OBVIOUS
  <2>3. r.pc = "calling" /\ r \in GatewayCalls
    BY <1>1, <1>4, <1>7, <2>1 DEF CallFails
  <2>4. p \in Llms /\ r.kind \in Kinds /\ r.calls \in Nat
    BY <1>4, <2>2, <2>3
  <2>5. PICK errors : errors = [lgErrors EXCEPT ![p] = lgErrors[p] + 1]
    OBVIOUS
  <2>6. PICK state : state = IF TooManyErrors(lgErrors[p] + 1) THEN [lgState EXCEPT ![p] = "error"] ELSE lgState
    OBVIOUS
  <2>7. PICK next : next = Fallback(p, state)
    OBVIOUS
  <2>8. /\ lgErrors' = errors /\ lgState' = state /\ UNCHANGED lgHelped
        /\ IF next # 0 THEN AskProvider(a, r.kind, next, r.calls)
           ELSE /\ lgRequest' = [lgRequest EXCEPT ![a] = NoRequest]
                /\ UNCHANGED <<lgMetrics, lgCalls, lgRefused>>
    BY <1>7, <2>1, <2>2, <2>5, <2>6, <2>7 DEF CallFails
  <2>9. /\ errors \in [Llms -> Nat] /\ state \in [Llms -> {"ok", "error"}]
        /\ errors[p] = lgErrors[p] + 1 /\ \A q \in Llms : q # p => errors[q] = lgErrors[q]
    BY <1>1, <2>4, <2>5, <2>6
  <2>10. \A q \in Llms : state[q] = "ok" => errors[q] < MaxErrors
    <3>1. ASSUME NEW q \in Llms, state[q] = "ok" PROVE errors[q] < MaxErrors
      <4>1. CASE q = p
        <5>1. ~TooManyErrors(lgErrors[p] + 1)
          BY <1>1, <2>4, <2>6, <3>1, <4>1
        <5> QED
          BY <1>1, <1>3, <2>4, <2>9, <4>1, <5>1 DEF TooManyErrors
      <4>2. CASE q # p
        <5>1. lgState[q] = "ok"
          BY <1>1, <2>4, <2>6, <3>1, <4>2
        <5> QED
          BY <1>1, <2>9, <4>2, <5>1
      <4> QED
        BY <4>1, <4>2
    <3> QED
      BY <3>1
  <2>11. Failed(errors) = Failed(lgErrors) + (IF lgErrors[p] < MaxErrors THEN 1 ELSE 0)
    <3>1. lgErrors \in [Llms -> Nat]
      BY <1>1
    <3> QED
      BY <2>4, <2>5, <3>1, FailureCounts, Zenon
  <2>12. PICK f \in Nat : f = Failed(lgErrors)
    BY <1>1, <1>3
  <2>13. next = 0 \/ (next \in Llms /\ errors[next] < MaxErrors)
    BY <2>4, <2>7, <2>10, ChosenIsOpen
  <2>14. /\ lgMetrics' \in [hits : Nat, misses : Nat] /\ lgCalls' \in Nat /\ lgRefused' \in Nat
         /\ MissesAreCalls'
         /\ lgRequest' \in [Askers -> {NoRequest} \cup GatewayCalls]
         /\ \A b \in Askers : b # a => lgRequest'[b] = lgRequest[b]
         /\ \/ lgRequest'[a] = NoRequest
            \/ next \in Llms /\ next # 0 /\ lgRequest'[a].provider = next /\ lgRequest'[a].calls = r.calls + 1
    <3>1. CASE next = 0
      BY <1>1, <2>8, <3>1 DEF MissesAreCalls
    <3>2. CASE next # 0
      BY <2>4, <2>8, <2>13, <3>2, AskCounts
    <3> QED
      BY <3>1, <3>2
  <2>15. ASSUME NEW b \in Askers, ~lgHelped[b] PROVE CallsCovered(lgRequest'[b], errors)
    <3>1. CASE b = a /\ lgRequest'[a] # NoRequest
      <4>1. r.calls <= f + (IF lgErrors[p] < MaxErrors THEN 1 ELSE 0)
        BY <1>2, <2>1, <2>2, <2>3, <2>12, <2>15, <3>1 DEF CallsCovered
      <4>2. /\ lgRequest'[b].calls = r.calls + 1 /\ lgRequest'[b].provider = next
            /\ errors[next] < MaxErrors
        BY <2>13, <2>14, <3>1
      <4>3. r.calls + 1 <= (f + (IF lgErrors[p] < MaxErrors THEN 1 ELSE 0)) + 1
        BY <2>4, <4>1
      <4> QED
        BY <2>11, <2>12, <4>2, <4>3 DEF CallsCovered
    <3>2. CASE lgRequest'[b] = NoRequest
      BY <1>4, <3>2 DEF CallsCovered
    <3>3. CASE b # a /\ lgRequest[b] \in GatewayCalls
      <4>1. PICK c : c = lgRequest[b]
        OBVIOUS
      <4>2. c.provider \in Llms /\ c.calls \in Nat /\ lgRequest'[b] = c
        BY <1>4, <2>14, <3>3, <4>1
      <4>3. c.calls <= f + (IF lgErrors[c.provider] < MaxErrors THEN 1 ELSE 0)
        BY <1>2, <1>4, <2>12, <2>15, <3>3, <4>1 DEF CallsCovered
      <4>4. CASE c.provider = p
        <5>1. c.calls <= Failed(errors)
          BY <2>11, <2>12, <4>3, <4>4
        <5>2. Failed(errors) \in Nat
          BY <1>3, <2>9
        <5> QED
          BY <4>2, <5>1, <5>2 DEF CallsCovered
      <4>5. CASE c.provider # p
        <5>1. errors[c.provider] = lgErrors[c.provider]
          BY <2>9, <4>2, <4>5
        <5>2. Failed(errors) \in Nat /\ Failed(errors) >= f
          BY <1>3, <2>9, <2>11, <2>12
        <5> QED
          BY <2>12, <4>2, <4>3, <5>1, <5>2 DEF CallsCovered
      <4> QED
        BY <4>4, <4>5
    <3>4. lgRequest[b] \in {NoRequest} \cup GatewayCalls
      BY <1>1
    <3> QED
      BY <2>14, <3>1, <3>2, <3>3, <3>4
  <2>16. DownIsMarked'
    BY <2>8, <2>10 DEF DownIsMarked
  <2> QED
    BY <1>1, <2>8, <2>9, <2>14, <2>15, <2>16 DEF GatewayIInv
<1>8. ASSUME NEW p \in Llms, RecoverProvider(p) PROVE GatewayIInv'
  <2>1. /\ lgState' = [lgState EXCEPT ![p] = "ok"] /\ lgErrors' = [lgErrors EXCEPT ![p] = 0]
        /\ lgHelped' = [b \in Askers |-> TRUE] /\ UNCHANGED <<lgRequest, lgMetrics, lgCalls, lgRefused>>
    BY <1>8 DEF RecoverProvider
  <2>2. lgState' \in [Llms -> {"ok", "error"}] /\ lgErrors' \in [Llms -> Nat]
    BY <1>1, <2>1
  <2>3. lgHelped' \in [Askers -> BOOLEAN] /\ \A b \in Askers : lgHelped'[b]
    BY <2>1
  <2>4. DownIsMarked' /\ MissesAreCalls'
    BY <1>1, <1>3, <2>1 DEF DownIsMarked, MissesAreCalls
  <2> QED
    BY <1>1, <2>1, <2>2, <2>3, <2>4 DEF GatewayIInv
<1>9. CASE UNCHANGED <<lgState, lgErrors, lgRequest, lgMetrics, lgCalls, lgRefused, lgHelped>>
  <2>1. DownIsMarked' /\ MissesAreCalls'
    BY <1>1, <1>9 DEF DownIsMarked, MissesAreCalls
  <2> QED
    BY <1>1, <1>2, <1>9, <2>1 DEF GatewayIInv
<1>10. ASSUME NEW kind \in Kinds, AnswerExpires(kind) PROVE GatewayIInv'
  BY <1>9, <1>10 DEF AnswerExpires
<1>11. CASE UNCHANGED lgVars
  BY <1>9, <1>11 DEF lgVars
<1> QED
  BY <1>5, <1>6, <1>7, <1>8, <1>10, <1>11 DEF GatewayNext

\* A request that nobody helps calls the providers no more often than their limits
\* of errors add up to; a provider that is chosen from is below its limit; the
\* misses of the cache are the calls and the refusals.
THEOREM GatewayAnswers == GatewaySpec => [](FallbackEnds /\ DownIsMarked /\ MissesAreCalls)
  BY GatewayImplies, GatewayInitHolds, GatewayStep, PTL DEF GatewaySpec

------------------------------------------------------------------------------
(* The healer.  What is said last is said of the machine that is kept with it. *)

HealIInv == dhMachine \in Machines /\ VerdictIsTrue /\ DiagnosisHolds /\ NothingIsHealed

\* The thresholds of the health check, whatever measured the machine.
LEMMA EvaluatesTruly ==
    ASSUME dhMachine \in Machines, NEW served \in BOOLEAN, served = dhMachine.served
    PROVE  LET status == Evaluate(Metrics, served)  m == dhMachine
           IN  /\ status # "critical" =>
                      /\ served
                      /\ Metrics.source # "silence" => m.cpu <= 90 /\ m.memory <= 95
                      /\ Metrics.source = "psutil" => m.disk <= 95
               /\ status = "healthy" /\ Metrics.source # "silence" => m.cpu <= 75 /\ m.memory <= 80
               /\ status = "critical" => ~served \/ m.cpu > 90 \/ m.memory > 95 \/ m.disk > 95
<1>1. dhMachine.cpu \in 0 .. 100 /\ dhMachine.memory \in 0 .. 100 /\ dhMachine.disk \in 0 .. 100
  BY HealAssumption
<1>2. PICK metrics : metrics = Metrics
  OBVIOUS
<1>3. /\ metrics.source # "silence" => metrics.cpu = dhMachine.cpu /\ metrics.memory = dhMachine.memory
      /\ metrics.source = "psutil" => metrics.disk = dhMachine.disk
      /\ metrics.source # "psutil" => metrics.disk = 0
      /\ metrics.source = "silence" => metrics.cpu = 0 /\ metrics.memory = 0
  BY <1>2 DEF Metrics
<1> QED
  BY <1>1, <1>2, <1>3 DEF Evaluate

\* Every rule of the diagnosis names a cause the machine has.
LEMMA FindsTruly ==
    ASSUME NEW m \in Machines, NEW symptoms, NEW v \in Findings(symptoms, m)
    PROVE  /\ v.cause = "network" => ~m.network
           /\ v.cause = "dns" => ~m.dns
           /\ v.cause = "cpu" => m.cpu > 95
           /\ v.cause = "disk" => m.disk > 90
           /\ v.cause = "memory" => m.memory > 90 \/ "oom" \in symptoms
           /\ v.cause = "config" => ~m.config
           /\ v.fixable => v.cause # "network"
<1>1. m.memory \in 0 .. 100 /\ m.disk \in 0 .. 100
  BY HealAssumption
<1>2. v \in Connectivity(symptoms, m) \/ v \in Resources(symptoms, m) \/ v \in Configuration(symptoms, m)
      \/ v \in DiskSpace(symptoms, m) \/ v \in MemoryPressure(symptoms, m) \/ v = Verdict("unknown", "unknown", FALSE)
  BY DEF Findings, FirstOf
<1>3. CASE v \in Connectivity(symptoms, m)
  BY <1>3 DEF Connectivity, Verdict, Nothing
<1>4. CASE v \in Resources(symptoms, m)
  <2>1. \/ v = Verdict("resource", "memory", TRUE) /\ (m.memory > 95 \/ "oom" \in symptoms)
        \/ v = Verdict("resource", "disk", FALSE) /\ m.disk > 95
        \/ v = Verdict("performance", "cpu", TRUE) /\ m.cpu > 95
    BY <1>4 DEF Resources, Nothing
  <2>2. (m.memory > 95 => m.memory > 90) /\ (m.disk > 95 => m.disk > 90)
    BY <1>1
  <2> QED
    BY <2>1, <2>2 DEF Verdict
<1>5. CASE v \in Configuration(symptoms, m)
  <2>1. v = Verdict("config", "config", TRUE) /\ ~m.config
    BY <1>5 DEF Configuration, Nothing
  <2> QED
    BY <2>1 DEF Verdict
<1>6. CASE v \in DiskSpace(symptoms, m)
  <2>1. v = Verdict("resource", "disk", TRUE) /\ m.disk > 90
    BY <1>6 DEF DiskSpace, Nothing
  <2> QED
    BY <2>1 DEF Verdict
<1>7. CASE v \in MemoryPressure(symptoms, m)
  <2>1. v = Verdict("resource", "memory", TRUE) /\ m.memory > 90
    BY <1>7 DEF MemoryPressure, Nothing
  <2> QED
    BY <2>1 DEF Verdict
<1>8. CASE v = Verdict("unknown", "unknown", FALSE)
  BY <1>8 DEF Verdict
<1> QED
  BY <1>2, <1>3, <1>4, <1>5, <1>6, <1>7, <1>8

LEMMA HealInitHolds == HealInit => HealIInv
<1> SUFFICES ASSUME HealInit PROVE HealIInv
  OBVIOUS
<1>1. dhMachine \in Machines
  BY HealAssumption DEF HealInit
<1>2. dhLast = {} /\ dhDiagnosis = {}
  BY DEF HealInit
<1> QED
  BY <1>1, <1>2 DEF HealIInv, VerdictIsTrue, DiagnosisHolds, NothingIsHealed

LEMMA HealStep == HealIInv /\ [HealNext]_dhVars => HealIInv'
<1> SUFFICES ASSUME HealIInv, [HealNext]_dhVars PROVE HealIInv'
  OBVIOUS
<1>0. dhMachine \in Machines /\ VerdictIsTrue /\ DiagnosisHolds /\ NothingIsHealed
  BY DEF HealIInv
<1>1. CASE CheckHealth
  <2>1. PICK said : said = [kind |-> "verdict", status |-> Evaluate(Metrics, dhMachine.served), source |-> Metrics.source,
                            machine |-> dhMachine]
    OBVIOUS
  <2>2. /\ said.kind = "verdict" /\ said.status = Evaluate(Metrics, dhMachine.served)
        /\ said.source = Metrics.source /\ said.machine = dhMachine
    BY <2>1
  <2>3. dhLast' = {said} /\ UNCHANGED <<dhMachine, dhDiagnosis>>
    BY <1>1, <2>1 DEF CheckHealth
  <2>4. VerdictIsTrue'
    <3>1. dhMachine.served \in BOOLEAN
      BY <1>0, HealAssumption
    <3> QED
      BY <1>0, <2>2, <2>3, <3>1, EvaluatesTruly DEF VerdictIsTrue
  <2>5. NothingIsHealed'
    BY <2>2, <2>3 DEF NothingIsHealed
  <2>6. DiagnosisHolds'
    BY <1>0, <2>3 DEF DiagnosisHolds
  <2> QED
    BY <1>0, <2>3, <2>4, <2>5, <2>6 DEF HealIInv
<1>2. ASSUME NEW symptoms \in Complaints, Diagnose(symptoms) PROVE HealIInv'
  <2>1. /\ dhDiagnosis' = {[verdict |-> v, symptoms |-> symptoms, machine |-> dhMachine] : v \in Findings(symptoms, dhMachine)}
        /\ UNCHANGED <<dhMachine, dhLast>>
    BY <1>2 DEF Diagnose
  <2>2. VerdictIsTrue' /\ NothingIsHealed'
    BY <1>0, <2>1 DEF VerdictIsTrue, NothingIsHealed
  <2>3. ASSUME NEW d \in dhDiagnosis'
        PROVE  /\ d.verdict \in Findings(symptoms, dhMachine) /\ d.machine = dhMachine /\ d.symptoms = symptoms
    BY <2>1, <2>3
  <2>4. DiagnosisHolds'
    BY <1>0, <2>3, FindsTruly DEF DiagnosisHolds
  <2> QED
    BY <1>0, <2>1, <2>2, <2>4 DEF HealIInv
<1>3. ASSUME NEW force \in BOOLEAN, Heal(force) PROVE HealIInv'
  <2>1. /\ dhLast' = {[kind |-> "healed", action |-> Selected(d.verdict),
                       outcome |-> HealOutcome(d.verdict, force)] : d \in dhDiagnosis}
        /\ UNCHANGED <<dhMachine, dhDiagnosis>>
    BY <1>3 DEF Heal
  <2>2. ASSUME NEW h \in dhLast' PROVE h.kind = "healed" /\ h.outcome # "done"
    <3>1. PICK d \in dhDiagnosis : h = [kind |-> "healed", action |-> Selected(d.verdict),
                                        outcome |-> HealOutcome(d.verdict, force)]
      BY <2>1, <2>2
    <3>2. h.kind = "healed" /\ h.outcome = HealOutcome(d.verdict, force)
      BY <3>1
    <3> QED
      BY <3>2 DEF HealOutcome, RecordStarts
  <2>3. VerdictIsTrue' /\ NothingIsHealed'
    BY <2>2 DEF VerdictIsTrue, NothingIsHealed
  <2>4. DiagnosisHolds'
    BY <1>0, <2>1 DEF DiagnosisHolds
  <2> QED
    BY <1>0, <2>1, <2>3, <2>4 DEF HealIInv
<1>4. CASE UNCHANGED <<dhLast, dhDiagnosis>> /\ dhMachine' \in Machines
  BY <1>0, <1>4 DEF HealIInv, VerdictIsTrue, DiagnosisHolds, NothingIsHealed
<1>5. CASE \E r \in RepairIds : StartRepair(r) \/ \E success \in BOOLEAN : FinishRepair(r, success)
  BY <1>0, <1>4, <1>5 DEF StartRepair, FinishRepair
<1>6. CASE ConnectNetdata \/ MachineChanges \/ UNCHANGED dhVars
  BY <1>0, <1>4, <1>6 DEF ConnectNetdata, MachineChanges, dhVars
<1> QED
  BY <1>1, <1>2, <1>3, <1>5, <1>6 DEF HealNext

\* What the health check says of the machine is true of it, a cause the diagnosis
\* names is one the machine has, and no repair is ever carried out.
THEOREM HealerSpeaksTruly == HealSpec => [](VerdictIsTrue /\ DiagnosisHolds /\ NothingIsHealed)
<1>1. HealIInv => VerdictIsTrue /\ DiagnosisHolds /\ NothingIsHealed
  BY DEF HealIInv
<1> QED
  BY <1>1, HealInitHolds, HealStep, PTL DEF HealSpec

------------------------------------------------------------------------------
(* The connectors.  A connection that is being made belongs to one task and to *)
(* no table; a task that closes all of them has closed those before its place, *)
(* so that nothing that is up is lost when it clears the table.                *)

Connecting == {"adding", "default"}
ConnStates == {"unborn", "connecting", "up", "failed", "closed"}
ConnEntries == [of : ConnExchanges, conn : Connectors]
ConnCalls ==
    {ConnIdle} \cup [at : {"adding"}, of : ConnExchanges, conn : Connectors]
        \cup [at : {"default"}, conn : Connectors]
        \cup {c \in [at : {"closing", "reading"}, pos : Nat, size : Nat, conn : Connectors] : c.pos \in 1 .. c.size}

ConnectorsTyped ==
    /\ cnState \in [Connectors -> ConnStates] /\ cnTable \in Seq(ConnEntries)
    /\ cnDefault \in {0} \cup Connectors /\ cnCall \in [ConnTasks -> ConnCalls]

CallsApart ==
    \A t \in ConnTasks : cnCall[t].at \in Connecting =>
        /\ cnState[cnCall[t].conn] = "connecting"
        /\ \A u \in ConnTasks : u # t /\ cnCall[u].at \in Connecting => cnCall[u].conn # cnCall[t].conn

MadeOnes ==
    /\ \A k \in DOMAIN cnTable : cnState[cnTable[k].conn] \in {"up", "closed"}
    /\ \A t \in ConnTasks : cnCall[t].at = "closing" => cnState[cnCall[t].conn] \in {"up", "closed"}

DefaultIsAsked == ~cnReset => \A t \in ConnTasks : cnCall[t].at = "default" => cnCall[t].conn = cnDefault

ClosesFrom(c, table, state) ==
    \/ table = <<>>
    \/ /\ Len(table) = c.size /\ c.pos \in 1 .. c.size /\ c.conn = table[c.pos].conn
       /\ \A k \in 1 .. c.size : k < c.pos => state[table[k].conn] = "closed"

\* The states of the listed connections are all a loop over them depends on.
LEMMA SameClosing ==
    ASSUME NEW c, NEW table, NEW s1, NEW s2, ClosesFrom(c, table, s1),
           \A k \in 1 .. Len(table) : s2[table[k].conn] = s1[table[k].conn]
    PROVE  ClosesFrom(c, table, s2)
<1>1. CASE table = <<>>
  BY <1>1 DEF ClosesFrom
<1>2. CASE table # <<>>
  <2>1. Len(table) = c.size /\ c.pos \in 1 .. c.size /\ c.conn = table[c.pos].conn
    BY <1>2 DEF ClosesFrom
  <2>2. \A k \in 1 .. c.size : k < c.pos => s1[table[k].conn] = "closed"
    BY <1>2 DEF ClosesFrom
  <2>3. \A k \in 1 .. c.size : k < c.pos => s2[table[k].conn] = "closed"
    BY <2>1, <2>2
  <2> QED
    BY <2>1, <2>3 DEF ClosesFrom
<1> QED
  BY <1>1, <1>2

ClosingGoesOn ==
    ~cnAgain /\ ~cnRaced =>
        \A t \in ConnTasks : cnCall[t].at = "closing" => ClosesFrom(cnCall[t], cnTable, cnState)

ConnIInv ==
    /\ ConnectorsTyped /\ CallsApart /\ MadeOnes /\ DefaultIsAsked /\ ClosingGoesOn /\ ConnectionsAreKnown

LEMMA ConnInitHolds == ConnInit => ConnIInv
<1> SUFFICES ASSUME ConnInit PROVE ConnIInv
  OBVIOUS
<1>1. /\ cnState = [i \in Connectors |-> "unborn"] /\ cnTable = <<>> /\ cnDefault = 0
      /\ cnCall = [t \in ConnTasks |-> ConnIdle]
  BY DEF ConnInit
<1>2. \A t \in ConnTasks : cnCall[t] = ConnIdle /\ cnCall[t].at = "idle"
  BY <1>1 DEF ConnIdle
<1>3. ConnectorsTyped
  BY <1>1 DEF ConnectorsTyped, ConnStates, ConnCalls
<1>4. DOMAIN cnTable = {} /\ \A i \in Connectors : cnState[i] # "up"
  BY <1>1
<1> QED
  BY <1>2, <1>3, <1>4 DEF ConnIInv, CallsApart, MadeOnes, DefaultIsAsked, ClosingGoesOn, ConnectionsAreKnown, Connecting

\* A call of one of the kinds has the fields of its kind.
LEMMA CallFields ==
    ASSUME NEW c \in ConnCalls
    PROVE  /\ c.at \in {"idle", "adding", "default", "closing", "reading"}
           /\ c.at = "adding" => c.of \in ConnExchanges /\ c.conn \in Connectors
           /\ c.at = "default" => c.conn \in Connectors
           /\ c.at \in {"closing", "reading"} =>
                  /\ c \in [at : {"closing", "reading"}, pos : Nat, size : Nat, conn : Connectors]
                  /\ c.pos \in 1 .. c.size
  BY DEF ConnCalls, ConnIdle

LEMMA ConnFields ==
    ASSUME ConnectorsTyped
    PROVE  /\ \A u \in ConnTasks : cnCall[u] \in ConnCalls
           /\ \A u \in ConnTasks : cnCall[u].at \in Connecting \cup {"closing", "reading"} => cnCall[u].conn \in Connectors
           /\ \A k \in DOMAIN cnTable : cnTable[k] \in ConnEntries /\ cnTable[k].conn \in Connectors
           /\ DOMAIN cnTable = 1 .. Len(cnTable) /\ Len(cnTable) \in Nat
<1>1. \A u \in ConnTasks : cnCall[u] \in ConnCalls
  BY DEF ConnectorsTyped
<1>2. \A k \in DOMAIN cnTable : cnTable[k] \in ConnEntries
  BY DEF ConnectorsTyped
<1>3. \A k \in DOMAIN cnTable : cnTable[k].conn \in Connectors
  BY <1>2 DEF ConnEntries
<1>4. \A u \in ConnTasks : cnCall[u].at \in Connecting \cup {"closing", "reading"} => cnCall[u].conn \in Connectors
  BY <1>1, CallFields DEF Connecting
<1>5. DOMAIN cnTable = 1 .. Len(cnTable) /\ Len(cnTable) \in Nat
  BY DEF ConnectorsTyped
<1> QED
  BY <1>1, <1>2, <1>3, <1>4, <1>5

\* A task begins to make a new connection.
LEMMA BeginsConnecting ==
    ASSUME ConnIInv, NEW t \in ConnTasks, NEW i \in Connectors, NEW c \in ConnCalls,
           cnCall[t] = ConnIdle, cnState[i] = "unborn", c.at \in Connecting, c.conn = i,
           cnState' = [cnState EXCEPT ![i] = "connecting"], cnCall' = [cnCall EXCEPT ![t] = c],
           cnTable' = cnTable, cnDefault' \in {0} \cup Connectors,
           cnDefault' = cnDefault \/ cnDefault = 0,
           c.at = "default" => cnDefault' = i,
           cnDefault' = cnDefault \/ c.at = "default",
           cnReset' = cnReset, cnRaced' = cnRaced, ~cnAgain' => ~cnAgain
    PROVE  ConnIInv'
<1>0. ConnectorsTyped /\ CallsApart /\ MadeOnes /\ DefaultIsAsked /\ ClosingGoesOn /\ ConnectionsAreKnown
  BY DEF ConnIInv
<1>1. /\ ConnectorsTyped'
      /\ \A u \in ConnTasks : cnCall'[u] = IF u = t THEN c ELSE cnCall[u]
      /\ \A j \in Connectors : cnState'[j] = IF j = i THEN "connecting" ELSE cnState[j]
  BY <1>0 DEF ConnectorsTyped, ConnStates
<1>2. /\ \A u \in ConnTasks : cnCall[u] \in ConnCalls
      /\ \A k \in DOMAIN cnTable : cnTable[k] \in ConnEntries /\ cnTable[k].conn \in Connectors
  BY <1>0, ConnFields
<1>3. \A u \in ConnTasks : cnCall[u].at \in Connecting \cup {"closing", "reading"} => cnCall[u].conn \in Connectors
  BY <1>0, ConnFields
<1>4. /\ \A u \in ConnTasks : cnCall[u].at \in Connecting \cup {"closing"} => cnCall[u].conn # i
      /\ \A k \in DOMAIN cnTable : cnTable[k].conn # i
  BY <1>0 DEF CallsApart, MadeOnes
<1>5. CallsApart'
  BY <1>0, <1>1, <1>3, <1>4 DEF CallsApart
<1>6. MadeOnes'
  BY <1>0, <1>1, <1>2, <1>3, <1>4 DEF MadeOnes, Connecting
<1>7. DefaultIsAsked'
  <2>1. SUFFICES ASSUME ~cnReset, NEW u \in ConnTasks, cnCall'[u].at = "default" PROVE cnCall'[u].conn = cnDefault'
    BY DEF DefaultIsAsked
  <2>2. CASE u = t
    BY <1>1, <2>1, <2>2
  <2>3. CASE u # t
    <3>1. cnCall[u].at = "default" /\ cnCall[u].conn = cnDefault /\ cnCall[u].conn \in Connectors
      BY <1>0, <1>1, <1>3, <2>1, <2>3 DEF DefaultIsAsked, Connecting
    <3>2. cnDefault # 0
      BY <3>1 DEF Connectors
    <3> QED
      BY <1>1, <2>3, <3>1, <3>2
  <2> QED
    BY <2>2, <2>3
<1>8. ClosingGoesOn'
  <2>1. SUFFICES ASSUME ~cnAgain, ~cnRaced, NEW u \in ConnTasks, cnCall'[u].at = "closing"
                 PROVE  ClosesFrom(cnCall'[u], cnTable, cnState')
    BY DEF ClosingGoesOn
  <2>2. u # t /\ cnCall'[u] = cnCall[u]
    BY <1>1, <2>1 DEF Connecting
  <2>3. ClosesFrom(cnCall[u], cnTable, cnState)
    BY <1>0, <2>1, <2>2 DEF ClosingGoesOn
  <2>4. \A k \in 1 .. Len(cnTable) : cnState'[cnTable[k].conn] = cnState[cnTable[k].conn]
    BY <1>0, <1>1, <1>2, <1>4 DEF ConnectorsTyped
  <2>5. ClosesFrom(cnCall[u], cnTable, cnState')
    BY <2>3, <2>4, SameClosing
  <2> QED
    BY <2>2, <2>5
<1>9. ConnectionsAreKnown'
  <2>1. \A j \in Connectors : cnState'[j] = "up" => j # i /\ cnState[j] = "up"
    BY <1>1
  <2>2. \A j \in Connectors : j = cnDefault => j = cnDefault'
    BY DEF Connectors
  <2> QED
    BY <1>0, <2>1, <2>2 DEF ConnectionsAreKnown
<1> QED
  BY <1>1, <1>5, <1>6, <1>7, <1>8, <1>9 DEF ConnIInv

\* The connection a task makes succeeds, in the table or as the default, or fails.
LEMMA EndsConnecting ==
    ASSUME ConnIInv, NEW t \in ConnTasks, cnCall[t].at \in Connecting, NEW i \in Connectors, i = cnCall[t].conn,
           NEW result \in {"up", "failed"},
           cnState' = [cnState EXCEPT ![i] = result], cnCall' = [cnCall EXCEPT ![t] = ConnIdle],
           cnTable' \in Seq(ConnEntries), cnDefault' = cnDefault, cnReset' = cnReset,
           ~cnAgain' => ~cnAgain, ~cnRaced' => ~cnRaced,
           \A k \in DOMAIN cnTable' : (cnTable'[k].conn = i /\ result = "up") \/ \E j \in DOMAIN cnTable : cnTable'[k] = cnTable[j],
           ~cnAgain' /\ ~cnRaced' => cnTable' = cnTable \/ \A u \in ConnTasks : cnCall[u].at # "closing",
           ~cnAgain' => \A j \in DOMAIN cnTable : j \in DOMAIN cnTable' /\ cnTable'[j] = cnTable[j],
           result = "up" => \/ cnCall[t].at = "default"
                           \/ \E k \in DOMAIN cnTable' : cnTable'[k].conn = i
    PROVE  ConnIInv'
<1>0. ConnectorsTyped /\ CallsApart /\ MadeOnes /\ DefaultIsAsked /\ ClosingGoesOn /\ ConnectionsAreKnown
  BY DEF ConnIInv
<1>1. /\ \A u \in ConnTasks : cnCall'[u] = IF u = t THEN ConnIdle ELSE cnCall[u]
      /\ \A j \in Connectors : cnState'[j] = IF j = i THEN result ELSE cnState[j]
      /\ ConnIdle.at = "idle" /\ ConnIdle \in ConnCalls
  BY <1>0 DEF ConnectorsTyped, ConnIdle, ConnCalls
<1>2. ConnectorsTyped'
  BY <1>0, <1>1 DEF ConnectorsTyped, ConnStates
<1>3. /\ \A u \in ConnTasks : cnCall[u].at \in Connecting \cup {"closing", "reading"} => cnCall[u].conn \in Connectors
      /\ \A k \in DOMAIN cnTable : cnTable[k].conn \in Connectors
      /\ DOMAIN cnTable = 1 .. Len(cnTable) /\ Len(cnTable) \in Nat
  BY <1>0, ConnFields
<1>4. /\ cnState[i] = "connecting"
      /\ \A u \in ConnTasks : u # t /\ cnCall[u].at \in Connecting \cup {"closing"} => cnCall[u].conn # i
      /\ \A k \in DOMAIN cnTable : cnTable[k].conn # i
  BY <1>0 DEF CallsApart, MadeOnes
<1>5. CallsApart'
  BY <1>0, <1>1, <1>3, <1>4 DEF CallsApart, Connecting
<1>6. MadeOnes'
  <2>1. ASSUME NEW k \in DOMAIN cnTable' PROVE cnState'[cnTable'[k].conn] \in {"up", "closed"}
    <3>1. CASE cnTable'[k].conn = i /\ result = "up"
      BY <1>1, <3>1
    <3>2. CASE \E j \in DOMAIN cnTable : cnTable'[k] = cnTable[j]
      BY <1>0, <1>1, <1>3, <1>4, <3>2 DEF MadeOnes
    <3> QED
      BY <2>1, <3>1, <3>2
  <2>2. ASSUME NEW u \in ConnTasks, cnCall'[u].at = "closing" PROVE cnState'[cnCall'[u].conn] \in {"up", "closed"}
    <3>1. u # t /\ cnCall'[u] = cnCall[u]
      BY <1>1, <2>2
    <3> QED
      BY <1>0, <1>1, <1>3, <1>4, <2>2, <3>1 DEF MadeOnes
  <2> QED
    BY <2>1, <2>2 DEF MadeOnes
<1>7. DefaultIsAsked'
  BY <1>0, <1>1 DEF DefaultIsAsked
<1>8. ClosingGoesOn'
  <2>1. SUFFICES ASSUME ~cnAgain', ~cnRaced', NEW u \in ConnTasks, cnCall'[u].at = "closing"
                 PROVE  ClosesFrom(cnCall'[u], cnTable', cnState')
    BY DEF ClosingGoesOn
  <2>2. u # t /\ cnCall'[u] = cnCall[u] /\ cnTable' = cnTable
    BY <1>1, <2>1
  <2>3. ClosesFrom(cnCall[u], cnTable, cnState)
    BY <1>0, <2>1, <2>2 DEF ClosingGoesOn
  <2>4. \A k \in 1 .. Len(cnTable) : cnState'[cnTable[k].conn] = cnState[cnTable[k].conn]
    BY <1>1, <1>3, <1>4
  <2>5. ClosesFrom(cnCall[u], cnTable, cnState')
    BY <2>3, <2>4, SameClosing
  <2> QED
    BY <2>2, <2>5
<1>9. ConnectionsAreKnown'
  <2>1. SUFFICES ASSUME ~cnAgain', ~cnRaced', ~cnReset', NEW j \in Connectors, cnState'[j] = "up"
                 PROVE  j = cnDefault \/ \E k \in DOMAIN cnTable' : cnTable'[k].conn = j
    BY DEF ConnectionsAreKnown
  <2>2. CASE j = i
    <3>1. result = "up"
      BY <1>1, <2>1, <2>2
    <3>2. cnCall[t].at = "default" => i = cnDefault
      BY <1>0, <2>1 DEF DefaultIsAsked
    <3> QED
      BY <2>2, <3>1, <3>2
  <2>3. CASE j # i
    <3>1. cnState[j] = "up"
      BY <1>1, <2>1, <2>3
    <3>2. j = cnDefault \/ \E k \in DOMAIN cnTable : cnTable[k].conn = j
      BY <1>0, <2>1, <3>1 DEF ConnectionsAreKnown
    <3> QED
      BY <2>1, <3>2
  <2> QED
    BY <2>2, <2>3
<1> QED
  BY <1>2, <1>5, <1>6, <1>7, <1>8, <1>9 DEF ConnIInv

\* A loop over the connectors goes on or ends, and a connection may be closed on the way.
LEMMA LoopGoesOn ==
    ASSUME ConnIInv, NEW t \in ConnTasks, NEW c \in ConnCalls, cnCall[t].at \notin Connecting, c.at \notin Connecting,
           cnCall' = [cnCall EXCEPT ![t] = c], cnState' \in [Connectors -> ConnStates],
           \A j \in Connectors : \/ cnState'[j] = cnState[j]
                                 \/ cnState[j] \in {"up", "closed"} /\ cnState'[j] = "closed",
           UNCHANGED <<cnDefault, cnAgain, cnRaced, cnReset>>,
           cnTable' = cnTable \/ cnTable' = <<>>,
           c.at = "closing" => cnState'[c.conn] \in {"up", "closed"},
           c.at = "closing" /\ ~cnAgain /\ ~cnRaced => ClosesFrom(c, cnTable', cnState'),
           cnTable' = <<>> /\ ~cnAgain /\ ~cnRaced => \A k \in DOMAIN cnTable : cnState'[cnTable[k].conn] = "closed"
    PROVE  ConnIInv'
<1>0. ConnectorsTyped /\ CallsApart /\ MadeOnes /\ DefaultIsAsked /\ ClosingGoesOn /\ ConnectionsAreKnown
  BY DEF ConnIInv
<1>1. \A u \in ConnTasks : cnCall'[u] = IF u = t THEN c ELSE cnCall[u]
  BY <1>0 DEF ConnectorsTyped
<1>2. ConnectorsTyped'
  <2>1. cnTable' \in Seq(ConnEntries)
    <3>1. cnTable \in Seq(ConnEntries) /\ <<>> \in Seq(ConnEntries)
      BY <1>0 DEF ConnectorsTyped
    <3> QED
      BY <3>1
  <2>2. cnCall' \in [ConnTasks -> ConnCalls] /\ cnDefault' \in {0} \cup Connectors
    BY <1>0 DEF ConnectorsTyped
  <2> QED
    BY <2>1, <2>2 DEF ConnectorsTyped
<1>3. /\ \A u \in ConnTasks : cnCall[u].at \in Connecting \cup {"closing", "reading"} => cnCall[u].conn \in Connectors
      /\ \A k \in DOMAIN cnTable : cnTable[k].conn \in Connectors
      /\ DOMAIN cnTable = 1 .. Len(cnTable) /\ Len(cnTable) \in Nat
  BY <1>0, ConnFields
<1>4. CallsApart'
  BY <1>0, <1>1, <1>3 DEF CallsApart
<1>5. MadeOnes'
  <2>1. ASSUME NEW k \in DOMAIN cnTable' PROVE cnState'[cnTable'[k].conn] \in {"up", "closed"}
    <3>1. cnTable' = cnTable /\ k \in DOMAIN cnTable
      BY <2>1
    <3> QED
      BY <1>0, <1>3, <3>1 DEF MadeOnes
  <2>2. ASSUME NEW u \in ConnTasks, cnCall'[u].at = "closing" PROVE cnState'[cnCall'[u].conn] \in {"up", "closed"}
    <3>1. CASE u = t
      BY <1>1, <2>2, <3>1
    <3>2. CASE u # t
      BY <1>0, <1>1, <1>3, <2>2, <3>2 DEF MadeOnes
    <3> QED
      BY <3>1, <3>2
  <2> QED
    BY <2>1, <2>2 DEF MadeOnes
<1>6. DefaultIsAsked'
  BY <1>0, <1>1 DEF DefaultIsAsked, Connecting
<1>7. ClosingGoesOn'
  <2>1. SUFFICES ASSUME ~cnAgain, ~cnRaced, NEW u \in ConnTasks, cnCall'[u].at = "closing"
                 PROVE  ClosesFrom(cnCall'[u], cnTable', cnState')
    BY DEF ClosingGoesOn
  <2>2. CASE u = t
    BY <1>1, <2>1, <2>2
  <2>3. CASE u # t /\ cnTable' = cnTable
    <3>1. ClosesFrom(cnCall[u], cnTable, cnState) /\ cnCall'[u] = cnCall[u]
      BY <1>0, <1>1, <2>1, <2>3 DEF ClosingGoesOn
    <3>2. \A k \in 1 .. Len(cnTable) : cnState[cnTable[k].conn] = "closed" => cnState'[cnTable[k].conn] = "closed"
      BY <1>3
    <3> QED
      BY <2>3, <3>1, <3>2 DEF ClosesFrom
  <2>4. CASE cnTable' = <<>>
    BY <2>4 DEF ClosesFrom
  <2> QED
    BY <2>2, <2>3, <2>4
<1>8. ConnectionsAreKnown'
  <2>1. SUFFICES ASSUME ~cnAgain, ~cnRaced, ~cnReset, NEW j \in Connectors, cnState'[j] = "up"
                 PROVE  j = cnDefault \/ \E k \in DOMAIN cnTable' : cnTable'[k].conn = j
    BY DEF ConnectionsAreKnown
  <2>2. cnState[j] = "up"
    BY <2>1
  <2>3. j = cnDefault \/ \E k \in DOMAIN cnTable : cnTable[k].conn = j
    BY <1>0, <2>1, <2>2 DEF ConnectionsAreKnown
  <2> QED
    BY <2>1, <2>3
<1> QED
  BY <1>2, <1>4, <1>5, <1>6, <1>7, <1>8 DEF ConnIInv

\* Going to the next entry of the table, when the entry here is done.
LEMMA NextEntryHolds ==
    ASSUME ConnIInv, NEW t \in ConnTasks, NEW at \in {"closing", "reading"}, cnCall[t].at = at,
           NEW done, cnState' \in [Connectors -> ConnStates],
           \A j \in Connectors : \/ cnState'[j] = cnState[j]
                                 \/ cnState[j] \in {"up", "closed"} /\ cnState'[j] = "closed",
           at = "closing" => cnState'[cnCall[t].conn] = "closed",
           UNCHANGED <<cnDefault, cnAgain, cnRaced, cnReset>>,
           NextEntry(t, done), done => cnTable' = cnTable \/ (cnTable' = <<>> /\ at = "closing")
    PROVE  ConnIInv'
<1>0. ConnectorsTyped /\ MadeOnes /\ ClosingGoesOn
  BY DEF ConnIInv
<1>1. /\ cnCall[t] \in [at : {"closing", "reading"}, pos : Nat, size : Nat, conn : Connectors]
      /\ cnCall[t].pos \in 1 .. cnCall[t].size
  BY <1>0, CallFields, ConnFields
<1>a. cnCall \in [ConnTasks -> ConnCalls]
  BY <1>0 DEF ConnectorsTyped
<1>2. PICK c : c = cnCall[t]
  OBVIOUS
<1>3. c.pos \in Nat /\ c.size \in Nat /\ c.conn \in Connectors /\ c.at = at
  BY <1>1, <1>2
<1>4. DOMAIN cnTable = 1 .. Len(cnTable) /\ Len(cnTable) \in Nat
  BY <1>0, ConnFields
<1>5. ConnIdle \in ConnCalls /\ ConnIdle.at = "idle" /\ "idle" \notin Connecting /\ at \notin Connecting
  BY DEF ConnIdle, ConnCalls, Connecting
<1>6. at = "closing" /\ ~cnAgain /\ ~cnRaced => ClosesFrom(c, cnTable, cnState)
  BY <1>0, <1>2 DEF ClosingGoesOn
<1>7. CASE Len(cnTable) # c.size
  <2>1. cnCall' = [cnCall EXCEPT ![t] = ConnIdle] /\ cnTable' = cnTable
    BY <1>2, <1>7 DEF NextEntry, CallOver
  <2>2. cnTable' = <<>> => \A k \in DOMAIN cnTable : cnState'[cnTable[k].conn] = "closed"
    BY <1>4, <2>1
  <2> QED
    BY <1>5, <2>1, <2>2, LoopGoesOn
<1>8. CASE Len(cnTable) = c.size /\ c.pos = c.size
  <2>1. cnCall' = [cnCall EXCEPT ![t] = ConnIdle] /\ done
    BY <1>2, <1>8 DEF NextEntry, CallOver
  <2>2. ASSUME cnTable' = <<>>, ~cnAgain, ~cnRaced, NEW k \in DOMAIN cnTable
        PROVE  cnState'[cnTable[k].conn] = "closed"
    <3>1. at = "closing"
      BY <1>4, <2>1, <2>2
    <3>2. CASE k = c.pos
      <4>1. c.conn = cnTable[k].conn
        BY <1>4, <1>6, <2>2, <3>1, <3>2 DEF ClosesFrom
      <4> QED
        BY <1>2, <3>1, <4>1
    <3>3. CASE k < c.pos
      <4>1. cnState[cnTable[k].conn] = "closed"
        BY <1>4, <1>6, <1>8, <2>2, <3>1, <3>3 DEF ClosesFrom
      <4>2. cnTable[k].conn \in Connectors
        BY <1>0, ConnFields
      <4> QED
        BY <4>1, <4>2
    <3> QED
      BY <1>3, <1>4, <1>8, <3>2, <3>3
  <2> QED
    BY <1>5, <2>1, <2>2, LoopGoesOn
<1>9. CASE Len(cnTable) = c.size /\ c.pos # c.size
  <2>1. /\ cnCall' = [cnCall EXCEPT ![t].pos = c.pos + 1, ![t].conn = cnTable[c.pos + 1].conn]
        /\ cnTable' = cnTable
    BY <1>2, <1>9 DEF NextEntry
  <2>2. c.pos \in 1 .. c.size /\ c.pos + 1 \in DOMAIN cnTable /\ c.pos + 1 \in 1 .. c.size /\ c.pos + 1 \in Nat
    BY <1>1, <1>2, <1>3, <1>4, <1>9
  <2>3. PICK x : x = cnTable[c.pos + 1].conn
    OBVIOUS
  <2>4. x \in Connectors /\ cnState[x] \in {"up", "closed"}
    BY <1>0, <2>2, <2>3, ConnFields DEF MadeOnes
  <2>5. PICK next : next = [c EXCEPT !.pos = c.pos + 1, !.conn = x]
    OBVIOUS
  <2>6. cnCall' = [cnCall EXCEPT ![t] = next]
    BY <1>a, <1>2, <2>1, <2>3, <2>5
  <2>7. /\ next.at = at /\ next.pos = c.pos + 1 /\ next.size = c.size /\ next.conn = x
        /\ next \in [at : {"closing", "reading"}, pos : Nat, size : Nat, conn : Connectors]
    BY <1>1, <1>2, <1>3, <2>2, <2>4, <2>5
  <2>8. next \in ConnCalls
    BY <2>2, <2>7 DEF ConnCalls
  <2>9. cnState'[x] \in {"up", "closed"}
    BY <2>4
  <2>10. ASSUME at = "closing", ~cnAgain, ~cnRaced PROVE ClosesFrom(next, cnTable, cnState')
    <3>1. cnTable # <<>>
      BY <2>2
    <3>2. c.conn = cnTable[c.pos].conn /\ \A k \in 1 .. c.size : k < c.pos => cnState[cnTable[k].conn] = "closed"
      BY <1>6, <2>10, <3>1 DEF ClosesFrom
    <3>3. ASSUME NEW k \in 1 .. c.size, k < c.pos + 1 PROVE cnState'[cnTable[k].conn] = "closed"
      <4>1. cnTable[k].conn \in Connectors
        BY <1>0, <1>4, <1>9, ConnFields
      <4>2. CASE k = c.pos
        BY <1>2, <2>10, <3>2, <4>2
      <4>3. CASE k < c.pos
        BY <3>2, <4>1, <4>3
      <4> QED
        BY <1>3, <3>3, <4>2, <4>3
    <3> QED
      BY <1>9, <2>2, <2>3, <2>7, <3>3 DEF ClosesFrom
  <2>11. cnTable' = <<>> => \A k \in DOMAIN cnTable : cnState'[cnTable[k].conn] = "closed"
    BY <2>1, <2>2
  <2>12. /\ next.at \notin Connecting /\ (next.at = "closing" => cnState'[next.conn] \in {"up", "closed"})
         /\ next.at = "closing" /\ ~cnAgain /\ ~cnRaced => ClosesFrom(next, cnTable', cnState')
    BY <1>5, <2>1, <2>7, <2>9, <2>10
  <2>13. cnCall[t].at \notin Connecting /\ (cnTable' = cnTable \/ cnTable' = <<>>)
    BY <1>5, <2>1
  <2> QED
    BY <2>6, <2>8, <2>11, <2>12, <2>13, LoopGoesOn
<1> QED
  BY <1>7, <1>8, <1>9

LEMMA ConnStep == ConnIInv /\ [ConnNext]_cnVars => ConnIInv'
<1> SUFFICES ASSUME ConnIInv, [ConnNext]_cnVars PROVE ConnIInv'
  OBVIOUS
<1>0. ConnectorsTyped /\ CallsApart /\ MadeOnes /\ DefaultIsAsked /\ ClosingGoesOn /\ ConnectionsAreKnown
  BY DEF ConnIInv
<1>1. /\ cnState \in [Connectors -> ConnStates] /\ cnTable \in Seq(ConnEntries)
      /\ cnDefault \in {0} \cup Connectors /\ cnCall \in [ConnTasks -> ConnCalls]
  BY <1>0 DEF ConnectorsTyped
<1>2. /\ \A u \in ConnTasks : cnCall[u].at \in Connecting \cup {"closing", "reading"} => cnCall[u].conn \in Connectors
      /\ \A k \in DOMAIN cnTable : cnTable[k] \in ConnEntries /\ cnTable[k].conn \in Connectors
      /\ DOMAIN cnTable = 1 .. Len(cnTable) /\ Len(cnTable) \in Nat
  BY <1>0, ConnFields
<1>3. ConnIdle \in ConnCalls /\ ConnIdle.at = "idle" /\ ConnIdle.at \notin Connecting
  BY DEF ConnIdle, ConnCalls, Connecting
<1>4. ASSUME NEW t \in ConnTasks, NEW x \in ConnExchanges, NEW i \in Connectors, Adding(t, x, i) PROVE ConnIInv'
  <2>1. PICK c : c = [at |-> "adding", of |-> x, conn |-> i]
    OBVIOUS
  <2>2. c \in ConnCalls /\ c.at = "adding" /\ c.conn = i /\ c.at \in Connecting
    BY <2>1 DEF ConnCalls, Connecting
  <2>3. /\ cnCall[t] = ConnIdle /\ cnState[i] = "unborn"
        /\ cnState' = [cnState EXCEPT ![i] = "connecting"] /\ cnCall' = [cnCall EXCEPT ![t] = c]
        /\ UNCHANGED <<cnTable, cnDefault, cnRaced, cnReset>>
    BY <1>4, <2>1 DEF Adding, NewConnector
  <2>4. ~cnAgain' => ~cnAgain
    BY <1>4 DEF Adding
  <2> QED
    BY <1>1, <2>2, <2>3, <2>4, BeginsConnecting
<1>5. ASSUME NEW t \in ConnTasks, NEW i \in Connectors, GetDefault(t, i) PROVE ConnIInv'
  <2>1. PICK c : c = [at |-> "default", conn |-> i]
    OBVIOUS
  <2>2. c \in ConnCalls /\ c.at = "default" /\ c.conn = i /\ c.at \in Connecting
    BY <2>1 DEF ConnCalls, Connecting
  <2>3. /\ cnCall[t] = ConnIdle /\ cnState[i] = "unborn" /\ cnDefault = 0 /\ cnDefault' = i
        /\ cnState' = [cnState EXCEPT ![i] = "connecting"] /\ cnCall' = [cnCall EXCEPT ![t] = c]
        /\ UNCHANGED <<cnTable, cnAgain, cnRaced, cnReset>>
    BY <1>5, <2>1 DEF GetDefault, NewConnector, cnFlags
  <2> QED
    BY <1>1, <2>2, <2>3, BeginsConnecting
<1>6. ASSUME NEW t \in ConnTasks, NEW ok \in BOOLEAN, Connected(t, ok) PROVE ConnIInv'
  <2>1. PICK i : i = cnCall[t].conn
    OBVIOUS
  <2>2. PICK result : result = IF ok THEN "up" ELSE "failed"
    OBVIOUS
  <2>3. PICK entry : entry = [of |-> cnCall[t].of, conn |-> i]
    OBVIOUS
  <2>4. cnCall[t].at = "adding" /\ cnCall[t] \in ConnCalls /\ "adding" \in Connecting
    BY <1>1, <1>6 DEF Connected, Connecting
  <2>5. i \in Connectors /\ entry \in ConnEntries /\ entry.conn = i /\ entry.of = cnCall[t].of
    BY <2>1, <2>3, <2>4, CallFields DEF ConnEntries
  <2>6. /\ cnState' = [cnState EXCEPT ![i] = result] /\ cnCall' = [cnCall EXCEPT ![t] = ConnIdle]
        /\ UNCHANGED <<cnDefault, cnReset>>
    BY <1>6, <2>1, <2>2 DEF Connected, CallOver
  <2>7. cnTable' = IF ~ok THEN cnTable
                   ELSE IF entry.of \in Known
                   THEN [k \in DOMAIN cnTable |-> IF cnTable[k].of = entry.of THEN entry ELSE cnTable[k]]
                   ELSE Append(cnTable, entry)
    BY <1>6, <2>1, <2>3 DEF Connected
  <2>8. /\ ~cnRaced' => ~cnRaced /\ (ok => Doing("closing") = {})
        /\ ~cnAgain' => ~cnAgain /\ (ok => entry.of \notin Known)
    BY <1>6, <2>5 DEF Connected
  <2>9. /\ result \in {"up", "failed"} /\ (ok <=> result = "up")
    BY <2>2
  <2>10. /\ cnTable' \in Seq(ConnEntries)
         /\ \A k \in DOMAIN cnTable' : (cnTable'[k].conn = i /\ result = "up") \/ \E j \in DOMAIN cnTable : cnTable'[k] = cnTable[j]
         /\ ~cnAgain' => \A j \in DOMAIN cnTable : j \in DOMAIN cnTable' /\ cnTable'[j] = cnTable[j]
         /\ result = "up" => \E k \in DOMAIN cnTable' : cnTable'[k].conn = i
    <3>1. CASE ~ok
      BY <1>1, <2>7, <2>9, <3>1
    <3>2. CASE ok /\ entry.of \in Known
      <4>1. cnTable' = [k \in DOMAIN cnTable |-> IF cnTable[k].of = entry.of THEN entry ELSE cnTable[k]]
        BY <2>7, <3>2
      <4>2. cnTable' \in Seq(ConnEntries)
        BY <1>1, <1>2, <2>5, <4>1
      <4>3. PICK k \in DOMAIN cnTable : cnTable[k].of = entry.of
        BY <3>2 DEF Known
      <4>4. DOMAIN cnTable' = DOMAIN cnTable /\ cnTable'[k].conn = i
        BY <2>5, <4>1, <4>3
      <4> QED
        BY <2>5, <2>8, <2>9, <3>2, <4>1, <4>2, <4>4
    <3>3. CASE ok /\ entry.of \notin Known
      <4>1. cnTable' = Append(cnTable, entry)
        BY <2>7, <3>3
      <4>2. /\ cnTable' \in Seq(ConnEntries) /\ DOMAIN cnTable' = DOMAIN cnTable \cup {Len(cnTable) + 1}
            /\ \A j \in DOMAIN cnTable : cnTable'[j] = cnTable[j]
            /\ cnTable'[Len(cnTable) + 1] = entry
        BY <1>1, <2>5, <4>1, Publishes
      <4> QED
        BY <2>5, <2>9, <3>3, <4>2
    <3> QED
      BY <3>1, <3>2, <3>3
  <2>11. ~cnAgain' /\ ~cnRaced' => cnTable' = cnTable \/ \A u \in ConnTasks : cnCall[u].at # "closing"
    BY <2>7, <2>8 DEF Doing
  <2> QED
    BY <2>1, <2>4, <2>5, <2>6, <2>8, <2>9, <2>10, <2>11, EndsConnecting
<1>7. ASSUME NEW t \in ConnTasks, NEW ok \in BOOLEAN, DefaultConnected(t, ok) PROVE ConnIInv'
  <2>1. PICK i : i = cnCall[t].conn
    OBVIOUS
  <2>2. PICK result \in {"up", "failed"} : result = IF ok THEN "up" ELSE "failed"
    OBVIOUS
  <2>3. cnCall[t].at = "default" /\ "default" \in Connecting /\ i \in Connectors
    BY <1>2, <1>7, <2>1 DEF DefaultConnected, Connecting
  <2>4. /\ cnState' = [cnState EXCEPT ![i] = result] /\ cnCall' = [cnCall EXCEPT ![t] = ConnIdle]
        /\ UNCHANGED <<cnTable, cnDefault, cnAgain, cnRaced, cnReset>>
    BY <1>7, <2>1, <2>2 DEF DefaultConnected, CallOver, cnFlags
  <2>5. \A k \in DOMAIN cnTable' : \E j \in DOMAIN cnTable : cnTable'[k] = cnTable[j]
    BY <2>4
  <2> QED
    BY <1>1, <2>1, <2>3, <2>4, <2>5, EndsConnecting
<1>8. ASSUME NEW t \in ConnTasks, NEW at \in {"closing", "reading"}, Iterate(t, at) PROVE ConnIInv'
  <2>1. /\ cnCall[t] = ConnIdle /\ UNCHANGED <<cnState, cnTable, cnDefault, cnAgain, cnRaced, cnReset>>
        /\ IF cnTable = <<>> THEN UNCHANGED cnCall
           ELSE cnCall' = [cnCall EXCEPT ![t] = [at |-> at, pos |-> 1, size |-> Len(cnTable), conn |-> cnTable[1].conn]]
    BY <1>8 DEF Iterate, cnFlags
  <2>2. \A k \in DOMAIN cnTable : cnTable' # <<>>
    BY <1>2, <2>1
  <2>3. CASE cnTable = <<>>
    <3>1. cnCall' = [cnCall EXCEPT ![t] = ConnIdle]
      BY <1>1, <2>1, <2>3
    <3> QED
      BY <1>1, <1>3, <2>1, <2>2, <3>1, LoopGoesOn
  <2>4. CASE cnTable # <<>>
    <3>1. PICK c : c = [at |-> at, pos |-> 1, size |-> Len(cnTable), conn |-> cnTable[1].conn]
      OBVIOUS
    <3>2. 1 \in DOMAIN cnTable /\ 1 \in 1 .. Len(cnTable) /\ cnTable[1].conn \in Connectors
      BY <1>1, <1>2, <2>4
    <3>3. /\ c.at = at /\ c.pos = 1 /\ c.size = Len(cnTable) /\ c.conn = cnTable[1].conn
          /\ c \in [at : {"closing", "reading"}, pos : Nat, size : Nat, conn : Connectors]
      BY <1>2, <3>1, <3>2
    <3>4. c \in ConnCalls /\ c.at \notin Connecting
      BY <3>2, <3>3 DEF ConnCalls, Connecting
    <3>5. ClosesFrom(c, cnTable', cnState')
      BY <1>2, <2>1, <3>2, <3>3 DEF ClosesFrom
    <3>6. cnState'[c.conn] \in {"up", "closed"}
      BY <1>0, <2>1, <3>2, <3>3 DEF MadeOnes
    <3>7. cnCall' = [cnCall EXCEPT ![t] = c]
      BY <2>1, <2>4, <3>1
    <3> QED
      BY <1>1, <1>3, <2>1, <2>2, <3>4, <3>5, <3>6, <3>7, LoopGoesOn
  <2> QED
    BY <2>3, <2>4
<1>9. ASSUME NEW t \in ConnTasks, NEW ok \in BOOLEAN, Disconnected(t, ok) PROVE ConnIInv'
  <2>1. /\ cnCall[t].at = "closing" /\ UNCHANGED <<cnDefault, cnAgain, cnRaced, cnReset>>
        /\ cnCall[t].conn \in Connectors /\ cnState[cnCall[t].conn] \in {"up", "closed"}
    BY <1>0, <1>2, <1>9 DEF Disconnected, cnFlags, MadeOnes
  <2>2. CASE ok
    <3>1. PICK i \in Connectors : i = cnCall[t].conn
      BY <2>1
    <3>2. cnState' = [cnState EXCEPT ![i] = "closed"] /\ NextEntry(t, cnTable' = <<>>)
      BY <1>9, <2>2, <3>1 DEF Disconnected
    <3>3. /\ cnState' \in [Connectors -> ConnStates] /\ cnState'[i] = "closed"
          /\ \A j \in Connectors : \/ cnState'[j] = cnState[j]
                                   \/ cnState[j] \in {"up", "closed"} /\ cnState'[j] = "closed"
      BY <1>1, <2>1, <3>1, <3>2 DEF ConnStates
    <3> QED
      BY <2>1, <3>1, <3>2, <3>3, NextEntryHolds
  <2>3. CASE ~ok
    <3>1. cnCall' = [cnCall EXCEPT ![t] = ConnIdle] /\ UNCHANGED <<cnState, cnTable>>
      BY <1>9, <2>3 DEF Disconnected, CallOver
    <3>2. \A k \in DOMAIN cnTable : cnTable' # <<>>
      BY <1>2, <3>1
    <3> QED
      BY <1>1, <1>3, <2>1, <3>1, <3>2, LoopGoesOn DEF Connecting
  <2> QED
    BY <2>2, <2>3
<1>10. ASSUME NEW t \in ConnTasks, Balance(t) PROVE ConnIInv'
  <2>1. /\ cnCall[t].at = "reading" /\ NextEntry(t, UNCHANGED cnTable)
        /\ UNCHANGED <<cnState, cnDefault, cnAgain, cnRaced, cnReset>>
    BY <1>10 DEF Balance, cnFlags
  <2> QED
    BY <1>1, <2>1, NextEntryHolds
<1>11. CASE ResetDefault
  <2>1. cnReset' /\ cnDefault' = 0 /\ UNCHANGED <<cnState, cnTable, cnCall, cnAgain, cnRaced>>
    BY <1>11 DEF ResetDefault
  <2>2. ConnectorsTyped' /\ CallsApart' /\ MadeOnes' /\ ClosingGoesOn'
    BY <1>0, <2>1 DEF ConnectorsTyped, CallsApart, MadeOnes, ClosingGoesOn
  <2>3. DefaultIsAsked' /\ ConnectionsAreKnown'
    BY <2>1 DEF DefaultIsAsked, ConnectionsAreKnown
  <2> QED
    BY <2>2, <2>3 DEF ConnIInv
<1>12. CASE UNCHANGED cnVars
  <2>1. UNCHANGED <<cnState, cnTable, cnDefault, cnCall, cnAgain, cnRaced, cnReset>>
    BY <1>12 DEF cnVars, cnFlags
  <2>2. ConnectorsTyped' /\ CallsApart' /\ MadeOnes' /\ ClosingGoesOn'
    BY <1>0, <2>1 DEF ConnectorsTyped, CallsApart, MadeOnes, ClosingGoesOn
  <2>3. DefaultIsAsked' /\ ConnectionsAreKnown'
    BY <1>0, <2>1 DEF DefaultIsAsked, ConnectionsAreKnown
  <2> QED
    BY <2>2, <2>3 DEF ConnIInv
<1> QED
  BY <1>4, <1>5, <1>6, <1>7, <1>8, <1>9, <1>10, <1>11, <1>12 DEF ConnNext

\* Over failed closings and closings at the same time, a connection that is up is
\* known to the manager or is the default, as long as no exchange is added twice or
\* while all are closed, and the default is not reset.
THEOREM ConnectionsKnown == ConnSpec => []ConnectionsAreKnown
<1>1. ConnIInv => ConnectionsAreKnown
  BY DEF ConnIInv
<1> QED
  BY <1>1, ConnInitHolds, ConnStep, PTL DEF ConnSpec

------------------------------------------------------------------------------
(* Together on the desk, where one part at a time moves.                        *)

LEMMA DeskStarts == DeskInit => TrendIInv /\ MakerIInv /\ ArbIInv /\ PolyIInv /\ PipesIInv
  BY TrendInitHolds, MakerInitHolds, ArbInitHolds, PolyInitHolds, PipesInitHolds DEF DeskInit

LEMMA DeskStepsApart ==
    [DeskNext]_deskVars => /\ [TrendNext]_tfVars /\ [MakerNext]_mmVars /\ [ArbNext]_arVars
                           /\ [PolyNext]_poVars /\ [PipesNext]_tpVars
<1> SUFFICES ASSUME [DeskNext]_deskVars
             PROVE  /\ [TrendNext]_tfVars /\ [MakerNext]_mmVars /\ [ArbNext]_arVars
                    /\ [PolyNext]_poVars /\ [PipesNext]_tpVars
  OBVIOUS
<1>1. CASE UNCHANGED deskVars
  BY <1>1 DEF deskVars
<1>2. CASE DeskNext
  <2>1. /\ UNCHANGED tfVars \/ which = "trend"
        /\ UNCHANGED mmVars \/ which = "maker"
        /\ UNCHANGED arVars \/ which = "arbitrage"
        /\ UNCHANGED poVars \/ which = "predictions"
        /\ UNCHANGED tpVars \/ which = "pipelines"
    BY <1>2, ZenonT(60) DEF DeskNext, Only
  <2>2. /\ which = "trend" => TrendNext
        /\ which = "maker" => MakerNext
        /\ which = "arbitrage" => ArbNext
        /\ which = "predictions" => PolyNext
        /\ which = "pipelines" => PipesNext
    BY <1>2, ZenonT(60) DEF DeskNext, Only
  <2> QED
    BY <2>1, <2>2
<1> QED
  BY <1>1, <1>2

LEMMA DeskGuardsApart == [DeskNext]_deskVars => [DogNext]_kvars /\ [BlocksNext]_abVars
<1> SUFFICES ASSUME [DeskNext]_deskVars PROVE [DogNext]_kvars /\ [BlocksNext]_abVars
  OBVIOUS
<1>1. CASE UNCHANGED deskVars
  BY <1>1 DEF deskVars
<1>2. CASE DeskNext
  <2>1. (UNCHANGED kvars \/ which = "watchdog") /\ (UNCHANGED abVars \/ which = "blocks")
    BY <1>2, ZenonT(60) DEF DeskNext, Only
  <2>2. (which = "watchdog" => DogNext) /\ (which = "blocks" => BlocksNext)
    BY <1>2, ZenonT(60) DEF DeskNext, Only
  <2> QED
    BY <2>1, <2>2
<1> QED
  BY <1>1, <1>2

LEMMA DeskFits == TrendIInv /\ MakerIInv /\ ArbIInv /\ PolyIInv /\ PipesIInv => DeskTradesFit
  BY TrendHolds, ArbHolds, PolyHolds, PipesHold DEF MakerIInv, DeskTradesFit

\* On the desk, trades fit the position and the market they were decided on, and
\* the pipelines send what they record.
THEOREM DeskBotsFit == DeskSpec => []DeskTradesFit
<1>1. TrendIInv /\ MakerIInv /\ ArbIInv /\ PolyIInv /\ PipesIInv /\ [DeskNext]_deskVars
        => TrendIInv' /\ MakerIInv' /\ ArbIInv' /\ PolyIInv' /\ PipesIInv'
  BY DeskStepsApart, TrendStep, MakerStep, ArbStep, PolyStep, PipesStep
<1> QED
  BY <1>1, DeskStarts, DeskFits, PTL DEF DeskSpec

\* On the desk, restarts stay within their limits however the cooldown is laid over
\* time, and an address is outside for the time of its block.
THEOREM DeskGuards == DeskSpec => []GuardsHold
<1>1. DeskInit => DogIInv /\ BlocksIInv
  BY DogInitHolds, BlocksInitHolds DEF DeskInit
<1>2. DogIInv /\ BlocksIInv /\ [DeskNext]_deskVars => DogIInv' /\ BlocksIInv'
  BY DeskGuardsApart, DogStep, BlocksStep
<1>3. DogIInv /\ BlocksIInv => GuardsHold
  BY DogHolds, BlocksHold DEF GuardsHold
<1> QED
  BY <1>1, <1>2, <1>3, PTL DEF DeskSpec

LEMMA DeskServicesApart ==
    [DeskNext]_deskVars => /\ [EngineNext]_jeVars /\ [ShredNext]_shVars /\ [GatewayNext]_lgVars
                           /\ [HealNext]_dhVars /\ [ConnNext]_cnVars
<1> SUFFICES ASSUME [DeskNext]_deskVars
             PROVE  /\ [EngineNext]_jeVars /\ [ShredNext]_shVars /\ [GatewayNext]_lgVars
                    /\ [HealNext]_dhVars /\ [ConnNext]_cnVars
  OBVIOUS
<1>1. CASE UNCHANGED deskVars
  BY <1>1 DEF deskVars
<1>2. CASE DeskNext
  <2>1. /\ UNCHANGED jeVars \/ which = "engine"
        /\ UNCHANGED shVars \/ which = "shreds"
        /\ UNCHANGED lgVars \/ which = "gateway"
        /\ UNCHANGED dhVars \/ which = "healer"
        /\ UNCHANGED cnVars \/ which = "connectors"
    BY <1>2, ZenonT(60) DEF DeskNext, Only
  <2>2. /\ which = "engine" => EngineNext
        /\ which = "shreds" => ShredNext
        /\ which = "gateway" => GatewayNext
        /\ which = "healer" => HealNext
        /\ which = "connectors" => ConnNext
    BY <1>2, ZenonT(60) DEF DeskNext, Only
  <2> QED
    BY <2>1, <2>2
<1> QED
  BY <1>1, <1>2

LEMMA DeskServes ==
    EngineIInv /\ ShredIInv /\ GatewayIInv /\ HealIInv /\ ConnIInv => RequestsAreServed
  BY EngineHolds, GatewayImplies DEF ShredIInv, HealIInv, ConnIInv, RequestsAreServed

\* On the desk, the blocks that are told form a chain, a stop ends every worker, the
\* fallback of a request ends, what the health check says is true, and a connection
\* that is up is known.
THEOREM DeskRequests == DeskSpec => []RequestsAreServed
<1>1. DeskInit => EngineIInv /\ ShredIInv /\ GatewayIInv /\ HealIInv /\ ConnIInv
  BY EngineInitHolds, ShredInitHolds, GatewayInitHolds, HealInitHolds, ConnInitHolds DEF DeskInit
<1>2. EngineIInv /\ ShredIInv /\ GatewayIInv /\ HealIInv /\ ConnIInv /\ [DeskNext]_deskVars
        => EngineIInv' /\ ShredIInv' /\ GatewayIInv' /\ HealIInv' /\ ConnIInv'
  BY DeskServicesApart, EngineStep, ShredStep, GatewayStep, HealStep, ConnStep
<1> QED
  BY <1>1, <1>2, DeskServes, PTL DEF DeskSpec
=============================================================================
