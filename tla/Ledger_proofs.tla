----------------------------- MODULE Ledger_proofs -----------------------------
(***************************************************************************)
(* What the services and the books that count promise, for every value of  *)
(* their constants: the daily settlement, the transfers of the capital     *)
(* controller, the bot manager, the bundle sender and the registries.      *)
(* They have no state in common; each part below is about one of them, and *)
(* the last about the services together.                                   *)
(***************************************************************************)
EXTENDS MCServices, FiniteSetTheorems, TLAPS

-----------------------------------------------------------------------------
(* The daily settlement: one runs at a time, and its records bracket what has *)
(* reached the vaults.                                                        *)

SRecord == [bot : AllBots, status : {"completed", "failed"}]

STypes ==
    /\ sRunning \in BOOLEAN
    /\ sTask \in [Settlers -> [on : BOOLEAN, whole : BOOLEAN, left : Seq(AllBots)]]
    /\ \A t \in Settlers : sTask[t].on => sTask[t].left # <<>>
    /\ sHistory \in Seq(SRecord)
    /\ sMoved \in [AllBots -> Nat]
    /\ sCuts \in Nat

OneWhole ==
    /\ \A s, t \in Settlers : Whole(s) /\ Whole(t) => s = t
    /\ \A t \in Settlers : Whole(t) => sRunning
WholeIsFlagged == sRunning => \E t \in Settlers : Whole(t)

LEMMA BotsAreASequence == SettleBots \in Seq(AllBots)
<1>1. SettleBots \in Seq(WithProfit \cup Range(SettleBots))
  BY SAssumption
<1> QED
  BY <1>1 DEF AllBots, Range

\* Proceed leaves the other tasks alone, and its own task runs on or is idle.
\* The booleans of the flag are kept apart from the rest.
LEMMA ProceedCases ==
    ASSUME STypes, NEW t \in Settlers, NEW whole \in BOOLEAN, NEW bots \in Seq(AllBots),
           Proceed(t, whole, bots)
    PROVE  /\ sTask' \in [Settlers -> [on : BOOLEAN, whole : BOOLEAN, left : Seq(AllBots)]]
           /\ \A u \in Settlers : sTask'[u].on => sTask'[u].left # <<>>
           /\ \A u \in Settlers \ {t} : sTask'[u] = sTask[u]
           /\ \/ ~sTask'[t].on /\ (sRunning' = (sRunning /\ ~whole))
              \/ sTask'[t].on /\ sTask'[t].whole = whole /\ (sRunning' = (sRunning \/ whole))
<1>1. CASE NoneDue(bots) /\ sTask' = [sTask EXCEPT ![t] = SIdle] /\ (sRunning' = (sRunning /\ ~whole))
  <2>1. SIdle \in [on : BOOLEAN, whole : BOOLEAN, left : Seq(AllBots)] /\ SIdle.on = FALSE
    BY DEF SIdle
  <2>2. sTask'[t] = SIdle
    BY <1>1 DEF STypes
  <2>3. /\ sTask' \in [Settlers -> [on : BOOLEAN, whole : BOOLEAN, left : Seq(AllBots)]]
        /\ \A u \in Settlers \ {t} : sTask'[u] = sTask[u]
    BY <1>1, <2>1 DEF STypes
  <2>4. \A u \in Settlers : sTask'[u].on => sTask'[u].left # <<>>
    BY <2>1, <2>2, <2>3 DEF STypes
  <2>5. ~sTask'[t].on
    BY <2>1, <2>2
  <2> QED
    BY <1>1, <2>3, <2>4, <2>5
<1>2. CASE Await(t, whole, bots)
  <2>1. PICK i \in DOMAIN bots :
            /\ sTask' = [sTask EXCEPT ![t] = [on |-> TRUE, whole |-> whole, left |-> SubSeq(bots, i, Len(bots))]]
            /\ (sRunning' = (sRunning \/ whole))
    BY <1>2 DEF Await
  <2> DEFINE left == SubSeq(bots, i, Len(bots))
  <2>2. i \in 1 .. Len(bots) /\ Len(bots) \in Nat
    OBVIOUS
  <2>3. left \in Seq(AllBots) /\ Len(left) = Len(bots) - i + 1
    BY <2>2
  <2>4. left # <<>>
    <3>1. Len(left) # 0
      BY <2>2, <2>3
    <3>2. Len(<<>>) = 0
      OBVIOUS
    <3> QED
      BY ONLY <3>1, <3>2, Zenon
  <2>5. sTask' = [sTask EXCEPT ![t] = [on |-> TRUE, whole |-> whole, left |-> left]]
    BY <2>1
  <2> HIDE DEF left
  <2>6. /\ sTask' \in [Settlers -> [on : BOOLEAN, whole : BOOLEAN, left : Seq(AllBots)]]
        /\ sTask'[t] = [on |-> TRUE, whole |-> whole, left |-> left]
        /\ \A u \in Settlers \ {t} : sTask'[u] = sTask[u]
    BY <2>3, <2>5 DEF STypes
  <2>7. ASSUME NEW u \in Settlers, sTask'[u].on PROVE sTask'[u].left # <<>>
    <3>1. CASE u = t
      BY ONLY <2>4, <2>6, <3>1
    <3>2. CASE u # t
      BY <2>6, <2>7, <3>2 DEF STypes
    <3> QED
      BY <3>1, <3>2
  <2>8. sTask'[t].on /\ sTask'[t].whole = whole
    BY <2>6
  <2> QED
    BY <2>1, <2>6, <2>7, <2>8
<1> QED
  BY <1>1, <1>2 DEF Proceed

\* one whole settlement at a time, and the flag is its own, however it goes on
LEMMA ProceedSound ==
    ASSUME STypes, OneWhole, sCuts = 0 => WholeIsFlagged, NEW t \in Settlers, NEW whole \in BOOLEAN,
           NEW bots \in Seq(AllBots), Proceed(t, whole, bots),
           sTask[t].on => sTask[t].whole = whole, ~sTask[t].on /\ whole => ~sRunning, sCuts' = sCuts
    PROVE  OneWhole' /\ (sCuts' = 0 => WholeIsFlagged')
<1>1. /\ \A u \in Settlers \ {t} : sTask'[u] = sTask[u]
      /\ \/ ~sTask'[t].on /\ (sRunning' = (sRunning /\ ~whole))
         \/ sTask'[t].on /\ sTask'[t].whole = whole /\ (sRunning' = (sRunning \/ whole))
  BY ProceedCases
<1>2. \A u \in Settlers \ {t} : Whole(u)' <=> Whole(u)
  BY <1>1 DEF Whole
<1>3. Whole(t)' => whole
  BY <1>1 DEF Whole
<1>4. whole /\ Whole(t)' => sRunning'
  BY <1>1 DEF Whole
<1>5. CASE whole
  <2>1. \A u \in Settlers \ {t} : ~Whole(u)
    BY <1>5 DEF OneWhole, Whole
  <2>2. sRunning' => Whole(t)'
    BY <1>1, <1>5 DEF Whole
  <2> QED
    BY <1>2, <1>4, <1>5, <2>1, <2>2 DEF OneWhole, WholeIsFlagged
<1>6. CASE ~whole
  <2>1. (sRunning' <=> sRunning) /\ ~Whole(t) /\ ~Whole(t)'
    BY <1>1, <1>3, <1>6 DEF STypes, Whole
  <2> QED
    BY <1>2, <2>1 DEF OneWhole, WholeIsFlagged
<1> QED
  BY <1>5, <1>6

\* sets of records, when one more is kept
LEMMA RecordsGrow ==
    ASSUME sHistory \in Seq(SRecord), NEW r \in SRecord, sHistory' = Append(sHistory, r),
           NEW b \in AllBots, NEW status \in {"completed", "failed"}
    PROVE  /\ IsFiniteSet(Records(b, status)) /\ Len(sHistory) + 1 \notin Records(b, status)
           /\ r = Record(b, status) => Records(b, status)' = Records(b, status) \cup {Len(sHistory) + 1}
           /\ r # Record(b, status) => Records(b, status)' = Records(b, status)
<1>1. Len(sHistory) \in Nat /\ DOMAIN sHistory = 1 .. Len(sHistory)
  OBVIOUS
<1>2. Records(b, status) \in SUBSET (1 .. Len(sHistory))
  BY <1>1 DEF Records
<1>3. IsFiniteSet(1 .. Len(sHistory))
  BY <1>1, FS_Interval
<1>4. /\ DOMAIN sHistory' = 1 .. Len(sHistory) + 1 /\ sHistory'[Len(sHistory) + 1] = r
      /\ \A i \in 1 .. Len(sHistory) : sHistory'[i] = sHistory[i]
  BY <1>1
<1>5. /\ r = Record(b, status) => Records(b, status)' = Records(b, status) \cup {Len(sHistory) + 1}
      /\ r # Record(b, status) => Records(b, status)' = Records(b, status)
  BY <1>1, <1>4 DEF Records, Record
<1> QED
  BY <1>1, <1>2, <1>3, <1>5, FS_Subset

Counted(b, status) == Cardinality(Records(b, status))
Booked(b) == Cardinality(Records(b, "completed") \cup Records(b, "failed"))

\* what is written down for one bot counts for it, and for no other
LEMMA CountsGrow ==
    ASSUME sHistory \in Seq(SRecord), NEW x \in AllBots, NEW status \in {"completed", "failed"},
           sHistory' = Append(sHistory, Record(x, status)), NEW b \in AllBots
    PROVE  /\ Counted(b, "completed") \in Nat /\ Booked(b) \in Nat
           /\ Counted(b, "completed")' = Counted(b, "completed") + (IF b = x /\ status = "completed" THEN 1 ELSE 0)
           /\ Booked(b)' = Booked(b) + (IF b = x THEN 1 ELSE 0)
<1> DEFINE r == Record(x, status)
           n == Len(sHistory) + 1
           C == Records(b, "completed")
           F == Records(b, "failed")
<1>1. r \in SRecord
  BY DEF Record, SRecord
<1>2. sHistory' = Append(sHistory, r)
  OBVIOUS
<1> HIDE DEF r
<1>3. /\ IsFiniteSet(C) /\ n \notin C
      /\ r = Record(b, "completed") => C' = C \cup {n}
      /\ r # Record(b, "completed") => C' = C
  BY <1>1, <1>2, RecordsGrow
<1>4. /\ IsFiniteSet(F) /\ n \notin F
      /\ r = Record(b, "failed") => F' = F \cup {n}
      /\ r # Record(b, "failed") => F' = F
  BY <1>1, <1>2, RecordsGrow
<1>5. IsFiniteSet(C \cup F)
  BY <1>3, <1>4, FS_Union
<1>6. /\ r = Record(b, "completed") <=> (b = x /\ status = "completed")
      /\ r = Record(b, "failed") <=> (b = x /\ status = "failed")
  BY DEF Record, r
<1>7. Cardinality(C) \in Nat /\ Cardinality(C \cup F) \in Nat
  BY <1>3, <1>5, FS_CardinalityType
<1>8. Cardinality(C \cup {n}) = Cardinality(C) + 1
  BY <1>3, FS_AddElement
<1>9. Cardinality((C \cup F) \cup {n}) = Cardinality(C \cup F) + 1
  BY <1>3, <1>4, <1>5, FS_AddElement
<1>10. /\ b = x => C' \cup F' = (C \cup F) \cup {n}
       /\ b # x => C' \cup F' = C \cup F
  BY <1>3, <1>4, <1>6
<1>11. /\ Booked(b) = Cardinality(C \cup F) /\ Booked(b)' = Cardinality(C' \cup F')
       /\ Counted(b, "completed") = Cardinality(C) /\ Counted(b, "completed")' = Cardinality(C')
  BY DEF Booked, Counted
<1>12. /\ b = x => Booked(b)' = Booked(b) + 1
       /\ b # x => Booked(b)' = Booked(b)
  BY ONLY <1>9, <1>10, <1>11, Zenon
<1>13. /\ b = x /\ status = "completed" => Counted(b, "completed")' = Counted(b, "completed") + 1
       /\ ~(b = x /\ status = "completed") => Counted(b, "completed")' = Counted(b, "completed")
  <2>1. CASE b = x /\ status = "completed"
    BY ONLY <1>3, <1>6, <1>8, <1>11, <2>1, Zenon
  <2>2. CASE ~(b = x /\ status = "completed")
    BY ONLY <1>3, <1>6, <1>8, <1>11, <2>2, Zenon
  <2> QED
    BY <2>1, <2>2
<1> QED
  BY <1>7, <1>12, <1>13 DEF Counted, Booked

BooksHold ==
    sCuts = 0 => \A b \in AllBots : Counted(b, "completed") <= sMoved[b] /\ sMoved[b] <= Booked(b)
IInv == STypes /\ OneWhole /\ (sCuts = 0 => WholeIsFlagged) /\ BooksHold

LEMMA SInitSound == SInit => IInv
<1> SUFFICES ASSUME SInit PROVE IInv
  OBVIOUS
<1> USE DEF SInit
<1>1. SIdle \in [on : BOOLEAN, whole : BOOLEAN, left : Seq(AllBots)] /\ ~SIdle.on
  BY DEF SIdle
<1>6. sHistory \in Seq(SRecord) /\ sMoved \in [AllBots -> Nat] /\ sCuts \in Nat
  OBVIOUS
<1>7. /\ sTask \in [Settlers -> [on : BOOLEAN, whole : BOOLEAN, left : Seq(AllBots)]]
      /\ \A t \in Settlers : ~sTask[t].on
  BY <1>1
<1>8. sRunning \in BOOLEAN
  OBVIOUS
<1>2. STypes
  BY <1>6, <1>7, <1>8 DEF STypes
<1>3. OneWhole /\ WholeIsFlagged
  BY <1>1 DEF OneWhole, Whole, WholeIsFlagged
<1>4. ASSUME NEW b \in AllBots, NEW status PROVE Records(b, status) = {}
  BY DEF Records
<1>5. ASSUME NEW b \in AllBots PROVE Counted(b, "completed") = 0 /\ Booked(b) = 0 /\ sMoved[b] = 0
  BY <1>4, FS_EmptySet DEF Counted, Booked
<1> QED
  BY <1>2, <1>3, <1>5 DEF IInv, BooksHold

\* a settlement that starts or goes on, while no money moves
LEMMA StartSound ==
    ASSUME IInv, NEW t \in Settlers, NEW whole \in BOOLEAN, NEW bots \in Seq(AllBots),
           Proceed(t, whole, bots), ~sTask[t].on, whole => ~sRunning,
           UNCHANGED <<sHistory, sFile, sMoved, sCuts>>
    PROVE  IInv'
<1> USE DEF IInv
<1>1. /\ sTask' \in [Settlers -> [on : BOOLEAN, whole : BOOLEAN, left : Seq(AllBots)]]
      /\ \A u \in Settlers : sTask'[u].on => sTask'[u].left # <<>>
      /\ sRunning' \in BOOLEAN
  BY ProceedCases
<1>2. STypes'
  BY <1>1 DEF STypes
<1>3. OneWhole' /\ (sCuts' = 0 => WholeIsFlagged')
  BY ProceedSound
<1>4. BooksHold'
  BY DEF BooksHold, Counted, Booked, Records
<1> QED
  BY <1>2, <1>3, <1>4

LEMMA SettlementStep == IInv /\ [SNext]_svars => IInv'
<1> SUFFICES ASSUME IInv, [SNext]_svars PROVE IInv'
  OBVIOUS
<1>1. STypes /\ OneWhole /\ (sCuts = 0 => WholeIsFlagged) /\ BooksHold
  BY DEF IInv
<1>2. ASSUME NEW t \in Settlers, Settle(t) PROVE IInv'
  BY <1>2, StartSound, BotsAreASequence DEF Settle
<1>3. ASSUME NEW t \in Settlers, NEW b \in AllBots, SettleOne(t, b) PROVE IInv'
  <2>1. <<b>> \in Seq(AllBots)
    OBVIOUS
  <2>2. /\ Proceed(t, FALSE, <<b>>) /\ ~sTask[t].on /\ UNCHANGED <<sHistory, sFile, sMoved, sCuts>>
    BY <1>3 DEF SettleOne
  <2> QED
    BY <2>1, <2>2, StartSound
<1>4. ASSUME NEW t \in Settlers, NEW out \in Outcomes, WithdrawProfit(t, out) PROVE IInv'
  <2> DEFINE left == sTask[t].left
             whole == sTask[t].whole
             x == Head(left)
             status == IF AnswerCame(out) THEN "completed" ELSE "failed"
  <2>1. /\ sTask[t].on /\ Proceed(t, whole, Tail(left)) /\ sCuts' = sCuts
        /\ sHistory' = Append(sHistory, Record(x, status))
        /\ sMoved' = [sMoved EXCEPT ![x] = @ + IF Served(out) THEN 1 ELSE 0]
    BY <1>4 DEF WithdrawProfit
  <2>2. whole \in BOOLEAN /\ left \in Seq(AllBots) /\ left # <<>>
    BY <1>1, <2>1 DEF STypes
  <2>3. x \in AllBots /\ Tail(left) \in Seq(AllBots) /\ status \in {"completed", "failed"}
    BY <2>2
  <2>4. status = "completed" => Served(out)
    BY DEF AnswerCame, Served
  <2> HIDE DEF left, x, status
  <2>5. Record(x, status) \in SRecord
    BY <2>3 DEF Record, SRecord
  <2>6. /\ sTask' \in [Settlers -> [on : BOOLEAN, whole : BOOLEAN, left : Seq(AllBots)]]
        /\ \A u \in Settlers : sTask'[u].on => sTask'[u].left # <<>>
        /\ sRunning' \in BOOLEAN
    BY <1>1, <2>1, <2>2, <2>3, ProceedCases
  <2>12. sHistory' \in Seq(SRecord)
    BY <1>1, <2>1, <2>5 DEF STypes
  <2>13. (IF Served(out) THEN 1 ELSE 0) \in Nat
    OBVIOUS
  <2>14. sMoved' \in [AllBots -> Nat]
    BY <1>1, <2>1, <2>3, <2>13 DEF STypes
  <2>7. sHistory' \in Seq(SRecord) /\ sMoved' \in [AllBots -> Nat]
    BY <2>12, <2>14
  <2>8. STypes'
    BY <1>1, <2>1, <2>6, <2>7 DEF STypes
  <2>9. OneWhole' /\ (sCuts' = 0 => WholeIsFlagged')
    BY <1>1, <2>1, <2>2, <2>3, ProceedSound
  <2>10. ASSUME sCuts = 0, NEW b \in AllBots
         PROVE  Counted(b, "completed")' <= sMoved'[b] /\ sMoved'[b] <= Booked(b)'
    <3>1. /\ Counted(b, "completed") \in Nat /\ Booked(b) \in Nat
          /\ Counted(b, "completed")' = Counted(b, "completed") + (IF b = x /\ status = "completed" THEN 1 ELSE 0)
          /\ Booked(b)' = Booked(b) + (IF b = x THEN 1 ELSE 0)
      BY <1>1, <2>1, <2>3, CountsGrow DEF STypes
    <3>2. /\ sMoved[b] \in Nat /\ Counted(b, "completed") <= sMoved[b] /\ sMoved[b] <= Booked(b)
          /\ sMoved'[b] = sMoved[b] + (IF b = x /\ Served(out) THEN 1 ELSE 0)
      BY <1>1, <2>1, <2>3, <2>10 DEF STypes, BooksHold
    <3> QED
      BY <2>4, <3>1, <3>2
  <2>11. BooksHold'
    BY <2>1, <2>10 DEF BooksHold
  <2> QED
    BY <2>8, <2>9, <2>11 DEF IInv
\* after a cut the flag may be left up, but never two settlements
<1>5. ASSUME NEW t \in Settlers, NEW served \in BOOLEAN, CancelSettler(t, served) PROVE IInv'
  <2>1. /\ sTask[t].on /\ sTask' = [sTask EXCEPT ![t] = SIdle] /\ sCuts' = sCuts + 1
        /\ sMoved' = [sMoved EXCEPT ![Head(sTask[t].left)] = @ + IF served THEN 1 ELSE 0]
        /\ UNCHANGED <<sRunning, sHistory, sFile>>
    BY <1>5 DEF CancelSettler
  <2>2. SIdle \in [on : BOOLEAN, whole : BOOLEAN, left : Seq(AllBots)] /\ SIdle.on = FALSE
    BY DEF SIdle
  <2>3. sTask'[t] = SIdle /\ \A u \in Settlers \ {t} : sTask'[u] = sTask[u]
    BY <1>1, <2>1 DEF STypes
  <2>4. sMoved' \in [AllBots -> Nat] /\ sTask' \in [Settlers -> [on : BOOLEAN, whole : BOOLEAN, left : Seq(AllBots)]]
    BY <1>1, <2>1, <2>2 DEF STypes
  <2>5. \A u \in Settlers : sTask'[u].on => sTask'[u].left # <<>>
    BY <1>1, <2>2, <2>3 DEF STypes
  <2>6. STypes' /\ sCuts' # 0
    BY <1>1, <2>1, <2>4, <2>5 DEF STypes
  <2>7. OneWhole'
    BY <1>1, <2>1, <2>2, <2>3 DEF OneWhole, Whole
  <2> QED
    BY <2>6, <2>7 DEF IInv, BooksHold
<1>6. CASE LoadRecords
  <2>1. /\ sTask' = [t \in Settlers |-> SIdle] /\ sCuts' = sCuts + 1 /\ sRunning' = FALSE /\ sHistory' = <<>>
    BY <1>6 DEF LoadRecords
  <2>2. sMoved' \in [AllBots -> Nat]
    <3>1. PICK served \in SUBSET {t \in Settlers : sTask[t].on} :
             sMoved' = [b \in AllBots |-> sMoved[b] + Cardinality({t \in served : Head(sTask[t].left) = b})]
      BY <1>6 DEF LoadRecords
    <3>2. ASSUME NEW b \in AllBots
          PROVE  Cardinality({t \in served : Head(sTask[t].left) = b}) \in Nat
      <4>1. {t \in served : Head(sTask[t].left) = b} \in SUBSET Settlers
        OBVIOUS
      <4> QED
        BY <4>1, SAssumption, FS_Subset, FS_CardinalityType
    <3> QED
      BY <1>1, <3>1, <3>2 DEF STypes
  <2>6. sHistory' \in Seq(SRecord)
    BY <2>1
  <2>3. SIdle \in [on : BOOLEAN, whole : BOOLEAN, left : Seq(AllBots)] /\ SIdle.on = FALSE
    BY DEF SIdle
  <2>7. /\ sTask' \in [Settlers -> [on : BOOLEAN, whole : BOOLEAN, left : Seq(AllBots)]]
        /\ \A u \in Settlers : ~sTask'[u].on
    BY <2>1, <2>3
  <2>8. sRunning' \in BOOLEAN
    BY <2>1
  <2>9. sCuts' \in Nat /\ sCuts' # 0
    BY <1>1, <2>1 DEF STypes
  <2>4. STypes' /\ sCuts' # 0
    BY <2>2, <2>6, <2>7, <2>8, <2>9 DEF STypes
  <2>5. OneWhole'
    BY <2>1, <2>3 DEF OneWhole, Whole
  <2> QED
    BY <2>4, <2>5 DEF IInv, BooksHold
<1>7. CASE UNCHANGED svars
  BY <1>1, <1>7 DEF svars, IInv, STypes, OneWhole, WholeIsFlagged, Whole, BooksHold, Counted, Booked, Records
<1> QED
  BY <1>2, <1>3, <1>4, <1>5, <1>6, <1>7 DEF SNext

\* One whole settlement at a time, its flag its own and the books true to what
\* moved, for any bots, callers and answers of the exchange.
THEOREM SettlementsSound == SSpec => []SettlementsAreSound
<1>1. IInv => SettlementsAreSound
  <2> SUFFICES ASSUME IInv PROVE SettlementsAreSound
    OBVIOUS
  <2>1. Cardinality({t \in Settlers : Whole(t)}) <= 1
    <3>1. CASE {t \in Settlers : Whole(t)} = {}
      BY <3>1, FS_EmptySet
    <3>2. ASSUME NEW t \in Settlers, Whole(t) PROVE Cardinality({u \in Settlers : Whole(u)}) <= 1
      <4>1. {u \in Settlers : Whole(u)} = {t}
        BY <3>2 DEF IInv, OneWhole
      <4> QED
        BY <4>1, FS_Singleton
    <3> QED
      BY <3>1, <3>2
  <2> QED
    BY <2>1 DEF IInv, OneWhole, WholeIsFlagged, BooksHold, Counted, Booked,
         SettlementsAreSound, OneSettlement, BooksBracketVaults, FlagIsOwned
<1> QED
  BY <1>1, SInitSound, SettlementStep, PTL DEF SSpec

-----------------------------------------------------------------------------
(* The capital controller: nothing disappears from its books, for any number *)
(* of requests and users.                                                    *)

\* CapTypeOK is inductive as it stands.
LEMMA CapTypeStep == CapTypeOK /\ [CapNext]_capVars => CapTypeOK'
<1> SUFFICES ASSUME CapTypeOK, [CapNext]_capVars PROVE CapTypeOK'
  OBVIOUS
<1> USE CapitalAssumption DEF CapTypeOK, Final
<1>1. ASSUME NEW r \in Requests, MakeRequest(r) PROVE CapTypeOK'
  BY <1>1 DEF MakeRequest
<1>2. ASSUME NEW u \in Users, NEW r \in Requests, Approve(u, r) \/ Reject(u, r) PROVE CapTypeOK'
  BY <1>2 DEF Approve, Reject
<1>3. ASSUME NEW u \in Users, NEW success \in BOOLEAN, TransferDone(u, success) PROVE CapTypeOK'
  <2> DEFINE r == busy[u]
  <2>1. r \in Requests
    BY <1>3 DEF TransferDone
  <2>2. moved' \in [Requests -> 0 .. MaxTransfers]
    <3>1. PICK money \in BOOLEAN :
            /\ money => moved[r] < MaxTransfers
            /\ moved' = IF money THEN [moved EXCEPT ![r] = @ + 1] ELSE moved
      BY <1>3 DEF TransferDone
    <3>2. moved[r] < MaxTransfers => moved[r] + 1 \in 0 .. MaxTransfers
      BY <2>1
    <3> QED
      BY <3>1, <3>2
  <2> QED
    BY <1>3, <2>1, <2>2 DEF TransferDone
<1>4. CASE UNCHANGED capVars
  BY <1>4 DEF capVars
<1> QED
  BY <1>1, <1>2, <1>3, <1>4 DEF CapNext

\* A request that was never made has left no trace.
UnbornUntouched ==
    \A r \in Requests : reqStatus[r] = "unborn" =>
        /\ r \notin pending /\ transfers[r] = 0
        /\ \A u \in Users : busy[u] # r

\* NothingVanishes needs UnbornUntouched: a request that could be made again,
\* after it was settled, would be pending with a history.
CapIInv == CapTypeOK /\ UnbornUntouched /\ NothingVanishes /\ MovesAreInHistory

LEMMA CapInitHolds == CapInit => CapIInv
  BY CapitalAssumption DEF CapInit, CapIInv, CapTypeOK, UnbornUntouched, NothingVanishes, MovesAreInHistory

LEMMA CapStepHolds == CapIInv /\ [CapNext]_capVars => CapIInv'
<1> SUFFICES ASSUME CapIInv, [CapNext]_capVars PROVE CapIInv'
  OBVIOUS
<1> USE CapitalAssumption DEF CapIInv
<1>1. CapTypeOK'
  BY CapTypeStep
<1> SUFFICES UnbornUntouched' /\ NothingVanishes' /\ MovesAreInHistory'
  BY <1>1
<1> USE DEF CapTypeOK, Final
<1>2. ASSUME NEW r \in Requests, MakeRequest(r)
      PROVE  UnbornUntouched' /\ NothingVanishes' /\ MovesAreInHistory'
  BY <1>2 DEF MakeRequest, UnbornUntouched, NothingVanishes, MovesAreInHistory
<1>3. ASSUME NEW u \in Users, NEW r \in Requests, Approve(u, r)
      PROVE  UnbornUntouched' /\ NothingVanishes' /\ MovesAreInHistory'
  BY <1>3 DEF Approve, UnbornUntouched, NothingVanishes, MovesAreInHistory
<1>4. ASSUME NEW u \in Users, NEW r \in Requests, Reject(u, r)
      PROVE  UnbornUntouched' /\ NothingVanishes' /\ MovesAreInHistory'
  BY <1>4 DEF Reject, UnbornUntouched, NothingVanishes, MovesAreInHistory
<1>5. ASSUME NEW u \in Users, NEW success \in BOOLEAN, TransferDone(u, success)
      PROVE  UnbornUntouched' /\ NothingVanishes' /\ MovesAreInHistory'
  <2> DEFINE r == busy[u]
  <2>1. r \in Requests /\ reqStatus[r] # "unborn"
    BY <1>5 DEF TransferDone, UnbornUntouched
  <2>2. /\ reqStatus'[r] \in Final /\ transfers'[r] = transfers[r] + 1 /\ pending' = pending \ {r}
        /\ moved'[r] \in {moved[r], moved[r] + 1}
        /\ \A q \in Requests \ {r} :
              reqStatus'[q] = reqStatus[q] /\ transfers'[q] = transfers[q] /\ moved'[q] = moved[q]
        /\ \A w \in Users : busy'[w] = busy[w] \/ busy'[w] = Nothing
    BY <1>5, <2>1 DEF TransferDone
  <2> HIDE DEF r
  <2>3. UnbornUntouched'
    BY <2>1, <2>2 DEF UnbornUntouched
  <2>4. NothingVanishes'
    BY <2>1, <2>2 DEF NothingVanishes
  <2>5. MovesAreInHistory'
    BY <2>1, <2>2 DEF MovesAreInHistory
  <2> QED
    BY <2>3, <2>4, <2>5
<1>6. CASE UNCHANGED capVars
  BY <1>6 DEF capVars, UnbornUntouched, NothingVanishes, MovesAreInHistory
<1> QED
  BY <1>2, <1>3, <1>4, <1>5, <1>6 DEF CapNext

LEMMA CapInvariant == CapSpec => []CapIInv
  BY CapInitHolds, CapStepHolds, PTL DEF CapSpec

\* However many approvals and rejections of one request overlap, a request that
\* left the pending list is in the history.
THEOREM NothingLost == CapSpec => []NothingVanishes
<1>1. CapIInv => NothingVanishes
  BY DEF CapIInv
<1> QED
  BY <1>1, CapInvariant, PTL

\* No money moves without an entry of the history.
THEOREM Accounted == CapSpec => []MovesAreInHistory
<1>1. CapIInv => MovesAreInHistory
  BY DEF CapIInv
<1> QED
  BY <1>1, CapInvariant, PTL

-----------------------------------------------------------------------------
(* The bot manager of occore.  Which of its theorems hold depends on how many *)
(* calls of start_bot can be suspended in connector.connect() at once, so they *)
(* name what they need of the constants.                                     *)

LEMMA MgrTypeStep == MgrTypeOK /\ [MgrNext]_mgrVars => MgrTypeOK'
<1> SUFFICES ASSUME MgrTypeOK, [MgrNext]_mgrVars PROVE MgrTypeOK'
  OBVIOUS
<1> USE MgrAssumption DEF MgrTypeOK
<1>0. NoMgrCall \in MgrCallType
  BY DEF NoMgrCall, MgrCallType
<1>1. ASSUME NEW t \in Actors, NEW i \in Ids, Wire(t, i) PROVE MgrTypeOK'
  BY <1>0, <1>1 DEF Wire
<1>2. ASSUME NEW t \in Actors, NEW op \in {"start", "restart"}, StartBot(t, op) PROVE MgrTypeOK'
  BY <1>0, <1>1, <1>2 DEF StartBot, Unbuilt, MgrCallType
<1>3. ASSUME NEW t \in Actors, NEW op \in {"stop", "restart", "delete"}, CallStop(t, op)
      PROVE  MgrTypeOK'
  BY <1>3 DEF CallStop, TaskDone, Live, MgrCallType
<1>4. ASSUME NEW t \in Actors, NEW at \in {"risk", "engine"}, MgrGoto(t, at)
      PROVE  mgrCall' \in [Actors -> MgrCallType]
  BY <1>4 DEF MgrGoto, MgrCallType
<1>5. ASSUME NEW t \in Actors, Awaited(t) PROVE MgrTypeOK'
  BY <1>4, <1>5 DEF Awaited
<1>6. ASSUME NEW t \in Actors, RiskStops(t) PROVE MgrTypeOK'
  <2>1. \A s \in {"unborn", "up", "engineOnly", "riskOnly", "down"} :
           RiskDown(s) \in {"unborn", "up", "engineOnly", "riskOnly", "down"}
    BY DEF RiskDown
  <2> QED
    BY <1>4, <1>6, <2>1 DEF RiskStops
<1>7. ASSUME NEW t \in Actors, EngineStops(t) PROVE MgrTypeOK'
  <2>1. \A s \in {"unborn", "up", "engineOnly", "riskOnly", "down"} :
           EngineDown(s) \in {"unborn", "up", "engineOnly", "riskOnly", "down"}
    BY DEF EngineDown
  <2>2. mgrCall' \in [Actors -> MgrCallType]
    BY <1>0, <1>7 DEF EngineStops, MgrCallType
  <2> QED
    BY <1>7, <2>1, <2>2 DEF EngineStops
<1>8. ASSUME NEW t \in Actors, Delete(t) \/ Pause(t) \/ Resume(t) PROVE MgrTypeOK'
  <2>1. CASE Delete(t)
    BY <1>0, <2>1 DEF Delete
  <2>2. CASE Pause(t) \/ Resume(t)
    BY <2>2 DEF Pause, Resume, SetStatus
  <2> QED
    BY <1>8, <2>1, <2>2
<1>9. ASSUME NEW i \in Ids, LoopStep(i) PROVE MgrTypeOK'
  <2>1. CASE LoopEnds(i) \/ LoopSafeStop(i)
    BY <2>1 DEF LoopEnds, LoopSafeStop
  <2>2. CASE LoopFails(i)
    BY <2>2 DEF LoopFails
  <2> QED
    BY <1>9, <2>1, <2>2 DEF LoopStep
<1>10. ASSUME NEW t \in Actors, CallStep(t) PROVE MgrTypeOK'
  BY <1>1, <1>2, <1>3, <1>5, <1>6, <1>7, <1>8, <1>10
  DEF CallStep, CallStart, Connected, Slept, Unbuilt
<1>11. CASE MonitorRestart \/ MonitorRuntime
  BY <1>3, <1>11 DEF MonitorRestart, MonitorRuntime, Actors
<1>12. CASE UNCHANGED mgrVars
  BY <1>12 DEF mgrVars
<1> QED
  BY <1>9, <1>10, <1>11, <1>12 DEF MgrNext

LEMMA MgrTypeInit == MgrInit => MgrTypeOK
  BY MgrAssumption DEF MgrInit, MgrTypeOK, NoMgrCall, MgrCallType

\* The bot, its instance, its stacks and loops and the calls keep their types.
THEOREM MgrTyped == MgrSpec => []MgrTypeOK
  BY MgrTypeInit, MgrTypeStep, PTL DEF MgrSpec

-----------------------------------------------------------------------------
(* One strategy loop *)

\* At most one call of start_bot can be suspended in connect(): none with the
\* mock exchange, one with one user and no restarts by the monitoring loop.
OneStarter == MockExchange \/ (~AutoRestart /\ \A t, u \in Callers : t = u)

\* LoopIsHeld is inductive with this: while a start waits for its connection no
\* loop is alive, so that the task it stores takes nobody's place.
StartsSound ==
    /\ \A t \in Actors : mgrCall[t].at = "connect" =>
          /\ ~MockExchange /\ Live = {}
          /\ t = Mgr => AutoRestart
    /\ mgrCall[Mgr].op = "restart" => AutoRestart
    /\ mgrCall[Mgr].at = "sleep" => mgrCall[Mgr].op = "restart"

LoopIInv == MgrTypeOK /\ LoopIsHeld /\ StartsSound

LEMMA HeldOrNone ==
    ASSUME MgrTypeOK, LoopIsHeld
    PROVE  /\ Live \in {{}, {inst.task}}
           /\ TaskDone => Live = {}
  BY MgrAssumption DEF LoopIsHeld, TaskDone, Live

\* a step that wires no stack leaves fewer loops, and the same task
LEMMA FewerLoops ==
    ASSUME LoopIInv, MgrTypeOK', Live' \subseteq Live, inst'.task = inst.task,
           \A t \in Actors : \/ mgrCall'[t] = mgrCall[t]
                             \/ mgrCall'[t].at \notin {"connect", "sleep"}
                                /\ (mgrCall'[t].op = "restart" /\ t = Mgr
                                    => mgrCall[t].op = "restart" \/ AutoRestart)
                             \/ mgrCall'[t].at = "sleep" /\ mgrCall'[t].op = "restart"
                                /\ mgrCall[t].op = "restart"
                             \/ mgrCall'[t].at = "connect" /\ ~MockExchange /\ Live = {}
                                /\ (t = Mgr => AutoRestart)
    PROVE  LoopIsHeld' /\ StartsSound'
<1> USE MgrAssumption
<1>1. LoopIsHeld'
  BY DEF LoopIInv, LoopIsHeld
<1>2. Mgr \in Actors
  BY DEF Actors
<1>3. ASSUME NEW t \in Actors, mgrCall'[t].at = "connect"
      PROVE  ~MockExchange /\ Live' = {} /\ (t = Mgr => AutoRestart)
  BY <1>3 DEF LoopIInv, StartsSound
<1>4. /\ mgrCall'[Mgr].op = "restart" => AutoRestart
      /\ mgrCall'[Mgr].at = "sleep" => mgrCall'[Mgr].op = "restart"
  BY <1>2 DEF LoopIInv, StartsSound
<1> QED
  BY <1>1, <1>3, <1>4 DEF StartsSound

\* a stack is wired where no loop is alive and no other start is under way
LEMMA WireHolds ==
    ASSUME LoopIInv, MgrTypeOK', NEW t \in Actors, NEW i \in Ids, Wire(t, i),
           Live = {}, \A u \in Actors \ {t} : mgrCall[u].at # "connect"
    PROVE  LoopIsHeld' /\ StartsSound'
<1> USE MgrAssumption DEF LoopIInv, MgrTypeOK, Wire
<1>1. /\ mgrCall'[t] = NoMgrCall /\ \A u \in Actors \ {t} : mgrCall'[u] = mgrCall[u]
      /\ HasClass => inst'.task = i
      /\ \A j \in Ids \ {i} : loop'[j] = loop[j]
      /\ ~HasClass => loop' = loop
  OBVIOUS
<1>2. LoopIsHeld'
  BY <1>1 DEF LoopIsHeld, Live
<1>3. StartsSound'
  BY <1>1 DEF StartsSound, NoMgrCall, Actors
<1> QED
  BY <1>2, <1>3

LEMMA LoopStepHolds ==
    ASSUME OneStarter, LoopIInv, [MgrNext]_mgrVars
    PROVE  LoopIInv'
<1> USE MgrAssumption
<1>1. MgrTypeOK /\ MgrTypeOK'
  BY MgrTypeStep DEF LoopIInv
<1>2. SUFFICES LoopIsHeld' /\ StartsSound'
  BY <1>1 DEF LoopIInv
<1>3. Live \in {{}, {inst.task}} /\ (TaskDone => Live = {})
  BY <1>1, HeldOrNone DEF LoopIInv
\* nobody else waits for a connection when t may
<1>4. ASSUME NEW t \in Actors, t = Mgr => AutoRestart, ~MockExchange
      PROVE  \A u \in Actors \ {t} : mgrCall[u].at # "connect"
  BY <1>4 DEF OneStarter, LoopIInv, StartsSound, Actors
<1>5. MockExchange => \A u \in Actors : mgrCall[u].at # "connect"
  BY DEF LoopIInv, StartsSound
<1>6. ASSUME NEW t \in Actors, NEW op \in {"start", "restart"}, t = Mgr => AutoRestart,
             StartBot(t, op)
      PROVE  LoopIsHeld' /\ StartsSound'
  <2>1. CASE ~exists \/ ~TaskDone
    BY <1>1, <1>6, <2>1, FewerLoops DEF StartBot, NoMgrCall, Live, MgrTypeOK
  <2>2. CASE exists /\ TaskDone /\ MockExchange
    <3>1. PICK i \in Ids : Wire(t, i)
      BY <1>6, <2>2 DEF StartBot, Unbuilt
    <3> QED
      BY <1>1, <1>3, <1>5, <2>2, <3>1, WireHolds
  <2>3. CASE exists /\ TaskDone /\ ~MockExchange
    BY <1>1, <1>3, <1>6, <2>3, FewerLoops DEF StartBot, Live, MgrTypeOK
  <2> QED
    BY <2>1, <2>2, <2>3
<1>7. ASSUME NEW t \in Actors, Connected(t) PROVE LoopIsHeld' /\ StartsSound'
  <2>1. /\ Live = {} /\ \A u \in Actors \ {t} : mgrCall[u].at # "connect"
    BY <1>4, <1>7 DEF Connected, MgrAt, LoopIInv, StartsSound
  <2> QED
    BY <1>1, <1>7, <2>1, WireHolds DEF Connected, Unbuilt
<1>8. ASSUME NEW t \in Actors, NEW op \in {"stop", "restart", "delete"}, CallStop(t, op),
             t = Mgr /\ op = "restart" => AutoRestart
      PROVE  LoopIsHeld' /\ StartsSound'
  <2>1. Live' \subseteq Live
    BY <1>1, <1>8 DEF CallStop, TaskDone, Live, MgrTypeOK
  <2> QED
    BY <1>1, <1>8, <2>1, FewerLoops DEF CallStop, MgrTypeOK
<1>9. ASSUME NEW t \in Actors, Awaited(t) \/ RiskStops(t)
      PROVE  LoopIsHeld' /\ StartsSound'
  BY <1>1, <1>9, FewerLoops DEF Awaited, RiskStops, MgrGoto, Live, MgrTypeOK, MgrCallType
<1>10. ASSUME NEW t \in Actors, EngineStops(t) PROVE LoopIsHeld' /\ StartsSound'
  <2>1. /\ \A u \in Actors \ {t} : mgrCall'[u] = mgrCall[u]
        /\ \/ mgrCall[t].op = "restart" /\ mgrCall'[t].at = "sleep" /\ mgrCall'[t].op = "restart"
           \/ mgrCall[t].op = "delete" /\ mgrCall'[t].at = "delete" /\ mgrCall'[t].op = "delete"
           \/ mgrCall'[t] = NoMgrCall
        /\ inst' = inst /\ loop' = loop
    BY <1>1, <1>10 DEF EngineStops, MgrTypeOK, MgrCallType
  <2> QED
    BY <1>1, <2>1, FewerLoops DEF Live, NoMgrCall
<1>11. ASSUME NEW t \in Actors, Delete(t) \/ Pause(t) \/ Resume(t)
       PROVE  LoopIsHeld' /\ StartsSound'
  BY <1>1, <1>11, FewerLoops DEF Delete, Pause, Resume, SetStatus, NoMgrCall, Live, MgrTypeOK
<1>12. ASSUME NEW i \in Ids, LoopStep(i) PROVE LoopIsHeld' /\ StartsSound'
  <2>1. Live' \subseteq Live /\ inst'.task = inst.task /\ UNCHANGED mgrCall
    BY <1>1, <1>12 DEF LoopStep, LoopEnds, LoopFails, LoopSafeStop, Live, MgrTypeOK
  <2> QED
    BY <1>1, <2>1, FewerLoops
<1>13. ASSUME NEW t \in Actors, CallStep(t) PROVE LoopIsHeld' /\ StartsSound'
  <2>1. CASE CallStart(t)
    BY <1>6, <2>1 DEF CallStart, ByUser
  <2>2. CASE Slept(t)
    BY <1>6, <2>2 DEF Slept, MgrAt, LoopIInv, StartsSound
  <2>3. CASE \E op \in Calls \cap {"stop", "restart", "delete"} : ByUser(t) /\ CallStop(t, op)
    BY <1>8, <2>3 DEF ByUser
  <2> QED
    BY <1>7, <1>9, <1>10, <1>11, <1>13, <2>1, <2>2, <2>3 DEF CallStep
<1>14. CASE MonitorRestart \/ MonitorRuntime
  BY <1>8, <1>14 DEF MonitorRestart, MonitorRuntime, Actors
<1>15. CASE UNCHANGED mgrVars
  BY <1>1, <1>15, FewerLoops DEF mgrVars, Live
<1> QED
  BY <1>12, <1>13, <1>14, <1>15 DEF MgrNext

LEMMA LoopInvariant == ASSUME OneStarter PROVE MgrSpec => []LoopIInv
<1>1. MgrInit => LoopIInv
  BY MgrTypeInit, MgrAssumption DEF MgrInit, LoopIInv, LoopIsHeld, StartsSound, NoMgrCall, Live, Actors
<1>2. LoopIInv /\ [MgrNext]_mgrVars => LoopIInv'
  BY LoopStepHolds
<1> QED
  BY <1>1, <1>2, PTL DEF MgrSpec

\* A bot has one strategy loop at most, and it is the one its instance holds and
\* stop_bot cancels: with the mock exchange whatever calls and restarts overlap,
\* with a real one under one user.
THEOREM OneLoop ==
    ASSUME OneStarter
    PROVE  MgrSpec => []LoopIsAccounted
<1>1. LoopIInv => LoopIsAccounted
  <2> SUFFICES ASSUME LoopIInv PROVE LoopIsAccounted
    OBVIOUS
  <2>1. Live \in {{}, {inst.task}}
    BY HeldOrNone DEF LoopIInv
  <2>2. Cardinality({}) <= 1 /\ Cardinality({inst.task}) <= 1
    <3>1. Cardinality({}) = 0
      BY FS_EmptySet
    <3>2. Cardinality({inst.task}) = 1
      BY FS_Singleton
    <3> QED
      BY <3>1, <3>2
  <2> QED
    BY <2>1, <2>2 DEF LoopIInv, LoopIsAccounted, OneLoopPerBot
<1> QED
  BY <1>1, LoopInvariant, PTL

-----------------------------------------------------------------------------
(* No stack left behind *)

\* One user who starts, stops, restarts and deletes, one call at a time.
OneOperator ==
    /\ HasClass /\ ~AutoRestart /\ ~MaxRuntime
    /\ \A t, u \in Callers : t = u
    /\ Calls \cap {"pause", "resume"} = {}

Stopping == \E t \in Actors : mgrCall[t].at \in {"await", "risk", "engine"}

\* What is up belongs to the instance because the next start only comes when
\* nothing is up: a stack is up while its loop works or fails, or while a call
\* that stops it is under way and has not reached the engine yet.
StacksSound ==
    /\ mgrCall[Mgr] = NoMgrCall
    /\ inst.stack = inst.task
    /\ \A i \in Ids : /\ stack[i] # "riskOnly"
                      /\ loop[i] = "running" => mgrStatus = "RUNNING"
    /\ NoStackLeftBehind
    /\ \A i \in StacksUp : loop[i] \in {"running", "failing"} \/ Stopping
    /\ \A t \in Actors :
          /\ mgrCall[t].at = "await" => mgrCall[t].id = inst.task
          /\ mgrCall[t].at \in {"risk", "engine"} => Live = {}
          /\ mgrCall[t].at = "engine" => \A i \in Ids : stack[i] # "up"

StackIInv == LoopIInv /\ StacksSound

\* the one caller is the only task that has a call under way
LEMMA OneCaller ==
    ASSUME OneOperator, StacksSound, NEW t \in Callers
    PROVE  /\ \A u \in Actors \ {t} : u = Mgr /\ mgrCall[u] = NoMgrCall
           /\ mgrCall[t].at \notin {"await", "risk", "engine"} => ~Stopping
  BY DEF OneOperator, StacksSound, Stopping, Actors, NoMgrCall

LEMMA StackStep ==
    ASSUME OneOperator, StackIInv, [MgrNext]_mgrVars
    PROVE  StackIInv'
<1> USE MgrAssumption
<1>1. LoopIInv /\ LoopIInv' /\ MgrTypeOK /\ MgrTypeOK'
  BY LoopStepHolds DEF StackIInv, OneOperator, OneStarter, LoopIInv
<1>2. SUFFICES StacksSound'
  BY <1>1 DEF StackIInv
<1>3. Live \in {{}, {inst.task}} /\ (TaskDone => Live = {})
  BY <1>1, HeldOrNone DEF LoopIInv
<1>4. Mgr \in Actors /\ mgrCall[Mgr] = NoMgrCall /\ Callers \subseteq Actors
  BY DEF StackIInv, StacksSound, Actors
<1>5. ASSUME NEW t \in Callers, NEW i \in Unbuilt, Wire(t, i), Live = {},
             mgrCall[t].at \notin {"await", "risk", "engine"}
      PROVE  StacksSound'
  <2>1. StacksUp = {}
    BY <1>5, OneCaller DEF StackIInv, StacksSound, StacksUp, Live
  <2>2. /\ \A j \in Ids \ {i} : stack[j] \in {"unborn", "down"} /\ stack'[j] = stack[j]
        /\ \A j \in Ids \ {i} : loop'[j] = loop[j] /\ loop[j] # "running"
        /\ stack'[i] = "up" /\ loop'[i] = "running"
        /\ inst'.stack = i /\ inst'.task = i /\ mgrStatus' = "RUNNING"
    BY <1>1, <1>5, <2>1 DEF Wire, OneOperator, StacksUp, Live, Unbuilt, MgrTypeOK
  <2>3. \A u \in Actors : mgrCall'[u] = NoMgrCall
    BY <1>1, <1>5, OneCaller DEF Wire, MgrTypeOK, StackIInv
  <2> QED
    BY <1>4, <2>2, <2>3 DEF StacksSound, NoStackLeftBehind, StacksUp, NoMgrCall
\* a step that touches neither loop nor stack, of a call that is not stopping
<1>6. ASSUME NEW t \in Callers, mgrCall[t].at \notin {"await", "risk", "engine"},
             \A u \in Actors \ {t} : mgrCall'[u] = mgrCall[u],
             mgrCall'[t].at \notin {"await", "risk", "engine"},
             UNCHANGED <<inst, stack, loop, mgrStatus>>
      PROVE  StacksSound'
  <2>1. ~Stopping
    BY <1>6, OneCaller DEF StackIInv
  <2>2. mgrCall'[Mgr] = NoMgrCall
    BY <1>1, <1>4, <1>6 DEF MgrTypeOK
  <2>3. \A u \in Actors : mgrCall'[u].at \notin {"await", "risk", "engine"}
    BY <1>1, <1>6, OneCaller DEF StackIInv, MgrTypeOK, NoMgrCall
  <2> QED
    BY <1>6, <2>1, <2>2, <2>3 DEF StackIInv, StacksSound, NoStackLeftBehind, StacksUp, Live, Stopping
<1>7. ASSUME NEW t \in Callers, NEW op \in {"start", "restart"}, StartBot(t, op),
             mgrCall[t].at \notin {"await", "risk", "engine"}
      PROVE  StacksSound'
  <2>1. CASE ~exists \/ ~TaskDone
    BY <1>1, <1>6, <1>7, <2>1 DEF StartBot, NoMgrCall, MgrTypeOK
  <2>2. CASE exists /\ TaskDone /\ MockExchange
    BY <1>3, <1>5, <1>7, <2>2 DEF StartBot
  <2>3. CASE exists /\ TaskDone /\ ~MockExchange
    BY <1>1, <1>6, <1>7, <2>3 DEF StartBot, MgrTypeOK
  <2> QED
    BY <2>1, <2>2, <2>3
<1>8. ASSUME NEW t \in Callers, NEW op \in {"stop", "restart", "delete"}, CallStop(t, op)
      PROVE  StacksSound'
  <2>1. /\ ~Stopping /\ \A u \in Actors \ {t} : u = Mgr /\ mgrCall[u] = NoMgrCall
    BY <1>8, OneCaller DEF StackIInv, CallStop, MgrIdle, NoMgrCall
  <2>2. /\ UNCHANGED <<inst, stack, mgrStatus>>
        /\ mgrCall'[Mgr] = NoMgrCall
        /\ \A u \in Actors \ {t} : mgrCall'[u].at = "idle"
    BY <1>1, <1>4, <1>8, <2>1 DEF CallStop, MgrTypeOK, NoMgrCall
  <2>3. CASE TaskDone
    <3>1. mgrCall'[t].at = "risk" /\ loop' = loop
      BY <1>1, <1>4, <1>8, <2>3 DEF CallStop, MgrTypeOK
    <3> QED
      BY <1>3, <1>4, <2>2, <2>3, <3>1
      DEF StackIInv, StacksSound, NoStackLeftBehind, StacksUp, Live, Stopping
  <2>4. CASE ~TaskDone
    <3>1. /\ mgrCall'[t].at = "await" /\ mgrCall'[t].id = inst.task
          /\ \A i \in Ids : loop'[i] = "running" => loop[i] = "running"
      BY <1>1, <1>4, <1>8, <2>4 DEF CallStop, TaskDone, Live, MgrTypeOK
    <3> QED
      BY <1>4, <2>2, <3>1
      DEF StackIInv, StacksSound, NoStackLeftBehind, StacksUp, Live, Stopping
  <2> QED
    BY <2>3, <2>4
<1>9. ASSUME NEW t \in Callers, Awaited(t) PROVE StacksSound'
  <2>1. /\ Live = {} /\ UNCHANGED <<inst, stack, mgrStatus, loop>>
        /\ mgrCall'[t].at = "risk" /\ mgrCall'[Mgr] = NoMgrCall
        /\ \A u \in Actors \ {t} : mgrCall'[u].at = "idle"
    BY <1>1, <1>3, <1>4, <1>9, OneCaller
    DEF Awaited, MgrAt, MgrGoto, StackIInv, StacksSound, MgrTypeOK, NoMgrCall
  <2> QED
    BY <1>4, <2>1 DEF StackIInv, StacksSound, NoStackLeftBehind, StacksUp, Live, Stopping
<1>10. ASSUME NEW t \in Callers, RiskStops(t) PROVE StacksSound'
  <2>1. /\ Live = {} /\ UNCHANGED <<inst, mgrStatus, loop>>
        /\ mgrCall'[t].at = "engine" /\ mgrCall'[Mgr] = NoMgrCall
        /\ \A u \in Actors \ {t} : mgrCall'[u].at = "idle"
    BY <1>1, <1>4, <1>10, OneCaller
    DEF RiskStops, MgrAt, MgrGoto, StackIInv, StacksSound, MgrTypeOK, NoMgrCall
  <2>2. \A i \in Ids : /\ stack'[i] \in {"unborn", "engineOnly", "down"}
                       /\ stack'[i] \notin {"unborn", "down"} => stack[i] \notin {"unborn", "down"}
    BY <1>1, <1>10 DEF RiskStops, RiskDown, StackIInv, StacksSound, NoStackLeftBehind, StacksUp, MgrTypeOK
  <2> QED
    BY <1>4, <2>1, <2>2 DEF StackIInv, StacksSound, NoStackLeftBehind, StacksUp, Live, Stopping
<1>11. ASSUME NEW t \in Callers, EngineStops(t) PROVE StacksSound'
  <2>1. /\ Live = {} /\ UNCHANGED <<inst, loop>>
        /\ mgrCall'[t].at \in {"idle", "sleep", "delete"} /\ mgrCall'[Mgr] = NoMgrCall
        /\ \A u \in Actors \ {t} : mgrCall'[u].at = "idle"
    BY <1>1, <1>4, <1>11, OneCaller
    DEF EngineStops, MgrAt, StackIInv, StacksSound, MgrTypeOK, MgrCallType, NoMgrCall
  <2>2. \A i \in Ids : stack'[i] \in {"unborn", "down"}
    BY <1>1, <1>11
    DEF EngineStops, EngineDown, MgrAt, StackIInv, StacksSound, NoStackLeftBehind, StacksUp, MgrTypeOK
  <2> QED
    BY <1>4, <2>1, <2>2 DEF StackIInv, StacksSound, NoStackLeftBehind, StacksUp, Live, Stopping
<1>12. ASSUME NEW t \in Callers, Delete(t) PROVE StacksSound'
  <2>1. /\ mgrCall[t].at = "delete"
        /\ mgrCall'[t] = NoMgrCall /\ \A u \in Actors \ {t} : mgrCall'[u] = mgrCall[u]
        /\ UNCHANGED <<inst, stack, loop, mgrStatus>>
    BY <1>1, <1>4, <1>12 DEF Delete, MgrAt, MgrTypeOK
  <2> QED
    BY <1>6, <2>1 DEF NoMgrCall
<1>13. ASSUME NEW i \in Ids, LoopStep(i) PROVE StacksSound'
  <2>1. CASE LoopEnds(i)
    <3>1. loop[i] = "cancelled"
      BY <2>1 DEF LoopEnds, StackIInv, StacksSound
    <3>2. \A j \in Ids : loop'[j] = IF j = i THEN "done" ELSE loop[j]
      BY <1>1, <2>1 DEF LoopEnds, MgrTypeOK
    <3> QED
      BY <2>1, <3>1, <3>2
      DEF LoopEnds, StackIInv, StacksSound, NoStackLeftBehind, StacksUp, Live, Stopping
  <2>2. CASE LoopFails(i)
    <3>1. Live = {i}
      BY <1>3, <2>2 DEF LoopFails, Live
    <3>2. /\ \A j \in Ids : loop'[j] = IF j = i THEN "failing" ELSE loop[j]
          /\ inst'.task = inst.task /\ inst'.stack = inst.stack
      BY <1>1, <2>2 DEF LoopFails, MgrTypeOK
    <3>3. \A j \in Ids : loop'[j] # "running"
      BY <3>1, <3>2 DEF Live
    <3> QED
      BY <2>2, <3>1, <3>2, <3>3
      DEF LoopFails, StackIInv, StacksSound, NoStackLeftBehind, StacksUp, Live, Stopping
  <2>3. CASE LoopSafeStop(i)
    <3>1. /\ \A j \in Ids : loop'[j] = IF j = i THEN "done" ELSE loop[j]
          /\ UNCHANGED <<inst, mgrStatus, mgrCall>>
      BY <1>1, <2>3 DEF LoopSafeStop, MgrTypeOK
    <3>2. \A j \in Ids : stack'[j] \in {"unborn", "down"}
      BY <1>1, <2>3 DEF LoopSafeStop, StackIInv, StacksSound, NoStackLeftBehind, StacksUp, MgrTypeOK
    <3> QED
      BY <3>1, <3>2 DEF StackIInv, StacksSound, NoStackLeftBehind, StacksUp, Live, Stopping
  <2> QED
    BY <1>13, <2>1, <2>2, <2>3 DEF LoopStep
<1>14. ASSUME NEW t \in Actors, CallStep(t) PROVE StacksSound'
  <2>1. t \in Callers
    BY <1>4, <1>14
    DEF CallStep, CallStart, Connected, Awaited, RiskStops, EngineStops, Slept, Delete, Pause, Resume,
        SetStatus, ByUser, MgrAt, NoMgrCall, Actors
  <2>2. CASE CallStart(t)
    BY <1>7, <2>1, <2>2 DEF CallStart, MgrIdle, NoMgrCall
  <2>3. CASE Connected(t)
    BY <1>1, <1>4, <1>5, <2>1, <2>3 DEF Connected, MgrAt, LoopIInv, StartsSound
  <2>4. CASE Slept(t)
    BY <1>7, <2>1, <2>4 DEF Slept, MgrAt
  <2>5. CASE \E op \in Calls \cap {"stop", "restart", "delete"} : ByUser(t) /\ CallStop(t, op)
    BY <1>8, <2>1, <2>5
  <2>6. ~Pause(t) /\ ~Resume(t)
    BY DEF Pause, Resume, SetStatus, OneOperator
  <2> QED
    BY <1>9, <1>10, <1>11, <1>12, <1>14, <2>1, <2>2, <2>3, <2>4, <2>5, <2>6 DEF CallStep
<1>15. ~MonitorRestart /\ ~MonitorRuntime
  BY DEF MonitorRestart, MonitorRuntime, OneOperator
<1>16. CASE UNCHANGED mgrVars
  BY <1>16 DEF mgrVars, StackIInv, StacksSound, NoStackLeftBehind, StacksUp, Live, Stopping
<1> QED
  BY <1>13, <1>14, <1>15, <1>16 DEF MgrNext

\* One user who starts, stops, restarts and deletes the bot leaves no engine or
\* risk loop behind, however often the strategy fails meanwhile: what is up is
\* what the instance holds, which the next stop takes down.
THEOREM StackHeld ==
    ASSUME OneOperator
    PROVE  MgrSpec => []NoStackLeftBehind
<1>1. MgrInit => StackIInv
  <2>1. MgrInit => LoopIInv
    BY MgrTypeInit, MgrAssumption DEF MgrInit, LoopIInv, LoopIsHeld, StartsSound, NoMgrCall, Live, Actors
  <2>2. MgrInit => StacksSound
    BY MgrAssumption
    DEF MgrInit, StacksSound, NoStackLeftBehind, StacksUp, Live, Stopping, NoMgrCall, Actors
  <2> QED
    BY <2>1, <2>2 DEF StackIInv
<1>2. StackIInv /\ [MgrNext]_mgrVars => StackIInv'
  BY StackStep
<1>3. StackIInv => NoStackLeftBehind
  BY DEF StackIInv, StacksSound
<1> QED
  BY <1>1, <1>2, <1>3, PTL DEF MgrSpec

-----------------------------------------------------------------------------
(* The bundle sender: what it calls sent has landed, for any bundles and any   *)
(* number of starts.                                                         *)

JitoPlaces == {"new", "queued", "submit", "fallback", "over"}

\* the bundles a sender loop deals with
Handled == {b \in Bundles : jAt[b] \in {"submit", "fallback"}}

JitoTypes ==
    /\ jRun \in BOOLEAN /\ jStarts \in 0 .. MaxStarts /\ jIdle \in Nat
    /\ jAt \in [Bundles -> JitoPlaces]
    /\ jLanded \in [Bundles -> {"none", "first", "all"}] /\ jSent \subseteq Bundles

\* What waits in the queue is there once, and is in nobody's hands.
QueueSound ==
    /\ jQueue \in Seq(Bundles)
    /\ \A i \in DOMAIN jQueue : jAt[jQueue[i]] = "queued"
    /\ \A i, j \in DOMAIN jQueue : jQueue[i] = jQueue[j] => i = j

\* A loop waits or deals with one bundle: there are no more of them than starts.
LoopsSound == IsFiniteSet(Handled) /\ jIdle + Cardinality(Handled) <= jStarts

JitoIInv == JitoTypes /\ QueueSound /\ LoopsSound /\ SentHasLanded

LEMMA JitoInitHolds == JitoInit => JitoIInv
<1> SUFFICES ASSUME JitoInit PROVE JitoIInv
  OBVIOUS
<1> USE JitoAssumption DEF JitoInit
<1>1. JitoTypes
  <2>1. jRun \in BOOLEAN
    OBVIOUS
  <2>2. jStarts \in 0 .. MaxStarts /\ jIdle \in Nat
    OBVIOUS
  <2>3. /\ jAt \in [Bundles -> JitoPlaces]
        /\ jLanded \in [Bundles -> {"none", "first", "all"}] /\ jSent \subseteq Bundles
    BY DEF JitoPlaces
  <2> QED
    BY ONLY <2>1, <2>2, <2>3 DEF JitoTypes
<1>2. jQueue \in Seq(Bundles) /\ DOMAIN jQueue = {}
  OBVIOUS
<1>3. QueueSound
  BY <1>2 DEF QueueSound
<1>4. Handled = {}
  BY DEF Handled
<1>5. LoopsSound
  BY <1>4, FS_EmptySet DEF LoopsSound
<1>6. SentHasLanded
  BY DEF SentHasLanded
<1> QED
  BY <1>1, <1>3, <1>5, <1>6 DEF JitoIInv

\* A bundle that stays in or out of the queue leaves it sound.
LEMMA QueueStays ==
    ASSUME JitoTypes, QueueSound, NEW b \in Bundles, jAt[b] # "queued", NEW place \in JitoPlaces,
           jAt' = [jAt EXCEPT ![b] = place], jQueue' = jQueue
    PROVE  QueueSound'
<1>1. \A i \in DOMAIN jQueue : jQueue[i] # b /\ jQueue[i] \in Bundles
  BY DEF QueueSound
<1>2. \A c \in Bundles : c # b => jAt'[c] = jAt[c]
  BY DEF JitoTypes
<1> QED
  BY <1>1, <1>2 DEF QueueSound

\* A loop is done with a bundle, and goes on or ends.
LEMMA HandsItOver ==
    ASSUME JitoTypes, LoopsSound, NEW b \in Handled, jAt' = [jAt EXCEPT ![b] = "over"], LoopGoesOn,
           jStarts' = jStarts
    PROVE  LoopsSound' /\ jIdle' \in Nat
<1>1. PICK hands : hands = Handled
  OBVIOUS
<1>2. Handled' = hands \ {b}
  <2>1. \A c \in Bundles : jAt'[c] = IF c = b THEN "over" ELSE jAt[c]
    BY DEF JitoTypes
  <2> QED
    BY <1>1, <2>1 DEF Handled
<1>3. IsFiniteSet(hands) /\ Cardinality(hands) \in Nat /\ jIdle + Cardinality(hands) <= jStarts
  BY <1>1, FS_CardinalityType DEF LoopsSound
<1>4. IsFiniteSet(hands \ {b}) /\ Cardinality(hands \ {b}) = Cardinality(hands) - 1
  BY <1>1, <1>3, FS_RemoveElement
<1>5. jIdle' \in Nat /\ jIdle' <= jIdle + 1 /\ jIdle \in Nat /\ jStarts \in Nat
  BY JitoAssumption DEF LoopGoesOn, JitoTypes
<1>6. Cardinality(hands \ {b}) \in Int
  BY <1>3, <1>4
<1>7. jIdle' + Cardinality(hands \ {b}) <= jStarts
  BY <1>3, <1>4, <1>5
<1> QED
  BY <1>2, <1>4, <1>5, <1>7 DEF LoopsSound

LEMMA JitoStep == JitoIInv /\ [JitoNext]_jvars => JitoIInv'
<1> SUFFICES ASSUME JitoIInv, [JitoNext]_jvars PROVE JitoIInv'
  OBVIOUS
<1>0. JitoTypes /\ QueueSound /\ LoopsSound /\ SentHasLanded
  BY DEF JitoIInv
<1>1. CASE UNCHANGED jvars
  BY <1>1 DEF jvars, JitoIInv, JitoTypes, QueueSound, LoopsSound, Handled, SentHasLanded
<1>2. CASE JitoStart \/ JitoStop
  <2>1. UNCHANGED <<jQueue, jAt, jLanded, jSent>> /\ jRun' \in BOOLEAN
    BY <1>2 DEF JitoStart, JitoStop
  <2>2. /\ jStarts' \in 0 .. MaxStarts /\ jIdle' \in Nat
        /\ (jStarts' = jStarts /\ jIdle' = jIdle) \/ (jStarts' = jStarts + 1 /\ jIdle' = jIdle + 1)
    BY <1>0, <1>2, JitoAssumption DEF JitoStart, JitoStop, JitoTypes
  <2>3. Handled' = Handled
    BY <2>1 DEF Handled
  <2>4. Cardinality(Handled) \in Nat
    BY <1>0, FS_CardinalityType DEF LoopsSound
  <2>5. jIdle' + Cardinality(Handled) <= jStarts'
    BY <1>0, <2>2, <2>4, JitoAssumption DEF LoopsSound, JitoTypes
  <2>6. LoopsSound'
    BY <1>0, <2>3, <2>5 DEF LoopsSound
  <2>7. JitoTypes' /\ QueueSound' /\ SentHasLanded'
    BY <1>0, <2>1, <2>2 DEF JitoTypes, QueueSound, SentHasLanded
  <2> QED
    BY <2>6, <2>7 DEF JitoIInv
<1>3. ASSUME NEW b \in Bundles, NEW own \in BOOLEAN, SendBundle(b, own) PROVE JitoIInv'
  <2>1. /\ jAt[b] = "new" /\ jQueue' = Append(jQueue, b) /\ jAt' = [jAt EXCEPT ![b] = "queued"]
        /\ UNCHANGED <<jRun, jStarts, jIdle, jLanded, jSent>>
    BY <1>3 DEF SendBundle
  <2>2. JitoTypes' /\ SentHasLanded'
    BY <1>0, <2>1 DEF JitoTypes, SentHasLanded, JitoPlaces
  <2>3. \A c \in Bundles : jAt'[c] = IF c = b THEN "queued" ELSE jAt[c]
    BY <1>0, <2>1 DEF JitoTypes
  <2>4. Handled' = Handled
    BY <2>1, <2>3 DEF Handled
  <2>5. LoopsSound'
    BY <1>0, <2>1, <2>4 DEF LoopsSound
  <2>6. PICK n \in Nat : n = Len(jQueue)
    BY <1>0 DEF QueueSound
  <2>7. /\ jQueue' \in Seq(Bundles) /\ DOMAIN jQueue' = 1 .. (n + 1) /\ DOMAIN jQueue = 1 .. n
        /\ jQueue'[n + 1] = b /\ \A i \in 1 .. n : jQueue'[i] = jQueue[i] /\ jQueue[i] \in Bundles
    BY <1>0, <2>1, <2>6 DEF QueueSound
  <2>8. \A i \in 1 .. n : jAt[jQueue[i]] = "queued" /\ jQueue[i] # b
    BY <1>0, <2>1, <2>7 DEF QueueSound
  <2>9. ASSUME NEW i \in DOMAIN jQueue', NEW j \in DOMAIN jQueue', jQueue'[i] = jQueue'[j] PROVE i = j
    <3>1. CASE i \in 1 .. n /\ j \in 1 .. n
      BY <1>0, <2>7, <2>9, <3>1 DEF QueueSound
    <3>2. CASE i = n + 1 \/ j = n + 1
      BY <2>6, <2>7, <2>8, <2>9, <3>2
    <3> QED
      BY <2>6, <2>7, <3>1, <3>2
  <2>10. ASSUME NEW i \in DOMAIN jQueue' PROVE jAt'[jQueue'[i]] = "queued"
    <3>1. CASE i \in 1 .. n
      BY <2>3, <2>7, <2>8, <3>1
    <3>2. CASE i = n + 1
      BY <2>3, <2>7, <3>2
    <3> QED
      BY <2>6, <2>7, <3>1, <3>2
  <2>11. QueueSound'
    BY <2>7, <2>9, <2>10 DEF QueueSound
  <2> QED
    BY <2>2, <2>5, <2>11 DEF JitoIInv
<1>4. CASE TakeBundle
  <2>1. PICK b : b = Head(jQueue)
    OBVIOUS
  <2>2. /\ jIdle > 0 /\ jQueue # <<>> /\ jQueue' = Tail(jQueue) /\ jIdle' = jIdle - 1
        /\ jAt' = [jAt EXCEPT ![b] = "submit"]
        /\ UNCHANGED <<jRun, jStarts, jLanded, jSent>>
    BY <1>4, <2>1 DEF TakeBundle
  <2>3. PICK n \in Nat : n = Len(jQueue) /\ n > 0
    BY <1>0, <2>2 DEF QueueSound
  <2>4. /\ jQueue' \in Seq(Bundles) /\ DOMAIN jQueue' = 1 .. (n - 1) /\ DOMAIN jQueue = 1 .. n
        /\ b = jQueue[1] /\ \A i \in 1 .. (n - 1) : jQueue'[i] = jQueue[i + 1]
    BY <1>0, <2>1, <2>2, <2>3 DEF QueueSound
  <2>5. b \in Bundles /\ jAt[b] = "queued"
    BY <1>0, <2>3, <2>4 DEF QueueSound
  <2>6. \A c \in Bundles : jAt'[c] = IF c = b THEN "submit" ELSE jAt[c]
    BY <1>0, <2>2 DEF JitoTypes
  <2>7. ASSUME NEW i \in 1 .. (n - 1)
        PROVE  /\ i + 1 \in 1 .. n /\ jQueue[i + 1] \in Bundles /\ jQueue[i + 1] # b
               /\ jAt'[jQueue'[i]] = "queued"
    <3>1. i + 1 \in DOMAIN jQueue /\ 1 \in DOMAIN jQueue /\ i + 1 # 1
      BY <2>3, <2>4
    <3>2. jQueue[i + 1] \in Bundles /\ jAt[jQueue[i + 1]] = "queued"
      BY <1>0, <3>1 DEF QueueSound
    <3>3. jQueue[i + 1] # b
      <4>1. jQueue[i + 1] = jQueue[1] => i + 1 = 1
        BY <1>0, <3>1 DEF QueueSound
      <4> QED
        BY <2>4, <3>1, <4>1
    <3> QED
      BY <2>3, <2>4, <2>6, <3>1, <3>2, <3>3
  <2>8. ASSUME NEW i \in 1 .. (n - 1), NEW j \in 1 .. (n - 1), jQueue'[i] = jQueue'[j] PROVE i = j
    <3>1. jQueue[i + 1] = jQueue[j + 1] /\ i + 1 \in DOMAIN jQueue /\ j + 1 \in DOMAIN jQueue
      BY <2>3, <2>4, <2>7, <2>8
    <3>2. i + 1 = j + 1
      BY <1>0, <3>1 DEF QueueSound
    <3> QED
      BY <2>3, <3>2
  <2>9. QueueSound'
    BY <2>4, <2>7, <2>8 DEF QueueSound
  <2>10. PICK hands : hands = Handled
    OBVIOUS
  <2>11. b \notin hands /\ Handled' = hands \cup {b}
    BY <2>5, <2>6, <2>10 DEF Handled
  <2>12. /\ IsFiniteSet(hands) /\ Cardinality(hands) \in Nat
         /\ IsFiniteSet(hands \cup {b}) /\ Cardinality(hands \cup {b}) = Cardinality(hands) + 1
    BY <1>0, <2>10, <2>11, FS_CardinalityType, FS_AddElement DEF LoopsSound
  <2>13. jIdle' \in Nat /\ jIdle' + Cardinality(hands \cup {b}) <= jStarts'
    BY <1>0, <2>2, <2>10, <2>12, JitoAssumption DEF LoopsSound, JitoTypes
  <2>14. LoopsSound'
    BY <2>11, <2>12, <2>13 DEF LoopsSound
  <2>15. JitoTypes' /\ SentHasLanded'
    BY <1>0, <2>2, <2>5, <2>13 DEF JitoTypes, SentHasLanded, JitoPlaces
  <2> QED
    BY <2>9, <2>14, <2>15 DEF JitoIInv
\* a bundle that is dealt with for good; what is shown as sent has landed
<1>5. ASSUME NEW b \in Handled, NEW shown \in BOOLEAN, Over(b, shown), UNCHANGED <<jRun, jStarts, jQueue>>,
             jLanded' \in [Bundles -> {"none", "first", "all"}],
             \A c \in Bundles : jLanded[c] # "none" => jLanded'[c] # "none",
             shown => jLanded'[b] # "none"
      PROVE  JitoIInv'
  <2>1. /\ jAt' = [jAt EXCEPT ![b] = "over"] /\ LoopGoesOn
        /\ jSent' = IF shown THEN jSent \cup {b} ELSE jSent
    BY <1>5 DEF Over
  <2>2. b \in Bundles /\ jAt[b] # "queued" /\ "over" \in JitoPlaces
    BY DEF Handled, JitoPlaces
  <2>3. QueueSound'
    BY <1>0, <1>5, <2>1, <2>2, QueueStays
  <2>4. LoopsSound' /\ jIdle' \in Nat
    BY <1>0, <1>5, <2>1, HandsItOver
  <2>5. JitoTypes'
    BY <1>0, <1>5, <2>1, <2>2, <2>4 DEF JitoTypes
  <2>6. SentHasLanded'
    <3>1. jSent \subseteq Bundles
      BY <1>0 DEF JitoTypes
    <3> QED
      BY <1>0, <1>5, <2>1, <3>1 DEF SentHasLanded
  <2> QED
    BY <2>3, <2>4, <2>5, <2>6 DEF JitoIInv
<1>6. ASSUME NEW b \in Bundles, NEW out \in Outcomes, FallbackSend(b, out) PROVE JitoIInv'
  <2>1. b \in Handled /\ Over(b, AnswerCame(out)) /\ UNCHANGED <<jRun, jStarts, jQueue>>
    BY <1>6 DEF FallbackSend, Handled
  <2>2. /\ jLanded' = IF Served(out) /\ jLanded[b] = "none" THEN [jLanded EXCEPT ![b] = "first"] ELSE jLanded
        /\ AnswerCame(out) => Served(out)
    BY <1>6 DEF FallbackSend, AnswerCame, Served
  <2>3. /\ jLanded' \in [Bundles -> {"none", "first", "all"}]
        /\ \A c \in Bundles : jLanded[c] # "none" => jLanded'[c] # "none"
        /\ AnswerCame(out) => jLanded'[b] # "none"
    BY <1>0, <2>2 DEF JitoTypes
  <2>4. AnswerCame(out) \in BOOLEAN
    BY DEF AnswerCame
  <2> QED
    BY <1>5, <2>1, <2>3, <2>4
<1>7. ASSUME NEW b \in Bundles, NEW out \in Outcomes, NEW empty \in BOOLEAN, SubmitBundle(b, out, empty)
      PROVE  JitoIInv'
  <2>1. /\ b \in Handled /\ UNCHANGED <<jRun, jStarts, jQueue>> /\ jAt[b] = "submit"
        /\ jLanded' = IF Served(out) THEN [jLanded EXCEPT ![b] = "all"] ELSE jLanded
        /\ AnswerCame(out) => Served(out)
    BY <1>7 DEF SubmitBundle, Handled, AnswerCame, Served
  <2>2. /\ jLanded' \in [Bundles -> {"none", "first", "all"}]
        /\ \A c \in Bundles : jLanded[c] # "none" => jLanded'[c] # "none"
        /\ AnswerCame(out) => jLanded'[b] # "none"
    BY <1>0, <2>1 DEF JitoTypes
  <2>3. CASE Over(b, AnswerCame(out))
    <3>1. AnswerCame(out) \in BOOLEAN
      BY DEF AnswerCame
    <3> QED
      BY <1>5, <2>1, <2>2, <2>3, <3>1
  <2>4. CASE jAt' = [jAt EXCEPT ![b] = "fallback"] /\ UNCHANGED <<jIdle, jSent>>
    <3>1. Handled' = Handled
      <4>1. \A c \in Bundles : jAt'[c] = IF c = b THEN "fallback" ELSE jAt[c]
        BY <1>0, <2>4 DEF JitoTypes
      <4> QED
        BY <2>1, <4>1 DEF Handled
    <3>2. LoopsSound'
      BY <1>0, <2>1, <2>4, <3>1 DEF LoopsSound
    <3>3. QueueSound'
      BY <1>0, <2>1, <2>4, QueueStays DEF JitoPlaces
    <3>4. JitoTypes' /\ SentHasLanded'
      BY <1>0, <2>1, <2>2, <2>4 DEF JitoTypes, SentHasLanded, JitoPlaces
    <3> QED
      BY <3>2, <3>3, <3>4 DEF JitoIInv
  <2> QED
    BY <1>7, <2>3, <2>4 DEF SubmitBundle
<1> QED
  BY <1>1, <1>2, <1>3, <1>4, <1>6, <1>7 DEF JitoNext, JitoAnswered

LEMMA JitoTyped == JitoIInv => JitoTypeOK
<1> SUFFICES ASSUME JitoIInv PROVE JitoTypeOK
  OBVIOUS
<1>0. JitoTypes /\ QueueSound /\ LoopsSound
  BY DEF JitoIInv
<1>1. jQueue \in Seq({b \in Bundles : jAt[b] = "queued"})
  <2>1. PICK n \in Nat : n = Len(jQueue)
    BY <1>0 DEF QueueSound
  <2>2. jQueue \in [1 .. n -> Bundles] /\ DOMAIN jQueue = 1 .. n
    BY <1>0, <2>1 DEF QueueSound
  <2>3. jQueue \in [1 .. n -> {b \in Bundles : jAt[b] = "queued"}]
    BY <1>0, <2>2 DEF QueueSound
  <2> QED
    BY <2>3
<1>2. jIdle \in 0 .. jStarts
  <2>1. Cardinality(Handled) \in Nat
    BY <1>0, FS_CardinalityType DEF LoopsSound
  <2> QED
    BY <1>0, <2>1, JitoAssumption DEF LoopsSound, JitoTypes
<1> QED
  BY <1>0, <1>1, <1>2 DEF JitoTypes, JitoPlaces, JitoTypeOK

\* What the sender shows as sent has reached the chain, however many loops, lost
\* answers and fallbacks there are.
THEOREM SentIsOnChain == JitoSpec => []SentHasLanded
<1>1. JitoIInv => SentHasLanded
  BY DEF JitoIInv
<1> QED
  BY <1>1, JitoInitHolds, JitoStep, PTL DEF JitoSpec

-----------------------------------------------------------------------------
(* The services together: each keeps its types while the others stand still.  *)

\* A settlement that is under way has a bot to withdraw from.
DueSound ==
    \A t \in Settlers : /\ sTask[t].on <=> sTask[t].left # <<>>
                        /\ sTask[t].on => Head(sTask[t].left) \in WithProfit

LEMMA ProceedDue ==
    ASSUME STypes, DueSound, NEW t \in Settlers, NEW whole \in BOOLEAN, NEW bots \in Seq(AllBots),
           Proceed(t, whole, bots)
    PROVE  DueSound'
<1>1. /\ \A u \in Settlers \ {t} : sTask'[u] = sTask[u]
      /\ sTask' \in [Settlers -> [on : BOOLEAN, whole : BOOLEAN, left : Seq(AllBots)]]
  BY ProceedCases
<1>2. CASE sTask' = [sTask EXCEPT ![t] = SIdle]
  <2>1. sTask'[t] = SIdle
    BY <1>2 DEF STypes
  <2>2. ~SIdle.on /\ SIdle.left = <<>>
    BY DEF SIdle
  <2> QED
    BY <1>1, <2>1, <2>2 DEF DueSound
<1>3. CASE Await(t, whole, bots)
  <2>1. PICK i \in DOMAIN bots :
            /\ bots[i] \in WithProfit
            /\ sTask' = [sTask EXCEPT ![t] = [on |-> TRUE, whole |-> whole, left |-> SubSeq(bots, i, Len(bots))]]
    BY <1>3 DEF Await, FirstDue
  <2>2. PICK left : left = SubSeq(bots, i, Len(bots))
    OBVIOUS
  <2>3. i \in 1 .. Len(bots) /\ Len(bots) \in Nat
    OBVIOUS
  <2>4. left \in Seq(AllBots) /\ Len(left) = Len(bots) - i + 1 /\ left[1] = bots[i]
    BY <2>2, <2>3
  <2>5. left # <<>>
    <3>1. Len(left) # 0
      BY <2>3, <2>4
    <3> QED
      BY <3>1
  <2>6. Head(left) = bots[i]
    BY <2>4, <2>5
  <2>7. sTask'[t].on /\ sTask'[t].left = left
    <3>1. sTask'[t] = [on |-> TRUE, whole |-> whole, left |-> left]
      BY <2>1, <2>2 DEF STypes
    <3> QED
      BY <3>1
  <2> QED
    BY <1>1, <2>1, <2>5, <2>6, <2>7 DEF DueSound
<1> QED
  BY <1>2, <1>3 DEF Proceed

LEMMA DueStep == IInv /\ DueSound /\ [SNext]_svars => DueSound'
<1> SUFFICES ASSUME IInv, DueSound, [SNext]_svars PROVE DueSound'
  OBVIOUS
<1>0. STypes
  BY DEF IInv
<1>1. ASSUME NEW t \in Settlers, Settle(t) PROVE DueSound'
  <2>1. Proceed(t, TRUE, SettleBots)
    BY <1>1 DEF Settle
  <2> QED
    BY <1>0, <2>1, ProceedDue, BotsAreASequence
<1>2. ASSUME NEW t \in Settlers, NEW b \in AllBots, SettleOne(t, b) PROVE DueSound'
  <2>1. Proceed(t, FALSE, <<b>>)
    BY <1>2 DEF SettleOne
  <2>2. <<b>> \in Seq(AllBots)
    OBVIOUS
  <2> QED
    BY <1>0, <2>1, <2>2, ProceedDue
<1>3. ASSUME NEW t \in Settlers, NEW out \in Outcomes, WithdrawProfit(t, out) PROVE DueSound'
  <2>1. Proceed(t, sTask[t].whole, Tail(sTask[t].left)) /\ sTask[t].on
    BY <1>3 DEF WithdrawProfit
  <2>2. sTask[t].whole \in BOOLEAN /\ sTask[t].left \in Seq(AllBots) /\ sTask[t].left # <<>>
    BY <1>0, <2>1 DEF STypes
  <2>3. Tail(sTask[t].left) \in Seq(AllBots)
    BY <2>2
  <2> QED
    BY <1>0, <2>1, <2>2, <2>3, ProceedDue
<1>4. ASSUME NEW t \in Settlers, NEW served \in BOOLEAN, CancelSettler(t, served) PROVE DueSound'
  <2>1. sTask' = [sTask EXCEPT ![t] = SIdle]
    BY <1>4 DEF CancelSettler
  <2>2. sTask'[t] = SIdle /\ \A u \in Settlers \ {t} : sTask'[u] = sTask[u]
    BY <1>0, <2>1 DEF STypes
  <2>3. ~SIdle.on /\ SIdle.left = <<>>
    BY DEF SIdle
  <2> QED
    BY <2>2, <2>3 DEF DueSound
<1>5. CASE LoadRecords
  <2>1. \A u \in Settlers : sTask'[u] = SIdle
    BY <1>5 DEF LoadRecords
  <2>2. ~SIdle.on /\ SIdle.left = <<>>
    BY DEF SIdle
  <2> QED
    BY <2>1, <2>2 DEF DueSound
<1>6. CASE UNCHANGED svars
  BY <1>6 DEF svars, DueSound
<1> QED
  BY <1>1, <1>2, <1>3, <1>4, <1>5, <1>6 DEF SNext

LEMMA SettlersTyped == IInv /\ DueSound => STypeOK
<1> SUFFICES ASSUME IInv, DueSound PROVE STypeOK
  OBVIOUS
<1>1. STypes
  BY DEF IInv
<1>2. sRunning \in BOOLEAN /\ sMoved \in [AllBots -> Nat]
  BY <1>1 DEF STypes
<1>3. \A t \in Settlers : {sTask[t].on, sTask[t].whole} \subseteq BOOLEAN
  BY <1>1 DEF STypes
<1> QED
  BY <1>2, <1>3 DEF STypeOK, DueSound

RgStates == {"gone", "timed", "kept"}
RgProcesses == {"new", "up", "down"}
Listing == [on : BOOLEAN, todo : SUBSET Entries, expired : {"none"} \cup Entries]

RegTypes ==
    /\ rgKey \in [Entries -> RgStates] /\ rgNames \subseteq Entries
    /\ rgOwner \in [Entries -> RgProcesses] /\ rgSave \in [Entries -> {"idle", "added"}]
    /\ rgList \in [Listers -> Listing]

LEMMA RegTypeInit == RegInit => RegTypes
<1> SUFFICES ASSUME RegInit PROVE RegTypes
  OBVIOUS
<1>1. RgIdle \in Listing
  BY DEF RgIdle, Listing
<1> QED
  BY <1>1 DEF RegInit, RegTypes, RgStates, RgProcesses

LEMMA RegTypeStep == RegTypes /\ [RegNext]_rgVars => RegTypes'
<1> SUFFICES ASSUME RegTypes, [RegNext]_rgVars PROVE RegTypes'
  OBVIOUS
<1> USE DEF RegTypes, RgStates, RgProcesses
<1>1. ASSUME NEW e \in Entries, SaveKey(e) \/ SaveName(e) \/ SaveFails(e) \/ KeyExpires(e) \/ OwnerDies(e)
      PROVE  RegTypes'
  BY <1>1 DEF SaveKey, SaveName, SaveFails, KeyExpires, OwnerDies
<1>2. ASSUME NEW a \in RegAgents, Heartbeat(a) \/ HeartbeatSet(a) \/ SetAgentStatus(a) \/ StatusSet(a)
      PROVE  RegTypes'
  <2>1. a \in Entries
    BY DEF Entries
  <2> QED
    BY <1>2, <2>1 DEF Heartbeat, HeartbeatSet, SetAgentStatus, StatusSet
\* a listing takes no name but the entries'
<1>3. RgIdle \in Listing
  BY DEF RgIdle, Listing
<1>4. ASSUME NEW l \in Listers, NEW row \in Listing, rgList' = [rgList EXCEPT ![l] = row],
             UNCHANGED <<rgKey, rgOwner, rgSave>>, rgNames' \subseteq rgNames
      PROVE  RegTypes'
  BY <1>4
<1>5. ASSUME NEW l \in Listers, ListNames(l) PROVE RegTypes'
  <2>1. [RgIdle EXCEPT !.on = TRUE, !.todo = rgNames \cap l] \in Listing
    BY DEF RgIdle, Listing
  <2> QED
    BY <1>4, <1>5, <2>1 DEF ListNames
<1>6. ASSUME NEW l \in Listers, ListReturns(l) \/ ListFails(l) PROVE RegTypes'
  BY <1>3, <1>4, <1>6 DEF ListReturns, ListFails
<1>7. ASSUME NEW l \in Listers, NEW e \in l, ListRemove(l, e) PROVE RegTypes'
  <2>1. rgList[l] \in Listing
    OBVIOUS
  <2>2. [rgList[l] EXCEPT !.expired = "none"] \in Listing
    BY <2>1 DEF Listing
  <2>3. rgList' = [rgList EXCEPT ![l] = [rgList[l] EXCEPT !.expired = "none"]]
    BY <1>7 DEF ListRemove
  <2> QED
    BY <1>4, <1>7, <2>2, <2>3 DEF ListRemove
<1>8. ASSUME NEW l \in Listers, NEW e \in l, NEW fails \in BOOLEAN, ListGet(l, e, fails) PROVE RegTypes'
  <2>1. e \in Entries /\ rgList[l] \in Listing
    BY DEF Listers, Entries
  <2>2. PICK mark \in {"none", e} :
           rgList' = [rgList EXCEPT ![l].todo = @ \ {e}, ![l].expired = mark]
    BY <1>8 DEF ListGet
  <2>3. PICK cut : cut = [rgList[l] EXCEPT !.todo = @ \ {e}]
    OBVIOUS
  <2>4. cut \in Listing
    BY <2>1, <2>3 DEF Listing
  <2>5. PICK row : row = [cut EXCEPT !.expired = mark]
    OBVIOUS
  <2>6. row \in Listing
    BY <2>1, <2>4, <2>5 DEF Listing
  <2>7. rgList' = [rgList EXCEPT ![l] = row]
    <3>1. PICK mid : mid = [rgList EXCEPT ![l] = cut]
      OBVIOUS
    <3>2. mid[l] = cut /\ rgList' = [mid EXCEPT ![l] = [mid[l] EXCEPT !.expired = mark]]
      BY <2>2, <2>3, <3>1
    <3>3. rgList' = [mid EXCEPT ![l] = row]
      BY ONLY <2>5, <3>2
    <3> QED
      BY ONLY <3>1, <3>3
  <2> QED
    BY <1>4, <1>8, <2>6, <2>7 DEF ListGet
<1>9. CASE UNCHANGED rgVars
  BY <1>9 DEF rgVars
<1> QED
  BY <1>1, <1>2, <1>5, <1>6, <1>7, <1>8, <1>9 DEF RegNext

LEMMA RegistriesTyped == RegTypes => RegTypeOK
<1> SUFFICES ASSUME RegTypes PROVE RegTypeOK
  OBVIOUS
<1>1. \A l \in Listers : rgList[l].todo \subseteq Entries
  BY DEF RegTypes, Listing
<1> QED
  BY <1>1 DEF RegTypes, RegTypeOK, RgStates, RgProcesses

LEMMA ServicesApart ==
    [ServicesNext]_serviceVars => /\ [MgrNext]_mgrVars /\ [CapNext]_capVars /\ [SNext]_svars
                                  /\ [JitoNext]_jvars /\ [RegNext]_rgVars
<1> SUFFICES ASSUME [ServicesNext]_serviceVars
             PROVE  /\ [MgrNext]_mgrVars /\ [CapNext]_capVars /\ [SNext]_svars
                    /\ [JitoNext]_jvars /\ [RegNext]_rgVars
  OBVIOUS
<1>1. CASE UNCHANGED serviceVars
  BY <1>1 DEF serviceVars
<1>2. CASE ServicesNext
  <2>1. /\ UNCHANGED mgrVars \/ which = "manager"
        /\ UNCHANGED capVars \/ which = "capital"
        /\ UNCHANGED svars \/ which = "settlement"
        /\ UNCHANGED jvars \/ which = "jito"
        /\ UNCHANGED rgVars \/ which = "registry"
    BY <1>2, ZenonT(60) DEF ServicesNext, Only
  <2>2. /\ which = "manager" => MgrNext
        /\ which = "capital" => CapNext
        /\ which = "settlement" => SNext
        /\ which = "jito" => JitoNext
        /\ which = "registry" => RegNext
    BY <1>2, ZenonT(60) DEF ServicesNext, Only
  <2> QED
    BY <2>1, <2>2
<1> QED
  BY <1>1, <1>2

\* What every part keeps: its types, and what they rest on.
ServicesIInv == MgrTypeOK /\ CapTypeOK /\ IInv /\ DueSound /\ JitoIInv /\ RegTypes

\* Whichever service runs, and whatever the calls of its users overlap with, all of
\* them keep their types: a settlement under way has a bot with profit before it, a
\* queued bundle is in no sender's hands, and no more sender loops wait than were
\* started.
THEOREM ServicesTyped == ServicesSpec => []ServicesTypeOK
<1>1. ServicesInit => ServicesIInv
  <2> SUFFICES ASSUME ServicesInit PROVE ServicesIInv
    OBVIOUS
  <2>1. MgrTypeOK /\ CapTypeOK /\ IInv /\ JitoIInv /\ RegTypes
    BY MgrTypeInit, CapInitHolds, SInitSound, JitoInitHolds, RegTypeInit DEF ServicesInit, CapIInv
  <2>2. DueSound
    BY DEF ServicesInit, SInit, SIdle, DueSound
  <2> QED
    BY <2>1, <2>2 DEF ServicesIInv
<1>2. ServicesIInv /\ [ServicesNext]_serviceVars => ServicesIInv'
  BY ServicesApart, MgrTypeStep, CapTypeStep, SettlementStep, DueStep, JitoStep, RegTypeStep DEF ServicesIInv
<1>3. ServicesIInv => ServicesTypeOK
  BY SettlersTyped, JitoTyped, RegistriesTyped DEF ServicesIInv, ServicesTypeOK
<1> QED
  BY <1>1, <1>2, <1>3, PTL DEF ServicesSpec
==============================================================================
