--------------------------- MODULE Rewards_proofs ---------------------------
(***************************************************************************)
(* Theorems about what judges and learns, for any bots, agents, templates  *)
(* and bounds: the levels of the bots, the votes of the agents, the pairs  *)
(* an episode makes, the strategies the laboratory breeds, and the report  *)
(* of the situation board.  Most of them sort; what a sort finds is one    *)
(* lemma, Ranks.                                                           *)
(***************************************************************************)
EXTENDS RewardSystem, RewardLearning, StrategyResearch, ControlTower,
        FiniteSetTheorems, FunctionTheorems, SequenceTheorems, TLAPS

-----------------------------------------------------------------------------
(* Ranks: the lemma every sort rests on *)

\* In a finite set with a strict total order R every place is taken, by the
\* element with one less before it than the place says, and by no other; what
\* comes before another one has the smaller place.
LEMMA Ranks ==
    ASSUME NEW S, IsFiniteSet(S), NEW R,
           \A i \in S : <<i, i>> \notin R,
           \A i, j, k \in S : <<i, j>> \in R /\ <<j, k>> \in R => <<i, k>> \in R,
           \A i, j \in S : i # j => <<i, j>> \in R \/ <<j, i>> \in R
    PROVE  /\ Cardinality(S) \in Nat
           /\ \A k \in 1..Cardinality(S) : \E i \in S : Cardinality({j \in S : <<j, i>> \in R}) = k - 1
           /\ \A i \in S : Cardinality({j \in S : <<j, i>> \in R}) \in 0..(Cardinality(S) - 1)
           /\ \A i, j \in S :
                  <<i, j>> \in R <=> Cardinality({h \in S : <<h, i>> \in R})
                                         < Cardinality({h \in S : <<h, j>> \in R})
<1> DEFINE below(i) == {j \in S : <<j, i>> \in R}
           place == [i \in S |-> Cardinality(below(i)) + 1]
<1>1. \A i \in S : IsFiniteSet(below(i)) /\ Cardinality(below(i)) \in Nat
  <2> TAKE i \in S
  <2>1. below(i) \in SUBSET S
    OBVIOUS
  <2>2. IsFiniteSet(below(i))
    BY <2>1, FS_Subset
  <2> QED
    BY <2>2, FS_CardinalityType
<1>2. Cardinality(S) \in Nat
  BY FS_CardinalityType
<1>3. ASSUME NEW i \in S PROVE Cardinality(below(i)) <= Cardinality(S) - 1
  <2>1. IsFiniteSet(S \ {i}) /\ Cardinality(S \ {i}) = Cardinality(S) - 1
    BY FS_RemoveElement
  <2>2. below(i) \in SUBSET (S \ {i})
    OBVIOUS
  <2> HIDE DEF below
  <2> QED
    BY <2>1, <2>2, FS_Subset
<1>4. ASSUME NEW i \in S, NEW j \in S, <<i, j>> \in R
      PROVE  Cardinality(below(i)) < Cardinality(below(j))
  <2>1. below(i) \in SUBSET below(j) /\ i \in below(j) /\ i \notin below(i)
    BY <1>4
  <2>2. Cardinality(below(i)) <= Cardinality(below(j)) /\ Cardinality(below(i)) # Cardinality(below(j))
    <3> HIDE DEF below
    <3> QED
      BY <1>1, <2>1, FS_Subset
  <2> HIDE DEF below
  <2> QED
    BY <1>1, <2>2
<1>5. \A i, j \in S : <<i, j>> \in R <=> Cardinality(below(i)) < Cardinality(below(j))
  <2> TAKE i, j \in S
  <2>1. CASE <<i, j>> \in R
    BY <1>4, <2>1
  <2>2. CASE i = j
    <3>1. Cardinality(below(i)) \in Nat /\ Cardinality(below(i)) = Cardinality(below(j))
      BY <1>1, <2>2
    <3>2. <<i, j>> \notin R
      BY <2>2
    <3> HIDE DEF below
    <3> QED
      BY <3>1, <3>2
  <2>3. CASE <<i, j>> \notin R /\ i # j
    <3>1. Cardinality(below(j)) < Cardinality(below(i))
      BY <1>4, <2>3
    <3> HIDE DEF below
    <3> QED
      BY <1>1, <2>3, <3>1
  <2> QED
    BY <2>1, <2>2, <2>3
<1>6. place \in Injection(S, 1..Cardinality(S))
  <2>1. \A i \in S : place[i] \in 1..Cardinality(S)
    <3> HIDE DEF below
    <3> QED
      BY <1>1, <1>2, <1>3
  <2>2. \A i, j \in S : i # j => place[i] # place[j]
    <3> SUFFICES ASSUME NEW i \in S, NEW j \in S, i # j PROVE place[i] # place[j]
      OBVIOUS
    <3>1. Cardinality(below(i)) # Cardinality(below(j))
      <4>1. <<i, j>> \in R \/ <<j, i>> \in R
        OBVIOUS
      <4> HIDE DEF below
      <4> QED
        BY <1>1, <1>5, <4>1
    <3> HIDE DEF below
    <3> QED
      BY <1>1, <3>1
  <2>3. place \in [S -> 1..Cardinality(S)]
    BY <2>1
  <2> HIDE DEF place
  <2> QED
    BY <2>2, <2>3 DEF Injection, IsInjective
<1>7. place \in Surjection(S, 1..Cardinality(S))
  <2>1. IsFiniteSet(1..Cardinality(S)) /\ Cardinality(1..Cardinality(S)) = Cardinality(S)
    BY <1>2, FS_Interval
  <2> HIDE DEF place
  <2> QED
    BY <1>6, <2>1, FS_Injection
<1>8. \A k \in 1..Cardinality(S) : \E i \in S : Cardinality(below(i)) = k - 1
  <2> SUFFICES ASSUME NEW k \in 1..Cardinality(S) PROVE \E i \in S : Cardinality(below(i)) = k - 1
    OBVIOUS
  <2>1. PICK i \in S : place[i] = k
    <3> HIDE DEF place
    <3> QED
      BY <1>7 DEF Surjection
  <2>2. Cardinality(below(i)) = k - 1
    <3>1. place[i] = Cardinality(below(i)) + 1 /\ Cardinality(below(i)) \in Nat
      BY <1>1
    <3> HIDE DEF place, below
    <3> QED
      BY <2>1, <3>1
  <2> QED
    BY <2>2
<1>9. \A i \in S : Cardinality(below(i)) \in 0..(Cardinality(S) - 1)
  <2> HIDE DEF below
  <2> QED
    BY <1>1, <1>2, <1>3
<1> QED
  BY <1>2, <1>5, <1>8, <1>9

LEMMA CountTo == \A n \in Nat : IsFiniteSet(1..n) /\ Cardinality(1..n) = n
<1> SUFFICES ASSUME NEW n \in Nat PROVE IsFiniteSet(1..n) /\ Cardinality(1..n) = n
  OBVIOUS
<1>1. IsFiniteSet(1..n) /\ Cardinality(1..n) = IF 1 > n THEN 0 ELSE n - 1 + 1
  BY FS_Interval
<1> QED
  BY <1>1

\* A finite set of numbers that is not empty has a largest and a least one.
LEMMA Extremes ==
    ASSUME NEW S \in SUBSET Int, IsFiniteSet(S), S # {}
    PROVE  /\ Max(S) \in S /\ \A y \in S : Max(S) >= y
           /\ Min(S) \in S /\ \A y \in S : Min(S) <= y
<1>1. Cardinality(S) \in Nat \ {0}
  BY FS_CardinalityType, FS_EmptySet
<1>2. \E x \in S : \A y \in S : x >= y
  <2> DEFINE R == {p \in S \X S : p[1] > p[2]}
  <2>1. /\ \A i \in S : <<i, i>> \notin R
        /\ \A i, j, k \in S : <<i, j>> \in R /\ <<j, k>> \in R => <<i, k>> \in R
        /\ \A i, j \in S : i # j => <<i, j>> \in R \/ <<j, i>> \in R
    OBVIOUS
  <2>2. PICK x \in S : Cardinality({j \in S : <<j, x>> \in R}) = 1 - 1
    <3>1. 1 \in 1..Cardinality(S)
      BY <1>1
    <3> HIDE DEF R
    <3>2. \A k \in 1..Cardinality(S) : \E i \in S : Cardinality({j \in S : <<j, i>> \in R}) = k - 1
      BY <2>1, Ranks
    <3> QED
      BY <3>1, <3>2
  <2>3. {j \in S : <<j, x>> \in R} = {}
    <3>1. IsFiniteSet({j \in S : <<j, x>> \in R})
      BY FS_Subset
    <3> QED
      BY <2>2, <3>1, FS_EmptySet
  <2>4. ASSUME NEW y \in S PROVE x >= y
    <3>1. <<y, x>> \notin R
      BY <2>3
    <3>2. ~(y > x)
      BY <3>1
    <3> QED
      BY <3>2
  <2> QED
    BY <2>4
<1>3. \E x \in S : \A y \in S : x <= y
  <2> DEFINE R == {p \in S \X S : p[1] < p[2]}
  <2>1. /\ \A i \in S : <<i, i>> \notin R
        /\ \A i, j, k \in S : <<i, j>> \in R /\ <<j, k>> \in R => <<i, k>> \in R
        /\ \A i, j \in S : i # j => <<i, j>> \in R \/ <<j, i>> \in R
    OBVIOUS
  <2>2. PICK x \in S : Cardinality({j \in S : <<j, x>> \in R}) = 1 - 1
    <3>1. 1 \in 1..Cardinality(S)
      BY <1>1
    <3> HIDE DEF R
    <3>2. \A k \in 1..Cardinality(S) : \E i \in S : Cardinality({j \in S : <<j, i>> \in R}) = k - 1
      BY <2>1, Ranks
    <3> QED
      BY <3>1, <3>2
  <2>3. {j \in S : <<j, x>> \in R} = {}
    <3>1. IsFiniteSet({j \in S : <<j, x>> \in R})
      BY FS_Subset
    <3> QED
      BY <2>2, <3>1, FS_EmptySet
  <2>4. ASSUME NEW y \in S PROVE x <= y
    <3>1. <<y, x>> \notin R
      BY <2>3
    <3>2. ~(y < x)
      BY <3>1
    <3> QED
      BY <3>2
  <2> QED
    BY <2>4
<1> QED
  BY <1>2, <1>3 DEF Max, Min

-----------------------------------------------------------------------------
(* The levels of the bots *)

Heroes == [level : Levels, exp : Nat, hp : 0..MaxHp, tier : Nat, trades : Nat, wins : Nat,
           losses : Nat, streak : Nat, best : Nat, retired : BOOLEAN]

\* A level is paid for, and no higher one is.
LevelPaid(level, exp) ==
    /\ level = 1 \/ Requirement[level] <= exp
    /\ \A l \in Levels : l > level => exp < Requirement[l]

HeroFits(s) ==
    /\ s \in Heroes /\ LevelPaid(s.level, s.exp) /\ s.tier <= TierOf[s.level]
    /\ s.wins <= s.trades /\ s.streak <= s.wins /\ s.best <= s.wins

\* What the file has are states as good as those in memory, and the milestones of
\* all rewards that were granted: the only place that grants one saves at once.
RpgIInv ==
    /\ DOMAIN rvStates = RpgBots /\ DOMAIN rvFile.states = RpgBots
    /\ rvFile = [states |-> rvFile.states, milestones |-> rvMilestones]
    /\ \A b \in RpgBots : /\ rvStates[b] # Unknown => HeroFits(rvStates[b])
                          /\ rvFile.states[b] # Unknown => HeroFits(rvFile.states[b])
    /\ rvMilestones \subseteq RpgBots \X Levels
    /\ rvGranted \in [RpgBots \X Rewarded -> {0, 1}]
    /\ \A x \in RpgBots \X Rewarded : rvGranted[x] = 1 => x \in rvMilestones

LEMMA LevelsKnown ==
    /\ Levels \in SUBSET (Nat \ {0}) /\ IsFiniteSet(Levels) /\ 1 \in Levels
    /\ \A l \in Levels : Requirement[l] \in Nat /\ TierOf[l] \in Nat
    /\ \A l, m \in Levels : l <= m => TierOf[l] <= TierOf[m]
<1>1. /\ Requirement \in Seq(Nat) /\ Requirement # <<>> /\ TierOf \in [DOMAIN Requirement -> Nat]
      /\ \A l, m \in DOMAIN Requirement : l <= m => TierOf[l] <= TierOf[m]
  BY RpgAssumption
<1>2. Len(Requirement) \in Nat \ {0} /\ DOMAIN Requirement = 1..Len(Requirement)
  BY <1>1
<1>3. \A l \in DOMAIN Requirement : Requirement[l] \in Nat
  BY <1>1
<1>4. IsFiniteSet(1..Len(Requirement))
  BY <1>2, FS_Interval
<1> QED
  BY <1>1, <1>2, <1>3, <1>4 DEF Levels

LEMMA LevelIsPaid ==
    ASSUME NEW exp \in Nat
    PROVE  /\ LevelFor(exp) \in Levels /\ LevelPaid(LevelFor(exp), exp)
           /\ \A l \in Levels : LevelPaid(l, exp) => l <= LevelFor(exp)
           /\ \A l \in Levels : l = 1 \/ Requirement[l] <= exp => l <= LevelFor(exp)
<1> DEFINE paid == {1} \cup {l \in Levels : exp >= Requirement[l]}
<1>1. paid \in SUBSET Levels /\ paid \in SUBSET Int /\ paid # {}
  <2>1. paid \in SUBSET Levels /\ 1 \in paid
    BY LevelsKnown
  <2>2. Levels \in SUBSET Int
    BY LevelsKnown
  <2> HIDE DEF paid
  <2> QED
    BY <2>1, <2>2
<1>2. IsFiniteSet(paid)
  BY <1>1, LevelsKnown, FS_Subset
<1>3. Max(paid) \in paid /\ \A l \in paid : Max(paid) >= l
  <2> HIDE DEF paid
  <2> QED
    BY <1>1, <1>2, Extremes
<1>4. LevelFor(exp) = Max(paid)
  BY DEF LevelFor
<1>5. PICK m \in Levels : m = Max(paid) /\ m \in paid /\ \A l \in paid : m >= l
  <2> HIDE DEF paid
  <2> QED
    BY <1>1, <1>3
<1>6. LevelPaid(m, exp)
  BY <1>5, LevelsKnown DEF LevelPaid
<1>7. \A l \in Levels : l = 1 \/ Requirement[l] <= exp => l <= m
  BY <1>5, LevelsKnown
<1>8. \A l \in Levels : LevelPaid(l, exp) => l <= m
  BY <1>7 DEF LevelPaid
<1> HIDE DEF paid
<1> QED
  BY <1>4, <1>5, <1>6, <1>7, <1>8

LEMMA HpFits ==
    ASSUME NEW s \in Heroes, NEW change \in Int
    PROVE  Hp(s, change) \in 0..MaxHp
<1>1. s.hp \in 0..MaxHp /\ MaxHp \in Nat
  BY RpgAssumption DEF Heroes
<1> QED
  BY <1>1 DEF Hp

LEMMA NewHeroFits == HeroFits(NewHero)
<1>1. NewHero \in Heroes
  BY LevelsKnown, RpgAssumption DEF NewHero, Heroes
<1>2. LevelPaid(1, 0)
  BY RpgAssumption DEF LevelPaid, Levels
<1> QED
  BY <1>1, <1>2, LevelsKnown DEF NewHero, HeroFits

\* Experience changes the level to the one it pays for; with more of it the level
\* is no lower.
LEMMA ExperienceFits ==
    ASSUME NEW s, HeroFits(s), NEW gain \in Int
    PROVE  LET e == Experienced(s, gain)
           IN  /\ e \in Heroes /\ LevelPaid(e.level, e.exp)
               /\ e.trades = s.trades /\ e.wins = s.wins /\ e.streak = s.streak /\ e.best = s.best
               /\ e.tier = s.tier /\ e.hp = s.hp /\ e.losses = s.losses /\ e.retired = s.retired
               /\ gain >= 0 => s.level <= e.level
<1> DEFINE exp == IF s.exp + gain < 0 THEN 0 ELSE s.exp + gain
<1>1. s \in Heroes /\ s.exp \in Nat /\ s.level \in Levels /\ LevelPaid(s.level, s.exp)
  BY DEF HeroFits, Heroes
<1>2. exp \in Nat /\ (gain >= 0 => s.exp <= exp)
  BY <1>1
<1>3. Experienced(s, gain) = [s EXCEPT !.exp = exp, !.level = LevelFor(exp)]
  BY DEF Experienced
<1>4. LevelFor(exp) \in Levels /\ LevelPaid(LevelFor(exp), exp)
  <2> HIDE DEF exp
  <2> QED
    BY <1>2, LevelIsPaid
<1>5. gain >= 0 => s.level <= LevelFor(exp)
  <2>1. gain >= 0 => s.level = 1 \/ Requirement[s.level] <= exp
    <3>1. s.level = 1 \/ (Requirement[s.level] <= s.exp /\ Requirement[s.level] \in Nat)
      BY <1>1, LevelsKnown DEF LevelPaid
    <3> HIDE DEF exp
    <3> QED
      BY <1>1, <1>2, <3>1
  <2>2. \A l \in Levels : l = 1 \/ Requirement[l] <= exp => l <= LevelFor(exp)
    <3> HIDE DEF exp
    <3> QED
      BY <1>2, LevelIsPaid
  <2> HIDE DEF exp
  <2> QED
    BY <1>1, <2>1, <2>2
<1> HIDE DEF exp
<1>6. [s EXCEPT !.exp = exp, !.level = LevelFor(exp)] \in Heroes
  BY <1>1, <1>2, <1>4 DEF Heroes
<1> QED
  BY <1>1, <1>3, <1>4, <1>5, <1>6 DEF Heroes

LEMMA RpgInitHolds == RpgInit => RpgIInv
  BY DEF RpgInit, RpgIInv

LEMMA StateFits == ASSUME RpgIInv, NEW b \in RpgBots PROVE HeroFits(StateOf(b))
  BY NewHeroFits DEF RpgIInv, StateOf

LEMMA TradeFits ==
    ASSUME RpgIInv, NEW b \in RpgBots, NEW r \in TradeResults, TradeUpdate(b, r)
    PROVE  RpgIInv'
<1> DEFINE s == StateOf(b)
           streak == IF r.win THEN s.streak + 1 ELSE 0
           after == Experienced(s, r.exp)
           hp == Hp(s, r.hp + IF r.win THEN StreakBonus(streak) ELSE 0)
           new == [after EXCEPT !.trades = s.trades + 1, !.wins = s.wins + IF r.win THEN 1 ELSE 0,
                                !.losses = s.losses + IF r.win THEN 0 ELSE 1, !.streak = streak,
                                !.best = IF streak > s.best THEN streak ELSE s.best,
                                !.hp = hp, !.tier = TierOf[after.level],
                                !.retired = s.retired \/ hp = 0]
<1>1. r.win \in BOOLEAN /\ r.hp \in Int /\ r.exp \in Int
  BY RpgAssumption
<1>2. HeroFits(s)
  BY StateFits
<1>3. /\ s \in Heroes /\ s.trades \in Nat /\ s.wins \in Nat /\ s.losses \in Nat /\ s.streak \in Nat
      /\ s.best \in Nat /\ s.retired \in BOOLEAN
      /\ s.wins <= s.trades /\ s.streak <= s.wins /\ s.best <= s.wins
  <2> HIDE DEF s
  <2> QED
    BY <1>2 DEF HeroFits, Heroes
<1>4. after \in Heroes /\ LevelPaid(after.level, after.exp)
  <2> HIDE DEF s
  <2> QED
    BY <1>1, <1>2, ExperienceFits
<1>5. streak \in Nat /\ (r.win => streak <= s.wins + 1) /\ (~r.win => streak <= s.wins)
  <2> HIDE DEF s
  <2> QED
    BY <1>1, <1>3
<1>6. hp \in 0..MaxHp
  <2>1. (r.hp + IF r.win THEN StreakBonus(streak) ELSE 0) \in Int
    <3> HIDE DEF streak
    <3> QED
      BY <1>1, <1>5 DEF StreakBonus
  <2> HIDE DEF s, streak
  <2> QED
    BY <1>3, <2>1, HpFits
<1>7. TierOf[after.level] \in Nat
  <2> HIDE DEF after
  <2> QED
    BY <1>4, LevelsKnown DEF Heroes
<1>8. HeroFits(new)
  <2>1. new \in Heroes
    <3> DEFINE wins == s.wins + IF r.win THEN 1 ELSE 0
               losses == s.losses + IF r.win THEN 0 ELSE 1
               best == IF streak > s.best THEN streak ELSE s.best
               gone == s.retired \/ hp = 0
    <3>1. wins \in Nat /\ losses \in Nat /\ best \in Nat /\ s.trades + 1 \in Nat
      <4> HIDE DEF s, streak
      <4> QED
        BY <1>1, <1>3, <1>5
    <3>2. gone \in BOOLEAN
      OBVIOUS
    <3>3. new = [after EXCEPT !.trades = s.trades + 1, !.wins = wins, !.losses = losses, !.streak = streak,
                              !.best = best, !.hp = hp, !.tier = TierOf[after.level], !.retired = gone]
      OBVIOUS
    <3> HIDE DEF s, streak, after, hp, wins, losses, best, gone, new
    <3> QED
      BY <1>4, <1>5, <1>6, <1>7, <3>1, <3>2, <3>3 DEF Heroes
  <2>2. /\ new.level = after.level /\ new.exp = after.exp /\ new.tier = TierOf[after.level]
        /\ new.trades = s.trades + 1 /\ new.wins = s.wins + (IF r.win THEN 1 ELSE 0)
        /\ new.streak = streak /\ new.best = IF streak > s.best THEN streak ELSE s.best
    <3> HIDE DEF s, streak, after, hp
    <3> QED
      BY <1>4 DEF Heroes
  <2>3. new.wins <= new.trades /\ new.streak <= new.wins /\ new.best <= new.wins
    <3> HIDE DEF s, streak, after, hp, new
    <3> QED
      BY <1>1, <1>3, <1>5, <2>2
  <2>4. new.tier <= TierOf[new.level]
    <3> HIDE DEF s, streak, after, hp, new
    <3> QED
      BY <1>7, <2>2
  <2> HIDE DEF s, streak, after, hp, new
  <2> QED
    BY <1>4, <2>1, <2>2, <2>3, <2>4 DEF HeroFits
<1>9. rvStates' = [rvStates EXCEPT ![b] = new] /\ UNCHANGED <<rvMilestones, rvFile, rvGranted>>
  BY DEF TradeUpdate
<1> HIDE DEF s, streak, after, hp, new
<1> QED
  BY <1>8, <1>9 DEF RpgIInv

LEMMA DailyFits ==
    ASSUME NEW s, HeroFits(s), NEW profit \in DailyProfits
    PROVE  HeroFits(DailySettled(s, profit))
<1> DEFINE e == IF profit > 0 THEN Experienced(s, profit * DayExp) ELSE s
           hp == IF profit >= 5 THEN Hp(s, 15) ELSE IF profit <= -5 THEN Hp(s, -15) ELSE s.hp
<1>1. profit \in Int /\ DayExp \in Nat /\ profit * DayExp \in Int /\ (profit > 0 => profit * DayExp >= 0)
  BY RpgAssumption
<1>2. s \in Heroes /\ s.hp \in 0..MaxHp /\ s.level \in Levels /\ s.tier \in Nat
  BY DEF HeroFits, Heroes
<1>3. /\ e \in Heroes /\ LevelPaid(e.level, e.exp) /\ s.level <= e.level /\ e.tier = s.tier
      /\ e.trades = s.trades /\ e.wins = s.wins /\ e.streak = s.streak /\ e.best = s.best
  <2>1. CASE profit > 0
    BY <1>1, <2>1, ExperienceFits
  <2>2. CASE ~(profit > 0)
    <3>0. \A l \in Levels : l \in Nat
      BY LevelsKnown
    <3>1. s.level <= s.level
      BY <1>2, <3>0
    <3> QED
      BY <2>2, <3>1 DEF HeroFits
  <2> QED
    BY <2>1, <2>2
<1>4. hp \in 0..MaxHp
  BY <1>2, HpFits
<1>5. e.tier <= TierOf[e.level]
  <2>1. e.level \in Levels
    <3> HIDE DEF e
    <3> QED
      BY <1>3 DEF Heroes
  <2>2. TierOf[s.level] <= TierOf[e.level] /\ TierOf[s.level] \in Nat /\ TierOf[e.level] \in Nat
    <3> HIDE DEF e
    <3> QED
      BY <1>2, <1>3, <2>1, LevelsKnown
  <2> HIDE DEF e
  <2> QED
    BY <1>2, <1>3, <2>2 DEF HeroFits
<1>6. DailySettled(s, profit) = [e EXCEPT !.hp = hp]
  BY DEF DailySettled
<1> HIDE DEF e, hp
<1>7. [e EXCEPT !.hp = hp] \in Heroes
  BY <1>3, <1>4 DEF Heroes
<1>8. LET d == [e EXCEPT !.hp = hp]
      IN  /\ d.level = e.level /\ d.exp = e.exp /\ d.tier = e.tier /\ d.trades = e.trades
          /\ d.wins = e.wins /\ d.streak = e.streak /\ d.best = e.best
  BY <1>3 DEF Heroes
<1> QED
  BY <1>3, <1>5, <1>6, <1>7, <1>8 DEF HeroFits

LEMMA LoadedFits ==
    ASSUME NEW s, HeroFits(s)
    PROVE  HeroFits(HeroLoaded(s))
<1>1. s \in Heroes /\ s # Unknown
  <2>1. s \in Heroes /\ s.level # 0
    BY LevelsKnown DEF HeroFits, Heroes
  <2> QED
    BY <2>1 DEF Unknown
<1>2. HeroLoaded(s) = [NewHero EXCEPT !.level = s.level, !.exp = s.exp, !.hp = s.hp, !.trades = s.trades,
                                      !.wins = s.wins, !.tier = TierOf[s.level]]
  BY <1>1 DEF HeroLoaded
<1>3. NewHero \in Heroes /\ NewHero.streak = 0 /\ NewHero.best = 0
  BY NewHeroFits DEF HeroFits, NewHero
<1>4. TierOf[s.level] \in Nat
  BY <1>1, LevelsKnown DEF Heroes
<1>5. HeroLoaded(s) \in Heroes
  BY <1>1, <1>2, <1>3, <1>4 DEF Heroes
<1>6. LET h == HeroLoaded(s)
      IN  /\ h.level = s.level /\ h.exp = s.exp /\ h.tier = TierOf[s.level] /\ h.trades = s.trades
          /\ h.wins = s.wins /\ h.streak = 0 /\ h.best = 0
  BY <1>2, <1>3 DEF Heroes
<1>7. s.wins \in Nat
  BY <1>1 DEF Heroes
<1> QED
  BY <1>4, <1>5, <1>6, <1>7 DEF HeroFits

LEMMA SettledDayFits ==
    ASSUME RpgIInv, NEW b \in RpgBots, NEW p \in DailyProfits, UpdateDaily(b, p)
    PROVE  RpgIInv'
<1> DEFINE s == DailySettled(StateOf(b), p)
<1>1. HeroFits(s)
  BY StateFits, DailyFits
<1>2. s.level \in Levels
  <2> HIDE DEF s
  <2> QED
    BY <1>1 DEF HeroFits, Heroes
<1>3. /\ rvStates' = [rvStates EXCEPT ![b] = s]
      /\ rvMilestones' = rvMilestones \cup {<<b, s.level>>}
      /\ rvGranted' = [x \in DOMAIN rvGranted |->
              rvGranted[x] + IF x = <<b, s.level>> /\ x \notin rvMilestones THEN 1 ELSE 0]
      /\ rvFile' = [states |-> rvStates', milestones |-> rvMilestones']
  BY DEF UpdateDaily, Milestoned
<1> HIDE DEF s
<1>4. /\ DOMAIN rvStates' = RpgBots
      /\ \A c \in RpgBots : rvStates'[c] # Unknown => HeroFits(rvStates'[c])
  BY <1>1, <1>3 DEF RpgIInv
<1>5. rvFile'.states = rvStates' /\ rvFile'.milestones = rvMilestones'
  BY <1>3
<1>6. rvMilestones' \subseteq RpgBots \X Levels
  BY <1>2, <1>3 DEF RpgIInv
<1>7. ASSUME NEW x \in RpgBots \X Rewarded
      PROVE  rvGranted'[x] \in {0, 1} /\ (rvGranted'[x] = 1 => x \in rvMilestones')
  <2>1. /\ rvGranted'[x] = rvGranted[x] + IF x = <<b, s.level>> /\ x \notin rvMilestones THEN 1 ELSE 0
        /\ rvGranted[x] \in {0, 1} /\ (rvGranted[x] = 1 => x \in rvMilestones)
    BY <1>3 DEF RpgIInv
  <2>2. CASE x = <<b, s.level>> /\ x \notin rvMilestones
    BY <1>3, <2>1, <2>2
  <2>3. CASE ~(x = <<b, s.level>> /\ x \notin rvMilestones)
    BY <1>3, <2>1, <2>3
  <2> QED
    BY <2>2, <2>3
<1>8. rvGranted' \in [RpgBots \X Rewarded -> {0, 1}]
  BY <1>3, <1>7 DEF RpgIInv
<1> QED
  BY <1>3, <1>4, <1>5, <1>6, <1>7, <1>8 DEF RpgIInv

LEMMA RpgStep == RpgIInv /\ [RpgNext]_rvVars => RpgIInv'
<1> SUFFICES ASSUME RpgIInv, [RpgNext]_rvVars PROVE RpgIInv'
  OBVIOUS
<1>1. CASE UNCHANGED rvVars
  BY <1>1 DEF rvVars, RpgIInv
<1>2. ASSUME NEW b \in RpgBots, NEW r \in TradeResults, TradeUpdate(b, r) PROVE RpgIInv'
  BY <1>2, TradeFits
<1>3. ASSUME NEW b \in RpgBots, NEW p \in DailyProfits, UpdateDaily(b, p) PROVE RpgIInv'
  BY <1>3, SettledDayFits
<1>4. ASSUME NEW b \in RpgBots, IdlePenalty(b) PROVE RpgIInv'
  <2>1. HeroFits(rvStates[b]) /\ rvStates[b] \in Heroes
    BY <1>4 DEF IdlePenalty, RpgIInv, HeroFits
  <2> DEFINE new == [rvStates[b] EXCEPT !.hp = Hp(rvStates[b], -3)]
  <2>2. Hp(rvStates[b], -3) \in 0..MaxHp
    BY <2>1, HpFits
  <2>3. new \in Heroes
    BY <2>1, <2>2 DEF Heroes
  <2>4. HeroFits(new)
    BY <2>1, <2>3 DEF HeroFits, Heroes
  <2>5. rvStates' = [rvStates EXCEPT ![b] = new] /\ UNCHANGED <<rvMilestones, rvFile, rvGranted>>
    BY <1>4 DEF IdlePenalty
  <2> HIDE DEF new
  <2> QED
    BY <2>4, <2>5 DEF RpgIInv
<1>5. CASE RpgRestarts
  <2>1. /\ rvStates' = [b \in RpgBots |-> HeroLoaded(rvFile.states[b])]
        /\ rvMilestones' = rvFile.milestones /\ rvFile' = rvFile /\ rvGranted' = rvGranted
    BY <1>5 DEF RpgRestarts
  <2>2. rvFile.milestones = rvMilestones
    BY DEF RpgIInv
  <2>3. ASSUME NEW b \in RpgBots, rvStates'[b] # Unknown PROVE HeroFits(rvStates'[b])
    <3>1. rvFile.states[b] # Unknown
      BY <2>1, <2>3 DEF HeroLoaded
    <3>2. HeroFits(HeroLoaded(rvFile.states[b]))
      BY <3>1, LoadedFits DEF RpgIInv
    <3> QED
      BY <2>1, <3>2
  <2> QED
    BY <2>1, <2>2, <2>3 DEF RpgIInv
<1> QED
  BY <1>1, <1>2, <1>3, <1>4, <1>5 DEF RpgNext

LEMMA RpgHolds == RpgIInv => TierNotAhead /\ GrantedOnce /\ RpgTypeOK
<1> SUFFICES ASSUME RpgIInv PROVE TierNotAhead /\ GrantedOnce /\ RpgTypeOK
  OBVIOUS
<1>1. TierNotAhead
  BY DEF RpgIInv, HeroFits, LevelPaid, TierNotAhead
<1>2. GrantedOnce
  <2>1. \A x \in DOMAIN rvGranted : rvGranted[x] \in {0, 1}
    BY DEF RpgIInv
  <2> QED
    BY <2>1 DEF GrantedOnce
<1>3. RpgTypeOK
  BY DEF RpgIInv, HeroFits, Heroes, RpgTypeOK
<1> QED
  BY <1>1, <1>2, <1>3

\* A bot's level is the highest one its experience pays for, over trades, days and
\* restarts, its tier is not above it, and no level's reward is granted twice,
\* whatever a restart forgets (rpg_system_v2.py).
THEOREM LevelsAreEarned == RpgSpec => [](TierNotAhead /\ GrantedOnce)
<1>1. RpgIInv => TierNotAhead /\ GrantedOnce
  BY RpgHolds
<1> QED
  BY RpgInitHolds, RpgStep, <1>1, PTL DEF RpgSpec

-----------------------------------------------------------------------------
(* The votes of the agents *)

\* What every result has: the votes of enough agents, a signal that no other
\* decision outvotes, and the agreement on it.
ResultSound(r) ==
    /\ DOMAIN r.votes \in SUBSET Voters /\ Quorum <= Cardinality(DOMAIN r.votes)
    /\ \A a \in DOMAIN r.votes : r.votes[a].decision \in Decisions
    /\ r.signal \in Decisions
    /\ \A d \in Decisions : Cardinality(VotersFor(r.votes, d)) <= Cardinality(VotersFor(r.votes, r.signal))
    /\ r.strength = "strong" => 8500 <= Agreement(r.votes, r.signal)

ConsensusIInv ==
    /\ acOrder \in Seq(Voters)
    /\ acVotes \in [Voters -> Seq([decision : Decisions, confidence : Confidences])]
    /\ \A a \in Voters : acVotes[a] # <<>> => \E i \in DOMAIN acOrder : acOrder[i] = a
    /\ \E S : acResults \in Seq(S)
    /\ \A i \in DOMAIN acResults : ResultSound(acResults[i])

LEMMA VotersFinite == IsFiniteSet(Voters) /\ DefaultAgents \in Seq(Voters)
<1>1. DefaultAgents \in Seq(ToSet(DefaultAgents)) /\ IsFiniteSet(Strangers)
  BY ConsensusAssumption
<1>2. IsFiniteSet(ToSet(DefaultAgents))
  <2> DEFINE T == ToSet(DefaultAgents)
             f == [i \in 1..Len(DefaultAgents) |-> DefaultAgents[i]]
  <2>1. Len(DefaultAgents) \in Nat /\ DOMAIN DefaultAgents = 1..Len(DefaultAgents)
    BY <1>1
  <2>2. T = {f[i] : i \in 1..Len(DefaultAgents)}
    BY <2>1 DEF ToSet
  <2>3. f \in Surjection(1..Len(DefaultAgents), T)
    BY <2>2 DEF Surjection
  <2>4. IsFiniteSet(1..Len(DefaultAgents))
    BY <2>1, FS_Interval
  <2> HIDE DEF f, T
  <2>5. IsFiniteSet(T)
    BY <2>3, <2>4, FS_Surjection
  <2> QED
    BY <2>5 DEF T
<1>3. IsFiniteSet(Voters)
  BY <1>1, <1>2, FS_Union DEF Voters
<1>4. ToSet(DefaultAgents) \in SUBSET Voters
  BY DEF Voters
<1>5. DefaultAgents \in Seq(Voters)
  BY <1>1, <1>4
<1> QED
  BY <1>3, <1>5

\* The voters for one decision and those for another are different ones.
LEMMA VotersApart ==
    ASSUME NEW votes, DOMAIN votes \in SUBSET Voters, NEW d, NEW e, d # e
    PROVE  /\ Cardinality(DOMAIN votes) \in Nat
           /\ Cardinality(VotersFor(votes, d)) \in Nat /\ Cardinality(VotersFor(votes, e)) \in Nat
           /\ Cardinality(VotersFor(votes, d)) + Cardinality(VotersFor(votes, e)) <= Cardinality(DOMAIN votes)
<1> DEFINE D == DOMAIN votes
           A == VotersFor(votes, d)
           B == VotersFor(votes, e)
<1>1. IsFiniteSet(D)
  BY VotersFinite, FS_Subset
<1>2. A \in SUBSET D /\ B \in SUBSET D /\ A \cap B = {} /\ (A \cup B) \in SUBSET D
  BY DEF VotersFor
<1> HIDE DEF A, B, D
<1>3. IsFiniteSet(A) /\ IsFiniteSet(B) /\ IsFiniteSet(A \cup B)
  BY <1>1, <1>2, FS_Subset
<1>4. Cardinality(A \cup B) = Cardinality(A) + Cardinality(B) - 0
  BY <1>2, <1>3, FS_Union, FS_EmptySet
<1>5. Cardinality(A \cup B) <= Cardinality(D)
  BY <1>1, <1>2, FS_Subset
<1>6. Cardinality(A) \in Nat /\ Cardinality(B) \in Nat /\ Cardinality(D) \in Nat
  BY <1>1, <1>3, FS_CardinalityType
<1> QED
  BY <1>4, <1>5, <1>6 DEF A, B, D

LEMMA VotersCounted ==
    ASSUME NEW votes, DOMAIN votes \in SUBSET Voters, NEW d
    PROVE  /\ IsFiniteSet(DOMAIN votes) /\ Cardinality(DOMAIN votes) \in Nat
           /\ VotersFor(votes, d) \in SUBSET DOMAIN votes /\ IsFiniteSet(VotersFor(votes, d))
           /\ Cardinality(VotersFor(votes, d)) \in 0..Cardinality(DOMAIN votes)
<1>1. IsFiniteSet(DOMAIN votes)
  BY VotersFinite, FS_Subset
<1>2. VotersFor(votes, d) \in SUBSET DOMAIN votes
  BY DEF VotersFor
<1>3. IsFiniteSet(VotersFor(votes, d)) /\ Cardinality(VotersFor(votes, d)) <= Cardinality(DOMAIN votes)
  BY <1>1, <1>2, FS_Subset
<1>4. Cardinality(VotersFor(votes, d)) \in Nat /\ Cardinality(DOMAIN votes) \in Nat
  BY <1>1, <1>3, FS_CardinalityType
<1> QED
  BY <1>1, <1>2, <1>3, <1>4

\* Some voter's decision has no fewer votes than any other.
LEMMA SomeMajority ==
    ASSUME NEW votes, DOMAIN votes \in SUBSET Voters, DOMAIN votes # {},
           \A a \in DOMAIN votes : votes[a].decision \in Decisions
    PROVE  \E a \in DOMAIN votes : \A e \in Decisions :
               Cardinality(VotersFor(votes, votes[a].decision)) >= Cardinality(VotersFor(votes, e))
<1> DEFINE count(d) == Cardinality(VotersFor(votes, d))
           counts == {count(votes[a].decision) : a \in DOMAIN votes}
           n == Cardinality(DOMAIN votes)
<1>1. n \in Nat /\ \A d : count(d) \in 0..n
  BY VotersCounted
<1>2. counts \in SUBSET (0..n) /\ counts # {}
  BY <1>1
<1>3. IsFiniteSet(0..n) /\ (0..n) \in SUBSET Int
  BY <1>1, FS_Interval
<1> HIDE DEF n
<1>4. IsFiniteSet(counts) /\ counts \in SUBSET Int
  <2> HIDE DEF counts
  <2> QED
    BY <1>2, <1>3, FS_Subset
<1>5. Max(counts) \in counts /\ \A y \in counts : Max(counts) >= y
  <2> HIDE DEF counts
  <2> QED
    BY <1>2, <1>4, Extremes
<1>6. PICK a \in DOMAIN votes : count(votes[a].decision) = Max(counts)
  BY <1>5
<1>7. ASSUME NEW e \in Decisions PROVE count(votes[a].decision) >= count(e)
  <2>1. CASE \E b \in DOMAIN votes : votes[b].decision = e
    <3>1. count(e) \in counts
      BY <2>1
    <3> HIDE DEF counts, count
    <3> QED
      BY <1>5, <1>6, <3>1
  <2>2. CASE ~\E b \in DOMAIN votes : votes[b].decision = e
    <3>1. VotersFor(votes, e) = {}
      BY <2>2 DEF VotersFor
    <3>2. count(e) = 0
      BY <3>1, FS_EmptySet
    <3>3. count(votes[a].decision) \in 0..n
      BY <1>1
    <3> HIDE DEF counts, count
    <3> QED
      BY <1>1, <3>2, <3>3
  <2> QED
    BY <2>1, <2>2
<1> QED
  BY <1>7

\* The votes that stand are of agents in the order, and the majority is one that
\* no decision outvotes.
LEMMA MajorityLeads ==
    ASSUME ConsensusIInv, DOMAIN Current # {}
    PROVE  /\ DOMAIN Current \in SUBSET Voters
           /\ \A a \in DOMAIN Current : Current[a].decision \in Decisions
           /\ Majority(Current) \in Decisions
           /\ \A d \in Decisions : Cardinality(VotersFor(Current, d))
                                       <= Cardinality(VotersFor(Current, Majority(Current)))
<1> DEFINE votes == Current
           most(d) == \A e \in Decisions : Cardinality(VotersFor(votes, d)) >= Cardinality(VotersFor(votes, e))
           places == {i \in DOMAIN acOrder : acOrder[i] \in DOMAIN votes /\ most(votes[acOrder[i]].decision)}
<1>1. /\ DOMAIN votes = {b \in Voters : acVotes[b] # <<>>}
      /\ \A a \in DOMAIN votes : votes[a] = Last(acVotes[a])
  BY DEF Current
<1>2. \A a \in DOMAIN votes : votes[a].decision \in Decisions
  <2> SUFFICES ASSUME NEW a \in DOMAIN votes PROVE votes[a].decision \in Decisions
    OBVIOUS
  <2>1. acVotes[a] \in Seq([decision : Decisions, confidence : Confidences]) /\ acVotes[a] # <<>>
    BY <1>1 DEF ConsensusIInv
  <2>2. Last(acVotes[a]) \in [decision : Decisions, confidence : Confidences]
    <3> DEFINE V == [decision : Decisions, confidence : Confidences]
    <3>1. \A u \in Seq(V) : u # <<>> => u[Len(u)] \in V
      <4> HIDE DEF V
      <4> QED
        OBVIOUS
    <3> QED
      BY <2>1, <3>1 DEF Last
  <2> HIDE DEF votes
  <2> QED
    BY <1>1, <2>2
<1>3. DOMAIN votes \in SUBSET Voters /\ DOMAIN votes # {}
  BY <1>1
<1> HIDE DEF votes
<1>4. PICK a \in DOMAIN votes : most(votes[a].decision)
  BY <1>2, <1>3, SomeMajority
<1>5. PICK i \in DOMAIN acOrder : acOrder[i] = a
  BY <1>1 DEF ConsensusIInv
<1>6. i \in places
  BY <1>4, <1>5
<1>7. IsFiniteSet(places) /\ places \in SUBSET Int
  <2>1. Len(acOrder) \in Nat /\ DOMAIN acOrder = 1..Len(acOrder)
    BY DEF ConsensusIInv
  <2>2. places \in SUBSET (1..Len(acOrder))
    <3> HIDE DEF most
    <3> QED
      BY <2>1
  <2> HIDE DEF places
  <2>3. IsFiniteSet(places)
    <3>1. IsFiniteSet(1..Len(acOrder))
      BY <2>1, FS_Interval
    <3> QED
      BY <2>2, <3>1, FS_Subset
  <2>4. (1..Len(acOrder)) \in SUBSET Int
    BY <2>1
  <2> QED
    BY <2>2, <2>3, <2>4
<1>8. Min(places) \in places
  <2> HIDE DEF places
  <2> QED
    BY <1>6, <1>7, Extremes
<1>9. Majority(votes) = votes[acOrder[Min(places)]].decision
  BY DEF Majority
<1>10. acOrder[Min(places)] \in DOMAIN votes /\ most(votes[acOrder[Min(places)]].decision)
  BY <1>8
<1>11. Majority(votes) \in Decisions /\ most(Majority(votes))
  <2> HIDE DEF places, most
  <2> QED
    BY <1>2, <1>9, <1>10
<1>12. \A d : Cardinality(VotersFor(votes, d)) \in Int
  BY <1>3, VotersCounted
<1>13. \A d \in Decisions : Cardinality(VotersFor(votes, d)) <= Cardinality(VotersFor(votes, Majority(votes)))
  BY <1>11, <1>12
<1> QED
  BY <1>2, <1>3, <1>11, <1>13 DEF votes

LEMMA ConsensusInitHolds == ConsensusInit => ConsensusIInv
<1> SUFFICES ASSUME ConsensusInit PROVE ConsensusIInv
  OBVIOUS
<1>1. acResults \in Seq({})
  BY DEF ConsensusInit
<1> QED
  BY <1>1, VotersFinite DEF ConsensusInit, ConsensusIInv

LEMMA SameResults ==
    ASSUME ConsensusIInv, acResults' = acResults
    PROVE  (\A i \in DOMAIN acResults : ResultSound(acResults[i]))'
<1>1. \A i \in DOMAIN acResults' : ResultSound(acResults[i])' <=> ResultSound(acResults'[i])
  BY DEF ResultSound, Agreement, VotersFor
<1> QED
  BY <1>1 DEF ConsensusIInv

LEMMA ConsensusStep == ConsensusIInv /\ [ConsensusNext]_acVars => ConsensusIInv'
<1> SUFFICES ASSUME ConsensusIInv, [ConsensusNext]_acVars PROVE ConsensusIInv'
  OBVIOUS
<1>1. CASE UNCHANGED acVars
  <2>1. acOrder' = acOrder /\ acVotes' = acVotes /\ acResults' = acResults
    BY <1>1 DEF acVars
  <2> QED
    BY <2>1, SameResults DEF ConsensusIInv
<1>2. ASSUME NEW a \in Voters, NEW d \in Decisions, NEW c \in Confidences, SubmitVote(a, d, c)
      PROVE  ConsensusIInv'
  <2> DEFINE V == [decision : Decisions, confidence : Confidences]
             votes == Append(acVotes[a], [decision |-> d, confidence |-> c])
             kept == IF Len(votes) > KeepVotes THEN Tail(votes) ELSE votes
  <2>1. votes \in Seq(V) /\ votes # <<>>
    <3>1. acVotes[a] \in Seq(V)
      BY DEF ConsensusIInv
    <3>2. [decision |-> d, confidence |-> c] \in V
      OBVIOUS
    <3> HIDE DEF V
    <3>3. ASSUME NEW u \in Seq(V), NEW e \in V PROVE Append(u, e) \in Seq(V) /\ Append(u, e) # <<>>
      <4>1. Append(u, e) \in Seq(V) /\ Len(Append(u, e)) = Len(u) + 1 /\ Len(u) \in Nat
        OBVIOUS
      <4> QED
        BY <4>1
    <3> QED
      BY <3>1, <3>2, <3>3
  <2>2. kept \in Seq(V)
    <3> HIDE DEF votes, V
    <3> QED
      BY <2>1
  <2>3. /\ acVotes' = [acVotes EXCEPT ![a] = kept] /\ acResults' = acResults
        /\ acOrder' = IF Contains(acOrder, a) THEN acOrder ELSE Append(acOrder, a)
    BY <1>2 DEF SubmitVote
  <2>4. acOrder' \in Seq(Voters)
    BY <2>3 DEF ConsensusIInv
  <2>5. \E i \in DOMAIN acOrder' : acOrder'[i] = a
    <3>1. acOrder \in Seq(Voters) /\ DOMAIN acOrder = 1..Len(acOrder)
      BY DEF ConsensusIInv
    <3>2. CASE Contains(acOrder, a)
      BY <2>3, <3>1, <3>2 DEF Contains
    <3>3. CASE ~Contains(acOrder, a)
      <4>1. acOrder' = Append(acOrder, a)
        BY <2>3, <3>3
      <4>2. Len(acOrder) + 1 \in DOMAIN acOrder' /\ acOrder'[Len(acOrder) + 1] = a
        BY <3>1, <4>1
      <4> QED
        BY <4>2
    <3> QED
      BY <3>2, <3>3
  <2>6. ASSUME NEW b \in Voters, acVotes[b] # <<>> PROVE \E i \in DOMAIN acOrder' : acOrder'[i] = b
    <3>1. PICK i \in DOMAIN acOrder : acOrder[i] = b
      BY <2>6 DEF ConsensusIInv
    <3>2. acOrder \in Seq(Voters)
      BY DEF ConsensusIInv
    <3>3. i \in DOMAIN acOrder' /\ acOrder'[i] = b
      BY <2>3, <3>1, <3>2
    <3> QED
      BY <3>3
  <2>7. acVotes' \in [Voters -> Seq(V)]
    <3> HIDE DEF kept
    <3> QED
      BY <2>2, <2>3 DEF ConsensusIInv
  <2>8. ASSUME NEW b \in Voters, acVotes'[b] # <<>> PROVE \E i \in DOMAIN acOrder' : acOrder'[i] = b
    <3>1. CASE b = a
      BY <2>5, <3>1
    <3>2. CASE b # a
      <4>1. acVotes'[b] = acVotes[b]
        <5> HIDE DEF kept
        <5> QED
          BY <2>3, <3>2 DEF ConsensusIInv
      <4> QED
        BY <2>6, <2>8, <4>1
    <3> QED
      BY <3>1, <3>2
  <2> HIDE DEF kept, votes
  <2> QED
    BY <2>3, <2>4, <2>7, <2>8, SameResults DEF ConsensusIInv
<1>3. CASE CalculateConsensus
  <2> DEFINE signal == Majority(Current)
             agreement == Agreement(Current, signal)
             average == Average(Current)
             r == [signal |-> signal, confidence |-> average, votes |-> Current,
                   agreement |-> agreement, strength |-> Strength(agreement, average)]
  <2>1. /\ Cardinality(DOMAIN Current) >= Quorum /\ acResults' = Append(acResults, r)
        /\ acOrder' = acOrder /\ acVotes' = acVotes
    BY <1>3 DEF CalculateConsensus
  <2>2. DOMAIN Current # {}
    <3>1. Quorum \in Nat \ {0}
      BY ConsensusAssumption
    <3>2. Cardinality(DOMAIN Current) # 0
      BY <2>1, <3>1
    <3> QED
      BY <3>2, FS_EmptySet
  <2>3. /\ r.votes = Current /\ r.signal = Majority(Current)
        /\ r.strength = Strength(Agreement(Current, Majority(Current)), Average(Current))
    OBVIOUS
  <2>4. Cardinality(DOMAIN Current) \in Nat
    BY <2>2, MajorityLeads, VotersCounted
  <2>5. Strength(agreement, average) = "strong" => agreement >= 8500
    BY DEF Strength
  <2>6. 8500 <= agreement <=> agreement >= 8500
    OBVIOUS
  <2> HIDE DEF r
  <2>7. ResultSound(r)
    BY <2>1, <2>2, <2>3, <2>4, <2>5, <2>6, MajorityLeads, ConsensusAssumption DEF ResultSound
  <2>8. PICK S : acResults \in Seq(S)
    BY DEF ConsensusIInv
  <2>9. acResults' \in Seq(S \cup {r})
    <3>1. acResults \in Seq(S \cup {r})
      BY <2>8
    <3> QED
      BY <2>1, <3>1
  <2>10. ASSUME NEW i \in DOMAIN acResults' PROVE ResultSound(acResults'[i])
    <3>1. CASE i \in DOMAIN acResults
      <4>1. acResults'[i] = acResults[i]
        BY <2>1, <2>8, <3>1
      <4> QED
        BY <3>1, <4>1 DEF ConsensusIInv
    <3>2. CASE i \notin DOMAIN acResults
      <4>1. acResults'[i] = r
        BY <2>1, <2>8, <3>2
      <4> QED
        BY <2>7, <4>1
    <3> QED
      BY <3>1, <3>2
  <2>11. \A i \in DOMAIN acResults' : ResultSound(acResults[i])' <=> ResultSound(acResults'[i])
    BY DEF ResultSound, Agreement, VotersFor
  <2> QED
    BY <2>1, <2>9, <2>10, <2>11 DEF ConsensusIInv
<1> QED
  BY <1>1, <1>2, <1>3 DEF ConsensusNext

LEMMA AtLeast ==
    ASSUME NEW a \in Nat, NEW n \in Nat \ {0}, NEW c \in Nat, c <= a \div n
    PROVE  c * n <= a
<1>1. PICK q \in Nat : q = a \div n /\ n * q <= a
  OBVIOUS
<1>2. n * c <= n * q
  BY <1>1
<1> QED
  BY <1>1, <1>2

\* Of those who make a strong consensus of three or more, one changes the vote:
\* the others who voted alike are still more than half of all.
LEMMA StrongStays ==
    ASSUME Quorum > 2, NEW p, NEW q, ResultSound(p), ResultSound(q),
           p.strength = "strong", DOMAIN p.votes = DOMAIN q.votes,
           Cardinality({a \in DOMAIN p.votes : p.votes[a] # q.votes[a]}) <= 1
    PROVE  q.signal = p.signal
<1> SUFFICES ASSUME q.signal # p.signal PROVE FALSE
  OBVIOUS
<1> DEFINE D == DOMAIN p.votes
           A == VotersFor(p.votes, p.signal)
           B == VotersFor(q.votes, p.signal)
           C == VotersFor(q.votes, q.signal)
           changed == {a \in D : p.votes[a] # q.votes[a]}
           n == Cardinality(D)
           x == Cardinality(A)
           y == Cardinality(B)
           z == Cardinality(C)
<1>1. /\ IsFiniteSet(D) /\ n \in Nat /\ n > 2 /\ IsFiniteSet(A) /\ IsFiniteSet(B)
      /\ A \in SUBSET D /\ x \in 0..n /\ y \in 0..n /\ z \in 0..n
  <2>1. D \in SUBSET Voters /\ DOMAIN q.votes \in SUBSET Voters /\ Quorum <= n
    BY DEF ResultSound
  <2>2. IsFiniteSet(D) /\ n \in Nat /\ IsFiniteSet(A) /\ A \in SUBSET D /\ x \in 0..n
    BY <2>1, VotersCounted
  <2>3. IsFiniteSet(B) /\ y \in 0..n /\ z \in 0..n
    BY <2>1, VotersCounted
  <2> HIDE DEF D, A, B, C, n, x, y, z
  <2> QED
    BY <2>1, <2>2, <2>3, ConsensusAssumption
<1>2. y + z <= n /\ y <= z
  BY VotersApart DEF ResultSound
<1>3. x - 1 <= y
  <2>1. changed \in SUBSET D /\ IsFiniteSet(changed)
    BY <1>1, FS_Subset
  <2>2. Cardinality(changed) \in 0..1
    BY <2>1, FS_CardinalityType
  <2>3. (A \ changed) \in SUBSET B
    BY DEF VotersFor
  <2>4. Cardinality(A \ changed) = x - Cardinality(A \cap changed)
    <3> HIDE DEF changed, A
    <3> QED
      BY <1>1, FS_Difference DEF x
  <2>5. Cardinality(A \cap changed) <= Cardinality(changed) /\ IsFiniteSet(A \cap changed)
    <3> HIDE DEF changed, A
    <3> QED
      BY <2>1, FS_Intersection
  <2>6. Cardinality(A \ changed) <= y
    <3> HIDE DEF changed, A, B
    <3> QED
      BY <1>1, <2>3, FS_Subset DEF y
  <2>7. Cardinality(A \cap changed) \in Nat
    BY <2>5, FS_CardinalityType
  <2> HIDE DEF changed, A, B, C, D, x, y, z, n
  <2> QED
    BY <1>1, <2>2, <2>4, <2>5, <2>6, <2>7
<1>4. 8500 * n <= 10000 * x
  <2>1. 8500 <= (10000 * x) \div n
    BY DEF ResultSound, Agreement
  <2> HIDE DEF x, n
  <2> QED
    BY <1>1, <2>1, AtLeast
<1> HIDE DEF A, B, C, D, x, y, z, n
<1> QED
  BY <1>1, <1>2, <1>3, <1>4

\* A strong consensus of a quorum of three or more, four in the code, is not
\* turned round by one agent's change of mind (calculate_consensus).
THEOREM StrongHolds == ASSUME Quorum > 2 PROVE ConsensusSpec => []StrongIsStable
<1>1. ConsensusIInv => StrongIsStable
  <2> SUFFICES ASSUME ConsensusIInv, NEW i \in DOMAIN acResults, NEW j \in DOMAIN acResults,
                      acResults[i].strength = "strong",
                      DOMAIN acResults[i].votes = DOMAIN acResults[j].votes,
                      Cardinality({a \in DOMAIN acResults[i].votes :
                                       acResults[i].votes[a] # acResults[j].votes[a]}) <= 1
               PROVE  acResults[j].signal = acResults[i].signal
    BY DEF StrongIsStable
  <2>1. ResultSound(acResults[i]) /\ ResultSound(acResults[j])
    BY DEF ConsensusIInv
  <2> QED
    BY <2>1, StrongStays
<1> QED
  BY ConsensusInitHolds, ConsensusStep, <1>1, PTL DEF ConsensusSpec

\* What the agents may vote in the code: buy, sell or hold.
KnownDecisions == Decisions \in SUBSET {"buy", "sell", "hold"}

\* Every result foretells one outcome: the three counts the accuracy is made of
\* (get_consensus_accuracy) share the results among them.
THEOREM OutcomesShared == ASSUME KnownDecisions PROVE ConsensusSpec => []OutcomesShareResults
<1>1. ConsensusIInv => OutcomesShareResults
  <2> SUFFICES ASSUME ConsensusIInv PROVE OutcomesShareResults
    OBVIOUS
  <2> DEFINE with(d) == {i \in DOMAIN acResults : acResults[i].signal = d}
  <2>1. PICK S : acResults \in Seq(S)
    BY DEF ConsensusIInv
  <2>2. Len(acResults) \in Nat /\ DOMAIN acResults = 1..Len(acResults)
    BY <2>1
  <2>3. IsFiniteSet(DOMAIN acResults) /\ Cardinality(DOMAIN acResults) = Len(acResults)
    <3>1. IsFiniteSet(1..Len(acResults)) /\ Cardinality(1..Len(acResults)) = Len(acResults)
      BY <2>2, CountTo
    <3> QED
      BY <2>2, <3>1
  <2>4. \A d : IsFiniteSet(with(d)) /\ Cardinality(with(d)) \in Nat
    <3> TAKE d
    <3>1. with(d) \in SUBSET DOMAIN acResults
      OBVIOUS
    <3>2. IsFiniteSet(with(d))
      BY <2>3, <3>1, FS_Subset
    <3> QED
      BY <3>2, FS_CardinalityType
  <2>5. DOMAIN acResults = with("buy") \cup (with("sell") \cup with("hold"))
    <3>1. \A i \in DOMAIN acResults : acResults[i].signal \in {"buy", "sell", "hold"}
      <4>1. \A i \in DOMAIN acResults : acResults[i].signal \in Decisions
        BY DEF ConsensusIInv, ResultSound
      <4> QED
        BY <4>1 DEF KnownDecisions
    <3> QED
      BY <3>1
  <2>6. with("sell") \cap with("hold") = {} /\ with("buy") \cap (with("sell") \cup with("hold")) = {}
    OBVIOUS
  <2> HIDE DEF with
  <2>7. /\ IsFiniteSet(with("sell") \cup with("hold"))
        /\ Cardinality(with("sell") \cup with("hold")) = Cardinality(with("sell")) + Cardinality(with("hold")) - 0
    BY <2>4, <2>6, FS_Union, FS_EmptySet
  <2>8. Cardinality(DOMAIN acResults)
            = Cardinality(with("buy")) + Cardinality(with("sell") \cup with("hold")) - 0
    <3>1. Cardinality(with("buy") \cup (with("sell") \cup with("hold")))
              = Cardinality(with("buy")) + Cardinality(with("sell") \cup with("hold"))
                    - Cardinality(with("buy") \cap (with("sell") \cup with("hold")))
      BY <2>4, <2>7, FS_Union
    <3> QED
      BY <2>5, <2>6, <3>1, FS_EmptySet
  <2>9. /\ Correct("up") = Cardinality(with("buy")) /\ Correct("down") = Cardinality(with("sell"))
        /\ Correct("sideways") = Cardinality(with("hold"))
    BY DEF Correct, Foretells, with
  <2> QED
    BY <2>3, <2>4, <2>7, <2>8, <2>9 DEF OutcomesShareResults
<1> QED
  BY ConsensusInitHolds, ConsensusStep, <1>1, PTL DEF ConsensusSpec

-----------------------------------------------------------------------------
(* The laboratory *)

Shaped(s) == s = [template |-> s.template, parameters |-> s.parameters, listed |-> s.listed,
                  status |-> s.status, score |-> s.score, result |-> s.result]

StrategySound(s) ==
    /\ Shaped(s) /\ s.score \in Int
    /\ s.score = IF s.result = Untested THEN 0 ELSE CalculateScore(s.result)
    /\ s.status = "deployed" => s.result # Untested

LabIInv ==
    /\ \E S : slAll \in Seq(S)
    /\ \A i \in DOMAIN slAll : StrategySound(slAll[i])
    /\ slPop \in Seq(DOMAIN slAll) /\ slBest \in Seq(DOMAIN slAll)
    /\ Breeding => slPop # <<>>

LEMMA ScoreIsNumber == ASSUME NEW r \in Results PROVE CalculateScore(r) \in Int
<1>1. r \in [return : Int, sharpe : Int, drawdown : Int, wins : Int, profit : Int]
  BY LabAssumption
<1>2. ASSUME NEW a \in Int, NEW b \in Int PROVE Min({a, b}) \in Int /\ Max({a, b}) \in Int
  <2>1. IsFiniteSet({a, b})
    <3>1. IsFiniteSet({a} \cup {b})
      BY FS_Singleton, FS_Union
    <3>2. {a} \cup {b} = {a, b}
      OBVIOUS
    <3> QED
      BY <3>1, <3>2
  <2>2. {a, b} \in SUBSET Int /\ {a, b} # {}
    OBVIOUS
  <2> QED
    BY <2>1, <2>2, Extremes
<1>3. /\ Min({r.return, 200}) \in Int /\ Min({r.sharpe, 300}) \in Int /\ Max({0, 50 - r.drawdown}) \in Int
      /\ Min({r.profit, 300}) \in Int /\ r.wins \in Int
  BY <1>1, <1>2
<1> QED
  BY <1>3 DEF CalculateScore

LEMMA UntestedIsNone == \A r \in Results : r # Untested
  BY LabAssumption DEF Untested

\* A test leaves a strategy that is as sound, of the same template and parameters.
LEMMA TestedSound ==
    ASSUME NEW s, StrategySound(s), NEW o \in LabOutcomes
    PROVE  /\ StrategySound(Tested(s, o))
           /\ Tested(s, o).template = s.template /\ Tested(s, o).parameters = s.parameters
<1>1. CASE o.kind = "none"
  BY <1>1 DEF Tested
<1>2. CASE o.kind = "error"
  <2>1. Tested(s, o) = [s EXCEPT !.status = "error"]
    BY <1>2 DEF Tested
  <2>2. Tested(s, o) = [template |-> s.template, parameters |-> s.parameters, listed |-> s.listed,
                        status |-> "error", score |-> s.score, result |-> s.result]
    BY <2>1 DEF StrategySound, Shaped
  <2> QED
    BY <2>2 DEF StrategySound, Shaped
<1>3. CASE o.kind # "none" /\ o.kind # "error"
  <2>1. o.of \in Results
    BY <1>3 DEF LabOutcomes
  <2>2. Tested(s, o) = [s EXCEPT !.result = o.of, !.score = CalculateScore(o.of), !.status = "tested"]
    BY <1>3 DEF Tested
  <2>3. Tested(s, o) = [template |-> s.template, parameters |-> s.parameters, listed |-> s.listed,
                        status |-> "tested", score |-> CalculateScore(o.of), result |-> o.of]
    BY <2>2 DEF StrategySound, Shaped
  <2>4. CalculateScore(o.of) \in Int /\ o.of # Untested
    BY <2>1, ScoreIsNumber, UntestedIsNone
  <2> QED
    BY <2>3, <2>4 DEF StrategySound, Shaped
<1> QED
  BY <1>1, <1>2, <1>3

LEMMA NewSound == \A t, p, l : StrategySound(NewStrategy(t, p, l))
  BY DEF NewStrategy, StrategySound, Shaped

LEMMA OffspringSound ==
    ASSUME NEW elites, NEW c \in Offspring(elites)
    PROVE  StrategySound(c)
<1>1. PICK i \in ToSet(elites), j \in ToSet(elites) : \E d \in Crossover(slAll[i], slAll[j]) : c \in Mutations(d)
  BY DEF Offspring
<1>0. PICK d \in Crossover(slAll[i], slAll[j]) : c \in Mutations(d)
  BY <1>1
<1>2. PICK p : d = NewStrategy(slAll[i].template, p, FALSE)
  BY <1>0 DEF Crossover
<1>3. PICK q : c = [d EXCEPT !.parameters = q]
  BY <1>0 DEF Mutations
<1>4. c = NewStrategy(slAll[i].template, q, FALSE)
  BY <1>2, <1>3 DEF NewStrategy
<1> QED
  BY <1>4, NewSound

\* What is drawn or sorted is a sequence of the same strategies.
LEMMA DrawnInOrder ==
    ASSUME NEW n \in Nat, NEW S \in SUBSET (1..n), S # {}
    PROVE  InOrder(S) \in Seq(S) /\ InOrder(S) # <<>>
<1> DEFINE R == {p \in S \X S : p[1] < p[2]}
<1>1. IsFiniteSet(S)
  BY CountTo, FS_Subset
<1>2. /\ \A i \in S : <<i, i>> \notin R
      /\ \A i, j, k \in S : <<i, j>> \in R /\ <<j, k>> \in R => <<i, k>> \in R
      /\ \A i, j \in S : i # j => <<i, j>> \in R \/ <<j, i>> \in R
  OBVIOUS
<1>3. \A i \in S : {j \in S : <<j, i>> \in R} = {j \in S : j < i}
  OBVIOUS
<1>4. \A k \in 1..Cardinality(S) : \E i \in S : Cardinality({j \in S : <<j, i>> \in R}) = k - 1
  <2> HIDE DEF R
  <2> QED
    BY <1>1, <1>2, Ranks
<1>5. \A k \in 1..Cardinality(S) : \E i \in S : Cardinality({j \in S : j < i}) = k - 1
  <2> HIDE DEF R
  <2> QED
    BY <1>3, <1>4
<1>6. \A k \in 1..Cardinality(S) : InOrder(S)[k] \in S
  BY <1>5 DEF InOrder
<1>7. Cardinality(S) \in Nat /\ Cardinality(S) # 0
  BY <1>1, FS_CardinalityType, FS_EmptySet
<1>8. DOMAIN InOrder(S) = 1..Cardinality(S) /\ InOrder(S) = [k \in 1..Cardinality(S) |-> InOrder(S)[k]]
  <2> DEFINE drawn(k) == CHOOSE i \in S : Cardinality({j \in S : j < i}) = k - 1
  <2>1. InOrder(S) = [k \in 1..Cardinality(S) |-> drawn(k)]
    BY DEF InOrder
  <2> HIDE DEF drawn
  <2> QED
    BY <2>1
<1>9. InOrder(S) \in [1..Cardinality(S) -> S]
  BY <1>6, <1>8
<1>10. InOrder(S) \in Seq(S)
  BY <1>7, <1>9
<1>11. 1 \in DOMAIN InOrder(S)
  BY <1>7, <1>8
<1> QED
  BY <1>10, <1>11

LEMMA SortedByScore ==
    ASSUME LabIInv, NEW pop \in Seq(DOMAIN slAll), pop # <<>>
    PROVE  /\ ByScore(pop) \in Seq(DOMAIN slAll) /\ Len(ByScore(pop)) = Len(pop)
           /\ \A k \in DOMAIN pop : slAll[pop[k]].score <= slAll[ByScore(pop)[1]].score
<1> DEFINE S == DOMAIN pop
           score(i) == slAll[pop[i]].score
           before(i, j) == \/ score(i) > score(j)
                           \/ score(i) = score(j) /\ i < j
           R == {p \in S \X S : before(p[1], p[2])}
           first(k) == CHOOSE j \in S : Cardinality({i \in S : before(i, j)}) = k - 1
<1>1. Len(pop) \in Nat \ {0} /\ S = 1..Len(pop)
  OBVIOUS
<1>2. IsFiniteSet(S) /\ Cardinality(S) = Len(pop)
  BY <1>1, CountTo
<1>3. \A i \in S : pop[i] \in DOMAIN slAll /\ score(i) \in Int
  BY DEF LabIInv, StrategySound
<1>4. /\ \A i \in S : <<i, i>> \notin R
      /\ \A i, j, k \in S : <<i, j>> \in R /\ <<j, k>> \in R => <<i, k>> \in R
      /\ \A i, j \in S : i # j => <<i, j>> \in R \/ <<j, i>> \in R
  <2>1. \A i, j \in S : <<i, j>> \in R <=> before(i, j)
    OBVIOUS
  <2>2. \A i \in S : i \in Int
    BY <1>1
  <2> HIDE DEF R, S, score
  <2> QED
    BY <1>3, <2>1, <2>2
<1>5. \A i \in S : {j \in S : <<j, i>> \in R} = {j \in S : before(j, i)}
  OBVIOUS
<1>6. \A k \in 1..Len(pop) : \E i \in S : Cardinality({j \in S : <<j, i>> \in R}) = k - 1
  <2> HIDE DEF R, S
  <2>1. \A k \in 1..Cardinality(S) : \E i \in S : Cardinality({j \in S : <<j, i>> \in R}) = k - 1
    BY <1>2, <1>4, Ranks
  <2> QED
    BY <1>2, <2>1
<1>7. \A k \in 1..Len(pop) : \E i \in S : Cardinality({j \in S : before(j, i)}) = k - 1
  <2> HIDE DEF R, S, before
  <2> QED
    BY <1>5, <1>6
<1>8. \A k \in 1..Len(pop) : first(k) \in S /\ Cardinality({j \in S : before(j, first(k))}) = k - 1
  <2> HIDE DEF S, before
  <2> QED
    BY <1>7
<1>9. ByScore(pop) = [k \in S |-> pop[first(k)]]
  BY DEF ByScore
<1>10. ByScore(pop) \in [1..Len(pop) -> DOMAIN slAll]
  <2> HIDE DEF first
  <2> QED
    BY <1>1, <1>3, <1>8, <1>9
<1>11. ByScore(pop) \in Seq(DOMAIN slAll) /\ Len(ByScore(pop)) = Len(pop)
  BY <1>1, <1>10
<1>12. ASSUME NEW k \in S PROVE score(k) <= score(first(1))
  <2>1. first(1) \in S /\ Cardinality({j \in S : before(j, first(1))}) = 0
    <3> HIDE DEF first, S, before
    <3> QED
      BY <1>1, <1>8
  <2>2. IsFiniteSet({j \in S : before(j, first(1))})
    <3> HIDE DEF first, S, before
    <3> QED
      BY <1>2, FS_Subset
  <2>3. {j \in S : before(j, first(1))} = {}
    <3> HIDE DEF first, S, before
    <3> QED
      BY <2>1, <2>2, FS_EmptySet
  <2>4. ~before(k, first(1))
    <3> HIDE DEF first, S, before
    <3> QED
      BY <2>3
  <2> HIDE DEF first, S, score
  <2> QED
    BY <1>3, <2>1, <2>4
<1>13. ByScore(pop)[1] = pop[first(1)]
  <2> HIDE DEF first
  <2> QED
    BY <1>1, <1>9
<1> HIDE DEF first
<1> QED
  BY <1>11, <1>12, <1>13

LEMMA ElitesLead ==
    ASSUME LabIInv, NEW pop \in Seq(DOMAIN slAll), pop # <<>>
    PROVE  /\ Elites(pop) \in Seq(DOMAIN slAll) /\ Elites(pop) # <<>> /\ Len(Elites(pop)) \in 1..Len(pop)
           /\ \A k \in DOMAIN pop : slAll[pop[k]].score <= slAll[Elites(pop)[1]].score
<1> DEFINE n == Len(pop)
           m == Max({1, (EliteParts * n) \div EliteShare})
           sorted == ByScore(pop)
<1>1. n \in Nat \ {0} /\ EliteShare \in Nat \ {0} /\ EliteParts \in 1..EliteShare
  BY LabAssumption
<1>2. (EliteParts * n) \div EliteShare \in 0..n
  <2> HIDE DEF n
  <2>1. EliteParts * n \in Nat /\ EliteParts * n <= EliteShare * n
    BY <1>1
  <2>2. PICK a \in Nat : a = EliteParts * n /\ a <= EliteShare * n
    BY <2>1
  <2>3. a \div EliteShare \in Nat /\ EliteShare * (a \div EliteShare) <= a
    BY <1>1, <2>2
  <2>4. PICK q \in Nat : q = a \div EliteShare /\ EliteShare * q <= EliteShare * n
    <3>1. PICK u \in Int : u = EliteShare * n
      BY <1>1
    <3>2. PICK q \in Nat : q = a \div EliteShare
      BY <2>3
    <3>3. PICK v \in Int : v = EliteShare * q
      BY <1>1
    <3>4. v <= a /\ a <= u
      BY <2>2, <2>3, <3>1, <3>2, <3>3
    <3> QED
      BY <3>1, <3>2, <3>3, <3>4
  <2>5. q <= n
    BY <1>1, <2>4
  <2> QED
    BY <1>1, <2>2, <2>4, <2>5
<1>3. m \in 1..n
  <2> DEFINE x == (EliteParts * n) \div EliteShare
  <2>1. x \in 0..n
    BY <1>2
  <2> HIDE DEF x, n
  <2>2. {1, x} \in SUBSET (0..n) /\ {1, x} \in SUBSET Int /\ {1, x} # {}
    BY <1>1, <2>1
  <2>3. IsFiniteSet({1, x})
    BY <1>1, <2>2, FS_Interval, FS_Subset
  <2>4. Max({1, x}) \in {1, x} /\ Max({1, x}) >= 1
    BY <2>2, <2>3, Extremes
  <2> QED
    BY <1>1, <2>1, <2>4 DEF x
<1>4. sorted \in Seq(DOMAIN slAll) /\ Len(sorted) = n
  BY SortedByScore
<1>5. Elites(pop) = SubSeq(sorted, 1, m)
  BY DEF Elites
<1> HIDE DEF n, m
<1>6. \A k \in DOMAIN pop : slAll[pop[k]].score <= slAll[sorted[1]].score
  BY SortedByScore
<1> HIDE DEF sorted
<1>7. SubSeq(sorted, 1, m) \in Seq(DOMAIN slAll) /\ Len(SubSeq(sorted, 1, m)) = m
  BY <1>1, <1>3, <1>4
<1>8. SubSeq(sorted, 1, m)[1] = sorted[1]
  BY <1>1, <1>3, <1>4
<1>9. SubSeq(sorted, 1, m) # <<>>
  <2>1. Len(SubSeq(sorted, 1, m)) # 0
    BY <1>1, <1>3, <1>7
  <2> QED
    BY <2>1, EmptySeq
<1> QED
  BY <1>3, <1>5, <1>6, <1>7, <1>8, <1>9 DEF n

LEMMA LabInitHolds == LabInit => LabIInv
<1> SUFFICES ASSUME LabInit PROVE LabIInv
  OBVIOUS
<1>1. slAll \in Seq({})
  BY DEF LabInit
<1> QED
  BY <1>1 DEF LabInit, LabIInv, Breeding

\* One strategy is replaced by a sound one.
LEMMA Replaced ==
    ASSUME LabIInv, NEW i, NEW new, StrategySound(new),
           slAll' = [slAll EXCEPT ![i] = new], UNCHANGED <<slPop, slBest>>,
           Breeding' => Breeding
    PROVE  LabIInv'
<1>1. PICK S : slAll \in Seq(S)
  BY DEF LabIInv
<1>2. slAll \in Seq(S \cup {new})
  BY <1>1
<1>3. slAll' \in Seq(S \cup {new}) /\ DOMAIN slAll' = DOMAIN slAll
  <2> DEFINE V == S \cup {new}
  <2>1. slAll \in Seq(V) /\ new \in V
    BY <1>2
  <2> HIDE DEF V
  <2>2. PICK n \in Nat : slAll \in [1..n -> V]
    BY <2>1
  <2>3. slAll' \in [1..n -> V]
    BY <2>1, <2>2
  <2> QED
    BY <2>2, <2>3 DEF V
<1>4. ASSUME NEW j \in DOMAIN slAll PROVE StrategySound(slAll'[j])
  <2>1. slAll'[j] = IF j = i THEN new ELSE slAll[j]
    BY <1>1
  <2> QED
    BY <2>1 DEF LabIInv
<1>5. \A j \in DOMAIN slAll' : StrategySound(slAll[j])' <=> StrategySound(slAll'[j])
  BY DEF StrategySound, Shaped, CalculateScore
<1> QED
  BY <1>3, <1>4, <1>5 DEF LabIInv

\* Sound strategies are added.
LEMMA Added ==
    ASSUME LabIInv, NEW T, NEW more \in Seq(T), \A k \in DOMAIN more : StrategySound(more[k]),
           slAll' = slAll \o more
    PROVE  /\ \E S : slAll' \in Seq(S)
           /\ \A i \in DOMAIN slAll' : StrategySound(slAll[i])'
           /\ Len(slAll) \in Nat /\ DOMAIN slAll = 1..Len(slAll)
           /\ DOMAIN slAll' = 1..(Len(slAll) + Len(more)) /\ DOMAIN slAll \in SUBSET DOMAIN slAll'
<1>1. PICK S : slAll \in Seq(S)
  BY DEF LabIInv
<1>2. slAll \in Seq(S \cup T) /\ more \in Seq(S \cup T)
  BY <1>1
<1>3. /\ slAll' \in Seq(S \cup T) /\ Len(slAll') = Len(slAll) + Len(more)
      /\ Len(slAll) \in Nat /\ Len(more) \in Nat
  BY <1>2
<1>4. /\ DOMAIN slAll = 1..Len(slAll) /\ DOMAIN slAll' = 1..(Len(slAll) + Len(more))
      /\ DOMAIN more = 1..Len(more)
  BY <1>2, <1>3
<1>5. ASSUME NEW i \in DOMAIN slAll' PROVE StrategySound(slAll'[i])
  <2>1. CASE i <= Len(slAll)
    <3>1. i \in DOMAIN slAll /\ slAll'[i] = slAll[i]
      BY <1>2, <1>3, <1>4, <2>1
    <3> QED
      BY <3>1 DEF LabIInv
  <2>2. CASE ~(i <= Len(slAll))
    <3>1. i - Len(slAll) \in DOMAIN more /\ slAll'[i] = more[i - Len(slAll)]
      BY <1>2, <1>3, <1>4, <2>2
    <3> QED
      BY <3>1
  <2> QED
    BY <2>1, <2>2
<1>6. \A i \in DOMAIN slAll' : StrategySound(slAll[i])' <=> StrategySound(slAll'[i])
  BY DEF StrategySound, Shaped, CalculateScore
<1> QED
  BY <1>3, <1>4, <1>5, <1>6

LEMMA LabStep == LabIInv /\ [LabNext]_slVars => LabIInv'
<1> SUFFICES ASSUME LabIInv, [LabNext]_slVars PROVE LabIInv'
  OBVIOUS
<1>0. PICK S : slAll \in Seq(S)
  BY DEF LabIInv
<1>1. CASE UNCHANGED slVars
  <2>1. slAll' = slAll /\ slPop' = slPop /\ slBest' = slBest /\ slGen' = slGen
    BY <1>1 DEF slVars
  <2>2. \A j \in DOMAIN slAll' : StrategySound(slAll[j])' <=> StrategySound(slAll'[j])
    BY DEF StrategySound, Shaped, CalculateScore
  <2> QED
    BY <2>1, <2>2 DEF LabIInv, Breeding
<1>2. ASSUME NEW t \in DOMAIN Templates, GenerateStrategy(t) PROVE LabIInv'
  <2>1. PICK p \in RangesOf(t) : slAll' = Append(slAll, NewStrategy(t, p, TRUE))
    BY <1>2 DEF GenerateStrategy
  <2>2. UNCHANGED <<slPop, slBest, slGen>> /\ ~Breeding
    BY <1>2 DEF GenerateStrategy
  <2> DEFINE s == NewStrategy(t, p, TRUE)
             more == <<s>>
  <2>3. StrategySound(s)
    BY NewSound
  <2> HIDE DEF s
  <2>4. more \in Seq({s}) /\ DOMAIN more = {1} /\ more[1] = s
    OBVIOUS
  <2>5. slAll' = slAll \o more
    <3>1. slAll' = Append(slAll, s)
      BY <2>1 DEF s
    <3>2. slAll \in Seq(S \cup {s})
      BY <1>0, SeqMonotonic, Zenon
    <3>3. s \in S \cup {s}
      OBVIOUS
    <3>4. Append(slAll, s) = slAll \o <<s>>
      BY <3>2, <3>3, AppendIsConcat, Zenon
    <3> QED
      BY <3>1, <3>4, Zenon
  <2>6. \A k \in DOMAIN more : StrategySound(more[k])
    BY <2>3, <2>4
  <2> HIDE DEF more
  <2>7. /\ \E U : slAll' \in Seq(U)
        /\ \A i \in DOMAIN slAll' : StrategySound(slAll[i])'
        /\ DOMAIN slAll \in SUBSET DOMAIN slAll'
    BY <2>4, <2>5, <2>6, Added
  <2>8. slPop' \in Seq(DOMAIN slAll') /\ slBest' \in Seq(DOMAIN slAll')
    BY <2>2, <2>7 DEF LabIInv
  <2> QED
    BY <2>2, <2>7, <2>8 DEF LabIInv, Breeding
<1>3. ASSUME NEW i \in DOMAIN slAll, NEW o \in LabOutcomes, TestStrategy(i, o) PROVE LabIInv'
  <2>1. StrategySound(Tested(slAll[i], o))
    BY TestedSound DEF LabIInv
  <2>2. slAll' = [slAll EXCEPT ![i] = Tested(slAll[i], o)] /\ UNCHANGED <<slPop, slBest, slGen>>
    BY <1>3 DEF TestStrategy
  <2> QED
    BY <2>1, <2>2, Replaced DEF Breeding
<1>4. ASSUME NEW i \in DOMAIN slAll, DeployStrategy(i) PROVE LabIInv'
  <2> DEFINE s == slAll[i]
             status == IF s.score < 3000 THEN "rejected" ELSE "deployed"
             new == [s EXCEPT !.status = status]
  <2>1. slAll' = [slAll EXCEPT ![i] = new] /\ UNCHANGED <<slPop, slBest, slGen>>
    BY <1>4 DEF DeployStrategy
  <2>2. StrategySound(s)
    BY DEF LabIInv
  <2>3. StrategySound(new)
    <3> HIDE DEF s, status
    <3>1. new = [template |-> s.template, parameters |-> s.parameters, listed |-> s.listed,
                 status |-> status, score |-> s.score, result |-> s.result]
      BY <2>2 DEF StrategySound, Shaped
    <3>2. status = "deployed" => s.result # Untested
      BY <2>2 DEF StrategySound, status
    <3> HIDE DEF new
    <3> QED
      BY <2>2, <3>1, <3>2 DEF StrategySound, Shaped
  <2> HIDE DEF new
  <2> QED
    BY <2>1, <2>3, Replaced DEF Breeding
<1>5. CASE EvolveBegins
  <2> DEFINE drawn == {i \in DOMAIN slAll : slAll[i].listed}
  <2>1. drawn # {} /\ slPop' = InOrder(drawn) /\ slBest' = <<>> /\ slAll' = slAll
    BY <1>5 DEF EvolveBegins
  <2>2. Len(slAll) \in Nat /\ DOMAIN slAll = 1..Len(slAll)
    BY <1>0
  <2>3. drawn \in SUBSET (1..Len(slAll))
    BY <2>2
  <2>4. InOrder(drawn) \in Seq(drawn) /\ InOrder(drawn) # <<>>
    <3> HIDE DEF drawn
    <3> QED
      BY <2>1, <2>2, <2>3, DrawnInOrder
  <2> HIDE DEF drawn
  <2>5. slPop' \in Seq(DOMAIN slAll) /\ slPop' # <<>>
    <3>1. PICK q \in Seq(drawn) : q = InOrder(drawn) /\ q # <<>>
      BY <2>4
    <3>2. PICK D : D = DOMAIN slAll /\ drawn \in SUBSET D
      BY <2>2, <2>3
    <3>3. q \in Seq(D)
      <4>1. PICK n \in Nat : q \in [1..n -> drawn]
        BY <3>1
      <4>2. q \in [1..n -> D]
        BY <3>2, <4>1
      <4> QED
        BY <4>2
    <3> QED
      BY <2>1, <3>1, <3>2, <3>3
  <2>6. \A j \in DOMAIN slAll' : StrategySound(slAll[j])' <=> StrategySound(slAll'[j])
    BY DEF StrategySound, Shaped, CalculateScore
  <2> QED
    BY <2>1, <2>5, <2>6 DEF LabIInv
<1>6. ASSUME NEW o \in LabOutcomes, EvolveTests(o) PROVE LabIInv'
  <2> DEFINE next == slPop[Min(ToTest)]
  <2>1. slAll' = [slAll EXCEPT ![next] = Tested(slAll[next], o)] /\ UNCHANGED <<slPop, slBest, slGen>>
    BY <1>6 DEF EvolveTests
  <2>2. next \in DOMAIN slAll
    <3>1. slPop \in Seq(DOMAIN slAll) /\ Len(slPop) \in Nat /\ DOMAIN slPop = 1..Len(slPop)
      BY DEF LabIInv
    <3>2. ToTest \in SUBSET (1..Len(slPop)) /\ ToTest # {}
      BY <1>6, <3>1 DEF EvolveTests, ToTest
    <3>3. PICK n \in Nat : slPop \in [1..n -> DOMAIN slAll] /\ ToTest \in SUBSET (1..n)
      <4>1. slPop \in [1..Len(slPop) -> DOMAIN slAll]
        BY <3>1, LenProperties, Zenon
      <4> QED
        BY <3>1, <3>2, <4>1, Zenon
    <3>4. IsFiniteSet(ToTest) /\ ToTest \in SUBSET Int
      <4>1. IsFiniteSet(1..n)
        BY <3>3, CountTo
      <4>2. IsFiniteSet(ToTest)
        BY <3>3, <4>1, FS_Subset
      <4>3. \A k \in 1..n : k \in Int
        BY <3>3
      <4> QED
        BY <3>3, <4>2, <4>3
    <3>5. Min(ToTest) \in ToTest
      BY <3>2, <3>4, Extremes
    <3> QED
      BY <3>3, <3>5
  <2>3. StrategySound(Tested(slAll[next], o))
    <3> HIDE DEF next
    <3> QED
      BY <2>2, TestedSound DEF LabIInv
  <2> HIDE DEF next
  <2> QED
    BY <2>1, <2>3, Replaced DEF Breeding
<1>7. CASE Breed
  <2> DEFINE elites == Elites(slPop)
  <2>1. /\ Breeding /\ slBest' = slBest \o elites
        /\ \/ slGen' = 0 /\ slPop' = <<>> /\ slAll' = slAll
           \/ \E children \in [1..(Len(slPop) - Len(elites)) -> Offspring(elites)] :
                  /\ slAll' = slAll \o children
                  /\ slPop' = elites \o [k \in DOMAIN children |-> Len(slAll) + k]
    BY <1>7 DEF Breed
  <2>2. slPop \in Seq(DOMAIN slAll) /\ slPop # <<>> /\ slBest \in Seq(DOMAIN slAll)
    BY <2>1 DEF LabIInv
  <2>3. elites \in Seq(DOMAIN slAll) /\ elites # <<>> /\ Len(elites) \in 1..Len(slPop)
    BY <2>2, ElitesLead
  <2> HIDE DEF elites
  <2>4. slBest' \in Seq(DOMAIN slAll)
    BY <2>1, <2>2, <2>3
  <2>5. CASE slGen' = 0 /\ slPop' = <<>> /\ slAll' = slAll
    <3>1. \A j \in DOMAIN slAll' : StrategySound(slAll[j])' <=> StrategySound(slAll'[j])
      BY DEF StrategySound, Shaped, CalculateScore
    <3> QED
      BY <2>4, <2>5, <3>1 DEF LabIInv, Breeding
  <2>6. ASSUME NEW children \in [1..(Len(slPop) - Len(elites)) -> Offspring(elites)],
               slAll' = slAll \o children, slPop' = elites \o [k \in DOMAIN children |-> Len(slAll) + k]
        PROVE  LabIInv'
    <3> DEFINE n == Len(slPop) - Len(elites)
               numbers == [k \in DOMAIN children |-> Len(slAll) + k]
    <3>1. n \in Nat
      BY <2>2, <2>3
    <3>2. children \in Seq(Offspring(elites)) /\ Len(children) = n /\ DOMAIN children = 1..n
      <4>1. PICK O : O = Offspring(elites)
        OBVIOUS
      <4>2. children \in [1..n -> O]
        BY <2>6, <4>1
      <4> HIDE DEF n
      <4>3. children \in Seq(O) /\ Len(children) = n /\ DOMAIN children = 1..n
        BY <3>1, <4>2
      <4> QED
        BY <4>1, <4>3
    <3>3. \A k \in DOMAIN children : StrategySound(children[k])
      BY <3>2, OffspringSound
    <3>4. /\ \E U : slAll' \in Seq(U)
          /\ \A i \in DOMAIN slAll' : StrategySound(slAll[i])'
          /\ Len(slAll) \in Nat
          /\ DOMAIN slAll' = 1..(Len(slAll) + Len(children)) /\ DOMAIN slAll \in SUBSET DOMAIN slAll'
      BY <2>6, <3>2, <3>3, Added
    <3>5. numbers \in [1..n -> DOMAIN slAll']
      <4> HIDE DEF n
      <4> QED
        BY <3>1, <3>2, <3>4
    <3>6. numbers \in Seq(DOMAIN slAll')
      <4> HIDE DEF n, numbers
      <4> QED
        BY <3>1, <3>5
    <3>7. elites \in Seq(DOMAIN slAll') /\ slBest' \in Seq(DOMAIN slAll')
      BY <2>3, <2>4, <3>4
    <3> HIDE DEF numbers
    <3>8. slPop' \in Seq(DOMAIN slAll') /\ slPop' # <<>>
      <4>1. elites \o numbers \in Seq(DOMAIN slAll') /\ Len(elites \o numbers) = Len(elites) + Len(numbers)
        BY <3>6, <3>7
      <4>2. Len(elites) >= 1 /\ Len(numbers) >= 0
        BY <2>2, <2>3, <3>6
      <4>3. Len(elites \o numbers) # 0
        BY <4>1, <4>2, <3>6, <3>7
      <4> QED
        BY <2>6, <4>1, <4>3 DEF numbers
    <3> QED
      BY <3>4, <3>7, <3>8 DEF LabIInv
  <2> QED
    BY <2>1, <2>5, <2>6
<1> QED
  BY <1>1, <1>2, <1>3, <1>4, <1>5, <1>6, <1>7 DEF LabNext

\* A score was earned in the test whose result stands beside it; what was never
\* tested, a child of good parents among it, has none and is not deployed
\* (test_strategy, deploy_strategy).
THEOREM ScoresEarned == LabSpec => []ScoreIsEarned
<1>1. LabIInv => ScoreIsEarned
  BY DEF LabIInv, StrategySound, ScoreIsEarned
<1> QED
  BY LabInitHolds, LabStep, <1>1, PTL DEF LabSpec

\* What an evolution found in a population it breeds from is matched by the best of
\* its elites: no generation loses the best (evolve_population).
THEOREM BestKept == LabSpec => BestIsKept
<1> DEFINE Matched == slBest' # <<>> /\ slBest' # slBest =>
             \A i \in ToSet(slPop) : \E j \in ToSet(slBest') : slAll[j].score >= slAll[i].score
<1>1. LabIInv /\ [LabNext]_slVars => [Matched]_slVars
  <2> SUFFICES ASSUME LabIInv, LabNext, slBest' # <<>>, slBest' # slBest
               PROVE  \A i \in ToSet(slPop) : \E j \in ToSet(slBest') : slAll[j].score >= slAll[i].score
    OBVIOUS
  <2>1. Breed
    BY DEF LabNext, GenerateStrategy, TestStrategy, DeployStrategy, EvolveBegins, EvolveTests
  <2> DEFINE elites == Elites(slPop)
  <2>2. Breeding /\ slBest' = slBest \o elites
    BY <2>1 DEF Breed
  <2>3. slPop \in Seq(DOMAIN slAll) /\ slPop # <<>> /\ slBest \in Seq(DOMAIN slAll)
    BY <2>2 DEF LabIInv
  <2>4. /\ elites \in Seq(DOMAIN slAll) /\ elites # <<>>
        /\ \A k \in DOMAIN slPop : slAll[slPop[k]].score <= slAll[elites[1]].score
    BY <2>3, ElitesLead
  <2> HIDE DEF elites
  <2>5. elites[1] \in DOMAIN slAll
    BY <2>4
  <2>6. elites[1] \in ToSet(slBest')
    <3>1. Len(elites) \in Nat \ {0} /\ Len(slBest) \in Nat
      BY <2>3, <2>4
    <3>2. Len(slBest) + 1 \in DOMAIN (slBest \o elites) /\ (slBest \o elites)[Len(slBest) + 1] = elites[1]
      BY <2>3, <2>4, <3>1
    <3> QED
      BY <2>2, <3>2 DEF ToSet
  <2>7. ASSUME NEW i \in ToSet(slPop) PROVE slAll[elites[1]].score >= slAll[i].score
    <3>1. PICK k \in DOMAIN slPop : i = slPop[k]
      BY DEF ToSet
    <3>2. slAll[i].score <= slAll[elites[1]].score /\ i \in DOMAIN slAll
      BY <2>3, <2>4, <3>1
    <3>3. slAll[i].score \in Int /\ slAll[elites[1]].score \in Int
      BY <2>5, <3>2 DEF LabIInv, StrategySound
    <3> QED
      BY <3>2, <3>3
  <2> QED
    BY <2>6, <2>7
<1>2. BestIsKept <=> [][Matched]_slVars
  BY DEF BestIsKept
<1> HIDE DEF Matched
<1> QED
  BY LabInitHolds, LabStep, <1>1, <1>2, PTL DEF LabSpec


\* Templates that share a parameter let it take the same values; those of the code
\* share none.
TemplatesAgree ==
    \A t, u \in DOMAIN Templates :
        \A k \in DOMAIN Templates[t] \cap DOMAIN Templates[u] : Templates[t][k] = Templates[u][k]

Fits(s) == s.template \in DOMAIN Templates /\ s.parameters \in RangesOf(s.template)

AllFit == \A i \in DOMAIN slAll : Fits(slAll[i])

LEMMA InRanges ==
    ASSUME NEW t, NEW S, NEW p \in [DOMAIN Templates[t] -> S],
           \A k \in DOMAIN Templates[t] : p[k] \in Templates[t][k]
    PROVE  p \in RangesOf(t)
<1> DEFINE V == UNION Range(Templates[t])
<1>1. ASSUME NEW k \in DOMAIN Templates[t] PROVE p[k] \in V
  <2>1. Templates[t][k] \in Range(Templates[t])
    BY DEF Range
  <2> QED
    BY <2>1
<1>2. p \in [DOMAIN Templates[t] -> V]
  <2> HIDE DEF V
  <2> QED
    BY <1>1
<1> QED
  BY <1>2 DEF RangesOf

LEMMA RangesHold ==
    ASSUME NEW t, NEW p \in RangesOf(t)
    PROVE  DOMAIN p = DOMAIN Templates[t] /\ \A k \in DOMAIN p : p[k] \in Templates[t][k]
BY DEF RangesOf

\* What is bred of two strategies that fit has the template of the one, and fits.
LEMMA OffspringFits ==
    ASSUME TemplatesAgree, AllFit, NEW elites, ToSet(elites) \in SUBSET DOMAIN slAll,
           NEW c \in Offspring(elites)
    PROVE  Fits(c)
<1>1. PICK i \in ToSet(elites), j \in ToSet(elites) : \E d \in Crossover(slAll[i], slAll[j]) : c \in Mutations(d)
  BY DEF Offspring
<1>2. PICK d \in Crossover(slAll[i], slAll[j]) : c \in Mutations(d)
  BY <1>1
<1> DEFINE one == slAll[i]
           two == slAll[j]
           t == one.template
           P == DOMAIN Templates[t]
<1>3. Fits(one) /\ Fits(two)
  BY DEF AllFit
<1>4. /\ t \in DOMAIN Templates /\ DOMAIN one.parameters = P
      /\ \A k \in P : one.parameters[k] \in Templates[t][k]
      /\ two.template \in DOMAIN Templates
      /\ \A k \in DOMAIN two.parameters :
             k \in DOMAIN Templates[two.template] /\ two.parameters[k] \in Templates[two.template][k]
  BY <1>3, RangesHold DEF Fits
<1>5. ASSUME NEW k \in P, k \in DOMAIN two.parameters PROVE two.parameters[k] \in Templates[t][k]
  BY <1>4, <1>5 DEF TemplatesAgree
<1>6. PICK q \in [DOMAIN one.parameters -> Range(one.parameters) \cup Range(two.parameters)] :
          /\ d = NewStrategy(t, q, FALSE)
          /\ \A k \in DOMAIN q : q[k] = one.parameters[k] \/ (k \in DOMAIN two.parameters /\ q[k] = two.parameters[k])
  BY <1>2 DEF Crossover
<1> HIDE DEF one, two
<1>7. DOMAIN q = P /\ \A k \in P : q[k] \in Templates[t][k]
  BY <1>4, <1>5, <1>6
<1> HIDE DEF t
<1>8. d.template = t /\ d.parameters = q
  BY <1>6 DEF NewStrategy
<1>9. PICK r \in [DOMAIN d.parameters -> Range(d.parameters) \cup UNION Range(Templates[d.template])] :
          /\ c = [d EXCEPT !.parameters = r]
          /\ \A k \in DOMAIN r :
                 \/ r[k] = d.parameters[k]
                 \/ k \in DOMAIN Templates[d.template] /\ r[k] \in Templates[d.template][k]
  BY <1>2 DEF Mutations
<1>10. DOMAIN r = P /\ \A k \in P : r[k] \in Templates[t][k]
  BY <1>7, <1>8, <1>9
<1>11. r \in RangesOf(t)
  <2>1. PICK S : r \in [P -> S]
    BY <1>7, <1>8, <1>9
  <2> QED
    BY <1>10, <2>1, InRanges
<1>12. c.template = t /\ c.parameters = r
  BY <1>6, <1>8, <1>9 DEF NewStrategy
<1> QED
  BY <1>4, <1>11, <1>12 DEF Fits

LEMMA FitReplaced ==
    ASSUME AllFit, NEW i, NEW new, slAll' = [slAll EXCEPT ![i] = new], i \in DOMAIN slAll => Fits(new)
    PROVE  AllFit'
<1>1. DOMAIN slAll' = DOMAIN slAll /\ \A j \in DOMAIN slAll : slAll'[j] = IF j = i THEN new ELSE slAll[j]
  OBVIOUS
<1>2. \A j \in DOMAIN slAll' : Fits(slAll'[j])
  BY <1>1 DEF AllFit
<1>3. \A j \in DOMAIN slAll' : Fits(slAll[j])' <=> Fits(slAll'[j])
  BY DEF Fits, RangesOf
<1> QED
  BY <1>2, <1>3 DEF AllFit

LEMMA FitStep == TemplatesAgree /\ LabIInv /\ AllFit /\ [LabNext]_slVars => AllFit'
<1> SUFFICES ASSUME TemplatesAgree, LabIInv, AllFit, [LabNext]_slVars PROVE AllFit'
  OBVIOUS
<1>0. PICK S : slAll \in Seq(S)
  BY DEF LabIInv
<1>a. \A j \in DOMAIN slAll' : Fits(slAll[j])' <=> Fits(slAll'[j])
  BY DEF Fits, RangesOf
<1>1. ASSUME UNCHANGED slAll PROVE AllFit'
  BY <1>1, <1>a DEF AllFit
<1>2. ASSUME NEW t \in DOMAIN Templates, GenerateStrategy(t) PROVE AllFit'
  <2>1. PICK p \in RangesOf(t) : slAll' = Append(slAll, NewStrategy(t, p, TRUE))
    BY <1>2 DEF GenerateStrategy
  <2> DEFINE s == NewStrategy(t, p, TRUE)
  <2>2. Fits(s)
    BY DEF Fits, NewStrategy
  <2> HIDE DEF s
  <2>3. slAll \in Seq(S \cup {s})
    BY <1>0, SeqMonotonic, Zenon
  <2>4. slAll' = Append(slAll, s)
    BY <2>1 DEF s
  <2>5. PICK U : slAll \in Seq(U) /\ s \in U
    BY <2>3
  <2>6. /\ slAll' \in Seq(U) /\ Len(slAll) \in Nat /\ Len(slAll') = Len(slAll) + 1
        /\ \A k \in 1..Len(slAll) : slAll'[k] = slAll[k]
        /\ slAll'[Len(slAll) + 1] = s
    BY <2>4, <2>5, AppendProperties, LenProperties
  <2>7. DOMAIN slAll = 1..Len(slAll) /\ DOMAIN slAll' = 1..(Len(slAll) + 1)
    BY <2>5, <2>6, LenProperties
  <2>8. \A k \in 1..(Len(slAll) + 1) : k \in 1..Len(slAll) \/ k = Len(slAll) + 1
    BY <2>6
  <2>9. \A k \in DOMAIN slAll' : Fits(slAll'[k])
    BY <2>2, <2>6, <2>7, <2>8 DEF AllFit
  <2> QED
    BY <2>9, <1>a DEF AllFit
<1>3. ASSUME NEW i, NEW o \in LabOutcomes, slAll' = [slAll EXCEPT ![i] = Tested(slAll[i], o)] PROVE AllFit'
  <2>1. i \in DOMAIN slAll => Fits(Tested(slAll[i], o))
    BY TestedSound DEF AllFit, LabIInv, Fits
  <2> QED
    BY <1>3, <2>1, FitReplaced
<1>4. ASSUME NEW i \in DOMAIN slAll, DeployStrategy(i) PROVE AllFit'
  <2> DEFINE status == IF slAll[i].score < 3000 THEN "rejected" ELSE "deployed"
             new == [slAll[i] EXCEPT !.status = status]
  <2>1. slAll' = [slAll EXCEPT ![i] = new]
    BY <1>4 DEF DeployStrategy
  <2>2. new.template = slAll[i].template /\ new.parameters = slAll[i].parameters
    <3>1. Shaped(slAll[i])
      BY DEF LabIInv, StrategySound
    <3> HIDE DEF status
    <3> QED
      BY <3>1 DEF Shaped
  <2>3. Fits(new)
    BY <2>2 DEF AllFit, Fits
  <2> HIDE DEF new
  <2> QED
    BY <2>1, <2>3, FitReplaced
<1>5. ASSUME NEW children, NEW elites \in Seq(DOMAIN slAll), NEW n \in Nat,
             children \in [1..n -> Offspring(elites)], slAll' = slAll \o children
      PROVE  AllFit'
  <2>1. ToSet(elites) \in SUBSET DOMAIN slAll
    BY DEF ToSet
  <2>2. PICK O : O = Offspring(elites)
    OBVIOUS
  <2>3. children \in Seq(O) /\ Len(children) = n /\ DOMAIN children = 1..n
    BY <1>5, <2>2
  <2>4. \A k \in 1..n : Fits(children[k])
    BY <1>5, <2>1, OffspringFits
  <2>5. slAll \in Seq(S \cup O) /\ children \in Seq(S \cup O)
    BY <1>0, <2>3, SeqMonotonic, Zenon
  <2>6. /\ slAll' \in Seq(S \cup O) /\ Len(slAll') = Len(slAll) + n /\ Len(slAll) \in Nat
        /\ \A k \in 1..(Len(slAll) + n) :
               slAll'[k] = IF k <= Len(slAll) THEN slAll[k] ELSE children[k - Len(slAll)]
    BY <1>5, <2>3, <2>5, ConcatProperties, LenProperties
  <2>7. DOMAIN slAll = 1..Len(slAll) /\ DOMAIN slAll' = 1..(Len(slAll) + n)
    BY <2>5, <2>6, LenProperties
  <2>8. ASSUME NEW k \in DOMAIN slAll' PROVE Fits(slAll'[k])
    <3>1. CASE k <= Len(slAll)
      <4>1. k \in DOMAIN slAll /\ slAll'[k] = slAll[k]
        BY <2>6, <2>7, <3>1
      <4> QED
        BY <4>1 DEF AllFit
    <3>2. CASE ~(k <= Len(slAll))
      <4>1. k - Len(slAll) \in 1..n /\ slAll'[k] = children[k - Len(slAll)]
        BY <2>6, <2>7, <3>2
      <4> QED
        BY <2>4, <4>1
    <3> QED
      BY <3>1, <3>2
  <2> QED
    BY <2>8, <1>a DEF AllFit
<1>6. CASE Breed
  <2> DEFINE elites == Elites(slPop)
  <2>1. slPop \in Seq(DOMAIN slAll) /\ slPop # <<>>
    BY <1>6 DEF Breed, LabIInv
  <2>2. elites \in Seq(DOMAIN slAll) /\ Len(elites) \in 1..Len(slPop)
    BY <2>1, ElitesLead
  <2>3. \/ UNCHANGED slAll
        \/ \E children \in [1..(Len(slPop) - Len(elites)) -> Offspring(elites)] : slAll' = slAll \o children
    BY <1>6 DEF Breed
  <2>4. Len(slPop) - Len(elites) \in Nat
    <3> HIDE DEF elites
    <3>1. Len(slPop) \in Nat
      BY <2>1
    <3> QED
      BY <2>2, <3>1
  <2> HIDE DEF elites
  <2> QED
    BY <1>1, <1>5, <2>2, <2>3, <2>4
<1>7. CASE EvolveBegins
  BY <1>1, <1>7 DEF EvolveBegins
<1>8. ASSUME NEW o \in LabOutcomes, EvolveTests(o) PROVE AllFit'
  BY <1>3, <1>8 DEF EvolveTests
<1>9. ASSUME NEW i \in DOMAIN slAll, NEW o \in LabOutcomes, TestStrategy(i, o) PROVE AllFit'
  BY <1>3, <1>9 DEF TestStrategy
<1>10. CASE UNCHANGED slVars
  BY <1>1, <1>10 DEF slVars
<1> QED
  BY <1>2, <1>4, <1>6, <1>7, <1>8, <1>9, <1>10 DEF LabNext

\* The parameters of every strategy, bred over any number of generations from
\* parents of any templates, are those of its template and within its ranges, as
\* long as templates that share a parameter agree on its range (_crossover).
THEOREM StrategiesFit == ASSUME TemplatesAgree PROVE LabSpec => []ParametersFit
<1>1. LabInit => AllFit
  BY DEF LabInit, AllFit
<1>2. AllFit => ParametersFit
  BY DEF AllFit, Fits, ParametersFit
<1>3. LabIInv /\ AllFit /\ [LabNext]_slVars => AllFit'
  BY FitStep
<1> QED
  BY LabInitHolds, LabStep, <1>1, <1>2, <1>3, PTL DEF LabSpec
-----------------------------------------------------------------------------
(* The situation board *)

RanksFit(bots, ranks) ==
    \A i, j \in DOMAIN bots :
        /\ bots[i].bot = ranks[1] => bots[i].profit >= bots[j].profit
        /\ bots[i].bot = ranks[2] => bots[i].profit <= bots[j].profit

BoardIInv ==
    /\ \E B : sbBots \in Seq(B)
    /\ \A i \in DOMAIN sbBots : sbBots[i].profit \in Int
    /\ \A i, j \in DOMAIN sbBots : sbBots[i].bot = sbBots[j].bot => i = j
    /\ sbOnline \in 0..BoardExchanges
    /\ sbLoop.pc = "measuring" =>
           /\ sbLoop.status = "critical" <=> 2 * sbLoop.online < BoardExchanges
           /\ ~sbTouched => RanksFit(sbBots, sbLoop.ranks)
    /\ ReportAgrees

\* What is first in the ranking earned most, and what is last the least.
LEMMA RankedEnds ==
    ASSUME BoardIInv, sbBots # <<>>
    PROVE  \E f, l \in DOMAIN sbBots :
               /\ Head(Ranked) = sbBots[f] /\ Last(Ranked) = sbBots[l]
               /\ \A j \in DOMAIN sbBots : /\ sbBots[f].profit >= sbBots[j].profit
                                           /\ sbBots[l].profit <= sbBots[j].profit
<1> DEFINE S == DOMAIN sbBots
           n == Len(sbBots)
           R == {p \in S \X S : BotBefore(p[1], p[2])}
           first(k) == CHOOSE j \in S : Cardinality({i \in S : BotBefore(i, j)}) = k - 1
<1>1. n \in Nat \ {0} /\ S = 1..n
  <2>1. PICK B : sbBots \in Seq(B)
    BY DEF BoardIInv
  <2> QED
    BY <2>1, EmptySeq, LenProperties
<1>2. IsFiniteSet(S) /\ Cardinality(S) = n
  BY <1>1, CountTo
<1>3. \A i \in S : i \in Int /\ sbBots[i].profit \in Int
  BY <1>1 DEF BoardIInv
<1>4. /\ \A i \in S : <<i, i>> \notin R
      /\ \A i, j, k \in S : <<i, j>> \in R /\ <<j, k>> \in R => <<i, k>> \in R
      /\ \A i, j \in S : i # j => <<i, j>> \in R \/ <<j, i>> \in R
  <2>1. \A i, j \in S : <<i, j>> \in R <=> BotBefore(i, j)
    OBVIOUS
  <2> HIDE DEF R, S
  <2> QED
    BY <1>3, <2>1 DEF BotBefore
<1>5. \A i \in S : {j \in S : <<j, i>> \in R} = {j \in S : BotBefore(j, i)}
  OBVIOUS
<1>6. \A k \in 1..n : \E i \in S : Cardinality({j \in S : <<j, i>> \in R}) = k - 1
  <2> HIDE DEF R, S
  <2>1. \A k \in 1..Cardinality(S) : \E i \in S : Cardinality({j \in S : <<j, i>> \in R}) = k - 1
    BY <1>2, <1>4, Ranks
  <2> QED
    BY <1>2, <2>1
<1>7. \A k \in 1..n : \E i \in S : Cardinality({j \in S : BotBefore(j, i)}) = k - 1
  <2> HIDE DEF R, S
  <2> QED
    BY <1>5, <1>6
<1>8. \A k \in 1..n : first(k) \in S /\ Cardinality({j \in S : BotBefore(j, first(k))}) = k - 1
  <2> HIDE DEF S
  <2> QED
    BY <1>7
<1>9. Ranked = [k \in S |-> sbBots[first(k)]]
  BY DEF Ranked
<1> HIDE DEF first
<1>10. Head(Ranked) = sbBots[first(1)] /\ Last(Ranked) = sbBots[first(n)]
  <2>1. DOMAIN Ranked = 1..n /\ Ranked[1] = sbBots[first(1)] /\ Ranked[n] = sbBots[first(n)]
    BY <1>1, <1>9
  <2>2. Len(Ranked) = n
    BY <1>1, <2>1
  <2> QED
    BY <2>1, <2>2 DEF Last
<1> HIDE DEF n, S
<1>11. ASSUME NEW j \in S PROVE sbBots[first(1)].profit >= sbBots[j].profit
  <2>1. first(1) \in S /\ Cardinality({i \in S : BotBefore(i, first(1))}) = 0
    BY <1>1, <1>8
  <2>2. {i \in S : BotBefore(i, first(1))} = {}
    <3>1. IsFiniteSet({i \in S : BotBefore(i, first(1))})
      BY <1>2, FS_Subset
    <3> QED
      BY <2>1, <3>1, FS_EmptySet
  <2>3. ~BotBefore(j, first(1))
    BY <2>2
  <2> QED
    BY <1>3, <2>1, <2>3 DEF BotBefore
<1>12. ASSUME NEW j \in S PROVE sbBots[first(n)].profit <= sbBots[j].profit
  <2> DEFINE last == first(n)
             T == {i \in S : BotBefore(i, last)}
  <2>1. last \in S /\ Cardinality(T) = n - 1
    BY <1>1, <1>8
  <2> HIDE DEF last
  <2>2. ~BotBefore(last, last)
    BY <1>3, <2>1 DEF BotBefore
  <2>3. T \in SUBSET (S \ {last})
    BY <2>2
  <2>4. IsFiniteSet(S \ {last}) /\ Cardinality(S \ {last}) = n - 1
    BY <1>2, <2>1, FS_RemoveElement
  <2>5. T = S \ {last}
    <3> HIDE DEF T
    <3> QED
      BY <2>1, <2>3, <2>4, FS_Subset
  <2>6. j = last \/ BotBefore(j, last)
    BY <2>5
  <2>7. sbBots[last].profit <= sbBots[j].profit
    BY <1>3, <2>1, <2>6 DEF BotBefore
  <2> QED
    BY <2>7 DEF last
<1>13. first(1) \in S /\ first(n) \in S
  <2>1. 1 \in 1..n /\ n \in 1..n
    BY <1>1
  <2> QED
    BY <1>8, <2>1
<1>14. \A j \in S : /\ sbBots[first(1)].profit >= sbBots[j].profit
                     /\ sbBots[first(n)].profit <= sbBots[j].profit
  BY <1>11, <1>12
<1>15. \E f, l \in S :
           /\ Head(Ranked) = sbBots[f] /\ Last(Ranked) = sbBots[l]
           /\ \A j \in S : sbBots[f].profit >= sbBots[j].profit /\ sbBots[l].profit <= sbBots[j].profit
  BY <1>10, <1>13, <1>14, Zenon
<1> QED
  BY <1>15, Zenon DEF S

LEMMA RanksAgree == ASSUME BoardIInv PROVE RanksFit(sbBots, BestAndWorst)
<1>1. CASE sbBots = <<>>
  BY <1>1 DEF RanksFit
<1>2. CASE sbBots # <<>>
  <2>1. PICK f, l \in DOMAIN sbBots :
               /\ Head(Ranked) = sbBots[f] /\ Last(Ranked) = sbBots[l]
               /\ \A j \in DOMAIN sbBots : /\ sbBots[f].profit >= sbBots[j].profit
                                           /\ sbBots[l].profit <= sbBots[j].profit
    BY <1>2, RankedEnds
  <2>2. BestAndWorst = <<sbBots[f].bot, sbBots[l].bot>>
    BY <1>2, <2>1 DEF BestAndWorst
  <2>3. \A i \in DOMAIN sbBots : /\ sbBots[i].bot = BestAndWorst[1] => i = f
                                 /\ sbBots[i].bot = BestAndWorst[2] => i = l
    BY <2>2 DEF BoardIInv
  <2> QED
    BY <2>1, <2>3 DEF RanksFit
<1> QED
  BY <1>1, <1>2

LEMMA MarketIsCritical ==
    ASSUME BoardIInv PROVE MarketStatus = "critical" <=> 2 * sbOnline < BoardExchanges
<1>1. sbOnline \in Nat /\ BoardExchanges \in Nat
  BY BoardAssumption DEF BoardIInv
<1>2. (BoardExchanges - sbOnline > sbOnline) <=> 2 * sbOnline < BoardExchanges
  BY <1>1
<1> QED
  BY <1>2 DEF MarketStatus

\* A bot reports: the statuses stay one for each bot.
LEMMA BotReports ==
    ASSUME BoardIInv, NEW b, NEW profit \in Int, UpdateBotStatus(b, profit)
    PROVE  /\ \E B : sbBots' \in Seq(B)
           /\ \A i \in DOMAIN sbBots' : sbBots'[i].profit \in Int
           /\ \A i, j \in DOMAIN sbBots' : sbBots'[i].bot = sbBots'[j].bot => i = j
<1> DEFINE known == {i \in DOMAIN sbBots : sbBots[i].bot = b}
           status == [bot |-> b, profit |-> profit]
<1>1. sbBots' = IF known = {} THEN Append(sbBots, status)
                ELSE [i \in DOMAIN sbBots |-> IF i \in known THEN status ELSE sbBots[i]]
  BY DEF UpdateBotStatus
<1>2. PICK B : sbBots \in Seq(B)
  BY DEF BoardIInv
<1>3. PICK V : sbBots \in Seq(V) /\ status \in V
  <2>1. sbBots \in Seq(B \cup {status})
    BY <1>2, SeqMonotonic, Zenon
  <2> QED
    BY <2>1
<1>4. status.bot = b /\ status.profit = profit
  OBVIOUS
<1> HIDE DEF status
<1>5. PICK n \in Nat : n = Len(sbBots) /\ DOMAIN sbBots = 1..n /\ sbBots \in [1..n -> V]
  BY <1>3, LenProperties
<1>6. CASE known = {}
  <2>1. sbBots' \in Seq(V) /\ Len(sbBots') = n + 1
    BY <1>1, <1>3, <1>5, <1>6, AppendProperties
  <2>2. DOMAIN sbBots' = 1..(n + 1)
    BY <1>5, <2>1, LenProperties
  <2>3. sbBots'[n + 1] = status /\ \A i \in 1..n : sbBots'[i] = sbBots[i]
    BY <1>1, <1>3, <1>5, <1>6, AppendProperties
  <2>4. \A i \in 1..n : sbBots[i].bot # b
    BY <1>5, <1>6
  <2>5. \A i \in 1..(n + 1) : i \in 1..n \/ i = n + 1
    BY <1>5
  <2>6. \A i \in DOMAIN sbBots' : sbBots'[i].profit \in Int
    BY <1>4, <1>5, <2>2, <2>3, <2>5 DEF BoardIInv
  <2>7. \A i, j \in DOMAIN sbBots' : sbBots'[i].bot = sbBots'[j].bot => i = j
    BY <1>4, <1>5, <2>2, <2>3, <2>4, <2>5 DEF BoardIInv
  <2> QED
    BY <2>1, <2>6, <2>7
<1>7. CASE known # {}
  <2>1. sbBots' = [i \in 1..n |-> IF i \in known THEN status ELSE sbBots[i]]
    BY <1>1, <1>5, <1>7
  <2>2. sbBots' \in [1..n -> V]
    BY <1>3, <1>5, <2>1
  <2>3. sbBots' \in Seq(V)
    BY <1>5, <2>2
  <2>4. \A i \in 1..n : sbBots'[i].bot = sbBots[i].bot
    BY <1>4, <1>5, <2>1
  <2>5. \A i \in 1..n : sbBots'[i].profit \in Int
    BY <1>4, <1>5, <2>1 DEF BoardIInv
  <2> QED
    BY <1>5, <2>2, <2>3, <2>4, <2>5 DEF BoardIInv
<1> QED
  BY <1>6, <1>7

LEMMA BoardInitHolds == BoardInit => BoardIInv
<1> SUFFICES ASSUME BoardInit PROVE BoardIInv
  OBVIOUS
<1>1. sbBots \in Seq({}) /\ DOMAIN sbBots = {}
  BY EmptySeq DEF BoardInit
<1>2. sbOnline \in 0..BoardExchanges
  BY BoardAssumption DEF BoardInit
<1>3. sbLoop.pc # "measuring" /\ ReportAgrees
  BY DEF BoardInit, LoopOff, ReportAgrees
<1> QED
  BY <1>1, <1>2, <1>3 DEF BoardIInv

LEMMA BoardStep == BoardIInv /\ [BoardNext]_sbVars => BoardIInv'
<1> SUFFICES ASSUME BoardIInv, [BoardNext]_sbVars PROVE BoardIInv'
  OBVIOUS
\* A step that neither measures nor reports keeps it.
<1>0. ASSUME UNCHANGED <<sbBots, sbReport>>, sbOnline' \in 0..BoardExchanges,
             sbLoop'.pc # "measuring" \/ UNCHANGED <<sbLoop, sbTouched>>
      PROVE  BoardIInv'
  BY <1>0 DEF BoardIInv, ReportAgrees, RanksFit, NoReport
<1>1. CASE UNCHANGED sbVars
  <2>1. UNCHANGED <<sbBots, sbReport>> /\ sbOnline' = sbOnline /\ UNCHANGED <<sbLoop, sbTouched>>
    BY <1>1 DEF sbVars
  <2> QED
    BY <1>0, <2>1 DEF BoardIInv
<1>2. CASE BoardStarts
  <2>1. UNCHANGED <<sbBots, sbReport>> /\ sbOnline' = sbOnline /\ sbLoop'.pc # "measuring"
    BY <1>2 DEF BoardStarts
  <2> QED
    BY <1>0, <2>1 DEF BoardIInv
<1>3. CASE BoardStops
  <2>1. UNCHANGED <<sbBots, sbReport>> /\ sbOnline' = sbOnline /\ sbLoop'.pc # "measuring"
    BY <1>3 DEF BoardStops, LoopOff
  <2> QED
    BY <1>0, <2>1 DEF BoardIInv
<1>4. CASE BoardStopReturns
  <2>1. UNCHANGED <<sbBots, sbReport>> /\ sbOnline' = sbOnline /\ UNCHANGED <<sbLoop, sbTouched>>
    BY <1>4 DEF BoardStopReturns
  <2> QED
    BY <1>0, <2>1 DEF BoardIInv
<1>5. CASE RefreshBegins
  <2>1. /\ sbLoop' = [pc |-> "measuring", status |-> MarketStatus, online |-> sbOnline, ranks |-> BestAndWorst]
        /\ UNCHANGED <<sbBots, sbOnline, sbReport>>
    BY <1>5 DEF RefreshBegins
  <2>2. sbLoop'.status = MarketStatus /\ sbLoop'.online = sbOnline /\ sbLoop'.ranks = BestAndWorst
    BY <2>1
  <2>3. RanksFit(sbBots', sbLoop'.ranks)
    BY <2>1, <2>2, RanksAgree
  <2>4. sbLoop'.status = "critical" <=> 2 * sbLoop'.online < BoardExchanges
    BY <2>2, MarketIsCritical
  <2>5. ReportAgrees'
    BY <2>1 DEF BoardIInv, ReportAgrees, NoReport
  <2>6. RanksFit(sbBots, sbLoop.ranks)' <=> RanksFit(sbBots', sbLoop'.ranks)
    BY DEF RanksFit
  <2> QED
    BY <2>1, <2>3, <2>4, <2>5, <2>6 DEF BoardIInv
<1>6. ASSUME sbLoop.pc = "measuring", NEW health, ReportMade(health)
      PROVE  BoardIInv'
  <2>1. /\ sbReport' = [status |-> sbLoop.status, online |-> sbLoop.online, ranks |-> sbLoop.ranks,
                        bots |-> sbBots, health |-> health, torn |-> sbTouched]
        /\ sbLoop' = [pc |-> "sleeping"] /\ UNCHANGED <<sbBots, sbOnline>>
    BY <1>6 DEF ReportMade
  <2>2. /\ sbReport'.status = sbLoop.status /\ sbReport'.online = sbLoop.online /\ sbReport'.ranks = sbLoop.ranks
        /\ sbReport'.bots = sbBots /\ sbReport'.torn = sbTouched /\ sbLoop'.pc # "measuring"
    BY <2>1
  <2>3. ReportAgrees'
    BY <1>6, <2>2 DEF BoardIInv, ReportAgrees, RanksFit
  <2> QED
    BY <2>1, <2>2, <2>3 DEF BoardIInv
<1>7. CASE HealthChecked
  <2>1. sbLoop.pc = "measuring" /\ \E health : ReportMade(health)
    BY <1>7 DEF HealthChecked
  <2> QED
    BY <1>6, <2>1
<1>8. CASE LoopSleeps
  <2>1. UNCHANGED <<sbBots, sbReport>> /\ sbOnline' = sbOnline /\ sbLoop'.pc # "measuring"
    BY <1>8 DEF LoopSleeps
  <2> QED
    BY <1>0, <2>1 DEF BoardIInv
<1>9. CASE MarketMoves
  <2>1. UNCHANGED <<sbBots, sbReport>> /\ sbOnline' \in 0..BoardExchanges /\ UNCHANGED <<sbLoop, sbTouched>>
    BY <1>9 DEF MarketMoves
  <2> QED
    BY <1>0, <2>1
<1>10. ASSUME NEW b \in BoardBots, NEW profit \in BotProfits, UpdateBotStatus(b, profit)
       PROVE  BoardIInv'
  <2>1. /\ \E B : sbBots' \in Seq(B)
        /\ \A i \in DOMAIN sbBots' : sbBots'[i].profit \in Int
        /\ \A i, j \in DOMAIN sbBots' : sbBots'[i].bot = sbBots'[j].bot => i = j
    BY <1>10, BotReports, BoardAssumption
  <2>2. sbTouched' = TRUE /\ UNCHANGED <<sbOnline, sbLoop, sbReport>>
    BY <1>10 DEF UpdateBotStatus
  <2>3. ReportAgrees'
    BY <2>2 DEF BoardIInv, ReportAgrees, NoReport
  <2> QED
    BY <2>1, <2>2, <2>3 DEF BoardIInv
<1> QED
  BY <1>1, <1>2, <1>3, <1>4, <1>5, <1>7, <1>8, <1>9, <1>10 DEF BoardNext

\* A report agrees with itself, over any bots, exchanges and order of reports,
\* stops and starts: no bot it shows earned more than the one it calls the best,
\* unless a bot reported while it was made, and the market is critical in it just
\* where fewer exchanges answer than not (_refresh_situation).
THEOREM ReportsAgree == BoardSpec => []ReportAgrees
<1>1. BoardIInv => ReportAgrees
  BY DEF BoardIInv
<1> QED
  BY BoardInitHolds, BoardStep, <1>1, PTL DEF BoardSpec
-----------------------------------------------------------------------------
(* The episodes *)

Outcomes == {"success", "neutral", "failure"}
Episode == [id : Nat, score : Int, context : Contexts, outcome : Outcomes]

Prefers(e, f) == e.score > f.score \/ (e.score = f.score /\ e.id < f.id)
Better == {p \in Episode \X Episode : Prefers(p[1], p[2])}

\* Of episodes with the same score the earlier trade comes first.
InAge(seq) ==
    \A i, j \in DOMAIN seq : i < j /\ seq[i].score = seq[j].score => seq[i].id < seq[j].id

EpisodeIInv ==
    /\ emEpisodes \in Seq(Episode) /\ Len(emEpisodes) <= MaxEpisodes
    /\ emTrades \in 0..MaxTrades /\ emCycles \in 0..MaxCycles
    /\ \A i \in DOMAIN emEpisodes : emEpisodes[i].id < emTrades
    /\ InAge(emEpisodes)
    /\ emPreferences \in Seq(Better)

LEMMA EndKept ==
    ASSUME NEW S, NEW seq \in Seq(S), NEW n \in Nat
    PROVE  /\ LastOf(seq, n) \in Seq(S) /\ Len(LastOf(seq, n)) <= n
           /\ \E d \in Nat : \A k \in DOMAIN LastOf(seq, n) :
                  k + d \in DOMAIN seq /\ LastOf(seq, n)[k] = seq[k + d]
<1>0. Len(seq) \in Nat /\ DOMAIN seq = 1..Len(seq)
  BY LenProperties
<1>1. CASE Len(seq) > n
  <2> DEFINE m == Len(seq) - n + 1
             end == SubSeq(seq, m, Len(seq))
  <2>1. m \in Int /\ Len(seq) \in Int /\ \A i \in m..Len(seq) : seq[i] \in S
    <3>1. \A i \in m..Len(seq) : i \in 1..Len(seq)
      BY <1>0, <1>1
    <3> QED
      BY <1>0, <3>1, ElementOfSeq
  <2>2. /\ end \in Seq(S) /\ Len(end) = IF m <= Len(seq) THEN Len(seq) - m + 1 ELSE 0
        /\ \A i \in 1..(Len(seq) - m + 1) : end[i] = seq[m + i - 1]
    <3> HIDE DEF m
    <3> QED
      BY <2>1, SubSeqProperties
  <2>3. Len(end) = n /\ DOMAIN end = 1..n
    <3>1. Len(end) = n
      BY <1>0, <1>1, <2>2
    <3> HIDE DEF end
    <3> QED
      BY <2>2, <3>1, LenProperties
  <2>4. ASSUME NEW k \in DOMAIN end
        PROVE  k + (Len(seq) - n) \in DOMAIN seq /\ end[k] = seq[k + (Len(seq) - n)]
    <3>1. k \in 1..n /\ m + k - 1 = k + (Len(seq) - n) /\ Len(seq) - m + 1 = n
      BY <1>0, <2>3
    <3>2. end[k] = seq[k + (Len(seq) - n)]
      <4> HIDE DEF m, end
      <4> QED
        BY <2>2, <3>1
    <3> QED
      BY <1>0, <1>1, <3>1, <3>2
  <2>5. LastOf(seq, n) = end
    BY <1>1 DEF LastOf
  <2>6. Len(seq) - n \in Nat
    BY <1>0, <1>1
  <2> HIDE DEF end
  <2> QED
    BY <2>2, <2>3, <2>4, <2>5, <2>6
<1>2. CASE ~(Len(seq) > n)
  <2>1. LastOf(seq, n) = seq
    BY <1>2 DEF LastOf
  <2>2. \A k \in DOMAIN seq : k + 0 \in DOMAIN seq /\ seq[k] = seq[k + 0]
    BY <1>0
  <2>3. \E d \in Nat : \A k \in DOMAIN seq : k + d \in DOMAIN seq /\ seq[k] = seq[k + d]
    <3>1. 0 \in Nat
      OBVIOUS
    <3> QED
      BY <2>2, <3>1, Zenon
  <2>4. Len(seq) <= n
    BY <1>0, <1>2
  <2> QED
    BY <2>1, <2>3, <2>4
<1> QED
  BY <1>1, <1>2

\* What is picked stands at one of the places.
LEMMA PickedFrom ==
    ASSUME NEW seq, NEW places, IsFiniteSet(places), \A i \in places : i \in Int
    PROVE  /\ Cardinality(places) \in Nat /\ DOMAIN Picked(seq, places) = 1..Cardinality(places)
           /\ \A k \in DOMAIN Picked(seq, places) : \E i \in places : Picked(seq, places)[k] = seq[i]
<1> DEFINE R == {p \in places \X places : p[1] < p[2]}
           at(k) == CHOOSE i \in places : Cardinality({j \in places : j < i}) = k - 1
<1>1. IsFiniteSet(places) /\ Cardinality(places) \in Nat
  BY FS_CardinalityType
<1>2. /\ \A i \in places : <<i, i>> \notin R
      /\ \A i, j, k \in places : <<i, j>> \in R /\ <<j, k>> \in R => <<i, k>> \in R
      /\ \A i, j \in places : i # j => <<i, j>> \in R \/ <<j, i>> \in R
  OBVIOUS
<1>3. \A i \in places : {j \in places : <<j, i>> \in R} = {j \in places : j < i}
  OBVIOUS
<1>4. \A k \in 1..Cardinality(places) : \E i \in places : Cardinality({j \in places : <<j, i>> \in R}) = k - 1
  <2> HIDE DEF R
  <2> QED
    BY <1>1, <1>2, Ranks
<1>5. \A k \in 1..Cardinality(places) : \E i \in places : Cardinality({j \in places : j < i}) = k - 1
  <2> HIDE DEF R
  <2> QED
    BY <1>3, <1>4
<1>6. \A k \in 1..Cardinality(places) : at(k) \in places
  BY <1>5
<1>7. Picked(seq, places) = [k \in 1..Cardinality(places) |-> seq[at(k)]]
  BY DEF Picked
<1> HIDE DEF at
<1> QED
  BY <1>1, <1>6, <1>7

LEMMA ThoseFrom ==
    ASSUME NEW seq \in Seq(Episode), NEW o
    PROVE  /\ Those(seq, o) \in Seq(Episode)
           /\ \A k \in DOMAIN Those(seq, o) :
                  \E i \in DOMAIN seq : seq[i].outcome = o /\ Those(seq, o)[k] = seq[i]
<1> DEFINE places == {i \in DOMAIN seq : seq[i].outcome = o}
           those == Picked(seq, places)
<1>1. Len(seq) \in Nat /\ DOMAIN seq = 1..Len(seq) /\ seq \in [1..Len(seq) -> Episode]
  BY LenProperties
<1>2. places \in SUBSET (1..Len(seq))
  BY <1>1
<1>3. Those(seq, o) = those
  BY DEF Those
<1>4. /\ Cardinality(places) \in Nat /\ DOMAIN those = 1..Cardinality(places)
      /\ \A k \in DOMAIN those : \E i \in places : those[k] = seq[i]
      /\ those = [k \in 1..Cardinality(places) |-> those[k]]
  <2> HIDE DEF places
  <2>1. those = [k \in 1..Cardinality(places) |-> those[k]]
    BY DEF Picked
  <2>2. /\ Cardinality(places) \in Nat /\ DOMAIN Picked(seq, places) = 1..Cardinality(places)
        /\ \A k \in DOMAIN Picked(seq, places) : \E i \in places : Picked(seq, places)[k] = seq[i]
    <3>1. IsFiniteSet(1..Len(seq)) /\ \A i \in places : i \in Int
      BY <1>1, <1>2, CountTo
    <3>2. IsFiniteSet(places)
      BY <1>2, <3>1, FS_Subset
    <3> QED
      BY <3>1, <3>2, PickedFrom
  <2> QED
    BY <2>1, <2>2
<1>5. \A k \in DOMAIN those : \E i \in DOMAIN seq : seq[i].outcome = o /\ those[k] = seq[i]
  <2> HIDE DEF those
  <2> QED
    BY <1>4
<1> HIDE DEF those, places
<1>6. those \in [1..Cardinality(places) -> Episode]
  <2>1. \A k \in 1..Cardinality(places) : those[k] \in Episode
    BY <1>1, <1>4, <1>5
  <2> QED
    BY <1>4, <2>1
<1>7. those \in Seq(Episode)
  BY <1>4, <1>6
<1> QED
  BY <1>3, <1>5, <1>7

\* The sorted list: a better score first, and the earlier trade of equal ones.
LEMMA Sorted ==
    ASSUME NEW seq \in Seq(Episode), InAge(seq)
    PROVE  /\ SortedEpisodes(seq) \in Seq(Episode) /\ Len(SortedEpisodes(seq)) = Len(seq)
           /\ \A p, q \in 1..Len(seq) : p < q => Prefers(SortedEpisodes(seq)[p], SortedEpisodes(seq)[q])
           /\ \A p \in 1..Len(seq) : \E i \in DOMAIN seq : SortedEpisodes(seq)[p] = seq[i]
<1> DEFINE S == DOMAIN seq
           n == Len(seq)
           before(i, j) == seq[i].score > seq[j].score \/ (seq[i].score = seq[j].score /\ i < j)
           R == {p \in S \X S : before(p[1], p[2])}
           below(i) == {j \in S : <<j, i>> \in R}
           upto(i) == {j \in S : seq[j].score > seq[i].score \/ (seq[j].score = seq[i].score /\ j <= i)}
           at(r) == CHOOSE i \in S : Cardinality(upto(i)) = r
<1>1. n \in Nat /\ S = 1..n /\ seq \in [1..n -> Episode]
  BY LenProperties
<1>2. IsFiniteSet(S) /\ Cardinality(S) = n
  BY <1>1, CountTo
<1>3. \A i \in S : i \in Int /\ seq[i].score \in Int /\ seq[i].id \in Nat /\ seq[i] \in Episode
  BY <1>1 DEF Episode
<1>4. /\ \A i \in S : <<i, i>> \notin R
      /\ \A i, j, k \in S : <<i, j>> \in R /\ <<j, k>> \in R => <<i, k>> \in R
      /\ \A i, j \in S : i # j => <<i, j>> \in R \/ <<j, i>> \in R
  <2>1. \A i, j \in S : <<i, j>> \in R <=> before(i, j)
    OBVIOUS
  <2>2. /\ \A i \in S : ~before(i, i)
        /\ \A i, j, k \in S : before(i, j) /\ before(j, k) => before(i, k)
        /\ \A i, j \in S : i # j => before(i, j) \/ before(j, i)
    <3> HIDE DEF S
    <3> QED
      BY <1>3
  <2> HIDE DEF R, S, before
  <2> QED
    BY <2>1, <2>2
<1>5. /\ \A k \in 1..n : \E i \in S : Cardinality(below(i)) = k - 1
      /\ \A i \in S : Cardinality(below(i)) \in 0..(n - 1)
      /\ \A i, j \in S : <<i, j>> \in R <=> Cardinality(below(i)) < Cardinality(below(j))
  <2> HIDE DEF R, S, n
  <2>1. /\ \A k \in 1..Cardinality(S) : \E i \in S : Cardinality({j \in S : <<j, i>> \in R}) = k - 1
        /\ \A i \in S : Cardinality({j \in S : <<j, i>> \in R}) \in 0..(Cardinality(S) - 1)
        /\ \A i, j \in S : <<i, j>> \in R <=> Cardinality({h \in S : <<h, i>> \in R})
                                                < Cardinality({h \in S : <<h, j>> \in R})
    BY <1>2, <1>4, Ranks, Zenon
  <2> QED
    BY <1>2, <2>1, Zenon
<1>6. ASSUME NEW i \in S PROVE Cardinality(upto(i)) = Cardinality(below(i)) + 1
  <2>1. upto(i) = below(i) \cup {i}
    <3>1. \A j \in S : <<j, i>> \in R <=> before(j, i)
      OBVIOUS
    <3>2. \A j \in S : j \in upto(i) <=> before(j, i) \/ j = i
      <4> HIDE DEF S, R
      <4> QED
        BY <1>3
    <3>3. upto(i) \in SUBSET S /\ below(i) \in SUBSET S
      OBVIOUS
    <3>4. \A j \in S : j \in below(i) <=> before(j, i)
      BY <3>1
    <3> HIDE DEF upto, below, before, S
    <3> QED
      BY <3>2, <3>3, <3>4
  <2>2. i \notin below(i) /\ IsFiniteSet(below(i))
    <3>1. below(i) \in SUBSET S
      OBVIOUS
    <3>2. IsFiniteSet(below(i))
      <4> HIDE DEF below, S
      <4> QED
        BY <1>2, <3>1, FS_Subset
    <3> QED
      BY <1>4, <3>2
  <2> HIDE DEF upto, below
  <2> QED
    BY <2>1, <2>2, FS_AddElement
<1>7. \A k \in 1..n : \E i \in S : Cardinality(upto(i)) = k
  <2> TAKE k \in 1..n
  <2>1. PICK i \in S : Cardinality(below(i)) = k - 1
    <3> HIDE DEF below, S, n
    <3> QED
      BY <1>5
  <2> HIDE DEF upto, below, n
  <2>2. Cardinality(upto(i)) = k
    BY <1>1, <1>6, <2>1
  <2> QED
    BY <2>2
<1>8. \A k \in 1..n : at(k) \in S /\ Cardinality(upto(at(k))) = k
  <2> HIDE DEF upto, S, n
  <2> QED
    BY <1>7
<1>9. SortedEpisodes(seq) = [r \in S |-> seq[at(r)]]
  BY DEF SortedEpisodes
<1> HIDE DEF at
<1>10. SortedEpisodes(seq) \in [1..n -> Episode]
  <2> HIDE DEF n
  <2> QED
    BY <1>1, <1>3, <1>8, <1>9
<1>11. SortedEpisodes(seq) \in Seq(Episode) /\ Len(SortedEpisodes(seq)) = n
  <2> HIDE DEF n
  <2> QED
    BY <1>1, <1>10
<1>12. ASSUME NEW p \in 1..n, NEW q \in 1..n, p < q PROVE Prefers(seq[at(p)], seq[at(q)])
  <2>1. /\ at(p) \in S /\ at(q) \in S
        /\ Cardinality(upto(at(p))) = p /\ Cardinality(upto(at(q))) = q
    BY <1>8
  <2>2. Cardinality(below(at(p))) < Cardinality(below(at(q)))
    <3>1. /\ Cardinality(below(at(p))) \in 0..(n - 1) /\ Cardinality(below(at(q))) \in 0..(n - 1)
          /\ p = Cardinality(below(at(p))) + 1 /\ q = Cardinality(below(at(q))) + 1
      <4> HIDE DEF below, upto, n, S, R
      <4> QED
        BY <1>5, <1>6, <2>1
    <3> HIDE DEF below, n
    <3> QED
      BY <1>1, <1>12, <3>1
  <2>3. before(at(p), at(q))
    <3>1. <<at(p), at(q)>> \in R
      <4> HIDE DEF below, R, S
      <4> QED
        BY <1>5, <2>1, <2>2
    <3> QED
      BY <3>1
  <2> HIDE DEF S
  <2> QED
    BY <1>3, <2>1, <2>3 DEF InAge, Prefers, S
<1>13. \A p \in 1..n : SortedEpisodes(seq)[p] = seq[at(p)] /\ at(p) \in S
  <2> HIDE DEF n
  <2> QED
    BY <1>1, <1>8, <1>9
<1> HIDE DEF before, R, below, upto
<1> QED
  BY <1>11, <1>12, <1>13

\* The labels follow the places in the sorted list.
LEMMA LabelledInOrder ==
    ASSUME NEW seq \in Seq(Episode), InAge(seq)
    PROVE  /\ Labelled(seq) \in Seq(Episode) /\ Len(Labelled(seq)) = Len(seq)
           /\ \A p, q \in DOMAIN Labelled(seq) : p < q => Prefers(Labelled(seq)[p], Labelled(seq)[q])
           /\ \A p \in DOMAIN Labelled(seq) :
                  /\ Labelled(seq)[p].outcome = Outcome(p, Len(seq))
                  /\ \E i \in DOMAIN seq : Labelled(seq)[p].id = seq[i].id
<1> DEFINE ranked == SortedEpisodes(seq)
           n == Len(seq)
           new(i) == [ranked[i] EXCEPT !.outcome = Outcome(i, Len(ranked))]
<1>1. /\ ranked \in Seq(Episode) /\ Len(ranked) = n
      /\ \A p, q \in 1..n : p < q => Prefers(ranked[p], ranked[q])
      /\ \A p \in 1..n : \E i \in DOMAIN seq : ranked[p] = seq[i]
  BY Sorted
<1>2. Labelled(seq) = [i \in DOMAIN ranked |-> new(i)]
  BY DEF Labelled
<1> HIDE DEF ranked
<1>3. n \in Nat /\ DOMAIN ranked = 1..n /\ \A i \in 1..n : ranked[i] \in Episode
  BY <1>1, LenProperties
<1>4. ASSUME NEW i \in 1..n
      PROVE  /\ new(i) \in Episode /\ new(i).outcome = Outcome(i, n)
             /\ new(i).id = ranked[i].id /\ new(i).score = ranked[i].score
  <2>1. Outcome(i, n) \in Outcomes
    BY DEF Outcome, Outcomes
  <2>2. ranked[i] \in [id : Nat, score : Int, context : Contexts, outcome : Outcomes]
    BY <1>3 DEF Episode
  <2>3. new(i) = [ranked[i] EXCEPT !.outcome = Outcome(i, n)]
    BY <1>1
  <2> HIDE DEF new, n
  <2> QED
    BY <2>1, <2>2, <2>3 DEF Episode
<1> HIDE DEF new
<1>5. /\ DOMAIN Labelled(seq) = 1..n /\ \A i \in 1..n : Labelled(seq)[i] = new(i)
      /\ Labelled(seq) \in [1..n -> Episode]
  BY <1>2, <1>3, <1>4
<1>6. Labelled(seq) \in Seq(Episode) /\ Len(Labelled(seq)) = n
  <2> HIDE DEF n
  <2> QED
    BY <1>3, <1>5
<1>7. ASSUME NEW p \in 1..n, NEW q \in 1..n, p < q PROVE Prefers(new(p), new(q))
  <2>1. Prefers(ranked[p], ranked[q])
    BY <1>1, <1>7
  <2> QED
    BY <1>4, <2>1 DEF Prefers
<1>8. ASSUME NEW p \in 1..n PROVE \E i \in DOMAIN seq : new(p).id = seq[i].id
  BY <1>1, <1>4
<1> QED
  BY <1>4, <1>5, <1>6, <1>7, <1>8

\* Two contexts of one market are compared by a division by the first price.
LEMMA SimilarityIsNumber ==
    ASSUME NEW c \in Contexts, NEW d \in Contexts, c.market = d.market => c.price # 0
    PROVE  Similarity(c, d) \in Int
<1>1. CASE c.market # d.market
  BY <1>1 DEF Similarity
<1>2. CASE c.market = d.market
  <2>1. c.price \in Nat \ {0} /\ d.price \in Nat /\ c.volatility \in Nat /\ d.volatility \in Nat
    BY <1>2, EpisodeAssumption
  <2>2. Gap(c.price, d.price) \in Int /\ Gap(c.volatility, d.volatility) \in Int
    BY <2>1 DEF Gap
  <2>3. \A a \in Int : \A b \in Nat \ {0} : a \div b \in Int
    OBVIOUS
  <2>4. (Gap(c.price, d.price) * 2000) \div c.price \in Int
    BY <2>1, <2>2, <2>3
  <2>5. Max({c.volatility, 1}) \in Nat \ {0}
    <3>1. IsFiniteSet({c.volatility, 1})
      <4>1. IsFiniteSet({c.volatility} \cup {1})
        BY FS_Singleton, FS_Union
      <4>2. {c.volatility} \cup {1} = {c.volatility, 1}
        OBVIOUS
      <4> QED
        BY <4>1, <4>2
    <3>2. {c.volatility, 1} \in SUBSET Int /\ {c.volatility, 1} # {}
      BY <2>1
    <3>3. Max({c.volatility, 1}) \in {c.volatility, 1} /\ Max({c.volatility, 1}) >= 1
      BY <3>1, <3>2, Extremes
    <3> QED
      BY <2>1, <3>3
  <2>6. (Gap(c.volatility, d.volatility) * 100) \div Max({c.volatility, 1}) \in Int
    BY <2>2, <2>3, <2>5
  <2>7. \A x \in Int : Part(x) \in Int
    BY DEF Part
  <2>8. PICK u \in Int, v \in Int :
            /\ u = Part(100 - (Gap(c.price, d.price) * 2000) \div c.price)
            /\ v = Part(100 - (Gap(c.volatility, d.volatility) * 100) \div Max({c.volatility, 1}))
    BY <2>4, <2>6, <2>7
  <2>9. Similarity(c, d) = (u + v + (IF c.trend = d.trend THEN 100 ELSE 0)
                                  + (IF c.regime = d.regime THEN 100 ELSE 0)) \div 4
    BY <1>2, <2>8 DEF Similarity
  <2> QED
    BY <2>9
<1> QED
  BY <1>1, <1>2

\* The likest failure is one of the failures.
LEMMA MatchIsFailure ==
    ASSUME NEW e \in Episode, NEW failures \in Seq(Episode), failures # <<>>,
           \A f \in ToSet(failures) : e.context.market = f.context.market => e.context.price # 0
    PROVE  \E k \in DOMAIN failures : BestMatch(e, failures) = failures[k]
<1> DEFINE like(f) == Similarity(e.context, f.context)
           values == {like(f) : f \in ToSet(failures)}
           best == Max(values)
           places == {i \in DOMAIN failures : like(failures[i]) = best}
<1>1. PICK n \in Nat \ {0} : DOMAIN failures = 1..n /\ failures \in [1..n -> Episode]
  BY EmptySeq, LenProperties
<1>2. ToSet(failures) = {failures[i] : i \in 1..n}
  BY <1>1 DEF ToSet
<1>3. \A f \in ToSet(failures) : f \in Episode /\ like(f) \in Int
  <2> TAKE f \in ToSet(failures)
  <2>1. f \in Episode
    BY <1>1, <1>2
  <2>2. e.context \in Contexts /\ f.context \in Contexts
    BY <2>1 DEF Episode
  <2> QED
    BY <2>1, <2>2, SimilarityIsNumber
<1> HIDE DEF like
<1>4. IsFiniteSet(values) /\ values \in SUBSET Int /\ values # {}
  <2> DEFINE map == [i \in 1..n |-> like(failures[i])]
  <2>1. values = {like(failures[i]) : i \in 1..n}
    BY <1>2
  <2>2. map \in Surjection(1..n, values)
    <3>1. map \in [1..n -> values] /\ \A v \in values : \E i \in 1..n : map[i] = v
      BY <2>1
    <3> HIDE DEF map, values
    <3> QED
      BY <3>1 DEF Surjection
  <2>4. IsFiniteSet(values)
    <3> HIDE DEF map, values
    <3> QED
      BY <1>1, <2>2, CountTo, FS_Surjection
  <2>3. failures[1] \in ToSet(failures)
    BY <1>1, <1>2
  <2> QED
    BY <1>3, <2>3, <2>4
<1>5. best \in values
  <2> HIDE DEF values
  <2> QED
    BY <1>4, Extremes
<1>6. PICK i \in 1..n : like(failures[i]) = best
  <2> HIDE DEF best
  <2> QED
    BY <1>2, <1>5
<1> HIDE DEF best, values
<1>7. places \in SUBSET (1..n) /\ places # {}
  BY <1>1, <1>6
<1>8. IsFiniteSet(places) /\ places \in SUBSET Int
  <2> HIDE DEF places
  <2>1. IsFiniteSet(1..n)
    BY <1>1, CountTo
  <2>2. \A k \in 1..n : k \in Int
    BY <1>1
  <2> QED
    BY <1>7, <2>1, <2>2, FS_Subset
<1>9. Min(places) \in places
  <2> HIDE DEF places
  <2> QED
    BY <1>7, <1>8, Extremes
<1>10. BestMatch(e, failures) = failures[Min(places)]
  BY DEF BestMatch, like, best, values
<1> HIDE DEF places
<1> QED
  BY <1>1, <1>7, <1>9, <1>10

\* A pair prefers what stands before the other in the sorted list.
LEMMA PairsPrefer ==
    ASSUME NEW labelled \in Seq(Episode),
           \A p, q \in DOMAIN labelled : p < q => Prefers(labelled[p], labelled[q]),
           \A p \in DOMAIN labelled : labelled[p].outcome = Outcome(p, Len(labelled)),
           Those(labelled, "failure") # <<>> =>
               \A e \in ToSet(Those(labelled, "success")), f \in ToSet(Those(labelled, "failure")) :
                   e.context.market = f.context.market => e.context.price # 0
    PROVE  Pairs(labelled) \in Seq(Better)
<1> DEFINE successes == Those(labelled, "success")
           failures == Those(labelled, "failure")
           places == {i \in DOMAIN successes :
                         Similarity(successes[i].context, BestMatch(successes[i], failures).context) > 50}
           likely == IF failures = <<>> THEN <<>> ELSE Picked(successes, places)
           pair(i) == <<likely[i], BestMatch(likely[i], failures)>>
<1>1. /\ successes \in Seq(Episode) /\ failures \in Seq(Episode)
      /\ \A k \in DOMAIN successes :
             \E i \in DOMAIN labelled : labelled[i].outcome = "success" /\ successes[k] = labelled[i]
      /\ \A k \in DOMAIN failures :
             \E i \in DOMAIN labelled : labelled[i].outcome = "failure" /\ failures[k] = labelled[i]
  BY ThoseFrom
<1>2. Len(labelled) \in Nat /\ DOMAIN labelled = 1..Len(labelled)
      /\ \A i \in DOMAIN labelled : labelled[i] \in Episode
  BY LenProperties
<1>3. ASSUME NEW p \in DOMAIN labelled, labelled[p].outcome = "success",
             NEW q \in DOMAIN labelled, labelled[q].outcome = "failure"
      PROVE  Prefers(labelled[p], labelled[q])
  <2> DEFINE third == (3 * Len(labelled)) \div 10
  <2>1. third \in Int /\ p \in Int /\ q \in Int
    BY <1>2
  <2>2. Outcome(p, Len(labelled)) = "success" /\ Outcome(q, Len(labelled)) = "failure"
    BY <1>3
  <2>3. p <= third /\ ~(q <= third)
    BY <2>2 DEF Outcome
  <2>4. p < q
    <3> HIDE DEF third
    <3> QED
      BY <2>1, <2>3
  <2> QED
    BY <2>4
<1>4. Pairs(labelled) = [i \in DOMAIN likely |-> pair(i)]
  BY DEF Pairs
<1> HIDE DEF successes, failures
<1>5. CASE failures = <<>>
  <2>1. likely = <<>>
    BY <1>5
  <2> HIDE DEF likely
  <2>2. DOMAIN likely = {}
    BY <2>1
  <2>3. Pairs(labelled) = <<>>
    BY <1>4, <2>2
  <2> QED
    BY <2>3, EmptySeq
<1>6. CASE failures # <<>>
  <2>1. likely = Picked(successes, places)
    BY <1>6
  <2>2. Len(successes) \in Nat /\ DOMAIN successes = 1..Len(successes)
    BY <1>1, LenProperties
  <2>3. places \in SUBSET (1..Len(successes))
    BY <2>2
  <2>4. /\ Cardinality(places) \in Nat /\ DOMAIN likely = 1..Cardinality(places)
        /\ \A k \in DOMAIN likely : \E i \in places : likely[k] = successes[i]
    <3> HIDE DEF places, likely
    <3>1. /\ Cardinality(places) \in Nat /\ DOMAIN Picked(successes, places) = 1..Cardinality(places)
          /\ \A k \in DOMAIN Picked(successes, places) : \E i \in places : Picked(successes, places)[k] = successes[i]
          /\ Picked(successes, places) = [k \in 1..Cardinality(places) |-> Picked(successes, places)[k]]
      <4> HIDE DEF places, successes
      <4>1. IsFiniteSet(1..Len(successes)) /\ \A i \in places : i \in Int
        BY <2>2, <2>3, CountTo
      <4>2. IsFiniteSet(places)
        BY <2>3, <4>1, FS_Subset
      <4>3. /\ Cardinality(places) \in Nat /\ DOMAIN Picked(successes, places) = 1..Cardinality(places)
            /\ \A k \in DOMAIN Picked(successes, places) :
                  \E i \in places : Picked(successes, places)[k] = successes[i]
        BY <4>1, <4>2, PickedFrom
      <4>4. Picked(successes, places) = [k \in 1..Cardinality(places) |-> Picked(successes, places)[k]]
        BY DEF Picked
      <4> QED
        BY <4>3, <4>4
    <3> QED
      BY <2>1, <3>1
  <2> HIDE DEF likely
  <2>5. ASSUME NEW k \in DOMAIN likely PROVE pair(k) \in Better
    <3>1. PICK i \in DOMAIN successes : likely[k] = successes[i]
      BY <2>4
    <3>2. PICK p \in DOMAIN labelled : labelled[p].outcome = "success" /\ likely[k] = labelled[p]
      BY <1>1, <3>1
    <3>3. likely[k] \in ToSet(successes) /\ likely[k] \in Episode
      BY <1>2, <3>1, <3>2 DEF ToSet
    <3>4. \A f \in ToSet(failures) : likely[k].context.market = f.context.market => likely[k].context.price # 0
      BY <1>6, <3>3 DEF successes, failures
    <3>5. PICK m \in DOMAIN failures : BestMatch(likely[k], failures) = failures[m]
      BY <1>1, <1>6, <3>3, <3>4, MatchIsFailure
    <3>6. PICK q \in DOMAIN labelled : labelled[q].outcome = "failure" /\ failures[m] = labelled[q]
      BY <1>1
    <3>7. pair(k) = <<labelled[p], labelled[q]>>
      BY <3>2, <3>5, <3>6
    <3>8. Prefers(labelled[p], labelled[q]) /\ labelled[p] \in Episode /\ labelled[q] \in Episode
      BY <1>2, <1>3, <3>2, <3>6
    <3> HIDE DEF pair
    <3> QED
      BY <3>7, <3>8 DEF Better
  <2> HIDE DEF pair, places
  <2>6. Pairs(labelled) \in [1..Cardinality(places) -> Better]
    BY <1>4, <2>4, <2>5
  <2> QED
    BY <2>4, <2>6
<1> QED
  BY <1>5, <1>6

LEMMA EpisodeInitHolds == EpisodeInit => EpisodeIInv
<1> SUFFICES ASSUME EpisodeInit PROVE EpisodeIInv
  OBVIOUS
<1>1. emEpisodes \in Seq(Episode) /\ emPreferences \in Seq(Better) /\ Len(emEpisodes) = 0 /\ DOMAIN emEpisodes = {}
  BY EmptySeq DEF EpisodeInit
<1>2. Len(emEpisodes) <= MaxEpisodes /\ emTrades \in 0..MaxTrades /\ emCycles \in 0..MaxCycles
  BY <1>1, EpisodeAssumption DEF EpisodeInit
<1> QED
  BY <1>1, <1>2 DEF EpisodeIInv, InAge

LEMMA AddEpisodeHolds ==
    ASSUME EpisodeIInv, NEW context \in Contexts, NEW score \in Scores, AddEpisode(context, score)
    PROVE  EpisodeIInv'
<1> DEFINE e == [id |-> emTrades, score |-> score, context |-> context, outcome |-> "neutral"]
           all == Append(emEpisodes, e)
           n == Len(emEpisodes)
<1>1. /\ emTrades < MaxTrades /\ emTrades' = emTrades + 1 /\ emEpisodes' = LastOf(all, MaxEpisodes)
      /\ UNCHANGED <<emPreferences, emCycles>>
  BY DEF AddEpisode
<1>2. emTrades \in Nat /\ MaxTrades \in Nat /\ MaxEpisodes \in Nat
  BY EpisodeAssumption DEF EpisodeIInv
<1>3. e \in Episode
  BY <1>2, EpisodeAssumption DEF Episode, Outcomes
<1>4. emEpisodes \in Seq(Episode) /\ n \in Nat /\ DOMAIN emEpisodes = 1..n
  BY LenProperties DEF EpisodeIInv
<1>5. e.id = emTrades
  OBVIOUS
<1> HIDE DEF e
<1>6. /\ all \in Seq(Episode) /\ Len(all) = n + 1 /\ all[n + 1] = e
      /\ \A k \in 1..n : all[k] = emEpisodes[k]
  BY <1>3, <1>4, AppendProperties
<1> HIDE DEF all
<1>7. DOMAIN all = 1..(n + 1)
  BY <1>6, LenProperties
<1>8. \A k \in DOMAIN all : all[k].id \in Nat /\ all[k].id <= emTrades
  <2> TAKE k \in DOMAIN all
  <2>0. all[k] \in Episode
    BY <1>6, <1>7, ElementOfSeq
  <2>1. all[k].id \in Nat
    BY <2>0 DEF Episode
  <2>2. CASE k \in 1..n
    <3>1. emEpisodes[k].id < emTrades /\ all[k].id = emEpisodes[k].id
      BY <1>4, <1>6, <2>2 DEF EpisodeIInv
    <3> QED
      BY <1>2, <2>1, <3>1
  <2>3. CASE k \notin 1..n
    <3>1. k = n + 1
      BY <1>4, <1>7, <2>3
    <3> QED
      BY <1>2, <1>5, <1>6, <3>1
  <2> QED
    BY <2>1, <2>2, <2>3
<1>9. InAge(all)
  <2> SUFFICES ASSUME NEW i \in DOMAIN all, NEW j \in DOMAIN all, i < j, all[i].score = all[j].score
               PROVE  all[i].id < all[j].id
    BY DEF InAge
  <2>1. i \in 1..n
    BY <1>4, <1>7
  <2>2. CASE j \in 1..n
    BY <1>4, <1>6, <2>1, <2>2 DEF EpisodeIInv, InAge
  <2>3. CASE j \notin 1..n
    <3>1. j = n + 1
      BY <1>4, <1>7, <2>3
    <3>2. emEpisodes[i].id < emTrades
      BY <1>4, <2>1 DEF EpisodeIInv
    <3> QED
      BY <1>5, <1>6, <2>1, <3>1, <3>2
  <2> QED
    BY <2>2, <2>3
<1> DEFINE end == LastOf(all, MaxEpisodes)
<1>10. /\ end \in Seq(Episode) /\ Len(end) <= MaxEpisodes
       /\ \E d \in Nat : \A k \in DOMAIN end : k + d \in DOMAIN all /\ end[k] = all[k + d]
  <2>1. all \in Seq(Episode) /\ MaxEpisodes \in Nat
    BY <1>2, <1>6
  <2>2. /\ LastOf(all, MaxEpisodes) \in Seq(Episode) /\ Len(LastOf(all, MaxEpisodes)) <= MaxEpisodes
        /\ \E d \in Nat : \A k \in DOMAIN LastOf(all, MaxEpisodes) :
               k + d \in DOMAIN all /\ LastOf(all, MaxEpisodes)[k] = all[k + d]
    BY <2>1, EndKept, Zenon
  <2> QED
    BY <2>2, Zenon
<1> HIDE DEF end
<1>11. PICK d \in Nat : \A k \in DOMAIN end : k + d \in DOMAIN all /\ end[k] = all[k + d]
  BY <1>10
<1>12. DOMAIN end = 1..Len(end) /\ Len(end) \in Nat
  BY <1>10, LenProperties
<1>13. \A k \in DOMAIN end : end[k].id < emTrades + 1
  BY <1>2, <1>8, <1>11
<1>14. InAge(end)
  <2> SUFFICES ASSUME NEW i \in DOMAIN end, NEW j \in DOMAIN end, i < j, end[i].score = end[j].score
               PROVE  end[i].id < end[j].id
    BY DEF InAge
  <2>1. i + d < j + d
    BY <1>11, <1>12
  <2>2. i + d \in DOMAIN all /\ j + d \in DOMAIN all /\ end[i] = all[i + d] /\ end[j] = all[j + d]
    BY <1>11
  <2> QED
    BY <1>9, <2>1, <2>2 DEF InAge
<1>15. emEpisodes' = end /\ emTrades' \in 0..MaxTrades
  BY <1>1, <1>2 DEF end
<1>16. InAge(emEpisodes)'
  BY <1>14, <1>15 DEF InAge
<1> QED
  BY <1>1, <1>10, <1>13, <1>15, <1>16 DEF EpisodeIInv

LEMMA CycleHolds == ASSUME EpisodeIInv, WeeklyCycle PROVE EpisodeIInv'
<1> DEFINE labelled == Labelled(emEpisodes)
<1>1. emEpisodes \in Seq(Episode) /\ InAge(emEpisodes) /\ emPreferences \in Seq(Better)
  BY DEF EpisodeIInv
<1>2. /\ labelled \in Seq(Episode) /\ Len(labelled) = Len(emEpisodes)
      /\ \A p, q \in DOMAIN labelled : p < q => Prefers(labelled[p], labelled[q])
      /\ \A p \in DOMAIN labelled :
             /\ labelled[p].outcome = Outcome(p, Len(emEpisodes))
             /\ \E i \in DOMAIN emEpisodes : labelled[p].id = emEpisodes[i].id
  BY <1>1, LabelledInOrder
<1>3. /\ emEpisodes' = labelled /\ UNCHANGED emTrades
      /\ emCycles < MaxCycles /\ emCycles' = emCycles + 1
      /\ \/ UNCHANGED emPreferences
         \/ /\ emPreferences' = emPreferences \o Pairs(labelled)
            /\ ~(/\ Those(labelled, "failure") # <<>>
                 /\ \E e \in ToSet(Those(labelled, "success")), f \in ToSet(Those(labelled, "failure")) :
                        e.context.market = f.context.market /\ e.context.price = 0)
  BY DEF WeeklyCycle
<1> HIDE DEF labelled
<1>4. emPreferences' \in Seq(Better)
  <2>1. CASE UNCHANGED emPreferences
    BY <1>1, <2>1
  <2>2. CASE /\ emPreferences' = emPreferences \o Pairs(labelled)
             /\ ~(/\ Those(labelled, "failure") # <<>>
                  /\ \E e \in ToSet(Those(labelled, "success")), f \in ToSet(Those(labelled, "failure")) :
                         e.context.market = f.context.market /\ e.context.price = 0)
    <3>1. Pairs(labelled) \in Seq(Better)
      BY <1>2, <2>2, PairsPrefer
    <3> QED
      BY <1>1, <2>2, <3>1, ConcatProperties
  <2> QED
    BY <1>3, <2>1, <2>2
<1>5. InAge(labelled)
  <2> SUFFICES ASSUME NEW i \in DOMAIN labelled, NEW j \in DOMAIN labelled, i < j,
                      labelled[i].score = labelled[j].score
               PROVE  labelled[i].id < labelled[j].id
    BY DEF InAge
  <2>1. Prefers(labelled[i], labelled[j])
    BY <1>2
  <2>0. labelled[i] \in Episode
    BY <1>2, LenProperties, ElementOfSeq
  <2>2. labelled[i].score \in Int
    BY <2>0 DEF Episode
  <2> QED
    BY <2>1, <2>2 DEF Prefers
<1>6. InAge(emEpisodes)'
  BY <1>3, <1>5 DEF InAge
<1>7. \A p \in DOMAIN labelled : labelled[p].id < emTrades
  BY <1>2 DEF EpisodeIInv
<1>8. emCycles' \in 0..MaxCycles
  BY <1>3, EpisodeAssumption DEF EpisodeIInv
<1> QED
  BY <1>2, <1>3, <1>4, <1>6, <1>7, <1>8 DEF EpisodeIInv

LEMMA EpisodeStep == EpisodeIInv /\ [EpisodeNext]_emVars => EpisodeIInv'
<1> SUFFICES ASSUME EpisodeIInv, [EpisodeNext]_emVars PROVE EpisodeIInv'
  OBVIOUS
<1>1. CASE UNCHANGED emVars
  <2>1. UNCHANGED <<emEpisodes, emPreferences, emTrades, emCycles>>
    BY <1>1 DEF emVars
  <2> QED
    BY <2>1 DEF EpisodeIInv, InAge
<1>2. CASE EpisodesRestart
  <2>1. emEpisodes' = <<>> /\ emPreferences' = <<>> /\ UNCHANGED <<emTrades, emCycles>>
    BY <1>2 DEF EpisodesRestart
  <2>2. /\ emEpisodes' \in Seq(Episode) /\ emPreferences' \in Seq(Better)
        /\ Len(emEpisodes') = 0 /\ DOMAIN emEpisodes' = {}
    BY <2>1, EmptySeq
  <2>3. Len(emEpisodes') <= MaxEpisodes
    BY <2>2, EpisodeAssumption
  <2> QED
    BY <2>1, <2>2, <2>3 DEF EpisodeIInv, InAge
<1> QED
  BY <1>1, <1>2, AddEpisodeHolds, CycleHolds DEF EpisodeNext

\* A pair prefers the better score and, among equal ones, the earlier trade,
\* whatever the two earned (label_episodes, generate_preferences): the order of the
\* list survives every trim, sort and restart.
THEOREM PairsFollowAge == EpisodeSpec => [](EpisodeTypeOK /\ AgeDecides)
<1>1. EpisodeIInv => EpisodeTypeOK
  <2> SUFFICES ASSUME EpisodeIInv PROVE EpisodeTypeOK
    OBVIOUS
  <2>1. \A i \in DOMAIN emEpisodes : emEpisodes[i] \in Episode
    BY LenProperties, ElementOfSeq DEF EpisodeIInv
  <2>2. \A i \in DOMAIN emEpisodes : emEpisodes[i].outcome \in {"success", "neutral", "failure"}
    BY <2>1 DEF Episode, Outcomes
  <2> QED
    BY <2>2 DEF EpisodeIInv, EpisodeTypeOK
<1>2. EpisodeIInv => AgeDecides
  <2> SUFFICES ASSUME EpisodeIInv, NEW i \in DOMAIN emPreferences PROVE Prefers(emPreferences[i][1], emPreferences[i][2])
    BY DEF AgeDecides, Prefers
  <2>1. emPreferences[i] \in Better
    BY LenProperties, ElementOfSeq DEF EpisodeIInv
  <2> QED
    BY <2>1 DEF Better
<1> QED
  BY EpisodeInitHolds, EpisodeStep, <1>1, <1>2, PTL DEF EpisodeSpec
=============================================================================
