-------------------------- MODULE StrategyResearch --------------------------
(* Research and development (src/occore/rnd): the generator of strategies and *)
(* the ledger of their daily results.  Two parts, each with its own state.   *)
EXTENDS Integers, Sequences, FiniteSets, SequencesExt, FiniteSetsExt, Functions

------------------------------------------------------------------------------
(* The strategy generator (src/occore/rnd/strategy_generator.py) and the        *)
(* backtests it scores with (backtest_engine.py): strategies are drawn from     *)
(* templates, tested, bred and deployed.  Returns, draw-downs and win rates are *)
(* in percent, ratios in hundredths; a score counts sixtieths of a point.       *)

CONSTANTS Templates,      \* template -> parameter -> the values it may take
          Results,        \* what backtests find
          EliteParts,     \* of a population, EliteParts / EliteShare survive: a
          EliteShare,     \* third in the code
          MaxDrawn,       \* bound: strategies drawn
          MaxGenerations, \* bound: generations of an evolution
          MaxLab          \* bound: evolutions, and tests and deployments outside them

ASSUME LabAssumption ==
    /\ EliteShare \in Nat \ {0} /\ EliteParts \in 1..EliteShare
    /\ Results \subseteq [return : Int, sharpe : Int, drawdown : Int, wins : Int, profit : Int]

VARIABLES slAll,    \* every strategy made, in the order of the counter
          slPop,    \* population of the running evolution, <<>> without one
          slGen,    \* its generation
          slTried,  \* strategies it tried to test in this generation
          slBest,   \* best_strategies: the elites of its generations
          slSteps   \* evolutions, tests and deployments so far

slVars == <<slAll, slPop, slGen, slTried, slBest, slSteps>>

\* backtest_result is None
Untested == [kind |-> "none"]

LabInit ==
    /\ slAll = <<>> /\ slPop = <<>> /\ slGen = 0 /\ slTried = {}
    /\ slBest = <<>> /\ slSteps = 0

Breeding == slGen > 0

\* GeneratedStrategy(...): listed says that it stands in _generated_strategies.
NewStrategy(template, parameters, listed) ==
    [template |-> template, parameters |-> parameters, listed |-> listed,
     status |-> "pending", score |-> 0, result |-> Untested]

RangesOf(template) == {p \in [DOMAIN Templates[template] -> UNION Range(Templates[template])] :
                        \A k \in DOMAIN p : p[k] \in Templates[template][k]}

\* generate_strategy, one of a generate_population
GenerateStrategy(template) ==
    /\ ~Breeding /\ Len(slAll) < MaxDrawn
    /\ \E p \in RangesOf(template) : slAll' = Append(slAll, NewStrategy(template, p, TRUE))
    /\ UNCHANGED <<slPop, slGen, slTried, slBest, slSteps>>

\* _calculate_score: no gain above 200 % counts, every loss does.
CalculateScore(r) ==
    18 * Min({r.return, 200}) + 5 * Min({r.sharpe, 300}) + 24 * Max({0, 50 - r.drawdown})
        + 9 * r.wins + 2 * Min({r.profit, 300})

\* mutant of Tested: a test without a result clears the result only
Tested_Clears(s, outcome) ==
    IF outcome.kind = "none" THEN [s EXCEPT !.result = Untested]
    ELSE IF outcome.kind = "error" THEN [s EXCEPT !.status = "error"]
    ELSE [s EXCEPT !.result = outcome.of, !.score = CalculateScore(outcome.of), !.status = "tested"]

\* test_strategy: without an engine or data, or when the backtest fails, nothing
\* changes; an exception leaves the earlier result beside the status "error".
Tested(s, outcome) ==
    IF outcome.kind = "none" THEN s
    ELSE IF outcome.kind = "error" THEN [s EXCEPT !.status = "error"]
    ELSE [s EXCEPT !.result = outcome.of, !.score = CalculateScore(outcome.of), !.status = "tested"]

LabOutcomes == [kind : {"none", "error"}, of : {Untested}] \cup [kind : {"result"}, of : Results]

TestStrategy(i, outcome) ==
    /\ ~Breeding /\ slSteps < MaxLab /\ slSteps' = slSteps + 1
    /\ slAll' = [slAll EXCEPT ![i] = Tested(@, outcome)]
    /\ UNCHANGED <<slPop, slGen, slTried, slBest>>

InOrder(S) == [k \in 1..Cardinality(S) |-> CHOOSE i \in S : Cardinality({j \in S : j < i}) = k - 1]

\* evolve_population begins with the strategies drawn so far.
EvolveBegins ==
    /\ ~Breeding /\ slSteps < MaxLab /\ slSteps' = slSteps + 1
    /\ LET drawn == {i \in DOMAIN slAll : slAll[i].listed}
       IN  drawn # {} /\ slPop' = InOrder(drawn)
    /\ slGen' = 1 /\ slTried' = {} /\ slBest' = <<>> /\ UNCHANGED slAll

ToTest == {k \in DOMAIN slPop : slAll[slPop[k]].status = "pending" /\ slPop[k] \notin slTried}

EvolveTests(outcome) ==
    /\ Breeding /\ ToTest # {}
    /\ LET next == slPop[Min(ToTest)]
       IN  slAll' = [slAll EXCEPT ![next] = Tested(@, outcome)] /\ slTried' = slTried \cup {next}
    /\ UNCHANGED <<slPop, slGen, slBest, slSteps>>

\* list.sort(key=score, reverse=True): equal scores stay in their order.
ByScore(pop) ==
    LET before(i, j) == \/ slAll[pop[i]].score > slAll[pop[j]].score
                        \/ slAll[pop[i]].score = slAll[pop[j]].score /\ i < j
    IN  [k \in DOMAIN pop |->
            pop[CHOOSE j \in DOMAIN pop : Cardinality({i \in DOMAIN pop : before(i, j)}) = k - 1]]

\* mutant of Elites: the population is not sorted
Elites_Unsorted(pop) == SubSeq(pop, 1, Max({1, (EliteParts * Len(pop)) \div EliteShare}))

Elites(pop) == SubSeq(ByScore(pop), 1, Max({1, (EliteParts * Len(pop)) \div EliteShare}))

\* mutant of Crossover: the template is that of the second parent
Crossover_Second(one, two) ==
    {NewStrategy(two.template, p, FALSE) :
        p \in {q \in [DOMAIN one.parameters -> Range(one.parameters) \cup Range(two.parameters)] :
                 \A k \in DOMAIN q :
                    \/ q[k] = one.parameters[k]
                    \/ k \in DOMAIN two.parameters /\ q[k] = two.parameters[k]}}

\* _crossover: the parameters of one parent, each its own or the other's.
Crossover(one, two) ==
    {NewStrategy(one.template, p, FALSE) :
        p \in {q \in [DOMAIN one.parameters -> Range(one.parameters) \cup Range(two.parameters)] :
                 \A k \in DOMAIN q :
                    \/ q[k] = one.parameters[k]
                    \/ k \in DOMAIN two.parameters /\ q[k] = two.parameters[k]}}

\* _mutate: any of the parameters takes another value of its template.
Mutations(child) ==
    {[child EXCEPT !.parameters = p] :
        p \in {q \in [DOMAIN child.parameters ->
                        Range(child.parameters) \cup UNION Range(Templates[child.template])] :
                 \A k \in DOMAIN q :
                    \/ q[k] = child.parameters[k]
                    \/ k \in DOMAIN Templates[child.template] /\ q[k] \in Templates[child.template][k]}}

Offspring(elites) ==
    UNION {Mutations(c) : c \in UNION {Crossover(slAll[i], slAll[j]) : i, j \in ToSet(elites)}}

\* The end of a generation: the elites stay, children fill the population; after
\* the last one the children are dropped untested.
Breed ==
    /\ Breeding /\ ToTest = {}
    /\ LET elites == Elites(slPop)
       IN  /\ slBest' = slBest \o elites
           /\ IF slGen = MaxGenerations
              THEN slGen' = 0 /\ slPop' = <<>> /\ UNCHANGED slAll
              ELSE \E children \in [1..(Len(slPop) - Len(elites)) -> Offspring(elites)] :
                     /\ slAll' = slAll \o children
                     /\ slPop' = elites \o [k \in DOMAIN children |-> Len(slAll) + k]
                     /\ slGen' = slGen + 1
    /\ slTried' = {} /\ UNCHANGED slSteps

\* deploy_strategy: the status is set before the file is written, and stays if
\* the writing fails.
DeployStrategy(i) ==
    /\ ~Breeding /\ slSteps < MaxLab /\ slSteps' = slSteps + 1
    /\ slAll' = [slAll EXCEPT ![i].status = IF slAll[i].score < 3000 THEN "rejected" ELSE "deployed"]
    /\ UNCHANGED <<slPop, slGen, slTried, slBest>>

LabNext ==
    \/ \E t \in DOMAIN Templates : GenerateStrategy(t)
    \/ \E i \in DOMAIN slAll : DeployStrategy(i) \/ \E o \in LabOutcomes : TestStrategy(i, o)
    \/ EvolveBegins \/ Breed
    \/ \E o \in LabOutcomes : EvolveTests(o)

LabSpec == LabInit /\ [][LabNext]_slVars

------------------------------------------------------------------------------
LabTypeOK ==
    /\ \A i \in DOMAIN slAll : slAll[i].status \in {"pending", "tested", "error", "rejected", "deployed"}
    /\ ToSet(slPop) \cup ToSet(slBest) \cup slTried \subseteq DOMAIN slAll
    /\ slGen \in 0..MaxGenerations /\ slSteps \in 0..MaxLab

\* A score was earned in the test whose result stands beside it, whatever tests
\* failed before or after: a strategy that was never tested, a child of good
\* parents among them, has none and is not deployed.
ScoreIsEarned ==
    \A i \in DOMAIN slAll :
        /\ slAll[i].score = IF slAll[i].result = Untested THEN 0 ELSE CalculateScore(slAll[i].result)
        /\ slAll[i].status = "deployed" => slAll[i].result # Untested

\* The parameters of every strategy, bred over any number of generations from
\* parents of any templates, are those of its template and within its ranges.
ParametersFit ==
    \A i \in DOMAIN slAll : slAll[i].parameters \in RangesOf(slAll[i].template)

\* Evolution never loses its best: what an evolution found in a population it
\* has bred from is matched by the best of its elites.
BestIsKept ==
    [][slBest' # <<>> /\ slBest' # slBest =>
         \A i \in ToSet(slPop) : \E j \in ToSet(slBest') : slAll[j].score >= slAll[i].score]_slVars

------------------------------------------------------------------------------
(* The daily results of the strategies (src/occore/rnd/strategy_db.py) and the  *)
(* analysis that strengthens or deprecates them (strategy_evaluator.py).  Ratios *)
(* and shares are in hundredths.                                                *)

CONSTANTS Strategies,
          DayResults,   \* what a strategy may have made of a day
          RecentDays,   \* rows an average is made of, 7 in the code
          RankedDays,   \* days a ranking looks back, 30 in the code
          TopRanks,     \* ranks that are strengthened, 3 in the code
          LastRanks,    \* the first rank that is deprecated, 10 in the code
          LastDay       \* bound: days

ASSUME LedgerAssumption == RecentDays \in Nat \ {0} /\ RankedDays \in Nat

VARIABLES ldRows,     \* strategy_performance: <<strategy, date>> -> its row
          ldToday,
          ldSignals,  \* the signals of the last analysis
          ldRanks     \* the flags of its ranking

ldVars == <<ldRows, ldToday, ldSignals, ldRanks>>

LedgerInit == ldRows = [x \in {} |-> {}] /\ ldToday = 1 /\ ldSignals = <<>> /\ ldRanks = <<>>

\* save_performance: UNIQUE(strategy_id, date), the later row replaces the earlier.
\* A caller may give an earlier date.
SavePerformance(s, day, row) ==
    /\ day \in 1..ldToday
    /\ ldRows' = [x \in DOMAIN ldRows \cup {<<s, day>>} |-> IF x = <<s, day>> THEN row ELSE ldRows[x]]
    /\ UNCHANGED <<ldToday, ldSignals, ldRanks>>

NextDay == ldToday < LastDay /\ ldToday' = ldToday + 1 /\ UNCHANGED <<ldRows, ldSignals, ldRanks>>

DaysOf(s) == {d \in 1..ldToday : <<s, d>> \in DOMAIN ldRows}

\* mutant of RecentRows: the days before the one that is judged
RecentRows_Before(s, day) ==
    LET days == {d \in DaysOf(s) : d < day}
    IN  {d \in days : Cardinality({e \in days : e > d}) < RecentDays}

\* get_performance(...)[:7]: the newest rows, the day that is judged and later
\* ones among them.
RecentRows(s, day) == {d \in DaysOf(s) : Cardinality({e \in DaysOf(s) : e > d}) < RecentDays}

\* abs(pnl - average) > 2 * abs(average), with the average's divisor multiplied out
OffAverage(s, day) ==
    LET days == RecentRows(s, day)
        n    == Max({1, Cardinality(days)})
        sum  == MapThenSumSet(LAMBDA d : ldRows[<<s, d>>].pnl, days)
        size(x) == IF x < 0 THEN -x ELSE x
    IN  size(n * ldRows[<<s, day>>].pnl - sum) > 2 * size(sum)

\* _evaluate_strategy
Evaluated(s, day) ==
    LET row == ldRows[<<s, day>>]
    IN  IF row.pnl < -1000 \/ (row.mdd > 15 /\ row.sharpe < 50) THEN "deprecate"
        ELSE IF row.pnl > 2000 /\ row.sharpe > 150 /\ row.wins > 60 THEN "strengthen"
        ELSE IF OffAverage(s, day) THEN "deviates"
        ELSE IF row.trades < 5 /\ row.pnl # 0 THEN "seldom"
        ELSE "none"

RankedRows(s) == {d \in DaysOf(s) : d >= ldToday - RankedDays}
TotalOf(s) == MapThenSumSet(LAMBDA d : ldRows[<<s, d>>].pnl, RankedRows(s))

FlagOf(rank) == IF rank <= TopRanks THEN "strengthen" ELSE IF rank >= LastRanks THEN "deprecate" ELSE "maintain"

\* run_daily_analysis_loop: the signals for yesterday, then the ranking.  The
\* database orders equal totals as it likes.
RunDailyAnalysis ==
    LET judged == {s \in Strategies : <<s, ldToday - 1>> \in DOMAIN ldRows}
        ranked == {s \in Strategies : RankedRows(s) # {}}
    IN  /\ ldSignals' = [s \in judged |-> Evaluated(s, ldToday - 1)]
        /\ \E place \in Bijection(ranked, 1..Cardinality(ranked)) :
             /\ \A s, t \in ranked : TotalOf(s) > TotalOf(t) => place[s] < place[t]
             /\ ldRanks' = [s \in ranked |-> FlagOf(place[s])]
        /\ UNCHANGED <<ldRows, ldToday>>

LedgerNext ==
    \/ \E s \in Strategies, d \in 1..LastDay, r \in DayResults : SavePerformance(s, d, r)
    \/ NextDay \/ RunDailyAnalysis

LedgerSpec == LedgerInit /\ [][LedgerNext]_ldVars

------------------------------------------------------------------------------
LedgerTypeOK ==
    /\ DOMAIN ldRows \subseteq Strategies \X (1..ldToday)
    /\ Range(ldSignals) \subseteq {"deprecate", "strengthen", "deviates", "seldom", "none"}
    /\ DOMAIN ldSignals \subseteq Strategies /\ DOMAIN ldRanks \subseteq Strategies

\* A gain never looks unusual while a strategy that has not lost has three days of
\* results or fewer: the average it is held against contains it.
EarlyGainsPass ==
    [][\A s \in DOMAIN ldSignals' :
         Cardinality(DaysOf(s)) <= 3 /\ (\A d \in DaysOf(s) : ldRows[<<s, d>>].pnl >= 0)
            => (ldSignals' # ldSignals => ldSignals'[s] # "deviates")]_ldVars
==============================================================================
