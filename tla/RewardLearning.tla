--------------------------- MODULE RewardLearning ---------------------------
(* What the reward system learns from and judges by: the memory of episodes, the *)
(* scores of the bots and the votes of the agents                            *)
(* (src/lib/core/reward_system).  Three parts, each with its own state.      *)
EXTENDS Integers, Sequences, FiniteSets, SequencesExt, FiniteSetsExt

------------------------------------------------------------------------------
(* The episodes the reward service learns from (src/lib/core/reward_system/    *)
(* episode_memory.py, and reward_service.py, which adds one for every trade    *)
(* and runs the weekly cycle), for one bot.  The cycle sorts the episodes in   *)
(* place, labels them, pairs successes with like failures, and sums up their   *)
(* patterns in a prompt.  Scores of likeness are in percent.                   *)

CONSTANTS Contexts,      \* market, price, volatility, trend and regime at the time of a trade
          Scores,        \* reward_score of a result: the service leaves it at 0
          MaxEpisodes,   \* max_episodes_per_bot, 1000 in the code
          MaxTrades,     \* bound: trades reported
          MaxCycles      \* bound: weekly cycles

ASSUME EpisodeAssumption ==
    /\ MaxEpisodes \in Nat /\ MaxTrades \in Nat /\ MaxCycles \in Nat
    /\ Scores \subseteq Int
    /\ \A c \in Contexts : c.price \in Nat /\ c.volatility \in Nat

VARIABLES emEpisodes,      \* episodes of the bot, in the order of the list
          emPreferences,   \* preferences: pairs of episodes, the preferred one first
          emTrades,        \* trades reported so far
          emCycles,        \* weekly cycles so far
          emPrompt,        \* the prompt was published with these patterns; {}: none
          emFile           \* what save wrote: numbers of episodes and of pairs

emVars == <<emEpisodes, emPreferences, emTrades, emCycles, emPrompt, emFile>>

EpisodeInit ==
    /\ emEpisodes = <<>> /\ emPreferences = <<>> /\ emTrades = 0 /\ emCycles = 0
    /\ emPrompt = {} /\ emFile = <<0, 0>>

------------------------------------------------------------------------------
LastOf(seq, n) == IF Len(seq) > n THEN SubSeq(seq, Len(seq) - n + 1, Len(seq)) ELSE seq

\* A trade becomes an episode, neutral at first; the list keeps its end.
AddEpisode(context, score) ==
    /\ emTrades < MaxTrades /\ emTrades' = emTrades + 1
    /\ emEpisodes' = LastOf(Append(emEpisodes, [id |-> emTrades, score |-> score, context |-> context,
                                                outcome |-> "neutral"]), MaxEpisodes)
    /\ UNCHANGED <<emPreferences, emCycles, emPrompt, emFile>>

\* The list sorted by falling scores; equal ones keep their order.
SortedEpisodes(seq) ==
    LET rank(i) == Cardinality({j \in DOMAIN seq : seq[j].score > seq[i].score
                                                 \/ (seq[j].score = seq[i].score /\ j <= i)})
    IN  [r \in DOMAIN seq |-> seq[CHOOSE i \in DOMAIN seq : rank(i) = r]]

\* mutant of Outcome: the last third are the successes
Outcome_Late(place, n) ==
    LET third == (3 * n) \div 10
    IN  IF place <= third THEN "failure" ELSE IF place > n - third THEN "success" ELSE "neutral"

\* label_episodes: the first three tenths of the list, and the last.
Outcome(place, n) ==
    LET third == (3 * n) \div 10
    IN  IF place <= third THEN "success" ELSE IF place > n - third THEN "failure" ELSE "neutral"

Labelled(seq) ==
    LET ranked == SortedEpisodes(seq)
    IN  [i \in DOMAIN ranked |-> [ranked[i] EXCEPT !.outcome = Outcome(i, Len(ranked))]]

Gap(a, b) == IF a > b THEN a - b ELSE b - a
Part(x) == IF x < 0 THEN 0 ELSE x

\* _calculate_context_similarity, for prices above zero: a price of zero, which is
\* the default of the service, raises in the division.
Similarity(c, d) ==
    IF c.market # d.market THEN 0
    ELSE (Part(100 - (Gap(c.price, d.price) * 2000) \div c.price)
          + Part(100 - (Gap(c.volatility, d.volatility) * 100) \div Max({c.volatility, 1}))
          + (IF c.trend = d.trend THEN 100 ELSE 0) + (IF c.regime = d.regime THEN 100 ELSE 0)) \div 4

\* The elements of seq at these places, in their order.
Picked(seq, places) ==
    [k \in 1..Cardinality(places) |->
        seq[CHOOSE i \in places : Cardinality({j \in places : j < i}) = k - 1]]

Those(seq, outcome) == Picked(seq, {i \in DOMAIN seq : seq[i].outcome = outcome})

\* The likest failure, the first of equals.
BestMatch(e, failures) ==
    LET best == Max({Similarity(e.context, f.context) : f \in ToSet(failures)})
    IN  failures[Min({i \in DOMAIN failures : Similarity(e.context, failures[i].context) = best})]

\* generate_preferences: at most fifty successes, each with its match if it is like it.
Pairs(labelled) ==
    LET successes == Those(labelled, "success")
        failures == Those(labelled, "failure")
        likely == IF failures = <<>> THEN <<>>
                  ELSE Picked(successes, {i \in DOMAIN successes :
                           Similarity(successes[i].context, BestMatch(successes[i], failures).context) > 50})
    IN  [i \in DOMAIN likely |-> <<likely[i], BestMatch(likely[i], failures)>>]

\* get_success_patterns: trend and regime of the successes.
Patterns(labelled) ==
    {<<e.context.trend, e.context.regime>> : e \in ToSet(Those(labelled, "success"))}

\* weekly_learning_cycle, the prompts, save.  A price of zero among the compared
\* ends the cycle with the labels set, and nothing saved.
WeeklyCycle ==
    LET labelled == Labelled(emEpisodes)
        raises == /\ Those(labelled, "failure") # <<>>
                  /\ \E e \in ToSet(Those(labelled, "success")), f \in ToSet(Those(labelled, "failure")) :
                         e.context.market = f.context.market /\ e.context.price = 0
    IN  /\ emCycles < MaxCycles /\ emCycles' = emCycles + 1
        /\ emEpisodes' = labelled
        /\ IF raises THEN UNCHANGED <<emPreferences, emPrompt, emFile>>
           ELSE /\ emPreferences' = emPreferences \o Pairs(labelled)
                /\ emPrompt' = IF Patterns(labelled) = {} THEN emPrompt ELSE Patterns(labelled)
                /\ emFile' = <<Len(labelled), Len(emPreferences')>>
        /\ UNCHANGED emTrades

\* load reads the file and restores nothing of it.
EpisodesRestart ==
    /\ emEpisodes' = <<>> /\ emPreferences' = <<>>
    /\ UNCHANGED <<emTrades, emCycles, emPrompt, emFile>>

EpisodeNext ==
    \/ \E c \in Contexts, s \in Scores : AddEpisode(c, s)
    \/ WeeklyCycle \/ EpisodesRestart

EpisodeSpec == EpisodeInit /\ [][EpisodeNext]_emVars

------------------------------------------------------------------------------
EpisodeTypeOK ==
    /\ Len(emEpisodes) <= MaxEpisodes /\ emTrades \in 0..MaxTrades /\ emCycles \in 0..MaxCycles
    /\ \A i \in DOMAIN emEpisodes : emEpisodes[i].outcome \in {"success", "neutral", "failure"}

\* A pair prefers the better score and, as no score is ever set, the earlier trade,
\* whatever the two earned; over trims, repeated cycles and restarts.
AgeDecides ==
    \A i \in DOMAIN emPreferences :
        LET better == emPreferences[i][1]  worse == emPreferences[i][2] IN
        better.score > worse.score \/ (better.score = worse.score /\ better.id < worse.id)

------------------------------------------------------------------------------
(* The scores of the bots (src/lib/core/reward_system/reward_calculator.py):   *)
(* the trades of the last days, or the last trades if there were none, scored  *)
(* by the function of the bot's kind.  Returns are whole percents, scores      *)
(* tenths of a point, cut to whole tenths; the risk free rate is 0.            *)

CONSTANTS Returns,      \* pnl_pct, and pnl, of a trade
          HoldingHours, \* holding_period of the trades
          LastTrades,   \* trades taken when there is none in the period, 30 in the code
          Multipliers,  \* llm_confidence in tenths, 0 for None
          MaxScored,    \* bound: trades
          MaxPeriods    \* bound: periods that pass

ASSUME ScoresAssumption ==
    Returns \subseteq Int /\ HoldingHours \in 0..24 /\ LastTrades \in Nat \ {0} /\ Multipliers \subseteq Nat

VARIABLES rcTrades,  \* the trades of a bot: their returns
          rcOld,     \* how many of them, the first ones, are older than the period
          rcPeriods,
          rcResult   \* the last RewardResult, with the trades it is about

rcVars == <<rcTrades, rcOld, rcPeriods, rcResult>>

NoResult == [kind |-> "none"]

ScoresInit == rcTrades = <<>> /\ rcOld = 0 /\ rcPeriods = 0 /\ rcResult = NoResult

TradeMade(r) ==
    /\ Len(rcTrades) < MaxScored /\ rcTrades' = Append(rcTrades, r)
    /\ UNCHANGED <<rcOld, rcPeriods, rcResult>>

PeriodPasses ==
    /\ rcPeriods < MaxPeriods /\ rcPeriods' = rcPeriods + 1
    /\ rcOld' = Len(rcTrades)
    /\ UNCHANGED <<rcTrades, rcResult>>

\* The trades of the period, or else the last ones.
RecentTrades ==
    IF rcOld < Len(rcTrades) THEN SubSeq(rcTrades, rcOld + 1, Len(rcTrades))
    ELSE IF Len(rcTrades) > LastTrades THEN SubSeq(rcTrades, Len(rcTrades) - LastTrades + 1, Len(rcTrades))
    ELSE rcTrades

Summed(s) == FoldLeft(LAMBDA a, b : a + b, 0, s)
Squares(s) == Summed([i \in DOMAIN s |-> s[i] * s[i]])
GainsOf(s) == SelectSeq(s, LAMBDA r : r > 0)
LossesOf(s) == SelectSeq(s, LAMBDA r : r < 0)

Clamped(x) == Max({0, Min({1000, x})})

\* 50 points and ten times a ratio, whose square is num / den and whose sign is
\* that of the sum; the root is cut to tenths, and nothing beyond 50 points counts.
FromRatio(sum, num, den) ==
    LET root == CHOOSE k \in 0..500 : k * k * den <= 10000 * num /\ (k < 500 => (k + 1) * (k + 1) * den > 10000 * num)
    IN  IF sum >= 0 THEN 500 + root ELSE 500 - root

\* The sample variance of s, times Len(s) * (Len(s) - 1).
Spreads(s) == Len(s) * Squares(s) - Summed(s) * Summed(s)

\* _calc_sharpe: mean / std * sqrt(365).
Sharpe(s) ==
    LET n == Len(s) IN
    IF n < 2 THEN 0
    ELSE IF Spreads(s) = 0 THEN 500
    ELSE FromRatio(Summed(s), 365 * Summed(s) * Summed(s) * (n - 1), n * Spreads(s))

\* mutant of Sortino: two losses are taken for one
Sortino_Two(s) == IF Len(s) < 2 THEN 0 ELSE IF Len(LossesOf(s)) \in 1..2 THEN 1000 ELSE 500

\* _calc_sortino: the deviation of one loss is NaN, which min(100, NaN) drops.
Sortino(s) ==
    LET n == Len(s)  losses == LossesOf(s)  d == Len(losses) IN
    IF n < 2 THEN 0
    ELSE IF d = 1 THEN 1000
    ELSE IF d = 0 \/ Spreads(losses) = 0 THEN Clamped(500 + (10000 * Summed(s)) \div n)
    ELSE FromRatio(Summed(s), 365 * Summed(s) * Summed(s) * d * (d - 1), n * n * Spreads(losses))

\* mutant of Omega: losses that outweigh the gains are not counted
Omega_Net(s) ==
    LET up == Summed(GainsOf(s))  down == -Summed(LossesOf(s)) IN
    IF Len(s) < 2 THEN 0 ELSE IF up = 0 THEN 0 ELSE IF down = 0 \/ down > up THEN 1000 ELSE (500 * up) \div down

\* _calc_omega
Omega(s) ==
    LET up == Summed(GainsOf(s))  down == -Summed(LossesOf(s)) IN
    IF Len(s) < 2 \/ up = 0 THEN 0
    ELSE IF down = 0 THEN 1000 ELSE Min({(500 * up) \div down, 1000})

\* _calc_arb_reward: profit after costs, share of wins, and speed.
ArbReward(s) ==
    LET n == Len(s) IN
    Max({0, Min({500, (1000 * Summed(s) - n) \div 10})}) + (300 * Len(GainsOf(s))) \div n
        + (200 * (24 - HoldingHours)) \div 24

\* _calc_ai_reward: accuracy, and the expected return.
AiReward(s) ==
    LET n == Len(s)  right == Len(GainsOf(s))  k == Max({1, Len(LossesOf(s))})
        expected == (10 * (Summed(GainsOf(s)) * k + (n - right) * Summed(LossesOf(s)))) \div (n * k)
    IN  (600 * right) \div n + Max({0, Min({400, expected})})

ScoreOf(kind, s) ==
    CASE kind = "sharpe" -> Sharpe(s) [] kind = "sortino" -> Sortino(s) [] kind = "omega" -> Omega(s)
      [] kind = "arb" -> ArbReward(s) [] kind = "ai" -> AiReward(s)

\* calculate: without any trade the score is 0; the confidence scales it.
Calculate(kind, confidence) ==
    LET factor == IF confidence = 0 THEN 10 ELSE Max({5, Min({15, confidence})})
        score  == IF rcTrades = <<>> THEN 0 ELSE (ScoreOf(kind, RecentTrades) * factor) \div 10
    IN  /\ rcResult' = [kind |-> kind, trades |-> RecentTrades, score |-> score, factor |-> factor]
        /\ UNCHANGED <<rcTrades, rcOld, rcPeriods>>

ScoreKinds == {"sharpe", "sortino", "omega", "arb", "ai"}

ScoresNext ==
    \/ \E r \in Returns : TradeMade(r)
    \/ PeriodPasses
    \/ \E kind \in ScoreKinds, confidence \in Multipliers : Calculate(kind, confidence)

ScoresSpec == ScoresInit /\ [][ScoresNext]_rcVars

------------------------------------------------------------------------------
ScoresTypeOK ==
    /\ rcTrades \in Seq(Returns) /\ rcOld \in 0..Len(rcTrades)
    /\ rcResult # NoResult => rcResult.score \in 0..(100 * rcResult.factor)

\* Who lost money is not in the upper half, by the three ratios: unless there was
\* a single loss, which the Sortino score takes for none at all.
LossIsSeen ==
    /\ rcResult # NoResult
    /\ rcResult.kind \in {"sharpe", "omega", "sortino"}
    /\ rcResult.kind = "sortino" => Len(LossesOf(rcResult.trades)) # 1
    /\ Summed(rcResult.trades) < 0
    => rcResult.score <= 50 * rcResult.factor

------------------------------------------------------------------------------
(* The votes of the trading agents (src/lib/core/reward_system/                *)
(* trading_agents_integration.py): the last vote of each agent, however old,   *)
(* makes a consensus whenever one is asked for, and the consensus a multiplier *)
(* of the bot's reward.  Confidence and shares are in percent, multipliers in  *)
(* ten-thousandths.                                                            *)

CONSTANTS DefaultAgents,  \* DEFAULT_AGENTS, a sequence
          Strangers,      \* other names a vote may carry
          Decisions,      \* what agents vote
          Confidences,    \* the confidences they state
          Quorum,         \* votes a consensus needs, 4 in the code
          KeepVotes,      \* votes kept of an agent, 100 in the code
          MaxVotes,       \* bound: votes submitted
          MaxResults      \* bound: consensus results

ASSUME ConsensusAssumption ==
    /\ Confidences \subseteq 0..100 /\ Quorum \in Nat \ {0} /\ KeepVotes \in Nat \ {0}
    /\ DefaultAgents \in Seq(ToSet(DefaultAgents)) /\ IsFiniteSet(Strangers)

VARIABLES acOrder,    \* the keys of agent_history, in their order
          acVotes,    \* agent_history: the votes kept of each
          acResults,  \* consensus_history
          acCount     \* votes submitted

acVars == <<acOrder, acVotes, acResults, acCount>>

Voters == ToSet(DefaultAgents) \cup Strangers

ConsensusInit ==
    /\ acOrder = DefaultAgents /\ acVotes = [a \in Voters |-> <<>>]
    /\ acResults = <<>> /\ acCount = 0

\* submit_vote: a name not seen before joins.
SubmitVote(a, decision, confidence) ==
    LET votes == Append(acVotes[a], [decision |-> decision, confidence |-> confidence])
    IN  /\ acCount < MaxVotes /\ acCount' = acCount + 1
        /\ acOrder' = IF Contains(acOrder, a) THEN acOrder ELSE Append(acOrder, a)
        /\ acVotes' = [acVotes EXCEPT ![a] = IF Len(votes) > KeepVotes THEN Tail(votes) ELSE votes]
        /\ UNCHANGED acResults

\* The last vote of every agent that ever voted.
Current == [a \in {b \in Voters : acVotes[b] # <<>>} |-> Last(acVotes[a])]

VotersFor(votes, d) == {a \in DOMAIN votes : votes[a].decision = d}

\* mutant of Majority: the decision of the first agent
Majority_First(votes) == votes[acOrder[Min({i \in DOMAIN acOrder : acOrder[i] \in DOMAIN votes})]].decision

\* Counter.most_common(1): of the decisions with most votes, the one voted first.
Majority(votes) ==
    LET most(d) == \A e \in Decisions : Cardinality(VotersFor(votes, d)) >= Cardinality(VotersFor(votes, e))
        first == Min({i \in DOMAIN acOrder : acOrder[i] \in DOMAIN votes /\ most(votes[acOrder[i]].decision)})
    IN  votes[acOrder[first]].decision

Average(votes) ==
    MapThenSumSet(LAMBDA a : 100 * votes[a].confidence, DOMAIN votes) \div Cardinality(DOMAIN votes)
Agreement(votes, d) == (10000 * Cardinality(VotersFor(votes, d))) \div Cardinality(DOMAIN votes)

Strength(agreement, confidence) ==
    IF agreement >= 8500 /\ confidence >= 7000 THEN "strong"
    ELSE IF agreement >= 7000 /\ confidence >= 5000 THEN "moderate"
    ELSE IF agreement >= 5000 THEN "weak" ELSE "neutral"

\* mutant of Bonus: the bonus of a strong consensus is forgotten
Bonus_NoStrong(strength) ==
    CASE strength = "moderate" -> 1000 [] strength = "neutral" -> -1000 [] OTHER -> 0

Bonus(strength) ==
    CASE strength = "strong" -> 2000 [] strength = "moderate" -> 1000
      [] strength = "neutral" -> -1000 [] OTHER -> 0

\* mutant of Multiplier: the upper bound is forgotten
Multiplier_Uncapped(r) ==
    Max({5000, 5000 + r.confidence + Bonus(r.strength) + (r.agreement - 5000) \div 5})

\* to_reward_multiplier
Multiplier(r) ==
    LET raw == 5000 + r.confidence + Bonus(r.strength) + (r.agreement - 5000) \div 5
    IN  Max({5000, Min({15000, raw})})

\* calculate_consensus
CalculateConsensus ==
    /\ Cardinality(DOMAIN Current) >= Quorum /\ Len(acResults) < MaxResults
    /\ LET signal    == Majority(Current)
           agreement == Agreement(Current, signal)
           average   == Average(Current)
       IN  acResults' = Append(acResults,
               [signal |-> signal, confidence |-> average, votes |-> Current,
                agreement |-> agreement, strength |-> Strength(agreement, average)])
    /\ UNCHANGED <<acOrder, acVotes, acCount>>

ConsensusNext ==
    \/ \E a \in Voters, d \in Decisions, c \in Confidences : SubmitVote(a, d, c)
    \/ CalculateConsensus

ConsensusSpec == ConsensusInit /\ [][ConsensusNext]_acVars

\* get_consensus_accuracy: how many of the results foretold the outcome.
Foretells == [up |-> "buy", down |-> "sell", sideways |-> "hold"]
Correct(outcome) == Cardinality({i \in DOMAIN acResults : acResults[i].signal = Foretells[outcome]})

------------------------------------------------------------------------------
ConsensusTypeOK ==
    /\ acCount \in 0..MaxVotes /\ Len(acResults) <= MaxResults
    /\ \A a \in Voters : Len(acVotes[a]) <= KeepVotes
    /\ \A i \in DOMAIN acResults : Multiplier(acResults[i]) \in 5000..15000

\* More agreement never earns less: of two results with the same signal and
\* voters, the one where every agent that voted otherwise votes for the signal
\* with no less confidence has no smaller multiplier.
AgreementEarns ==
    \A i, j \in DOMAIN acResults :
        LET p == acResults[i]  q == acResults[j]
            joins(a) == \/ q.votes[a] = p.votes[a]
                        \/ /\ q.votes[a].decision = q.signal
                           /\ q.votes[a].confidence >= p.votes[a].confidence
        IN  p.signal = q.signal /\ DOMAIN p.votes = DOMAIN q.votes /\ (\A a \in DOMAIN p.votes : joins(a))
            => Multiplier(q) >= Multiplier(p)

\* A strong consensus outlives one change of mind: no result with the same voters
\* but one whose vote differs has another signal.
StrongIsStable ==
    \A i, j \in DOMAIN acResults :
        LET p == acResults[i]  q == acResults[j]
        IN  /\ p.strength = "strong" /\ DOMAIN p.votes = DOMAIN q.votes
            /\ Cardinality({a \in DOMAIN p.votes : p.votes[a] # q.votes[a]}) <= 1
            => q.signal = p.signal

\* Every result foretells one of the outcomes, and one only.
OutcomesShareResults == Correct("up") + Correct("down") + Correct("sideways") = Len(acResults)
==============================================================================
