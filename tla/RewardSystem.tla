---------------------------- MODULE RewardSystem ----------------------------
(* The rewards of the bots (src/lib/core/reward_system): levels and hit points in *)
(* both versions of the game, the way of a trade to the service, and the files *)
(* that several processes share.  Four parts, each with its own state.       *)
EXTENDS Integers, Sequences, FiniteSets, TLC, FiniteSetsExt

------------------------------------------------------------------------------
(* lib/core/reward_system: every trade and every daily score changes the   *)
(* level and the HP of a bot (rpg_system.py); the daily calculation also   *)
(* resets every bot to its base capital (capital_allocator.py); the        *)
(* service (reward_service.py) takes trades, commands and its schedulers'  *)
(* hours as they come, saves when it is stopped and loads when it starts.  *)
(*                                                                         *)
(* Experience and HP are scaled to small numbers (ExpFor is the table of   *)
(* 100 * 1.15^(level-1), LevelCap the level 100); grades follow from the   *)
(* level by GradeOf.  xTotal is total_exp.                                 *)

CONSTANTS
    RewardBots,
    LevelCap,       \* 100 in the code
    ExpFor,         \* experience that leads from a level to the next
    GradeOf,        \* from_level
    Gains,          \* what a trade or a score may be worth
    HpCap, HpWin, HpLoss, HpBigLoss,
    PenaltyAbove,   \* 10 in the code: revive takes PenaltyLevels above it
    PenaltyLevels,
    MaxUpdates      \* bound: trades, scores and revivals

ASSUME RewardAssumption ==
    /\ LevelCap \in Nat \ {0} /\ ExpFor \in [1..LevelCap -> Nat \ {0}]
    /\ DOMAIN GradeOf = 1..LevelCap
    /\ PenaltyLevels \in 0..PenaltyAbove
    /\ Gains \subseteq Nat

VARIABLES
    xLevel, xExp, xTotal,   \* BotLevel
    xHp, xGrade, xRetired,  \* BotHP, grade, is_retired
    xKnown,                 \* keys of RPGSystem.states
    xFile,                  \* data/rpg_states.json
    xUp,                    \* _running
    xRevived,               \* bots that lost levels to a revival
    xUpdates

xstate == <<xLevel, xExp, xTotal, xHp, xGrade, xRetired, xKnown>>
xvars == <<xLevel, xExp, xTotal, xHp, xGrade, xRetired, xKnown, xFile, xUp, xRevived, xUpdates>>

Each(v) == [b \in RewardBots |-> v]
NewState == [level |-> 1, exp |-> 0, total |-> 0, hp |-> HpCap]

RewardInit ==
    /\ xLevel = Each(1) /\ xExp = Each(0) /\ xTotal = Each(0)
    /\ xHp = Each(HpCap) /\ xGrade = Each(GradeOf[1]) /\ xRetired = Each(FALSE)
    /\ xKnown = {} /\ xFile = [b \in {} |-> NewState]
    /\ xUp = FALSE /\ xRevived = {} /\ xUpdates = 0

\* mutants of LevelUp: one level at a time; what is left over is dropped
LevelUp_Once(level, exp) ==
    IF exp < ExpFor[level] THEN [level |-> level, exp |-> exp]
    ELSE [level |-> IF level < LevelCap THEN level + 1 ELSE level, exp |-> exp - ExpFor[level]]

LevelUp_Drops(level, exp) ==
    IF exp < ExpFor[level] THEN [level |-> level, exp |-> exp]
    ELSE [level |-> IF level < LevelCap THEN level + 1 ELSE level, exp |-> 0]

\* add_exp: levels are paid for as long as the experience reaches; at the cap
\* it is paid and nothing gained.
LevelUp(level, exp) ==
    LET up[b \in [level : 1..LevelCap, exp : Int]] ==
            IF b.exp < ExpFor[b.level] THEN b
            ELSE up[[level |-> IF b.level < LevelCap THEN b.level + 1 ELSE b.level,
                     exp |-> b.exp - ExpFor[b.level]]]
    IN  up[[level |-> level, exp |-> exp]]

AddExp(b, gain) ==
    LET new == LevelUp(xLevel[b], xExp[b] + gain)
    IN  /\ xLevel' = [xLevel EXCEPT ![b] = new.level]
        /\ xExp' = [xExp EXCEPT ![b] = new.exp]
        /\ xTotal' = [xTotal EXCEPT ![b] = @ + gain]
        /\ xGrade' = [xGrade EXCEPT ![b] = GradeOf[new.level]]

Clamp(n) == IF n > HpCap THEN HpCap ELSE n
Minus(n, k) == IF n > k THEN n - k ELSE 0

Counted == xUp /\ xUpdates < MaxUpdates /\ xUpdates' = xUpdates + 1

\* _handle_trade_message: update_from_trade, creating the state of a new bot.
Trade(b, win, big, gain) ==
    /\ Counted
    /\ AddExp(b, gain)
    /\ xHp' = [xHp EXCEPT ![b] =
                 IF win THEN Clamp(@ + HpWin) ELSE Minus(@, IF big THEN HpBigLoss ELSE HpLoss)]
    /\ xKnown' = xKnown \cup {b}
    /\ UNCHANGED <<xRetired, xFile, xUp, xRevived>>

\* _run_daily_reward_calculation, by its scheduler or by a command, for a bot
\* with trades in the buffer; it saves at its end.
DailyScore(b, gain) ==
    /\ Counted /\ b \in xKnown
    /\ AddExp(b, gain)
    /\ xFile' = [c \in xKnown |-> [level |-> xLevel'[c], exp |-> xExp'[c],
                                   total |-> xTotal'[c], hp |-> xHp[c]]]
    /\ UNCHANGED <<xHp, xRetired, xKnown, xUp, xRevived>>

\* _hp_recovery_scheduler.
Recover ==
    /\ xUp
    /\ xHp' = [b \in RewardBots |-> IF b \in xKnown /\ ~xRetired[b] THEN Clamp(xHp[b] + 1) ELSE xHp[b]]
    /\ UNCHANGED <<xLevel, xExp, xTotal, xGrade, xRetired, xKnown, xFile, xUp, xRevived, xUpdates>>

Retire(b) ==
    /\ xUp /\ b \in xKnown /\ ~xRetired[b]
    /\ xRetired' = [xRetired EXCEPT ![b] = TRUE]
    /\ UNCHANGED <<xLevel, xExp, xTotal, xHp, xGrade, xKnown, xFile, xUp, xRevived, xUpdates>>

\* revive: half the HP, and a penalty of levels that the grade does not follow.
Revive(b) ==
    /\ Counted /\ b \in xKnown
    /\ xRetired' = [xRetired EXCEPT ![b] = FALSE]
    /\ xHp' = [xHp EXCEPT ![b] = HpCap \div 2]
    /\ IF xLevel[b] > PenaltyAbove
       THEN /\ xLevel' = [xLevel EXCEPT ![b] = @ - PenaltyLevels]
            /\ xExp' = [xExp EXCEPT ![b] = 0]
            /\ xRevived' = xRevived \cup {b}
       ELSE UNCHANGED <<xLevel, xExp, xRevived>>
    /\ UNCHANGED <<xTotal, xGrade, xKnown, xFile, xUp>>

StopService ==
    /\ xUp /\ xUp' = FALSE
    /\ xFile' = [b \in xKnown |-> [level |-> xLevel[b], exp |-> xExp[b],
                                   total |-> xTotal[b], hp |-> xHp[b]]]
    /\ UNCHANGED <<xstate, xRevived, xUpdates>>

RewardCrash == xUp /\ xUp' = FALSE /\ UNCHANGED <<xstate, xFile, xRevived, xUpdates>>

\* A new process: load brings back level, experience and HP; grade and
\* retirement begin anew.
StartService ==
    /\ ~xUp /\ xUp' = TRUE
    /\ LET of(b) == IF b \in DOMAIN xFile THEN xFile[b] ELSE NewState
       IN  /\ xLevel' = [b \in RewardBots |-> of(b).level]
           /\ xExp' = [b \in RewardBots |-> of(b).exp]
           /\ xTotal' = [b \in RewardBots |-> of(b).total]
           /\ xHp' = [b \in RewardBots |-> of(b).hp]
    /\ xGrade' = Each(GradeOf[1]) /\ xRetired' = Each(FALSE)
    /\ xKnown' = DOMAIN xFile
    /\ UNCHANGED <<xFile, xRevived, xUpdates>>

RewardNext ==
    \/ \E b \in RewardBots, win, big \in BOOLEAN, g \in Gains : Trade(b, win, big, g)
    \/ \E b \in RewardBots, g \in Gains : DailyScore(b, g)
    \/ Recover
    \/ \E b \in RewardBots : Retire(b)
    \/ \E b \in RewardBots : Revive(b)
    \/ StopService \/ RewardCrash \/ StartService

RewardSpec == RewardInit /\ [][RewardNext]_xvars

RewardTypeOK ==
    /\ xLevel \in [RewardBots -> 1..LevelCap]
    /\ xHp \in [RewardBots -> 0..HpCap]
    /\ xRetired \in [RewardBots -> BOOLEAN]
    /\ xKnown \subseteq RewardBots /\ DOMAIN xFile \subseteq RewardBots

\* No level that was earned is left unpaid, whatever sequence of trades,
\* scores, revivals and restarts leads there: add_exp pays several levels at
\* once, revive and load leave an experience that fits the level.
LevelsArePaid == \A b \in RewardBots : xExp[b] < ExpFor[xLevel[b]]

\* Below the cap the level and the rest account for all experience ever gained,
\* also across restarts, for a bot no revival has penalised.
ExpIsConserved ==
    \A b \in RewardBots :
        b \notin xRevived /\ xLevel[b] < LevelCap =>
            xTotal[b] = xExp[b] + MapThenSumSet(LAMBDA l : ExpFor[l], 1..(xLevel[b] - 1))

\* What a bot has gained is in its level and its experience.
GainsAreKept == LevelsArePaid /\ ExpIsConserved

\* "등급 동기화" (rpg_system.py:289): the grade is that of the level.
GradeFits == \A b \in RewardBots : xGrade[b] = GradeOf[xLevel[b]]

------------------------------------------------------------------------------
(* The second version of the game the bots play (lib/core/reward_system/       *)
(* rpg_system_v2.py): levels by experience, hit points, tiers, milestones, and *)
(* the file that only the daily settlement writes.  Experience and the levels  *)
(* are scaled down; the shape of the table is kept, whose last entries ask for *)
(* more than the levels after them.                                            *)

CONSTANTS RpgBots,
          Requirement,   \* Requirement[l]: experience asked for level l
          TierOf,        \* TierOf[l]: the tier of level l, as a number
          Rewarded,      \* the levels _grant_milestone_reward is called for
          TradeResults,  \* win, pnl, hp and exp of a trade: exp as it is computed from pnl
          DailyProfits,  \* profits of a day, in percent
          DayExp,        \* experience for a percent of a day's profit
          MaxHp,
          RpgMaxSteps    \* bound: trades, days and restarts

ASSUME RpgAssumption ==
    /\ RpgMaxSteps \in Nat /\ MaxHp \in Nat /\ DayExp \in Nat
    /\ Requirement \in Seq(Nat) /\ Requirement # <<>> /\ TierOf \in [DOMAIN Requirement -> Nat]
    /\ \A l \in DOMAIN Requirement : l > 1 => Requirement[l] > 0
    /\ \A l, m \in DOMAIN Requirement : l <= m => TierOf[l] <= TierOf[m]
    /\ TradeResults \subseteq [win : BOOLEAN, hp : Int, exp : Int] /\ DailyProfits \subseteq Int

VARIABLES rvStates,      \* self.states; of each bot its state, or Unknown
          rvMilestones,  \* unlocked_milestones
          rvFile,        \* the file: states and milestones
          rvGranted,     \* history: how often a level's reward was granted to a bot
          rvSteps

rvVars == <<rvStates, rvMilestones, rvFile, rvGranted, rvSteps>>

Levels == DOMAIN Requirement
Unknown == [level |-> 0]
NewHero == [level |-> 1, exp |-> 0, hp |-> MaxHp, tier |-> TierOf[1], trades |-> 0, wins |-> 0,
          losses |-> 0, streak |-> 0, best |-> 0, retired |-> FALSE]

RpgInit ==
    /\ rvStates = [b \in RpgBots |-> Unknown] /\ rvMilestones = {}
    /\ rvFile = [states |-> [b \in RpgBots |-> Unknown], milestones |-> {}]
    /\ rvGranted = [x \in RpgBots \X Rewarded |-> 0] /\ rvSteps = 0

------------------------------------------------------------------------------
\* get_or_create_state
StateOf(b) == IF rvStates[b] = Unknown THEN NewHero ELSE rvStates[b]

\* modify
Hp(s, change) ==
    LET new == s.hp + change IN IF new > MaxHp THEN MaxHp ELSE IF new < 0 THEN 0 ELSE new

\* mutant of LevelFor: the first level from below whose successor asks for more
LevelFor_Upward(exp) == Min({l \in Levels : l + 1 \notin Levels \/ exp < Requirement[l + 1]})

\* _calculate_level_from_exp: the highest level whose own requirement is met.
LevelFor(exp) == Max({1} \cup {l \in Levels : exp >= Requirement[l]})

\* add_exp
Experienced(s, gain) ==
    LET exp == IF s.exp + gain < 0 THEN 0 ELSE s.exp + gain
    IN  [s EXCEPT !.exp = exp, !.level = LevelFor(exp)]

StreakBonus(wins) == IF wins >= 5 THEN 20 ELSE IF wins >= 3 THEN 10 ELSE 0

\* update_from_trade_result: once dead a bot is retired, and goes on as before.
TradeUpdate(b, r) ==
    LET s == StateOf(b)
        streak == IF r.win THEN s.streak + 1 ELSE 0
        after == Experienced(s, r.exp)
        hp == Hp(s, r.hp + IF r.win THEN StreakBonus(streak) ELSE 0)
    IN  /\ rvStates' = [rvStates EXCEPT ![b] =
              [after EXCEPT !.trades = s.trades + 1, !.wins = s.wins + IF r.win THEN 1 ELSE 0,
                            !.losses = s.losses + IF r.win THEN 0 ELSE 1, !.streak = streak,
                            !.best = IF streak > s.best THEN streak ELSE s.best,
                            !.hp = hp, !.tier = TierOf[after.level],
                            !.retired = s.retired \/ hp = 0]]
        /\ rvSteps' = rvSteps + 1
        /\ UNCHANGED <<rvMilestones, rvFile, rvGranted>>

\* mutant of DailySettled: a loss takes experience away
DailySettled_Loses(s, profit) ==
    [Experienced(s, profit * DayExp) EXCEPT
        !.hp = IF profit >= 5 THEN Hp(s, 15) ELSE IF profit <= -5 THEN Hp(s, -15) ELSE s.hp]

\* update_daily_settlement: experience for a profit, and neither the tier nor the
\* retirement is brought up to date.
DailySettled(s, profit) ==
    [(IF profit > 0 THEN Experienced(s, profit * DayExp) ELSE s) EXCEPT
        !.hp = IF profit >= 5 THEN Hp(s, 15) ELSE IF profit <= -5 THEN Hp(s, -15) ELSE s.hp]

\* mutant of Milestoned: a milestone is unlocked for the bots together
Milestoned_Again(b, level) ==
    /\ rvMilestones' = rvMilestones \cup {<<b, level>>}
    /\ rvGranted' = [x \in DOMAIN rvGranted |-> rvGranted[x] + IF x = <<b, level>> THEN 1 ELSE 0]

\* _check_milestones: a reward for a level that is reached exactly, once.
Milestoned(b, level) ==
    /\ rvMilestones' = rvMilestones \cup {<<b, level>>}
    /\ rvGranted' = [x \in DOMAIN rvGranted |->
          rvGranted[x] + IF x = <<b, level>> /\ x \notin rvMilestones THEN 1 ELSE 0]

\* update_daily: the only place that saves.
UpdateDaily(b, profit) ==
    LET s == DailySettled(StateOf(b), profit)
    IN  /\ rvStates' = [rvStates EXCEPT ![b] = s]
        /\ Milestoned(b, s.level)
        /\ rvFile' = [states |-> rvStates', milestones |-> rvMilestones']
        /\ rvSteps' = rvSteps + 1

\* apply_idle_penalty
IdlePenalty(b) ==
    /\ rvStates[b] # Unknown
    /\ rvStates' = [rvStates EXCEPT ![b].hp = Hp(rvStates[b], -3)]
    /\ rvSteps' = rvSteps + 1
    /\ UNCHANGED <<rvMilestones, rvFile, rvGranted>>

\* load: the retirement, the losses and the streaks do not come back.
HeroLoaded(s) ==
    IF s = Unknown THEN Unknown
    ELSE [NewHero EXCEPT !.level = s.level, !.exp = s.exp, !.hp = s.hp, !.trades = s.trades,
                       !.wins = s.wins, !.tier = TierOf[s.level]]

RpgRestarts ==
    /\ rvStates' = [b \in RpgBots |-> HeroLoaded(rvFile.states[b])]
    /\ rvMilestones' = rvFile.milestones
    /\ rvSteps' = rvSteps + 1
    /\ UNCHANGED <<rvFile, rvGranted>>

RpgNext ==
    /\ rvSteps < RpgMaxSteps
    /\ \/ \E b \in RpgBots :
             \/ \E r \in TradeResults : TradeUpdate(b, r)
             \/ \E p \in DailyProfits : UpdateDaily(b, p)
             \/ IdlePenalty(b)
       \/ RpgRestarts

RpgSpec == RpgInit /\ [][RpgNext]_rvVars

------------------------------------------------------------------------------
RpgTypeOK ==
    /\ \A b \in RpgBots : rvStates[b] # Unknown =>
          rvStates[b].hp \in 0..MaxHp /\ rvStates[b].retired \in BOOLEAN
    /\ rvMilestones \subseteq RpgBots \X Levels

\* A level is the highest one the experience pays for, over trades, days and
\* restarts, and the tier shown is never above the level's.
TierNotAhead ==
    \A b \in RpgBots : rvStates[b] # Unknown =>
        LET s == rvStates[b]
        IN  /\ \A l \in Levels : l > s.level => s.exp < Requirement[l]
            /\ s.tier <= TierOf[s.level]
            /\ s.wins <= s.trades /\ s.best <= s.wins

\* The reward of a level is granted once, whatever is replayed after a restart.
GrantedOnce == \A x \in DOMAIN rvGranted : rvGranted[x] <= 1

------------------------------------------------------------------------------
(* The way of a trade from a bot to the reward system                          *)
(* (src/lib/core/reward_system/bot_wrapper.py, reward_service.py): the bot's   *)
(* client publishes it, or keeps it in a buffer while it has no connection and *)
(* publishes the buffer when it connects; the service's listener counts what   *)
(* it receives, and the daily calculation and a stop save the counts.          *)

CONSTANTS FeedTrades,  \* bound: trades the bot reports, 1..FeedTrades
          FeedBuffer   \* the buffer's limit, 100 in the code

ASSUME FeedAssumption == FeedTrades \in Nat /\ FeedBuffer \in Nat \ {0}

Reports == 1..FeedTrades

VARIABLES rfReported,  \* the trades reported so far
          rfOnline,    \* _connected of the client
          rfSending,   \* the trade whose publish is awaited, or 0
          rfBuffer,    \* _buffer
          rfFlush,     \* connect publishes the buffer: the next place, or 0
          rfTwice,     \* history: the trades delivered by a publish that raised
          rfLost,      \* history: the trades that one of the losses named below has hit
          rfQueue,     \* what the broker holds for the service's listener
          rfListening, \* the listener is connected and subscribed
          rfCount,     \* the service's count of every trade
          rfDaily,     \* the daily calculation awaits its publishes
          rfSaved      \* the counts on the disk

clientVars == <<rfReported, rfOnline, rfSending, rfBuffer, rfFlush, rfTwice>>
listenerVars == <<rfListening, rfCount, rfDaily, rfSaved>>
rfVars == <<clientVars, rfLost, rfQueue, listenerVars>>

NoCounts == [t \in Reports |-> 0]

FeedInit ==
    /\ rfReported = 0 /\ rfOnline = FALSE /\ rfSending = 0 /\ rfBuffer = <<>> /\ rfFlush = 0
    /\ rfTwice = {} /\ rfLost = {} /\ rfQueue = <<>>
    /\ rfListening = FALSE /\ rfCount = NoCounts /\ rfDaily = FALSE /\ rfSaved = NoCounts

\* The broker has a trade: the listener gets it, if it is connected.
Delivered(t) ==
    /\ rfQueue' = IF rfListening THEN Append(rfQueue, t) ELSE rfQueue
    /\ rfLost' = IF rfListening THEN rfLost ELSE rfLost \cup {t}

\* report_trade, publish_trade: the bot makes one call at a time.  Without a
\* connection the trade goes to the buffer, whose oldest goes when it is full.
FeedReport ==
    /\ rfReported < FeedTrades /\ rfSending = 0 /\ rfFlush = 0
    /\ LET t == rfReported + 1
           full == Len(rfBuffer) >= FeedBuffer IN
       /\ rfReported' = t
       /\ \/ rfOnline /\ rfSending' = t /\ UNCHANGED <<rfBuffer, rfLost>>
          \/ /\ ~rfOnline
             /\ rfBuffer' = IF full THEN SubSeq(Append(rfBuffer, t), Len(rfBuffer) + 2 - FeedBuffer,
                                                                      Len(rfBuffer) + 1)
                            ELSE Append(rfBuffer, t)
             /\ rfLost' = IF full THEN rfLost \cup {rfBuffer[i] : i \in 1..(Len(rfBuffer) + 1 - FeedBuffer)}
                          ELSE rfLost
             /\ UNCHANGED rfSending
    /\ UNCHANGED <<rfOnline, rfFlush, rfTwice, rfQueue, listenerVars>>

Published ==
    /\ rfSending # 0
    /\ Delivered(rfSending)
    /\ rfSending' = 0
    /\ UNCHANGED <<rfReported, rfOnline, rfBuffer, rfFlush, rfTwice, listenerVars>>

\* mutant of PublishRaises: an error is taken for a loss
PublishRaises_Drops(delivered) ==
    /\ rfSending # 0
    /\ IF delivered THEN Delivered(rfSending) ELSE UNCHANGED <<rfQueue, rfLost>>
    /\ rfTwice' = IF delivered THEN rfTwice \cup {rfSending} ELSE rfTwice
    /\ rfSending' = 0
    /\ UNCHANGED <<rfReported, rfOnline, rfBuffer, rfFlush, listenerVars>>

\* The publish raises, the trade delivered or not: it goes to the buffer, until
\* the next connect.
PublishRaises(delivered) ==
    /\ rfSending # 0
    /\ IF delivered THEN Delivered(rfSending) ELSE UNCHANGED <<rfQueue, rfLost>>
    /\ rfTwice' = IF delivered THEN rfTwice \cup {rfSending} ELSE rfTwice
    /\ rfBuffer' = Append(rfBuffer, rfSending)
    /\ rfSending' = 0
    /\ UNCHANGED <<rfReported, rfOnline, rfFlush, listenerVars>>

Connect ==
    /\ ~rfOnline
    /\ rfOnline' = TRUE /\ rfFlush' = 1
    /\ UNCHANGED <<rfReported, rfSending, rfBuffer, rfTwice, rfLost, rfQueue, listenerVars>>

\* connect publishes what is buffered; what fails is only logged.
FlushOne(delivered) ==
    /\ rfFlush \in 1..Len(rfBuffer)
    /\ IF delivered THEN Delivered(rfBuffer[rfFlush])
       ELSE rfLost' = rfLost \cup {rfBuffer[rfFlush]} /\ UNCHANGED rfQueue
    /\ rfFlush' = rfFlush + 1
    /\ UNCHANGED <<rfReported, rfOnline, rfSending, rfBuffer, rfTwice, listenerVars>>

\* mutant of FlushEnds: the buffer is not cleared
FlushEnds_Keeps ==
    /\ rfFlush > Len(rfBuffer)
    /\ rfFlush' = 0
    /\ UNCHANGED <<rfReported, rfOnline, rfSending, rfBuffer, rfTwice, rfLost, rfQueue, listenerVars>>

FlushEnds ==
    /\ rfFlush > Len(rfBuffer)
    /\ rfBuffer' = <<>> /\ rfFlush' = 0
    /\ UNCHANGED <<rfReported, rfOnline, rfSending, rfTwice, rfLost, rfQueue, listenerVars>>

Disconnect ==
    /\ rfOnline /\ rfSending = 0 /\ rfFlush = 0
    /\ rfOnline' = FALSE
    /\ UNCHANGED <<rfReported, rfSending, rfBuffer, rfFlush, rfTwice, rfLost, rfQueue, listenerVars>>

------------------------------------------------------------------------------
\* The listener connects again after an error; the session keeps nothing for it.
Subscribe ==
    /\ ~rfListening
    /\ rfListening' = TRUE
    /\ UNCHANGED <<clientVars, rfLost, rfQueue, rfCount, rfDaily, rfSaved>>

RangeOf(queue) == {queue[i] : i \in 1..Len(queue)}

ListenerError ==
    /\ rfListening
    /\ rfListening' = FALSE /\ rfQueue' = <<>>
    /\ rfLost' = rfLost \cup RangeOf(rfQueue)
    /\ UNCHANGED <<clientVars, rfCount, rfDaily, rfSaved>>

\* _handle_trade_message
HandleTrade ==
    /\ rfListening /\ rfQueue # <<>>
    /\ rfCount' = [rfCount EXCEPT ![Head(rfQueue)] = @ + 1]
    /\ rfQueue' = Tail(rfQueue)
    /\ UNCHANGED <<clientVars, rfLost, rfListening, rfDaily, rfSaved>>

\* _run_daily_reward_calculation publishes with the client the listener had last,
\* which may be an old one, and saves after that.
FeedDailyRun ==
    /\ ~rfDaily
    /\ rfDaily' = TRUE
    /\ UNCHANGED <<clientVars, rfLost, rfQueue, rfListening, rfCount, rfSaved>>

DailyEnds(raises) ==
    /\ rfDaily
    /\ rfDaily' = FALSE
    /\ rfSaved' = IF raises THEN rfSaved ELSE rfCount
    /\ UNCHANGED <<clientVars, rfLost, rfQueue, rfListening, rfCount>>

\* stop saves, a crash does not; start loads.
ServiceRestarts(saves) ==
    /\ rfListening' = FALSE /\ rfQueue' = <<>> /\ rfDaily' = FALSE
    /\ rfSaved' = IF saves THEN rfCount ELSE rfSaved
    /\ rfCount' = rfSaved'
    /\ rfLost' = rfLost \cup RangeOf(rfQueue) \cup {t \in Reports : rfCount'[t] < rfCount[t]}
    /\ UNCHANGED clientVars

FeedNext ==
    \/ FeedReport \/ Published \/ Connect \/ FlushEnds \/ Disconnect
    \/ \E delivered \in BOOLEAN : PublishRaises(delivered) \/ FlushOne(delivered)
    \/ Subscribe \/ ListenerError \/ HandleTrade \/ FeedDailyRun
    \/ \E raises \in BOOLEAN : DailyEnds(raises)
    \/ \E saves \in BOOLEAN : ServiceRestarts(saves)

FeedSpec == FeedInit /\ [][FeedNext]_rfVars

------------------------------------------------------------------------------
FeedTypeOK ==
    /\ rfReported \in 0..FeedTrades /\ rfSending \in 0..FeedTrades
    /\ rfFlush \in 0..(Len(rfBuffer) + 1)
    /\ RangeOf(rfBuffer) \cup RangeOf(rfQueue) \cup rfLost \cup rfTwice \subseteq Reports
    /\ \A t \in Reports : rfCount[t] \in Nat /\ rfSaved[t] \in Nat

\* The service counts a reported trade once, over reconnections of both ends and
\* restarts from the saved counts, and a second time only when a publish raised
\* though the broker had the message.
CountedOnce ==
    \A t \in Reports : rfCount[t] <= (IF t \in rfTwice THEN 2 ELSE 1)

\* A reported trade that no loss has hit (a full buffer, a failure while the buffer
\* is published, a listener without connection, a restart before the save) is on
\* its way or counted.
ReportsArrive ==
    \A t \in 1..rfReported :
        \/ t \in rfLost \/ t = rfSending \/ rfCount[t] > 0
        \/ t \in RangeOf(rfBuffer) \cup RangeOf(rfQueue)

------------------------------------------------------------------------------
(* The three processes that keep rewards: the reward service (lib/core/        *)
(* reward_system/reward_service.py), the service of department 6               *)
(* (department_6/src/rnd_with_reward.py) and the dashboard's integration       *)
(* (.deprecated/dashboard_20260403/dashboard_reward_integration.py).  Each one *)
(* reads data/rpg_states.json and data/capital_allocations.json once, at its   *)
(* start, and writes the whole of its own memory back when it saves.  Of a bot *)
(* its count of trades and its base capital are kept.                          *)

CONSTANTS StartCapital,   \* capital_usd of DEFAULT_BOT_CONFIGS
          SrMaxTrades,    \* bound: trades published
          SrMaxInvest,    \* bound: investments
          Listening,      \* the services that run: "service", "rnd"
          SrMaxStarts     \* bound: starts of a process, all together

ASSUME SharedAssumption == {StartCapital, SrMaxTrades, SrMaxInvest, SrMaxStarts} \subseteq Nat

Processes == Listening \cup {"board"}

VARIABLES srState,    \* of each process: down, up, or lingering after its stop()
          srMem,      \* trades, base and current of the bot in each process
          srAt,       \* publications of the daily run made so far, or 0 outside it
          srFile,     \* trades of the one file, base of the other; NoFile before a first save
          srTold,     \* trades published
          srInvested,
          srStarts,
          srForeign,  \* history: files others wrote since the process read them
          srLost      \* history: saves that made a file poorer, and whether others had written

srVars == <<srState, srMem, srAt, srFile, srTold, srInvested, srStarts, srForeign, srLost>>

NoFile == -1
Default == [trades |-> 0, base |-> StartCapital, current |-> StartCapital]

SharedInit ==
    /\ srState = [p \in Processes |-> "down"] /\ srMem = [p \in Processes |-> Default]
    /\ srAt = [p \in Processes |-> 0] /\ srFile = [trades |-> NoFile, base |-> NoFile]
    /\ srTold = 0 /\ srInvested = 0 /\ srStarts = 0
    /\ srForeign = [p \in Processes |-> {}] /\ srLost = {}

------------------------------------------------------------------------------
(* Files.                                                                      *)

Alive(p) == srState[p] # "down"

\* save of RPGSystem ("trades") and of CapitalAllocator ("base"), without a lock and
\* without a look at what is there.
Saves(p, files) ==
    /\ srFile' = [f \in {"trades", "base"} |-> IF f \in files THEN srMem[p][f] ELSE srFile[f]]
    /\ srForeign' = [q \in Processes |-> IF q = p THEN srForeign[q] ELSE srForeign[q] \cup files]
    /\ srLost' = srLost \cup
          {[file |-> f, foreign |-> f \in srForeign[p]] :
              f \in {g \in files : srMem[p][g] < srFile[g]}}

NothingSaved == UNCHANGED <<srFile, srForeign, srLost>>

\* mutant of LoadedFiles: the bots are registered after the load
LoadedFiles_Registered ==
    [Default EXCEPT !.trades = IF srFile.trades = NoFile THEN 0 ELSE srFile.trades]

\* What start makes of the files: the defaults are registered, then the loads replace
\* them.
LoadedFiles ==
    [trades  |-> IF srFile.trades = NoFile THEN 0 ELSE srFile.trades,
     base    |-> IF srFile.base = NoFile THEN StartCapital ELSE srFile.base,
     current |-> IF srFile.base = NoFile THEN StartCapital ELSE srFile.base]

StartProcess(p) ==
    /\ srState[p] = "down" /\ srStarts < SrMaxStarts
    /\ srStarts' = srStarts + 1
    /\ srState' = [srState EXCEPT ![p] = "up"]
    /\ srMem' = [srMem EXCEPT ![p] = LoadedFiles] /\ srForeign' = [srForeign EXCEPT ![p] = {}]
    /\ UNCHANGED <<srAt, srFile, srTold, srInvested, srLost>>

\* stop(), called by the signal handler, saves; the tasks go on sleeping until their
\* hour, so the process lingers ...
StopProcess(p) ==
    /\ p \in Listening /\ srState[p] = "up"
    /\ srState' = [srState EXCEPT ![p] = "lingering"] /\ Saves(p, {"trades", "base"})
    /\ UNCHANGED <<srMem, srAt, srTold, srInvested, srStarts>>

\* ... and saves once more when they have ended.
ProcessEnds(p) ==
    /\ srState[p] = "lingering" /\ srAt[p] = 0
    /\ srState' = [srState EXCEPT ![p] = "down"] /\ Saves(p, {"trades", "base"})
    /\ UNCHANGED <<srMem, srAt, srTold, srInvested, srStarts>>

ProcessKilled(p) ==
    /\ Alive(p) /\ srState' = [srState EXCEPT ![p] = "down"]
    /\ srAt' = [srAt EXCEPT ![p] = 0]
    /\ NothingSaved /\ UNCHANGED <<srMem, srTold, srInvested, srStarts>>

------------------------------------------------------------------------------
(* Trades, the daily run, the dashboard.                                       *)

\* A trade is published: the services that are connected count it.
TradePublished(heard) ==
    /\ srTold < SrMaxTrades /\ srTold' = srTold + 1
    /\ heard \subseteq {p \in Listening : srState[p] = "up"}
    /\ srMem' = [p \in Processes |->
          IF p \in heard THEN [srMem[p] EXCEPT !.trades = @ + 1] ELSE srMem[p]]
    /\ NothingSaved /\ UNCHANGED <<srState, srAt, srInvested, srStarts>>

\* calculate_reallocation and apply_reallocation: back to the base, which is where
\* the current capital has been all along, so that no profit goes to the vault.
Reallocated(p) == srMem' = [srMem EXCEPT ![p].current = srMem[p].base]

\* The daily run of department 6 publishes the rewards and then the reallocation,
\* that of the reward service the other way round.
Follows(p, k) == IF p = "rnd" THEN (IF k = 1 THEN {"trades"} ELSE {"base"})
                 ELSE IF k = 1 THEN {} ELSE {"trades"}

DailyRun(p) ==
    /\ p \in Listening /\ srState[p] = "up" /\ srAt[p] = 0
    /\ srAt' = [srAt EXCEPT ![p] = 1] /\ Reallocated(p)
    /\ NothingSaved /\ UNCHANGED <<srState, srTold, srInvested, srStarts>>

\* A publication is through, and the file that follows it is saved.
RunGoesOn(p) ==
    /\ Alive(p) /\ srAt[p] > 0
    /\ Saves(p, Follows(p, srAt[p]))
    /\ srAt' = [srAt EXCEPT ![p] = IF @ = 2 THEN 0 ELSE @ + 1]
    /\ UNCHANGED <<srState, srMem, srTold, srInvested, srStarts>>

\* A publication fails: the rest of the run, its saves too, is given up.
RunFails(p) ==
    /\ Alive(p) /\ srAt[p] > 0 /\ srAt' = [srAt EXCEPT ![p] = 0]
    /\ NothingSaved /\ UNCHANGED <<srState, srMem, srTold, srInvested, srStarts>>

\* execute_capital_reallocation, and revive_bot or retire_bot, of the dashboard.
BoardActs(file) ==
    /\ srState["board"] = "up" /\ Saves("board", {file})
    /\ IF file = "base" THEN Reallocated("board") ELSE UNCHANGED srMem
    /\ UNCHANGED <<srState, srAt, srTold, srInvested, srStarts>>

\* ceo_invest, by hand: in the memory of one process.
CeoInvest(p) ==
    /\ srState[p] = "up" /\ srInvested < SrMaxInvest /\ srInvested' = srInvested + 1
    /\ srMem' = [srMem EXCEPT ![p].base = @ + 1, ![p].current = @ + 1]
    /\ NothingSaved /\ UNCHANGED <<srState, srAt, srTold, srStarts>>

SharedNext ==
    \/ \E p \in Processes :
          \/ StartProcess(p) \/ StopProcess(p) \/ ProcessEnds(p) \/ ProcessKilled(p)
          \/ DailyRun(p) \/ RunGoesOn(p) \/ RunFails(p) \/ CeoInvest(p)
    \/ \E heard \in SUBSET Listening : TradePublished(heard)
    \/ \E file \in {"trades", "base"} : BoardActs(file)

SharedSpec == SharedInit /\ [][SharedNext]_srVars

------------------------------------------------------------------------------
SharedTypeOK ==
    /\ srState \in [Processes -> {"down", "up", "lingering"}]
    /\ srAt \in [Processes -> 0..2] /\ srTold \in 0..SrMaxTrades
    /\ \A p \in Processes : srMem[p].trades \in 0..srTold

\* A save takes trades or an investment out of a file only when another process has
\* written the file since this one read it: one process alone never loses what it
\* saved, over stops, kills, failed publications and restarts.
OnlyStaleSavesLose == \A l \in srLost : l.foreign
==============================================================================
