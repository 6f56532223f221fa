---------------------------- MODULE ControlTower ----------------------------
(* The control tower (src/occore/control_tower): the collector of markets and the *)
(* board that reports; and the connectors to exchanges of the operations       *)
(* department.  Three parts, each with its own state.                          *)
EXTENDS Integers, Sequences, FiniteSets, TLC, SequencesExt

------------------------------------------------------------------------------
(* The control tower's collector (src/occore/control_tower/collector.py): a    *)
(* task for every exchange that fills the cache, and one that makes market     *)
(* snapshots of it.  Every fetch is an await in which the collector may be     *)
(* stopped and started again, and exchanges be added and removed.              *)

CONSTANTS TowerExchanges,
          MaxCollectors  \* bound: tasks the collector has started, of any kind

ASSUME TowerAssumption == MaxCollectors \in Nat /\ "snapshots" \notin TowerExchanges

Collectors == 1..MaxCollectors

VARIABLES ctRunning,   \* _running of the collector
          ctLoop,      \* its tasks: what each collects and how far it is
          ctTasks,     \* _tasks
          ctStop,      \* the tasks stop_collection waits for
          ctStopping,  \* it does wait
          ctOverlap,   \* history: a start came while a stop was waiting
          ctAdapters,  \* adapters
          ctCache,     \* data_cache: the exchanges that have data
          ctSnapshot   \* snapshot_cache: the exchanges the market snapshot is made of

ctHeld == <<ctRunning, ctTasks, ctStop, ctStopping, ctOverlap>>
ctVars == <<ctLoop, ctHeld, ctAdapters, ctCache, ctSnapshot>>

NoLoop == [of |-> "none", at |-> "unborn"]
TaskLives(i) == ctLoop[i].at \in {"turn", "fetching", "cancelled"}
Targets == ctAdapters \cup {"snapshots"}
\* The tasks a start creates: as many as there are targets.
NextIds == {a..(a + Cardinality(Targets) - 1) :
               a \in {i \in Collectors : /\ i + Cardinality(Targets) - 1 <= MaxCollectors
                                         /\ \A j \in Collectors : ctLoop[j].at = "unborn" <=> j >= i}}

TowerInit ==
    /\ ctRunning = FALSE /\ ctLoop = [i \in Collectors |-> NoLoop] /\ ctTasks = {}
    /\ ctStop = {} /\ ctStopping = FALSE
    /\ ctOverlap = FALSE /\ ctAdapters = {} /\ ctCache = {} /\ ctSnapshot = {}

\* add_exchange, once connect has succeeded.
AddExchange(x) ==
    /\ x \notin ctAdapters
    /\ ctAdapters' = ctAdapters \cup {x}
    /\ UNCHANGED <<ctLoop, ctHeld, ctCache, ctSnapshot>>

\* remove_exchange, once disconnect has returned: the task of the exchange goes on.
RemoveExchange(x) ==
    /\ x \in ctAdapters
    /\ ctAdapters' = ctAdapters \ {x}
    /\ ctCache' = ctCache \ {x}
    /\ UNCHANGED <<ctLoop, ctHeld, ctSnapshot>>

\* mutant of StartCollection: a start while the collector runs starts it again
StartCollection_Again(ids, of) ==
    /\ ctRunning' = TRUE
    /\ ctLoop' = [i \in Collectors |-> IF i \in ids THEN [of |-> of[i], at |-> "turn"]
                                                  ELSE ctLoop[i]]
    /\ ctTasks' = ctTasks \cup ids
    /\ ctOverlap' = (ctOverlap \/ ctStopping)
    /\ UNCHANGED <<ctStop, ctStopping, ctAdapters, ctCache, ctSnapshot>>

\* start_collection: a task for every exchange and one for the snapshots.
StartCollection(ids, of) ==
    /\ ~ctRunning
    /\ ctRunning' = TRUE
    /\ ctLoop' = [i \in Collectors |-> IF i \in ids THEN [of |-> of[i], at |-> "turn"]
                                                  ELSE ctLoop[i]]
    /\ ctTasks' = ctTasks \cup ids
    /\ ctOverlap' = (ctOverlap \/ ctStopping)
    /\ UNCHANGED <<ctStop, ctStopping, ctAdapters, ctCache, ctSnapshot>>

\* stop_collection cancels the tasks it knows and waits for them ...
StopCollection ==
    /\ ~ctStopping
    /\ ctRunning' = FALSE
    /\ ctLoop' = [i \in Collectors |-> IF i \in ctTasks /\ TaskLives(i) THEN [ctLoop[i] EXCEPT !.at = "cancelled"]
                                                                     ELSE ctLoop[i]]
    /\ ctStop' = ctTasks /\ ctStopping' = TRUE
    /\ UNCHANGED <<ctTasks, ctOverlap, ctAdapters, ctCache, ctSnapshot>>

\* ... and forgets every task, those of a start meanwhile included.
CollectionStopped ==
    /\ ctStopping /\ \A i \in ctStop : ~TaskLives(i)
    /\ ctStop' = {} /\ ctStopping' = FALSE
    /\ ctTasks' = {}
    /\ UNCHANGED <<ctRunning, ctLoop, ctOverlap, ctAdapters, ctCache, ctSnapshot>>

\* mutant of LoopTurns: a task runs until it is cancelled
LoopTurns_Forever(i) ==
    /\ ctLoop[i].at = "turn"
    /\ ctLoop' = [ctLoop EXCEPT ![i].at = IF ctLoop[i].of = "snapshots" THEN "turn" ELSE "fetching"]
    /\ ctSnapshot' = IF ctLoop[i].of = "snapshots" /\ ctCache # {} THEN ctCache ELSE ctSnapshot
    /\ UNCHANGED <<ctHeld, ctAdapters, ctCache>>

\* The head of _collect_loop and of _snapshot_loop, at first and after every sleep.
LoopTurns(i) ==
    /\ ctLoop[i].at = "turn"
    /\ ctLoop' = [ctLoop EXCEPT ![i].at = IF ~ctRunning THEN "done"
                                          ELSE IF ctLoop[i].of = "snapshots" THEN "turn" ELSE "fetching"]
    /\ ctSnapshot' = IF ctRunning /\ ctLoop[i].of = "snapshots" /\ ctCache # {} THEN ctCache ELSE ctSnapshot
    /\ UNCHANGED <<ctHeld, ctAdapters, ctCache>>

\* The fetches have ended, well or not: the cache has an entry either way, which
\* says "connected".
LoopCaches(i) ==
    /\ ctLoop[i].at = "fetching"
    /\ ctLoop' = [ctLoop EXCEPT ![i].at = "turn"]
    /\ ctCache' = ctCache \cup {ctLoop[i].of}
    /\ UNCHANGED <<ctHeld, ctAdapters, ctSnapshot>>

LoopCancelled(i) ==
    /\ ctLoop[i].at = "cancelled"
    /\ ctLoop' = [ctLoop EXCEPT ![i].at = "done"]
    /\ UNCHANGED <<ctHeld, ctAdapters, ctCache, ctSnapshot>>

TowerNext ==
    \/ \E x \in TowerExchanges : AddExchange(x) \/ RemoveExchange(x)
    \/ \E ids \in NextIds : \E of \in [ids -> Targets] :
           /\ {of[i] : i \in ids} = Targets
           /\ StartCollection(ids, of)
    \/ StopCollection \/ CollectionStopped
    \/ \E i \in Collectors : LoopTurns(i) \/ LoopCaches(i) \/ LoopCancelled(i)

\* The event loop runs every task, and every fetch ends.
TowerFairness ==
    /\ \A i \in Collectors : /\ WF_ctVars(LoopTurns(i)) /\ WF_ctVars(LoopCaches(i))
                             /\ WF_ctVars(LoopCancelled(i))
    /\ WF_ctVars(CollectionStopped)

TowerSpec == TowerInit /\ [][TowerNext]_ctVars /\ TowerFairness

------------------------------------------------------------------------------
TowerTypeOK ==
    /\ \A i \in Collectors : ctLoop[i].at \in {"unborn", "turn", "fetching", "cancelled", "done"}
    /\ ctTasks \subseteq Collectors
    /\ ctCache \cup ctSnapshot \subseteq TowerExchanges

\* Over starts and stops in any order, an exchange has at most one task that
\* collects it, and a collector that is stopped has none, as long as no start came
\* while a stop was waiting for the tasks.
OneCollectorEach ==
    ~ctOverlap =>
        /\ \A i, j \in Collectors :
               i # j /\ TaskLives(i) /\ TaskLives(j) /\ ctLoop[i].of = ctLoop[j].of
                   => "cancelled" \in {ctLoop[i].at, ctLoop[j].at}
        /\ ~ctRunning /\ ~ctStopping => \A i \in Collectors : ~TaskLives(i)

\* A collector that is not started again comes to an end, with the tasks a stop
\* did not know.
CollectionEnds == ~ctRunning ~> (ctRunning \/ \A i \in Collectors : ~TaskLives(i))

------------------------------------------------------------------------------
(* The situation board (src/occore/control_tower/situation_board.py): a loop   *)
(* puts together a report from the collector, the alerts, the bots' statuses   *)
(* and the health of the machine.  It waits for the network in the middle of   *)
(* it, while bots report and the board may be stopped and started again.       *)

CONSTANTS BoardBots,     \* bots that report
          BotProfits,    \* profits of a day they report
          BoardExchanges,\* number of exchanges of the collector
          HealthLimit,   \* health_history_limit, 100 in the code
          MaxBoardUpdates,    \* bound: updates of a bot's status
          MaxReports     \* bound: reports made

ASSUME BoardAssumption ==
    BoardExchanges \in Nat /\ HealthLimit \in Nat /\ MaxBoardUpdates \in Nat /\ BotProfits \subseteq Int

VARIABLES sbBots,      \* _bot_statuses: the bots in the order they came, with their profit
          sbOnline,    \* exchanges the collector calls connected
          sbVolatile,  \* most snapshots vary by more than 5 %
          sbRunning,   \* _running
          sbLoop,      \* where the loop is, and what it has put together
          sbStopping,  \* a stop waits for the task it cancelled
          sbHealth,    \* _system_health_history
          sbReport,    \* _current_report
          sbUpdates, sbReports,
          sbTouched    \* history: a bot reported while the report was made

sbVars == <<sbBots, sbOnline, sbVolatile, sbRunning, sbLoop, sbStopping, sbHealth, sbReport,
            sbUpdates, sbReports, sbTouched>>

LoopOff == [pc |-> "off"]
NoReport == [status |-> "none"]

BoardInit ==
    /\ sbBots = <<>> /\ sbOnline = BoardExchanges /\ sbVolatile = FALSE
    /\ sbRunning = FALSE /\ sbLoop = LoopOff /\ sbStopping = FALSE /\ sbHealth = <<>>
    /\ sbReport = NoReport /\ sbUpdates = 0 /\ sbReports = 0 /\ sbTouched = FALSE

\* start
BoardStarts ==
    /\ ~sbRunning /\ sbRunning' = TRUE /\ sbLoop' = [pc |-> "refresh"]
    /\ UNCHANGED <<sbBots, sbOnline, sbVolatile, sbStopping, sbHealth, sbReport, sbUpdates, sbReports, sbTouched>>

\* stop, and the end of its wait for the task: a start in between makes another.
BoardStops ==
    /\ ~sbStopping /\ sbRunning
    /\ sbRunning' = FALSE /\ sbLoop' = LoopOff /\ sbStopping' = TRUE
    /\ UNCHANGED <<sbBots, sbOnline, sbVolatile, sbHealth, sbReport, sbUpdates, sbReports, sbTouched>>

BoardStopReturns ==
    /\ sbStopping /\ sbStopping' = FALSE
    /\ UNCHANGED <<sbBots, sbOnline, sbVolatile, sbRunning, sbLoop, sbHealth, sbReport, sbUpdates, sbReports, sbTouched>>

\* _determine_market_status
MarketStatus ==
    LET offline == BoardExchanges - sbOnline
    IN  IF offline > sbOnline THEN "critical"
        ELSE IF offline > 0 \/ sbVolatile THEN "warning" ELSE "normal"

BotBefore(i, j) == \/ sbBots[i].profit > sbBots[j].profit
                   \/ sbBots[i].profit = sbBots[j].profit /\ i < j

\* mutant of Ranked: the bots with the largest profit come last
Ranked_Ascending ==
    [r \in DOMAIN sbBots |->
        sbBots[CHOOSE j \in DOMAIN sbBots : Cardinality({i \in DOMAIN sbBots : BotBefore(j, i)}) = r - 1]]

\* sorted by profit, the largest first; the sort keeps the order of equal ones.
Ranked ==
    [r \in DOMAIN sbBots |->
        sbBots[CHOOSE j \in DOMAIN sbBots : Cardinality({i \in DOMAIN sbBots : BotBefore(i, j)}) = r - 1]]

BestAndWorst == IF sbBots = <<>> THEN <<"none", "none">> ELSE <<Head(Ranked).bot, Last(Ranked).bot>>

\* _refresh_situation, as far as the wait for the network.
RefreshBegins ==
    /\ sbLoop.pc = "refresh" /\ sbReports < MaxReports
    /\ sbLoop' = [pc |-> "measuring", status |-> MarketStatus, online |-> sbOnline, ranks |-> BestAndWorst]
    /\ sbTouched' = FALSE
    /\ UNCHANGED <<sbBots, sbOnline, sbVolatile, sbRunning, sbStopping, sbHealth, sbReport, sbUpdates, sbReports>>

\* The rest of it: the statuses in the report are those of now.
ReportMade(health) ==
    /\ sbReport' = [status |-> sbLoop.status, online |-> sbLoop.online, ranks |-> sbLoop.ranks,
                    bots |-> sbBots, health |-> health, torn |-> sbTouched]
    /\ sbReports' = sbReports + 1 /\ sbLoop' = [pc |-> "sleeping"]
    /\ UNCHANGED <<sbBots, sbOnline, sbVolatile, sbRunning, sbStopping, sbUpdates, sbTouched>>

\* _check_system_health: a network that does not answer counts as -1 and changes
\* nothing; a machine that cannot be read is in maintenance, and not remembered.
HealthChecked ==
    /\ sbLoop.pc = "measuring"
    /\ \/ \E health \in {"normal", "warning", "critical"} :
            /\ ReportMade(health)
            /\ sbHealth' = IF Len(sbHealth) = HealthLimit THEN Append(Tail(sbHealth), health)
                           ELSE Append(sbHealth, health)
       \/ ReportMade("maintenance") /\ UNCHANGED sbHealth

LoopSleeps ==
    /\ sbLoop.pc = "sleeping" /\ sbLoop' = [pc |-> "refresh"]
    /\ UNCHANGED <<sbBots, sbOnline, sbVolatile, sbRunning, sbStopping, sbHealth, sbReport, sbUpdates, sbReports, sbTouched>>

\* update_bot_status
UpdateBotStatus(b, profit) ==
    LET known == {i \in DOMAIN sbBots : sbBots[i].bot = b}  status == [bot |-> b, profit |-> profit]
    IN  /\ sbUpdates < MaxBoardUpdates /\ sbUpdates' = sbUpdates + 1
        /\ sbBots' = IF known = {} THEN Append(sbBots, status)
                     ELSE [i \in DOMAIN sbBots |-> IF i \in known THEN status ELSE sbBots[i]]
        /\ sbTouched' = TRUE
        /\ UNCHANGED <<sbOnline, sbVolatile, sbRunning, sbLoop, sbStopping, sbHealth, sbReport, sbReports>>

\* The collector's view of its exchanges and of the market changes.
MarketMoves ==
    /\ sbOnline' \in 0..BoardExchanges /\ sbVolatile' \in BOOLEAN
    /\ UNCHANGED <<sbBots, sbRunning, sbLoop, sbStopping, sbHealth, sbReport, sbUpdates, sbReports, sbTouched>>

BoardNext ==
    \/ BoardStarts \/ BoardStops \/ BoardStopReturns \/ RefreshBegins \/ HealthChecked \/ LoopSleeps \/ MarketMoves
    \/ \E b \in BoardBots, profit \in BotProfits : UpdateBotStatus(b, profit)

BoardSpec == BoardInit /\ [][BoardNext]_sbVars

------------------------------------------------------------------------------
BoardTypeOK ==
    /\ sbOnline \in 0..BoardExchanges /\ Len(sbHealth) <= HealthLimit
    /\ sbLoop.pc \in {"off", "refresh", "measuring", "sleeping"}
    /\ sbRunning <=> sbLoop.pc # "off"

\* A report agrees with itself: no bot it shows earned more than the one it calls
\* the best, or less than the worst, unless a bot reported while it was made; and
\* the market is critical in it just where fewer exchanges answer than not.
ReportAgrees ==
    sbReport # NoReport =>
        /\ sbReport.status = "critical" <=> 2 * sbReport.online < BoardExchanges
        /\ ~sbReport.torn => \A i, j \in DOMAIN sbReport.bots :
               /\ sbReport.bots[i].bot = sbReport.ranks[1] => sbReport.bots[i].profit >= sbReport.bots[j].profit
               /\ sbReport.bots[i].bot = sbReport.ranks[2] => sbReport.bots[i].profit <= sbReport.bots[j].profit
------------------------------------------------------------------------------
(* The connectors of the operations department                                 *)
(* (src/occore/operations/exchange_connector.py): a manager with a dictionary  *)
(* of them, and one default connector.  Connecting, closing and asking for a   *)
(* balance are awaits between which other tasks do the same.                   *)

CONSTANTS ConnExchanges, ConnTasks,
          MaxConnectors  \* bound: connectors made

ASSUME ConnAssumption == MaxConnectors \in Nat

Connectors == 1 .. MaxConnectors

VARIABLES cnState,    \* each connector: made or not, connected or not
          cnTable,    \* connectors: exchange and connector, in the order of the dictionary
          cnDefault,  \* _default_connector, 0 for None
          cnCall,     \* what a task is doing
          cnAgain,    \* history: an exchange was added that was there, or being added
          cnRaced,    \* history: an exchange was added to a table being closed
          cnReset     \* history: the default connector was reset

cnFlags == <<cnAgain, cnRaced, cnReset>>
cnVars == <<cnState, cnTable, cnDefault, cnCall, cnFlags>>

ConnIdle == [at |-> "idle"]

ConnInit ==
    /\ cnState = [i \in Connectors |-> "unborn"] /\ cnTable = <<>> /\ cnDefault = 0
    /\ cnCall = [t \in ConnTasks |-> ConnIdle]
    /\ cnAgain = FALSE /\ cnRaced = FALSE /\ cnReset = FALSE

NewConnector(i) == cnState[i] = "unborn" /\ \A j \in Connectors : cnState[j] = "unborn" => i <= j
CallOver(t) == cnCall' = [cnCall EXCEPT ![t] = ConnIdle]
Doing(at) == {t \in ConnTasks : cnCall[t].at = at}
Known == {cnTable[k].of : k \in DOMAIN cnTable}

\* add_exchange up to load_markets.
Adding(t, x, i) ==
    /\ cnCall[t] = ConnIdle /\ NewConnector(i)
    /\ cnState' = [cnState EXCEPT ![i] = "connecting"]
    /\ cnCall' = [cnCall EXCEPT ![t] = [at |-> "adding", of |-> x, conn |-> i]]
    /\ cnAgain' = (cnAgain \/ x \in Known \/ \E u \in Doing("adding") : cnCall[u].of = x)
    /\ UNCHANGED <<cnTable, cnDefault, cnRaced, cnReset>>

\* ... and from there: a connector replaces the one of its exchange, whose
\* connection nobody closes.
Connected(t, ok) ==
    /\ cnCall[t].at = "adding" /\ CallOver(t)
    /\ cnState' = [cnState EXCEPT ![cnCall[t].conn] = IF ok THEN "up" ELSE "failed"]
    /\ LET entry == [of |-> cnCall[t].of, conn |-> cnCall[t].conn]
       IN  cnTable' = IF ~ok THEN cnTable
                      ELSE IF entry.of \in Known
                      THEN [k \in DOMAIN cnTable |-> IF cnTable[k].of = entry.of THEN entry ELSE cnTable[k]]
                      ELSE Append(cnTable, entry)
    /\ cnRaced' = (cnRaced \/ (ok /\ Doing("closing") # {}))
    /\ cnAgain' = (cnAgain \/ (ok /\ cnCall[t].of \in Known))
    /\ UNCHANGED <<cnDefault, cnReset>>

\* close_all and get_all_balances go through the dictionary over awaits: the
\* first entry ...
Iterate(t, at) ==
    /\ cnCall[t] = ConnIdle
    /\ IF cnTable = <<>> THEN UNCHANGED cnCall
       ELSE cnCall' = [cnCall EXCEPT ![t] = [at |-> at, pos |-> 1, size |-> Len(cnTable), conn |-> cnTable[1].conn]]
    /\ UNCHANGED <<cnState, cnTable, cnDefault, cnFlags>>

\* ... and the next: Python raises if the size of the dictionary has changed, and
\* at the end of it the loop is over.
NextEntry(t, AtEnd) ==
    LET c == cnCall[t]
    IN  IF Len(cnTable) # c.size THEN CallOver(t) /\ UNCHANGED cnTable
        ELSE IF c.pos = c.size THEN CallOver(t) /\ AtEnd
        ELSE /\ cnCall' = [cnCall EXCEPT ![t].pos = c.pos + 1, ![t].conn = cnTable[c.pos + 1].conn]
             /\ UNCHANGED cnTable

\* mutant of Disconnected: the dictionary is cleared in any case
Disconnected_Clears(t, ok) ==
    /\ cnCall[t].at = "closing"
    /\ cnState' = IF ok THEN [cnState EXCEPT ![cnCall[t].conn] = "closed"] ELSE cnState
    /\ IF ok THEN NextEntry(t, cnTable' = <<>>) ELSE CallOver(t) /\ cnTable' = <<>>
    /\ UNCHANGED <<cnDefault, cnFlags>>

\* disconnect in close_all: closed, or its exception ends close_all.  After the
\* last entry the dictionary is cleared.
Disconnected(t, ok) ==
    /\ cnCall[t].at = "closing"
    /\ cnState' = IF ok THEN [cnState EXCEPT ![cnCall[t].conn] = "closed"] ELSE cnState
    /\ IF ok THEN NextEntry(t, cnTable' = <<>>) ELSE CallOver(t) /\ UNCHANGED cnTable
    /\ UNCHANGED <<cnDefault, cnFlags>>

\* get_balance in get_all_balances: an error is an answer too.
Balance(t) ==
    /\ cnCall[t].at = "reading"
    /\ NextEntry(t, UNCHANGED cnTable)
    /\ UNCHANGED <<cnState, cnDefault, cnFlags>>

\* mutant of GetDefault: the connector is the default once it is connected
GetDefault_Late(t, i) ==
    /\ cnCall[t] = ConnIdle /\ cnDefault = 0 /\ NewConnector(i)
    /\ cnState' = [cnState EXCEPT ![i] = "connecting"]
    /\ cnCall' = [cnCall EXCEPT ![t] = [at |-> "default", conn |-> i]]
    /\ UNCHANGED <<cnTable, cnDefault, cnFlags>>

\* get_default_connector makes the connector the default, then connects it.  A
\* call meanwhile, and every one after a failure, returns it as it is.
GetDefault(t, i) ==
    /\ cnCall[t] = ConnIdle /\ cnDefault = 0 /\ NewConnector(i)
    /\ cnDefault' = i
    /\ cnState' = [cnState EXCEPT ![i] = "connecting"]
    /\ cnCall' = [cnCall EXCEPT ![t] = [at |-> "default", conn |-> i]]
    /\ UNCHANGED <<cnTable, cnFlags>>

DefaultConnected(t, ok) ==
    /\ cnCall[t].at = "default" /\ CallOver(t)
    /\ cnState' = [cnState EXCEPT ![cnCall[t].conn] = IF ok THEN "up" ELSE "failed"]
    /\ UNCHANGED <<cnTable, cnDefault, cnFlags>>

\* reset_default_connector forgets it without closing it.
ResetDefault ==
    /\ cnDefault # 0 /\ cnDefault' = 0 /\ cnReset' = TRUE
    /\ UNCHANGED <<cnState, cnTable, cnCall, cnAgain, cnRaced>>

ConnNext ==
    \/ \E t \in ConnTasks, x \in ConnExchanges, i \in Connectors : Adding(t, x, i)
    \/ \E t \in ConnTasks, ok \in BOOLEAN : Connected(t, ok) \/ Disconnected(t, ok) \/ DefaultConnected(t, ok)
    \/ \E t \in ConnTasks, at \in {"closing", "reading"} : Iterate(t, at)
    \/ \E t \in ConnTasks : Balance(t)
    \/ \E t \in ConnTasks, i \in Connectors : GetDefault(t, i)
    \/ ResetDefault

ConnSpec == ConnInit /\ [][ConnNext]_cnVars

ConnTypeOK ==
    /\ \A i \in Connectors : cnState[i] \in {"unborn", "connecting", "up", "failed", "closed"}
    /\ \A k \in DOMAIN cnTable : cnTable[k].of \in ConnExchanges /\ cnTable[k].conn \in Connectors
    /\ cnDefault \in {0} \cup Connectors
    /\ \A t \in ConnTasks : cnCall[t].at \in {"idle", "adding", "closing", "reading", "default"}

\* A connection to an exchange that is up can be closed: the manager or the
\* default knows it, over failed closings and closings at the same time, as long as
\* no exchange is added twice or while all are closed, and nothing is reset.
ConnectionsAreKnown ==
    ~cnAgain /\ ~cnRaced /\ ~cnReset =>
        \A i \in Connectors : cnState[i] = "up" =>
            i = cnDefault \/ \E k \in DOMAIN cnTable : cnTable[k].conn = i
==============================================================================
