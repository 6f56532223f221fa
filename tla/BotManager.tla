----------------------------- MODULE BotManager -----------------------------
(***************************************************************************)
(* occore/operations/bot_manager.py: the life of one bot under the calls   *)
(* of its users and of the monitoring loop.  start_bot builds a stack      *)
(* (connector, ExecutionEngine, PositionManager, RiskController, see       *)
(* TradingStack) and creates the task of the strategy loop; stop_bot       *)
(* cancels that task and takes the stack down.  A stack and the loop that  *)
(* was created with it share an id; the BotInstance only holds the latest. *)
(*                                                                         *)
(* Only the connection to a real exchange suspends start_bot: with the     *)
(* mock connector everything up to the task's creation is one step (the    *)
(* risk controller connects to MQTT only when gmqtt is installed, which    *)
(* pyproject.toml does not ask for).                                       *)
(***************************************************************************)
EXTENDS Naturals, FiniteSets

CONSTANTS
    Callers,      \* the tasks that call the manager's methods
    Mgr,          \* the task of _monitor_bots
    Calls,        \* the methods the callers use
    Ids,          \* bound: the stacks ever built
    MockExchange, \* self.dry_run or config.dry_run
    HasClass,     \* a bot class is registered for the strategy
    AutoRestart,  \* config.auto_restart
    MaxRuntime,   \* config.max_runtime_hours is set
    MaxErrors,    \* bound: how often the strategy loop fails
    NoStack

ASSUME MgrAssumption ==
    /\ Mgr \notin Callers /\ NoStack \notin Ids
    /\ Calls \subseteq {"start", "stop", "pause", "resume", "restart", "delete"}
    /\ {MockExchange, HasClass, AutoRestart, MaxRuntime} \subseteq BOOLEAN
    /\ MaxErrors \in Nat

VARIABLES
    exists,       \* the bot is in self.bots
    mgrStatus,    \* config.status
    inst,         \* the instance's stack, task, error_count and started (start_time set)
    stack,        \* each stack: the risk controller stops before the engine
    loop,         \* the strategy loop of each stack
    mgrCall,      \* the method each task is suspended in
    errors        \* how often the strategy loop failed

mgrVars == <<exists, mgrStatus, inst, stack, loop, mgrCall, errors>>

-----------------------------------------------------------------------------
Actors == Callers \cup {Mgr}
MgrCallType == [op : {"none", "start", "stop", "restart", "delete"},
             at : {"idle", "connect", "await", "risk", "engine", "sleep", "delete"},
             id : Ids \cup {NoStack}]
NoMgrCall == [op |-> "none", at |-> "idle", id |-> NoStack]

MgrTypeOK ==
    /\ exists \in BOOLEAN
    /\ mgrStatus \in {"IDLE", "RUNNING", "PAUSED", "STOPPED", "ERROR"}
    /\ inst \in [stack : Ids \cup {NoStack}, task : Ids \cup {NoStack},
                 error_count : 0 .. MaxErrors, started : BOOLEAN]
    /\ stack \in [Ids -> {"unborn", "up", "engineOnly", "riskOnly", "down"}]
    /\ loop \in [Ids -> {"none", "running", "cancelled", "failing", "done"}]
    /\ mgrCall \in [Actors -> MgrCallType]
    /\ errors \in 0 .. MaxErrors

\* after create_bot
MgrInit ==
    /\ exists = TRUE /\ mgrStatus = "IDLE"
    /\ inst = [stack |-> NoStack, task |-> NoStack, error_count |-> 0, started |-> FALSE]
    /\ stack = [i \in Ids |-> "unborn"]
    /\ loop = [i \in Ids |-> "none"]
    /\ mgrCall = [t \in Actors |-> NoMgrCall]
    /\ errors = 0

MgrIdle(t) == mgrCall[t] = NoMgrCall
MgrAt(t, at) == mgrCall[t].at = at
MgrGoto(t, at) == mgrCall' = [mgrCall EXCEPT ![t].at = at]
Live == {i \in Ids : loop[i] \in {"running", "cancelled", "failing"}}
\* mutant of TaskDone: the status is asked instead of the task
TaskDone_ByStatus == mgrStatus # "RUNNING"

TaskDone == inst.task = NoStack \/ inst.task \notin Live
Unbuilt == {i \in Ids : stack[i] = "unborn"}
ByUser(t) == t # Mgr

-----------------------------------------------------------------------------
(* start_bot *)

\* mutant of Wire: the task of an earlier start is kept
Wire_KeepsTask(t, i) ==
    /\ stack' = [stack EXCEPT ![i] = "up"]
    /\ loop' = [loop EXCEPT ![i] = IF HasClass THEN "running" ELSE @]
    /\ inst' = [stack |-> i, task |-> IF HasClass /\ inst.task = NoStack THEN i ELSE inst.task,
                error_count |-> 0, started |-> TRUE]
    /\ mgrStatus' = IF HasClass THEN "RUNNING" ELSE mgrStatus
    /\ mgrCall' = [mgrCall EXCEPT ![t] = NoMgrCall]
    /\ UNCHANGED <<exists, errors>>

\* everything after `await connector.connect()`; a second start that was
\* suspended there too overwrites what the first one stored
Wire(t, i) ==
    /\ stack' = [stack EXCEPT ![i] = "up"]
    /\ loop' = [loop EXCEPT ![i] = IF HasClass THEN "running" ELSE @]
    /\ inst' = [stack |-> i, task |-> IF HasClass THEN i ELSE inst.task,
                error_count |-> 0, started |-> TRUE]
    /\ mgrStatus' = IF HasClass THEN "RUNNING" ELSE mgrStatus
    /\ mgrCall' = [mgrCall EXCEPT ![t] = NoMgrCall]
    /\ UNCHANGED <<exists, errors>>

\* the tests at the top, on the way from op
StartBot(t, op) ==
    IF ~exists \/ ~TaskDone
      THEN mgrCall' = [mgrCall EXCEPT ![t] = NoMgrCall]
           /\ UNCHANGED <<exists, mgrStatus, inst, stack, loop, errors>>
      ELSE IF MockExchange THEN \E i \in Unbuilt : Wire(t, i)
      ELSE /\ mgrCall' = [mgrCall EXCEPT ![t] = [op |-> op, at |-> "connect", id |-> NoStack]]
           /\ UNCHANGED <<exists, mgrStatus, inst, stack, loop, errors>>

CallStart(t) == "start" \in Calls /\ ByUser(t) /\ MgrIdle(t) /\ StartBot(t, "start")

Connected(t) == MgrAt(t, "connect") /\ \E i \in Unbuilt : Wire(t, i)

-----------------------------------------------------------------------------
(* stop_bot, alone or inside restart_bot and delete_bot *)

CallStop(t, op) ==
    /\ MgrIdle(t) /\ exists
    /\ IF TaskDone
         THEN /\ mgrCall' = [mgrCall EXCEPT ![t] = [op |-> op, at |-> "risk", id |-> NoStack]]
              /\ UNCHANGED loop
         ELSE /\ mgrCall' = [mgrCall EXCEPT ![t] = [op |-> op, at |-> "await", id |-> inst.task]]
              /\ loop' = [loop EXCEPT ![inst.task] = "cancelled"]
    /\ UNCHANGED <<exists, mgrStatus, inst, stack, errors>>

\* the cancelled task has ended
Awaited(t) ==
    /\ MgrAt(t, "await") /\ mgrCall[t].id \notin Live
    /\ MgrGoto(t, "risk")
    /\ UNCHANGED <<exists, mgrStatus, inst, stack, loop, errors>>

\* risk_controller.stop() of the stack the instance holds by now ...
RiskDown(s) == CASE s = "up" -> "engineOnly" [] s = "riskOnly" -> "down" [] OTHER -> s
\* mutant of EngineDown: the engine is not stopped
EngineDown_Never(s) == s

EngineDown(s) == CASE s = "up" -> "riskOnly" [] s = "engineOnly" -> "down" [] OTHER -> s

RiskStops(t) ==
    /\ MgrAt(t, "risk")
    /\ stack' = IF inst.stack = NoStack THEN stack
                ELSE [stack EXCEPT ![inst.stack] = RiskDown(@)]
    /\ MgrGoto(t, "engine")
    /\ UNCHANGED <<exists, mgrStatus, inst, loop, errors>>

\* ... and engine.stop() of the stack it holds after that await
EngineStops(t) ==
    /\ MgrAt(t, "engine")
    /\ stack' = IF inst.stack = NoStack THEN stack
                ELSE [stack EXCEPT ![inst.stack] = EngineDown(@)]
    /\ mgrStatus' = "STOPPED"
    /\ mgrCall' = [mgrCall EXCEPT ![t] = CASE @.op = "restart" -> [@ EXCEPT !.at = "sleep"]
                                    [] @.op = "delete"  -> [@ EXCEPT !.at = "delete"]
                                    [] OTHER            -> NoMgrCall]
    /\ UNCHANGED <<exists, inst, loop, errors>>

\* delete_bot: the bot is forgotten after the messages of stop_bot have gone out,
\* whatever it is doing by then
Delete(t) ==
    /\ MgrAt(t, "delete")
    /\ exists' = FALSE
    /\ mgrCall' = [mgrCall EXCEPT ![t] = NoMgrCall]
    /\ UNCHANGED <<mgrStatus, inst, stack, loop, errors>>

\* restart_bot: a second later
Slept(t) == MgrAt(t, "sleep") /\ StartBot(t, "restart")

-----------------------------------------------------------------------------
(* pause_bot and resume_bot change the status, nothing else *)

SetStatus(t, op, s) ==
    /\ op \in Calls /\ ByUser(t) /\ MgrIdle(t) /\ exists
    /\ mgrStatus' = s
    /\ UNCHANGED <<exists, inst, stack, loop, mgrCall, errors>>

Pause(t)  == SetStatus(t, "pause", "PAUSED")
Resume(t) == SetStatus(t, "resume", "RUNNING")

-----------------------------------------------------------------------------
(* _run_bot around BaseBot.run: the loop goes on while the status is          *)
(* RUNNING.  When it ends by itself the stack stays up; when it raises,    *)
(* _safe_stop_bot takes down the stack the instance holds.                 *)

\* mutant of LoopEnds: the loop swallows its cancellation
LoopEnds_Swallows(i) ==
    /\ loop[i] \in {"cancelled", "running"} /\ mgrStatus # "RUNNING"
    /\ loop' = [loop EXCEPT ![i] = "done"]
    /\ UNCHANGED <<exists, mgrStatus, inst, stack, mgrCall, errors>>

LoopEnds(i) ==
    /\ loop[i] = "cancelled" \/ (loop[i] = "running" /\ mgrStatus # "RUNNING")
    /\ loop' = [loop EXCEPT ![i] = "done"]
    /\ UNCHANGED <<exists, mgrStatus, inst, stack, mgrCall, errors>>

LoopFails(i) ==
    /\ loop[i] = "running" /\ errors < MaxErrors /\ inst.error_count < MaxErrors
    /\ errors' = errors + 1
    /\ loop' = [loop EXCEPT ![i] = "failing"]
    /\ inst' = [inst EXCEPT !.error_count = @ + 1]
    /\ mgrStatus' = "ERROR"
    /\ UNCHANGED <<exists, stack, mgrCall>>

\* mutant of LoopSafeStop: the error is counted once more
LoopSafeStop_Counts(i) ==
    /\ loop[i] = "failing"
    /\ stack' = IF inst.stack = NoStack THEN stack ELSE [stack EXCEPT ![inst.stack] = "down"]
    /\ loop' = [loop EXCEPT ![i] = "done"]
    /\ inst' = [inst EXCEPT !.error_count = @ + 1]
    /\ UNCHANGED <<exists, mgrStatus, mgrCall, errors>>

LoopSafeStop(i) ==
    /\ loop[i] = "failing"
    /\ stack' = IF inst.stack = NoStack THEN stack ELSE [stack EXCEPT ![inst.stack] = "down"]
    /\ loop' = [loop EXCEPT ![i] = "done"]
    /\ UNCHANGED <<exists, mgrStatus, inst, mgrCall, errors>>

-----------------------------------------------------------------------------
(* _monitor_bots *)

MonitorRestart ==
    /\ AutoRestart /\ mgrStatus = "ERROR" /\ inst.error_count < 3
    /\ CallStop(Mgr, "restart")

MonitorRuntime ==
    /\ MaxRuntime /\ inst.started
    /\ CallStop(Mgr, "stop")

-----------------------------------------------------------------------------
CallStep(t) ==
    \/ CallStart(t) \/ Connected(t)
    \/ \E op \in Calls \cap {"stop", "restart", "delete"} : ByUser(t) /\ CallStop(t, op)
    \/ Awaited(t) \/ RiskStops(t) \/ EngineStops(t) \/ Slept(t)
    \/ Delete(t) \/ Pause(t) \/ Resume(t)

LoopStep(i) == LoopEnds(i) \/ LoopFails(i) \/ LoopSafeStop(i)

MgrNext ==
    \/ \E t \in Actors : CallStep(t)
    \/ \E i \in Ids : LoopStep(i)
    \/ MonitorRestart \/ MonitorRuntime

MgrSpec == MgrInit /\ [][MgrNext]_mgrVars

\* the event loop resumes a task whose await is over
MgrFairness ==
    /\ \A t \in Actors : WF_mgrVars(Awaited(t)) /\ WF_mgrVars(RiskStops(t)) /\ WF_mgrVars(EngineStops(t))
    /\ \A i \in Ids : WF_mgrVars(LoopEnds(i)) /\ WF_mgrVars(LoopSafeStop(i))

MgrFairSpec == MgrSpec /\ MgrFairness

-----------------------------------------------------------------------------
(* Properties *)

StacksUp == {i \in Ids : stack[i] \notin {"unborn", "down"}}

\* bot_manager.py:203, "Bot already running": whatever calls overlap, a bot never
\* has two strategy loops, which would trade twice on one account.  True of a bot
\* on the mock exchange; on a real one two calls of start_bot pass the test and
\* wait for the connection together.
OneLoopPerBot == Cardinality(Live) <= 1

\* The task the instance holds is the only one alive: stop_bot, which cancels
\* what the instance holds, reaches it.
LoopIsHeld == \A i \in Live : inst.task = i

\* A bot's one strategy loop is the one a stop finds.
LoopIsAccounted == OneLoopPerBot /\ LoopIsHeld

\* One user who starts, stops and restarts one call at a time leaves no
\* engine or risk loop behind: what is up belongs to the instance.
NoStackLeftBehind == \A i \in StacksUp : inst.stack = i

\* stop_bot comes to its end.
StopCompletes ==
    \A t \in Actors : MgrAt(t, "await") ~> ~(MgrAt(t, "await") \/ MgrAt(t, "risk") \/ MgrAt(t, "engine"))
=============================================================================
