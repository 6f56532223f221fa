--------------------------- MODULE UnifiedBotManager ---------------------------
(* The manager of department 7's bots                                          *)
(* (src/department_7/src/bot/unified_bot_manager.py): start_bot and stop_bot   *)
(* under one asyncio.Lock, and a kill switch that stops every bot.  Calls      *)
(* overlap at the lock, which serves its waiters in order, and at the awaits   *)
(* made while it is held.                                                      *)
EXTENDS Integers, Sequences, FiniteSets

CONSTANTS UBots, \* bot ids
          Operators  \* concurrent callers of start_bot, stop_bot and kill_switch

VARIABLES uKill,   \* _kill_switch_active
          uDone,   \* a kill_switch has returned since it was last reset
          uLock,   \* the calls in the lock's queue; the first one holds it
          uCall,   \* the calls under way
          uKiller, \* the user inside kill_switch, or NoUser
          uTask,   \* the bot's entry in _bot_tasks: "none", "live", "cancelled", "done"
          uLive,   \* how many tasks of the bot are not done
          uStatus  \* BotInfo.status

uvars == <<uKill, uDone, uLock, uCall, uKiller, uTask, uLive, uStatus>>

NoUser == "no user"

ASSUME UAssumption == Operators \cap UBots = {} /\ NoUser \notin Operators \cup UBots

\* Calls are made by the users, and by the kill switch, one for each bot.
Slots == Operators \cup UBots
NoUCall == [op |-> "none", bot |-> NoUser, at |-> "idle"]

Registered(b) == uStatus[b] # "UNKNOWN"

UInit ==
    /\ uKill = FALSE /\ uDone = FALSE /\ uLock = <<>> /\ uKiller = NoUser
    /\ uCall = [s \in Slots |-> NoUCall]
    /\ uTask = [b \in UBots |-> "none"] /\ uLive = [b \in UBots |-> 0]
    /\ uStatus = [b \in UBots |-> "UNKNOWN"]

Engaged(s) == uCall[s] # NoUCall \/ s = uKiller

RegisterBot(b) ==
    /\ ~Registered(b)
    /\ uStatus' = [uStatus EXCEPT ![b] = "STOPPED"]
    /\ UNCHANGED <<uKill, uDone, uLock, uCall, uKiller, uTask, uLive>>

Enqueue(s, op, b) ==
    /\ uLock' = Append(uLock, s)
    /\ uCall' = [uCall EXCEPT ![s] = [op |-> op, bot |-> b, at |-> "lock"]]

\* start_bot up to the lock: the kill switch is looked at before.
AskStart(u, b) ==
    /\ ~Engaged(u) /\ Registered(b) /\ ~uKill
    /\ Enqueue(u, "start", b)
    /\ UNCHANGED <<uKill, uDone, uKiller, uTask, uLive, uStatus>>

AskStop(u, b) ==
    /\ ~Engaged(u) /\ Registered(b)
    /\ Enqueue(u, "stop", b)
    /\ UNCHANGED <<uKill, uDone, uKiller, uTask, uLive, uStatus>>

Holds(s, op, at) == uLock # <<>> /\ Head(uLock) = s /\ uCall[s].op = op /\ uCall[s].at = at

Release(s) == uLock' = Tail(uLock) /\ uCall' = [uCall EXCEPT ![s] = NoUCall]

\* mutant of LockedStart: the status is asked instead of the task
LockedStart_ByStatus(s) ==
    /\ Holds(s, "start", "lock")
    /\ LET b == uCall[s].bot
       IN IF uStatus[b] = "RUNNING"
            THEN UNCHANGED <<uTask, uLive, uStatus>>
            ELSE /\ uTask' = [uTask EXCEPT ![b] = "live"]
                 /\ uLive' = [uLive EXCEPT ![b] = @ + 1]
                 /\ uStatus' = [uStatus EXCEPT ![b] = "STARTING"]
    /\ Release(s)
    /\ UNCHANGED <<uKill, uDone, uKiller>>

\* start_bot under the lock does not suspend.
LockedStart(s) ==
    /\ Holds(s, "start", "lock")
    /\ LET b == uCall[s].bot
       IN IF uTask[b] \in {"live", "cancelled"}
            THEN UNCHANGED <<uTask, uLive, uStatus>>
            ELSE /\ uTask' = [uTask EXCEPT ![b] = "live"]
                 /\ uLive' = [uLive EXCEPT ![b] = @ + 1]
                 /\ uStatus' = [uStatus EXCEPT ![b] = "STARTING"]
    /\ Release(s)
    /\ UNCHANGED <<uKill, uDone, uKiller>>

\* stop_bot cancels the task and waits for it.
StopCancel(s) ==
    /\ Holds(s, "stop", "lock")
    /\ LET b == uCall[s].bot
       IN uTask' = [uTask EXCEPT ![b] = IF @ = "live" THEN "cancelled" ELSE @]
    /\ uCall' = [uCall EXCEPT ![s].at = "wait"]
    /\ UNCHANGED <<uKill, uDone, uLock, uKiller, uLive, uStatus>>

\* mutant of StopWaited: the cancelled task is not waited for
StopWaited_Impatient(s) ==
    /\ Holds(s, "stop", "wait")
    /\ uTask' = [uTask EXCEPT ![uCall[s].bot] = "none"]
    /\ uCall' = [uCall EXCEPT ![s].at = "bot"]
    /\ UNCHANGED <<uKill, uDone, uLock, uKiller, uLive, uStatus>>

\* The task is done, by itself or cancelled once more after ten seconds: its
\* entry is deleted and the bot's own stop awaited.
StopWaited(s) ==
    /\ Holds(s, "stop", "wait")
    /\ uTask[uCall[s].bot] \in {"none", "done"}
    /\ uTask' = [uTask EXCEPT ![uCall[s].bot] = "none"]
    /\ uCall' = [uCall EXCEPT ![s].at = "bot"]
    /\ UNCHANGED <<uKill, uDone, uLock, uKiller, uLive, uStatus>>

\* mutant of StopDone: the lock is not released
StopDone_KeepsLock(s) ==
    /\ Holds(s, "stop", "bot")
    /\ uStatus' = [uStatus EXCEPT ![uCall[s].bot] = "STOPPED"]
    /\ uCall' = [uCall EXCEPT ![s] = NoUCall]
    /\ UNCHANGED <<uKill, uDone, uLock, uKiller, uTask, uLive>>

StopDone(s) ==
    /\ Holds(s, "stop", "bot")
    /\ uStatus' = [uStatus EXCEPT ![uCall[s].bot] = "STOPPED"]
    /\ Release(s)
    /\ UNCHANGED <<uKill, uDone, uKiller, uTask, uLive>>

\* mutant of KillSwitch: only the bots shown as running are stopped
KillSwitch_Running(u) ==
    /\ ~Engaged(u) /\ uKiller = NoUser
    /\ uKill' = TRUE /\ uKiller' = u
    /\ uCall' = [s \in Slots |-> IF s \in UBots /\ uStatus[s] = "RUNNING"
                                   THEN [op |-> "stop", bot |-> s, at |-> "new"] ELSE uCall[s]]
    /\ UNCHANGED <<uDone, uLock, uTask, uLive, uStatus>>

\* kill_switch: the flag first, then stop_bot for every bot, at once.
KillSwitch(u) ==
    /\ ~Engaged(u) /\ uKiller = NoUser
    /\ uKill' = TRUE /\ uKiller' = u
    /\ uCall' = [s \in Slots |-> IF s \in UBots /\ Registered(s)
                                   THEN [op |-> "stop", bot |-> s, at |-> "new"] ELSE uCall[s]]
    /\ UNCHANGED <<uDone, uLock, uTask, uLive, uStatus>>

\* One of the gathered stops reaches the lock.
KillStop(b) ==
    /\ uCall[b].at = "new"
    /\ Enqueue(b, "stop", b)
    /\ UNCHANGED <<uKill, uDone, uKiller, uTask, uLive, uStatus>>

KillReturns ==
    /\ uKiller # NoUser /\ \A b \in UBots : uCall[b] = NoUCall
    /\ uKiller' = NoUser /\ uDone' = uKill
    /\ UNCHANGED <<uKill, uLock, uCall, uTask, uLive, uStatus>>

ResetKill ==
    /\ uKill /\ uKill' = FALSE /\ uDone' = FALSE
    /\ UNCHANGED <<uLock, uCall, uKiller, uTask, uLive, uStatus>>

\* _run_bot: the task gets going, and ends by itself, by an error or cancelled.
\* Bots return normally when they are cancelled, so the status may stay RUNNING.
RunBot(b) ==
    /\ uTask[b] = "live" /\ uStatus[b] = "STARTING"
    /\ uStatus' = [uStatus EXCEPT ![b] = "RUNNING"]
    /\ UNCHANGED <<uKill, uDone, uLock, uCall, uKiller, uTask, uLive>>

RunEnds(b, how) ==
    /\ uTask[b] \in {"live", "cancelled"}
    /\ how = "STOPPED" => uTask[b] = "cancelled"
    /\ how \in {"ERROR", "RUNNING"} => uStatus[b] = "RUNNING"
    /\ uTask' = [uTask EXCEPT ![b] = "done"]
    /\ uLive' = [uLive EXCEPT ![b] = @ - 1]
    /\ uStatus' = [uStatus EXCEPT ![b] = IF @ = "STARTING" THEN @ ELSE how]
    /\ UNCHANGED <<uKill, uDone, uLock, uCall, uKiller>>

UCallStep(s) == LockedStart(s) \/ StopCancel(s) \/ StopWaited(s) \/ StopDone(s)

UNext ==
    \/ \E b \in UBots : RegisterBot(b) \/ KillStop(b) \/ RunBot(b)
    \/ \E b \in UBots, how \in {"STOPPED", "ERROR", "RUNNING"} : RunEnds(b, how)
    \/ \E u \in Operators : KillSwitch(u) \/ \E b \in UBots : AskStart(u, b) \/ AskStop(u, b)
    \/ \E s \in Slots : UCallStep(s)
    \/ KillReturns \/ ResetKill

\* The event loop runs every coroutine that can go on, and a task that was
\* cancelled ends.
UFairness ==
    /\ \A s \in Slots : WF_uvars(UCallStep(s))
    /\ \A b \in UBots : WF_uvars(KillStop(b))
    /\ \A b \in UBots : WF_uvars(uTask[b] = "cancelled" /\ RunEnds(b, "STOPPED"))
    /\ WF_uvars(KillReturns)

USpec == UInit /\ [][UNext]_uvars /\ UFairness

------------------------------------------------------------------------------
UTypeOK ==
    /\ uKill \in BOOLEAN /\ uDone \in BOOLEAN /\ uKiller \in Operators \cup {NoUser}
    /\ \A i \in DOMAIN uLock : uLock[i] \in Slots /\ uCall[uLock[i]].at \in {"lock", "wait", "bot"}
    /\ uCall \in [Slots -> [op : {"none", "start", "stop"}, bot : UBots \cup {NoUser},
                            at : {"idle", "new", "lock", "wait", "bot"}]]
    /\ uTask \in [UBots -> {"none", "live", "cancelled", "done"}]
    /\ uLive \in [UBots -> Nat]
    /\ uStatus \in [UBots -> {"UNKNOWN", "STOPPED", "STARTING", "RUNNING", "ERROR"}]

\* "모든 봇을 즉시 중지하고 새로운 봇 시작을 차단합니다": once kill_switch has
\* returned, and until it is reset, no bot has a live task, though start_bot tests
\* the flag before it waits for the lock.
NothingRunsAfterKill == uKill /\ uDone => \A b \in UBots : uLive[b] = 0

\* However starts and stops of several callers interleave, a bot has one task,
\* and it is the one in _bot_tasks, where stop_bot finds it.
OneTaskPerBot ==
    \A b \in UBots : uLive[b] = IF uTask[b] \in {"live", "cancelled"} THEN 1 ELSE 0

\* A bot whose status is STOPPED has no live task.
StoppedIsStopped == \A b \in UBots : uStatus[b] = "STOPPED" => uLive[b] = 0

\* What the manager says of its bots is what runs, through every overlap of
\* starts, stops and kill switches at the locks of unified_bot_manager.py.
TasksAreAccounted == NothingRunsAfterKill /\ OneTaskPerBot /\ StoppedIsStopped

\* A kill switch returns, whatever calls were under way.
KillEnds == uKiller # NoUser ~> uKiller = NoUser
==============================================================================
