------------------------------- MODULE DevOps -------------------------------
(* The machine and its processes (src/occore/devops): the watchdog that restarts *)
(* them, and the health checks, diagnosis and repair.  Two parts, each with its *)
(* own state.                                                                *)
EXTENDS Naturals, Sequences, FiniteSets, TLC, SequencesExt

------------------------------------------------------------------------------
(* occore/devops/watchdog.py: check_all looks at every registered process  *)
(* and restarts the dead ones, no more than max_auto_restarts within the   *)
(* cooldown and not while the circuit breaker is open.  The lock is held   *)
(* for each test and each entry, never across the restart itself, which    *)
(* may take a minute; check_all and restart_process run in any thread.     *)
(*                                                                         *)
(* Time is counted in steps of the cooldowns.  kDone and kFailed are what  *)
(* has happened, kRestarts and kFailures which of it the code's lists still *)
(* hold.                                                                   *)

CONSTANTS
    Checkers,          \* threads inside check_all
    Watched,         \* names that may be registered, in order
    MaxRestarts,       \* max_auto_restarts
    RestartCooldown,
    FailureThreshold,  \* circuit_breaker_failure_threshold
    BreakerCooldown,
    MaxClock           \* bound

ASSUME DogAssumption ==
    /\ IsInjective(Watched)
    /\ {MaxRestarts, RestartCooldown, FailureThreshold, BreakerCooldown} \subseteq Nat \ {0}
    /\ MaxClock \in Nat /\ IsFiniteSet(Checkers)

VARIABLES
    kProcs,      \* keys of _monitored_processes, in order of registration
    kAlive,      \* processes that answer kill(pid, 0) or keep their heartbeat
    kDone,       \* the times of every successful automatic restart of a process ...
    kFailed,     \* ... and of every failed one
    kRestarts,   \* _restart_history: those of kDone it holds
    kFailures,   \* _circuit_failures: those of kFailed it holds
    kCheck,      \* a pass of check_all: where it is, and the size it began with
    kClock

kLists == <<kDone, kFailed, kRestarts, kFailures>>
kvars == <<kProcs, kAlive, kLists, kCheck, kClock>>
DogNames == Range(Watched)
CheckIdle == [at |-> "idle", next |-> 1, size |-> 0]

DogInit ==
    /\ kProcs = <<>> /\ kAlive = DogNames
    /\ kDone = [p \in DogNames |-> <<>>] /\ kFailed = [p \in DogNames |-> <<>>]
    /\ kRestarts = [p \in DogNames |-> {}] /\ kFailures = [p \in DogNames |-> {}]
    /\ kCheck = [t \in Checkers |-> CheckIdle]
    /\ kClock = 0

WithinCooldown(list, times, cooldown) == {i \in list : kClock - times[i] < cooldown}
RecentRestarts(p) == WithinCooldown(kRestarts[p], kDone[p], RestartCooldown)
RecentFailed(p) == WithinCooldown(kFailures[p], kFailed[p], BreakerCooldown)

RegisterProcess ==
    /\ Len(kProcs) < Len(Watched)
    /\ kProcs' = Append(kProcs, Watched[Len(kProcs) + 1])
    /\ UNCHANGED <<kAlive, kLists, kCheck, kClock>>

CheckBegin(t) ==
    /\ kCheck[t].at = "idle"
    /\ kCheck' = [kCheck EXCEPT ![t] = [at |-> "loop", next |-> 1, size |-> Len(kProcs)]]
    /\ UNCHANGED <<kProcs, kAlive, kLists, kClock>>

\* The loop is at its end, or raises because a process was registered under it.
CheckOver(t) == kCheck[t].next > kCheck[t].size \/ kCheck[t].size # Len(kProcs)
CheckEnd(t) ==
    /\ kCheck[t].at = "loop" /\ CheckOver(t)
    /\ kCheck' = [kCheck EXCEPT ![t] = CheckIdle]
    /\ UNCHANGED <<kProcs, kAlive, kLists, kClock>>

\* mutant of CanRestart: one restart too many
CanRestart_OffByOne(p) == Cardinality(RecentRestarts(p)) <= MaxRestarts

CanRestart(p) == Cardinality(RecentRestarts(p)) < MaxRestarts
BreakerClosed(p) == Cardinality(RecentFailed(p)) < FailureThreshold

\* One process of the loop: it lives, or the limit of restarts forbids one, or the
\* breaker is asked next.  Each test forgets what is older than its cooldown.
CheckOne(t) ==
    /\ kCheck[t].at = "loop" /\ ~CheckOver(t)
    /\ LET p == kProcs[kCheck[t].next]
       IN  IF p \in kAlive
           THEN kCheck' = [kCheck EXCEPT ![t].next = @ + 1] /\ UNCHANGED kRestarts
           ELSE /\ kRestarts' = [kRestarts EXCEPT ![p] = RecentRestarts(p)]
                /\ kCheck' = IF CanRestart(p) THEN [kCheck EXCEPT ![t].at = "breaker"]
                             ELSE [kCheck EXCEPT ![t].next = @ + 1]
    /\ UNCHANGED <<kProcs, kAlive, kDone, kFailed, kFailures, kClock>>

\* _check_circuit_breaker, under the lock again.
CheckBreaker(t) ==
    /\ kCheck[t].at = "breaker"
    /\ LET p == kProcs[kCheck[t].next]
       IN  /\ kFailures' = [kFailures EXCEPT ![p] = RecentFailed(p)]
           /\ kCheck' = IF BreakerClosed(p) THEN [kCheck EXCEPT ![t].at = "restart"]
                        ELSE [kCheck EXCEPT ![t].at = "loop", ![t].next = @ + 1]
    /\ UNCHANGED <<kProcs, kAlive, kDone, kFailed, kRestarts, kClock>>

\* The new last entry of a list of events, and the list with it.
Noted(times) == Append(times, kClock)
Listed(list, times) == list \cup {Len(times) + 1}

\* mutant of RestartProcess: a success clears the failures
RestartProcess_Clears(t, success) ==
    /\ kCheck[t].at = "restart"
    /\ LET p == kProcs[kCheck[t].next]
       IN  IF success
           THEN /\ kDone' = [kDone EXCEPT ![p] = Noted(@)]
                /\ kRestarts' = [kRestarts EXCEPT ![p] = Listed(@, kDone[p])]
                /\ kAlive' = kAlive \cup {p}
                /\ kFailures' = [kFailures EXCEPT ![p] = {}] /\ UNCHANGED kFailed
           ELSE /\ kFailed' = [kFailed EXCEPT ![p] = Noted(@)]
                /\ kFailures' = [kFailures EXCEPT ![p] = Listed(@, kFailed[p])]
                /\ UNCHANGED <<kDone, kRestarts, kAlive>>
    /\ kCheck' = [kCheck EXCEPT ![t].at = "loop", ![t].next = @ + 1]
    /\ UNCHANGED <<kProcs, kClock>>

\* restart_process returns from its command.
RestartProcess(t, success) ==
    /\ kCheck[t].at = "restart"
    /\ LET p == kProcs[kCheck[t].next]
       IN  IF success
           THEN /\ kDone' = [kDone EXCEPT ![p] = Noted(@)]
                /\ kRestarts' = [kRestarts EXCEPT ![p] = Listed(@, kDone[p])]
                /\ kAlive' = kAlive \cup {p}
                /\ UNCHANGED <<kFailed, kFailures>>
           ELSE /\ kFailed' = [kFailed EXCEPT ![p] = Noted(@)]
                /\ kFailures' = [kFailures EXCEPT ![p] = Listed(@, kFailed[p])]
                /\ UNCHANGED <<kDone, kRestarts, kAlive>>
    /\ kCheck' = [kCheck EXCEPT ![t].at = "loop", ![t].next = @ + 1]
    /\ UNCHANGED <<kProcs, kClock>>

ProcessDies(p) ==
    /\ p \in kAlive
    /\ kAlive' = kAlive \ {p}
    /\ UNCHANGED <<kProcs, kLists, kCheck, kClock>>

ClockTicks ==
    /\ kClock < MaxClock
    /\ kClock' = kClock + 1
    /\ UNCHANGED <<kProcs, kAlive, kLists, kCheck>>

DogNext ==
    \/ RegisterProcess
    \/ \E t \in Checkers : CheckBegin(t)
    \/ \E t \in Checkers : CheckOne(t) \/ CheckBreaker(t)
    \/ \E t \in Checkers : CheckEnd(t)
    \/ \E t \in Checkers, success \in BOOLEAN : RestartProcess(t, success)
    \/ \E p \in DogNames : ProcessDies(p)
    \/ ClockTicks

DogSpec == DogInit /\ [][DogNext]_kvars

Within(times, from, length) ==
    Cardinality({i \in DOMAIN times : times[i] >= from /\ times[i] < from + length})

DogTypeOK ==
    /\ kAlive \subseteq DogNames /\ kClock \in 0..MaxClock
    /\ \A p \in DogNames : /\ Range(kDone[p]) \cup Range(kFailed[p]) \subseteq 0..kClock
                           /\ kRestarts[p] \subseteq DOMAIN kDone[p] /\ kFailures[p] \subseteq DOMAIN kFailed[p]
    /\ \A t \in Checkers : kCheck[t].at \in {"idle", "loop", "breaker", "restart"}

\* However the cooldown is laid over time, it holds no more than
\* max_auto_restarts restarts of a process, one more for every further thread
\* that was past the test when the limit was reached: the lists that are cut
\* on every look forget nothing that still counts.
RestartsBounded ==
    \A p \in DogNames, from \in 0..MaxClock :
        Within(kDone[p], from, RestartCooldown) <= MaxRestarts + Cardinality(Checkers) - 1

\* The same for failed restarts and the circuit breaker.
BreakerBounds ==
    \A p \in DogNames, from \in 0..MaxClock :
        Within(kFailed[p], from, BreakerCooldown)
            <= FailureThreshold + Cardinality(Checkers) - 1

\* Both limits of can_restart and record_failure hold under two threads.
LimitsHold == RestartsBounded /\ BreakerBounds

------------------------------------------------------------------------------
(* Health checks, diagnosis and repair of the machine (src/occore/devops:      *)
(* health_checker.py with netdata_adapter.py, diagnoser.py, healer.py and      *)
(* repair_log.py).  Percentages are those the limits of the code distinguish.  *)

CONSTANTS Machines,    \* network, dns, cpu, memory, disk, services and config file of the machine
          Complaints,  \* sets of symptoms, by the list of the rule that knows them
          RepairIds    \* bound: repairs others write to the log

ASSUME HealAssumption ==
    Machines # {} /\ \A m \in Machines : {m.cpu, m.memory, m.disk} \subseteq 0 .. 100 /\ m.served \in BOOLEAN

VARIABLES dhMachine,    \* the machine
          dhNetdata,    \* the Netdata daemon answers
          dhConnected,  \* _connected of the adapter, set when the checker is made
          dhLast,       \* {} or the last answer: a verdict with the metrics' source and the
                        \* machine then, or the result of heal
          dhDiagnosis,  \* {} or the last diagnosis, with the machine then
          dhRepairs     \* the repairs table

dhVars == <<dhMachine, dhNetdata, dhConnected, dhLast, dhDiagnosis, dhRepairs>>

HealInit ==
    /\ dhMachine = CHOOSE m \in Machines : TRUE
    /\ dhNetdata = TRUE /\ dhConnected = FALSE
    /\ dhLast = {} /\ dhDiagnosis = {}
    /\ dhRepairs = [r \in RepairIds |-> "none"]

------------------------------------------------------------------------------
(* Health.                                                                     *)

\* _init_netdata: connected once, and for good: no request clears the flag.
ConnectNetdata ==
    /\ dhConnected' = dhNetdata
    /\ UNCHANGED <<dhMachine, dhNetdata, dhLast, dhDiagnosis, dhRepairs>>

\* check_system_resources: Netdata when it was connected, psutil otherwise.  A chart
\* that is not answered counts as zero, and the disk's chart has no field "value".
Metrics ==
    IF ~dhConnected THEN [source |-> "psutil", cpu |-> dhMachine.cpu, memory |-> dhMachine.memory, disk |-> dhMachine.disk]
    ELSE IF dhNetdata THEN [source |-> "netdata", cpu |-> dhMachine.cpu, memory |-> dhMachine.memory, disk |-> 0]
    ELSE [source |-> "silence", cpu |-> 0, memory |-> 0, disk |-> 0]

\* mutant of Evaluate: a warning hides what is critical
Evaluate_Warning(m, served) ==
    IF m.cpu > 75 \/ m.memory > 80 \/ m.disk > 80 THEN "warning"
    ELSE IF ~served THEN "critical" ELSE "healthy"

\* evaluate_health_status
Evaluate(m, served) ==
    IF m.cpu > 90 \/ m.memory > 95 \/ m.disk > 95 \/ ~served THEN "critical"
    ELSE IF m.cpu > 75 \/ m.memory > 80 \/ m.disk > 80 THEN "warning"
    ELSE "healthy"

CheckHealth ==
    /\ dhLast' = {[kind |-> "verdict", status |-> Evaluate(Metrics, dhMachine.served), source |-> Metrics.source, machine |-> dhMachine]}
    /\ UNCHANGED <<dhMachine, dhNetdata, dhConnected, dhDiagnosis, dhRepairs>>

------------------------------------------------------------------------------
(* Diagnosis: the rules in their order, the first that finds something.        *)

Verdict(type, cause, fixable) == [type |-> type, cause |-> cause, fixable |-> fixable]
Nothing == {}

Connectivity(symptoms, m) ==
    IF "network" \notin symptoms THEN Nothing
    ELSE IF ~m.network THEN {Verdict("connectivity", "network", FALSE)}
    ELSE IF ~m.dns THEN {Verdict("connectivity", "dns", TRUE)}
    ELSE Nothing

Resources(symptoms, m) ==
    IF symptoms \cap {"slow", "oom"} = {} THEN Nothing
    ELSE IF m.memory > 95 \/ "oom" \in symptoms THEN {Verdict("resource", "memory", TRUE)}
    ELSE IF m.disk > 95 THEN {Verdict("resource", "disk", FALSE)}
    ELSE IF m.cpu > 95 THEN {Verdict("performance", "cpu", TRUE)}
    ELSE Nothing

Configuration(symptoms, m) ==
    IF "config" \in symptoms /\ ~m.config THEN {Verdict("config", "config", TRUE)} ELSE Nothing

DiskSpace(symptoms, m) ==
    IF "disk full" \in symptoms /\ m.disk > 90 THEN {Verdict("resource", "disk", TRUE)} ELSE Nothing

\* mutant of MemoryPressure: the symptom is enough
MemoryPressure_Believed(symptoms, m) ==
    IF symptoms \cap {"oom", "killed"} # {} THEN {Verdict("resource", "memory", TRUE)} ELSE Nothing

MemoryPressure(symptoms, m) ==
    IF symptoms \cap {"oom", "killed"} # {} /\ m.memory > 90 THEN {Verdict("resource", "memory", TRUE)} ELSE Nothing

FirstOf(a, b) == IF a # Nothing THEN a ELSE b

Findings(symptoms, m) ==
    FirstOf(Connectivity(symptoms, m), FirstOf(Resources(symptoms, m), FirstOf(Configuration(symptoms, m),
        FirstOf(DiskSpace(symptoms, m), FirstOf(MemoryPressure(symptoms, m), {Verdict("unknown", "unknown", FALSE)})))))

Diagnose(symptoms) ==
    /\ dhDiagnosis' = {[verdict |-> v, symptoms |-> symptoms, machine |-> dhMachine] : v \in Findings(symptoms, dhMachine)}
    /\ UNCHANGED <<dhMachine, dhNetdata, dhConnected, dhLast, dhRepairs>>

------------------------------------------------------------------------------
(* Repair.                                                                     *)

\* _select_healing_action: the evidence of a full disk always names logs.
Selected(v) ==
    IF v.type = "connectivity" THEN "flush_dns"
    ELSE IF v.cause = "memory" THEN "kill_zombie_processes"
    ELSE IF v.cause = "disk" /\ v.fixable THEN "rotate_logs"
    ELSE IF v.cause = "disk" THEN "clear_tmp"
    ELSE IF v.type = "config" THEN "restore_config"
    ELSE IF v.type = "performance" THEN "restart_service"
    ELSE "none"

\* mutant of RecordStarts: the diagnosis can be written
RecordStarts_Written == TRUE

\* start_repair writes the diagnosis as JSON, and its time and its enumerations
\* are not: it raises for every diagnosis, and the row is rolled back.
RecordStarts == FALSE

HealOutcome(v, force) ==
    IF ~v.fixable /\ ~force THEN "not fixable"
    ELSE IF Selected(v) = "none" THEN "no action"
    ELSE IF Selected(v) = "restore_config" /\ ~force THEN "confirmation"
    ELSE IF RecordStarts THEN "done" ELSE "exception"

\* heal
Heal(force) ==
    /\ dhDiagnosis # {}
    /\ dhLast' = {[kind |-> "healed", action |-> Selected(d.verdict),
                   outcome |-> HealOutcome(d.verdict, force)] : d \in dhDiagnosis}
    /\ UNCHANGED <<dhMachine, dhNetdata, dhConnected, dhDiagnosis, dhRepairs>>

\* start_repair of others, without a diagnosis.
StartRepair(r) ==
    /\ dhRepairs[r] = "none" /\ dhRepairs' = [dhRepairs EXCEPT ![r] = "in_progress"]
    /\ UNCHANGED <<dhMachine, dhNetdata, dhConnected, dhLast, dhDiagnosis>>

\* finish_repair: an UPDATE, of no row when the id is unknown, and again when it is
\* called again.
FinishRepair(r, success) ==
    /\ dhRepairs' = IF dhRepairs[r] = "none" THEN dhRepairs
                    ELSE [dhRepairs EXCEPT ![r] = IF success THEN "success" ELSE "failed"]
    /\ UNCHANGED <<dhMachine, dhNetdata, dhConnected, dhLast, dhDiagnosis>>

\* The machine changes, or its Netdata.
MachineChanges ==
    /\ dhMachine' \in Machines /\ dhNetdata' \in BOOLEAN
    /\ UNCHANGED <<dhConnected, dhLast, dhDiagnosis, dhRepairs>>

HealNext ==
    \/ ConnectNetdata \/ CheckHealth \/ MachineChanges
    \/ \E s \in Complaints : Diagnose(s)
    \/ \E force \in BOOLEAN : Heal(force)
    \/ \E r \in RepairIds : StartRepair(r) \/ \E success \in BOOLEAN : FinishRepair(r, success)

HealSpec == HealInit /\ [][HealNext]_dhVars

------------------------------------------------------------------------------
HealTypeOK ==
    /\ dhMachine \in Machines /\ dhNetdata \in BOOLEAN /\ dhConnected \in BOOLEAN
    /\ dhRepairs \in [RepairIds -> {"none", "in_progress", "success", "failed"}]

\* A verdict is that of the machine, if psutil measured; through Netdata the disk is
\* not looked at, and of a Netdata that no longer answers only the services' failures
\* are seen: every resource is idle to it.
VerdictIsTrue ==
    \A s \in {x \in dhLast : x.kind = "verdict"} :
        /\ s.status # "critical" =>
               /\ s.machine.served
               /\ s.source # "silence" => s.machine.cpu <= 90 /\ s.machine.memory <= 95
               /\ s.source = "psutil" => s.machine.disk <= 95
        /\ s.status = "healthy" /\ s.source # "silence" => s.machine.cpu <= 75 /\ s.machine.memory <= 80
        /\ s.status = "critical" =>
               ~s.machine.served \/ s.machine.cpu > 90 \/ s.machine.memory > 95 \/ s.machine.disk > 95

\* A cause that is named is one the machine has, but for the memory of a machine
\* whose complaint is "oom"; and a repair without asking is never for the network.
DiagnosisHolds ==
    \A d \in dhDiagnosis :
        LET v == d.verdict  m == d.machine IN
        /\ v.cause = "network" => ~m.network
        /\ v.cause = "dns" => ~m.dns
        /\ v.cause = "cpu" => m.cpu > 95
        /\ v.cause = "disk" => m.disk > 90
        /\ v.cause = "memory" => m.memory > 90 \/ "oom" \in d.symptoms
        /\ v.cause = "config" => ~m.config
        /\ v.fixable => v.cause # "network"

\* The healer never acts: every diagnosis it would act on stops at its record.
NothingIsHealed == \A h \in {x \in dhLast : x.kind = "healed"} : h.outcome # "done"
==============================================================================
