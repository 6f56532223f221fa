----------------------------- MODULE Pipelines -----------------------------
(* The workflows of src/occore/orchestration: a pipeline collects data, makes a  *)
(* signal, sends the command to the bot and saves the result, each as an         *)
(* activity that Temporal retries; a batch and a monitor run pipelines as their  *)
(* children, one after the other.                                               *)
EXTENDS Integers, Sequences, FiniteSets

CONSTANTS MarketReadings,     \* indicators collect_market_data may return
          Attempts,     \* step -> maximum_attempts: 3, 3, 2 and 3 in the code
          BatchSymbols, \* bound: symbols of the batch
          MonitorRuns   \* bound: executions of the monitor

PipeSteps == {"collect", "signal", "execute", "save", "completed", "failed"}

ASSUME PipelinesAssumption == \A s \in {"collect", "signal", "execute", "save"} : Attempts[s] \in Nat \ {0}

VARIABLES tpPipes,    \* the pipelines started, in order
          tpResults,  \* results of the batch
          tpErrors,   \* errors of the monitor
          tpMonitor   \* execution_count

tpVars == <<tpPipes, tpResults, tpErrors, tpMonitor>>

PipesInit == tpPipes = <<>> /\ tpResults = <<>> /\ tpErrors = 0 /\ tpMonitor = 0

NewPipe(by) ==
    [by |-> by, step |-> "collect", attempt |-> 1, action |-> "HOLD", status |-> "none",
     sent |-> 0, late |-> 0, saved |-> {}, taken |-> FALSE]

Over(p) == p.step \in {"completed", "failed"}
ChildOf(by) == {i \in DOMAIN tpPipes : tpPipes[i].by = by /\ ~tpPipes[i].taken}
SetPipe(i, p) == tpPipes' = [tpPipes EXCEPT ![i] = p] /\ UNCHANGED <<tpResults, tpErrors, tpMonitor>>

\* generate_trading_signal: the data it is given decides.
ActionOf(r) ==
    IF r.fast > r.slow /\ r.macd > 0 THEN "BUY"
    ELSE IF r.fast < r.slow /\ r.macd < 0 THEN "SELL" ELSE "HOLD"

\* The activity answered: the next step, the first after it that applies.
Onward(p) ==
    LET next == CASE p.step = "collect" -> "signal"  [] p.step = "signal" -> "execute"
                  [] p.step = "execute" -> "save"    [] p.step = "save" -> "completed"
    IN  [p EXCEPT !.attempt = 1,
                  !.step = IF next = "execute" /\ p.action = "HOLD" THEN "completed" ELSE next]

\* mutant of NotAnswered: one attempt more than the policy allows
NotAnswered_OneMore(p) ==
    IF p.attempt <= Attempts[p.step] THEN [p EXCEPT !.attempt = @ + 1] ELSE [p EXCEPT !.step = "failed"]

\* start_to_close_timeout passed, or the worker died: another attempt, or the
\* error ends the pipeline.
NotAnswered(p) ==
    IF p.attempt < Attempts[p.step] THEN [p EXCEPT !.attempt = @ + 1] ELSE [p EXCEPT !.step = "failed"]

CollectAnswers(i, r) ==
    /\ tpPipes[i].step = "collect"
    /\ SetPipe(i, Onward([tpPipes[i] EXCEPT !.action = ActionOf(r)]))

SignalAnswers(i) == tpPipes[i].step = "signal" /\ SetPipe(i, Onward(tpPipes[i]))

\* execute_bot_command: the publishing succeeds, or its error is the answer.  The
\* event bus of src/lib/messaging has no publish_async, which is such an error; a
\* command is sent with a bus that has one.
CommandAnswers(i, status) ==
    /\ tpPipes[i].step = "execute"
    /\ SetPipe(i, Onward([tpPipes[i] EXCEPT !.status = status, !.sent = @ + (IF status = "sent" THEN 1 ELSE 0)]))

\* mutant of SavedFlag: the default of the payload
SavedFlag_Default(p) == TRUE

\* success: execution_result.get("status") == "sent"
SavedFlag(p) == p.status = "sent"

\* save_execution_result: whether it could publish, the pipeline goes on.
SaveAnswers(i, published) ==
    /\ tpPipes[i].step = "save"
    /\ SetPipe(i, Onward([tpPipes[i] EXCEPT !.saved = IF published THEN @ \cup {SavedFlag(tpPipes[i])} ELSE @]))

\* No answer in time, before the attempt did its work or after; an attempt of a
\* worker that is only slow may still send its command.
AttemptLost(i, work) ==
    LET p == tpPipes[i]
        done == CASE p.step = "execute" /\ work = "done"  -> [p EXCEPT !.sent = @ + 1]
                  [] p.step = "execute" /\ work = "later" -> [p EXCEPT !.late = @ + 1]
                  [] p.step = "save" /\ work = "done"     -> [p EXCEPT !.saved = @ \cup {SavedFlag(p)}]
                  [] OTHER -> p
    IN  ~Over(p) /\ SetPipe(i, NotAnswered(done))

LateCommand(i) ==
    /\ tpPipes[i].late > 0
    /\ SetPipe(i, [tpPipes[i] EXCEPT !.late = @ - 1, !.sent = @ + 1])

\* BatchSignalProcessingWorkflow: execute_child_workflow waits for the child, so
\* the pipelines follow each other.
BatchStarts ==
    /\ ChildOf("batch") = {} /\ Len(tpResults) < BatchSymbols
    /\ tpPipes' = Append(tpPipes, NewPipe("batch"))
    /\ UNCHANGED <<tpResults, tpErrors, tpMonitor>>

\* What it keeps as a task is the child's result: awaiting it raises TypeError,
\* and every symbol is reported as failed.
BatchTakes(i) ==
    /\ tpPipes[i].by = "batch" /\ Over(tpPipes[i]) /\ ~tpPipes[i].taken
    /\ tpPipes' = [tpPipes EXCEPT ![i].taken = TRUE]
    /\ tpResults' = Append(tpResults, "failed") /\ UNCHANGED <<tpErrors, tpMonitor>>

MonitorStarts ==
    /\ ChildOf("monitor") = {} /\ tpMonitor < MonitorRuns /\ tpMonitor' = tpMonitor + 1
    /\ tpPipes' = Append(tpPipes, NewPipe("monitor")) /\ UNCHANGED <<tpResults, tpErrors>>

MonitorTakes(i) ==
    /\ tpPipes[i].by = "monitor" /\ Over(tpPipes[i]) /\ ~tpPipes[i].taken
    /\ tpPipes' = [tpPipes EXCEPT ![i].taken = TRUE]
    /\ tpErrors' = IF tpPipes[i].step = "failed" THEN tpErrors + 1 ELSE tpErrors
    /\ UNCHANGED <<tpResults, tpMonitor>>

PipesNext ==
    \/ BatchStarts \/ MonitorStarts
    \/ \E i \in DOMAIN tpPipes :
         \/ \E r \in MarketReadings : CollectAnswers(i, r)
         \/ SignalAnswers(i) \/ LateCommand(i) \/ BatchTakes(i) \/ MonitorTakes(i)
         \/ \E status \in {"sent", "failed"} : CommandAnswers(i, status)
         \/ \E published \in BOOLEAN : SaveAnswers(i, published)
         \/ \E work \in {"none", "done", "later"} : AttemptLost(i, work)

PipesSpec == PipesInit /\ [][PipesNext]_tpVars

------------------------------------------------------------------------------
PipesTypeOK ==
    /\ Len(tpResults) <= BatchSymbols /\ tpMonitor \in 0..MonitorRuns
    /\ tpErrors <= tpMonitor
    /\ \A i \in DOMAIN tpPipes : tpPipes[i].step \in PipeSteps

\* However answers are lost and slow attempts finish late, a signal sends no more
\* commands than its activity has attempts, and a signal to hold sends none.
CommandsAreBounded ==
    \A i \in DOMAIN tpPipes :
        tpPipes[i].sent + tpPipes[i].late <= IF tpPipes[i].action = "HOLD" THEN 0 ELSE Attempts["execute"]

\* A result saved as a success is that of a command some attempt did send.
RecordedIsSent == \A i \in DOMAIN tpPipes : TRUE \in tpPipes[i].saved => tpPipes[i].sent > 0
==============================================================================
