------------------------------- MODULE EventLog -------------------------------
(* The analytics of the event log: its writer, the report of a day, and the    *)
(* analyser of the stream.  Three parts, each with its own state.              *)
(*                                                                             *)
(* The event logger (src/occore/analytics/event_logger.py): events gather in a *)
(* buffer that the call which fills it writes to Elasticsearch, suspended at   *)
(* the ping, the look for the index, its creation and the bulk request, while  *)
(* other tasks of the loop log and flush too.                                  *)
EXTENDS Naturals, Sequences, FiniteSets, SequencesExt

CONSTANTS Loggers,      \* tasks that log
          BufferSize,   \* _buffer_size, 100 in the code
          MaxEvents     \* bound: events logged

ASSUME EventLogAssumption == BufferSize \in Nat \ {0} /\ MaxEvents \in Nat

VARIABLES elBuffer,    \* _buffer: the numbers of the events
          elClient,    \* _es is not None
          elCall,      \* where each task is suspended in flush, and the batch it sends
          elLogged,    \* events logged so far
          elIndexed,   \* how often Elasticsearch holds each event: never, once, or 2 for more
          elOverlap,   \* history: an event was logged, or a flush begun, during a flush
          elDropped,   \* history: the buffer was dropped as there was no Elasticsearch
          elFailed     \* history: a bulk request failed

elVars == <<elBuffer, elClient, elCall, elLogged, elIndexed, elOverlap, elDropped, elFailed>>

Outside == [pc |-> "outside"]

LogInit ==
    /\ elBuffer = <<>> /\ elClient = FALSE /\ elCall = [t \in Loggers |-> Outside]
    /\ elLogged = 0 /\ elIndexed = [e \in 1..MaxEvents |-> 0]
    /\ elOverlap = FALSE /\ elDropped = FALSE /\ elFailed = FALSE

LoggerAt(t, pc) == elCall' = [elCall EXCEPT ![t] = [pc |-> pc]]
Flushing == \E t \in Loggers : elCall[t] # Outside

\* async_bulk reads the whole buffer, which is below a chunk, before it suspends.
SendsBatch(t) == elCall' = [elCall EXCEPT ![t] = [pc |-> "bulk", batch |-> elBuffer]]

\* _get_es_client makes the client before it pings: a call that comes during the
\* ping takes it as it is.
Flush(t) == IF elClient THEN LoggerAt(t, "exists") /\ UNCHANGED elClient
            ELSE LoggerAt(t, "ping") /\ elClient' = TRUE

\* log_event
LogEvent(t) ==
    /\ elCall[t] = Outside /\ elLogged < MaxEvents
    /\ elLogged' = elLogged + 1
    /\ elBuffer' = Append(elBuffer, elLogged + 1)
    /\ elOverlap' = (elOverlap \/ Flushing)
    /\ IF Len(elBuffer') >= BufferSize THEN Flush(t) ELSE UNCHANGED <<elCall, elClient>>
    /\ UNCHANGED <<elIndexed, elDropped, elFailed>>

\* flush, called at the end of a program.
FlushNow(t) ==
    /\ elCall[t] = Outside /\ elBuffer # <<>>
    /\ Flush(t)
    /\ elOverlap' = (elOverlap \/ Flushing)
    /\ UNCHANGED <<elBuffer, elLogged, elIndexed, elDropped, elFailed>>

Pinged(t) ==
    /\ elCall[t].pc = "ping" /\ LoggerAt(t, "exists")
    /\ UNCHANGED <<elBuffer, elClient, elLogged, elIndexed, elOverlap, elDropped, elFailed>>

\* No answer to the ping, or False: what is buffered is dropped.
NoElasticsearch(t) ==
    /\ elCall[t].pc = "ping" /\ LoggerAt(t, "outside")
    /\ elClient' = FALSE /\ elBuffer' = <<>> /\ elDropped' = TRUE
    /\ UNCHANGED <<elLogged, elIndexed, elOverlap, elFailed>>

IndexFound(t) ==
    /\ elCall[t].pc = "exists" /\ SendsBatch(t)
    /\ UNCHANGED <<elBuffer, elClient, elLogged, elIndexed, elOverlap, elDropped, elFailed>>

\* _create_index: created or not, the batch is sent.
IndexMissing(t) ==
    /\ elCall[t].pc = "exists" /\ LoggerAt(t, "create")
    /\ UNCHANGED <<elBuffer, elClient, elLogged, elIndexed, elOverlap, elDropped, elFailed>>

IndexCreated(t) ==
    /\ elCall[t].pc = "create" /\ SendsBatch(t)
    /\ UNCHANGED <<elBuffer, elClient, elLogged, elIndexed, elOverlap, elDropped, elFailed>>

Written(batch) == [e \in 1..MaxEvents |-> 
                      IF Contains(batch, e) /\ elIndexed[e] < 2 THEN elIndexed[e] + 1 ELSE elIndexed[e]]

\* mutant of AfterFailure: a batch that failed is given up
AfterFailure_Drops == <<>>

\* What stays in the buffer after a failure: everything, for the next flush.
AfterFailure == elBuffer

\* The bulk request succeeds: the buffer is cleared, with what was logged since.
BulkDone(t) ==
    /\ elCall[t].pc = "bulk" /\ LoggerAt(t, "outside")
    /\ elIndexed' = Written(elCall[t].batch)
    /\ elBuffer' = <<>>
    /\ UNCHANGED <<elClient, elLogged, elOverlap, elDropped, elFailed>>

\* The look for the index or the bulk request fails; the batch may have arrived.
FlushFails(t) ==
    /\ elCall[t].pc \in {"exists", "bulk"} /\ LoggerAt(t, "outside")
    /\ \/ elIndexed' = elIndexed
       \/ elCall[t].pc = "bulk" /\ elIndexed' = Written(elCall[t].batch)
    /\ elBuffer' = AfterFailure /\ elFailed' = TRUE
    /\ UNCHANGED <<elClient, elLogged, elOverlap, elDropped>>

LogNext ==
    \E t \in Loggers :
        \/ LogEvent(t) \/ FlushNow(t) \/ Pinged(t) \/ NoElasticsearch(t) \/ IndexFound(t)
        \/ IndexMissing(t) \/ IndexCreated(t) \/ BulkDone(t) \/ FlushFails(t)

LogSpec == LogInit /\ [][LogNext]_elVars

------------------------------------------------------------------------------
LogTypeOK ==
    /\ elBuffer \in Seq(1..MaxEvents) /\ elLogged \in 0..MaxEvents
    /\ \A t \in Loggers : elCall[t].pc \in {"outside", "ping", "exists", "create", "bulk"}

\* As long as no call comes into a flush of another, and Elasticsearch answers the
\* ping, every event is buffered or indexed, over failures of the other requests;
\* with no failure at all it is indexed once.
LoggedIsKept ==
    ~elOverlap /\ ~elDropped =>
        \A e \in 1..elLogged :
            /\ Contains(elBuffer, e) \/ elIndexed[e] > 0
            /\ ~elFailed => elIndexed[e] <= 1
------------------------------------------------------------------------------
(* The process miner (src/occore/analytics/process_mining.py): the report of a *)
(* day fetches the events three times, and every fetch is an await in which    *)
(* more of them are indexed.  Durations are in units of the threshold, 500 ms. *)

CONSTANTS MinedEvents,  \* what may be indexed: task, department, ms, error, handoff
          FetchSize,    \* size of a fetch, 10000 in the code
          HandoffLimit, \* handoffs of a department that are too many, 100 in the code
          MaxMined      \* bound: events of the day

ASSUME MinerAssumption == FetchSize \in Nat \ {0} /\ HandoffLimit \in Nat /\ MaxMined \in Nat

VARIABLES mnIndex,   \* the events of the day in Elasticsearch, oldest first
          mnReport,  \* the report under way, or the last one
          mnFailed   \* a fetch of it came back empty for a failure

mnVars == <<mnIndex, mnReport, mnFailed>>

NothingMined == [at |-> "none"]

MineInit == mnIndex = <<>> /\ mnReport = NothingMined /\ mnFailed = FALSE

\* The event logger writes a batch, whose events need not be the youngest.
Indexed(e) ==
    /\ Len(mnIndex) < MaxMined
    /\ \E i \in 1 .. Len(mnIndex) + 1 : mnIndex' = InsertAt(mnIndex, i, e)
    /\ UNCHANGED <<mnReport, mnFailed>>

\* fetch_events: the oldest of the day, or none if there is no client or the
\* search fails.
Fetched(failed) == IF failed THEN <<>> ELSE SubSeq(mnIndex, 1, Min({FetchSize, Len(mnIndex)}))

Time(events, I) == MapThenSumSet(LAMBDA i : events[i].ms, I)

\* detect_bottlenecks: the tasks whose average is above the threshold.
Bottlenecks(events) ==
    LET Of(task) == {i \in DOMAIN events : events[i].task = task}
        Exceeds(task, k) == Time(events, Of(task)) > k * Cardinality(Of(task))
    IN  [task \in {events[i].task : i \in {i \in DOMAIN events : Exceeds(events[i].task, 1)}} |->
            [count |-> Cardinality(Of(task)),
             dept |-> events[CHOOSE i \in Of(task) : TRUE].dept,
             severe |-> Exceeds(task, 5)]]

\* analyze_department_metrics: an event without a duration is not in the average.
DeptMetrics(events) ==
    [d \in {events[i].dept : i \in DOMAIN events} |->
        LET I == {i \in DOMAIN events : events[i].dept = d}
            timed == {i \in I : events[i].ms > 0}
        IN  [total |-> Cardinality(I), slow |-> Time(events, timed) > 4 * Cardinality(timed),
             errors |-> Cardinality({i \in I : events[i].error}),
             handoffs |-> Cardinality({i \in I : events[i].handoff})]]

\* _generate_recommendations; when there is none the system "runs stably".
Recommendations(slow, depts) ==
    {"bottlenecks" : task \in {x \in DOMAIN slow : slow[x].severe}}
        \cup {"errors" : d \in {x \in DOMAIN depts : depts[x].errors * 10 > depts[x].total}}
        \cup {"slow" : d \in {x \in DOMAIN depts : depts[x].slow}}
        \cup {"handoffs" : d \in {x \in DOMAIN depts : depts[x].handoffs > HandoffLimit}}

\* mutant of GenerateReport: the departments are those of the first fetch
GenerateReport_Reuses(failed) ==
    /\ UNCHANGED mnIndex
    /\ CASE mnReport.at \in {"none", "done"} ->
              mnReport' = [at |-> "events"] /\ mnFailed' = FALSE
         [] mnReport.at = "events" ->
              /\ mnReport' = [at |-> "bottlenecks", events |-> Fetched(failed)]
              /\ mnFailed' = failed
         [] mnReport.at = "bottlenecks" ->
              /\ mnReport' = [at |-> "metrics", events |-> mnReport.events, slow |-> Bottlenecks(Fetched(failed))]
              /\ mnFailed' = (mnFailed \/ failed)
         [] mnReport.at = "metrics" ->
              /\ mnReport' = [at |-> "done", total |-> Len(mnReport.events), slow |-> mnReport.slow,
                              depts |-> DeptMetrics(mnReport.events),
                              advice |-> Recommendations(mnReport.slow, DeptMetrics(mnReport.events))]
              /\ UNCHANGED mnFailed

\* generate_daily_report, from one await to the next: the events, the bottlenecks
\* of another fetch, the departments of a third.
GenerateReport(failed) ==
    /\ UNCHANGED mnIndex
    /\ CASE mnReport.at \in {"none", "done"} ->
              mnReport' = [at |-> "events"] /\ mnFailed' = FALSE
         [] mnReport.at = "events" ->
              /\ mnReport' = [at |-> "bottlenecks", events |-> Fetched(failed)]
              /\ mnFailed' = failed
         [] mnReport.at = "bottlenecks" ->
              /\ mnReport' = [at |-> "metrics", events |-> mnReport.events, slow |-> Bottlenecks(Fetched(failed))]
              /\ mnFailed' = (mnFailed \/ failed)
         [] mnReport.at = "metrics" ->
              LET depts == DeptMetrics(Fetched(failed))
              IN  /\ mnReport' = [at |-> "done", total |-> Len(mnReport.events), slow |-> mnReport.slow,
                                  depts |-> depts, advice |-> Recommendations(mnReport.slow, depts)]
                  /\ mnFailed' = (mnFailed \/ failed)

MineNext == (\E e \in MinedEvents : Indexed(e)) \/ (\E failed \in BOOLEAN : GenerateReport(failed))

MineSpec == MineInit /\ [][MineNext]_mnVars

MineTypeOK ==
    /\ mnIndex \in Seq(MinedEvents) /\ mnFailed \in BOOLEAN
    /\ mnReport.at \in {"none", "events", "bottlenecks", "metrics", "done"}

\* The parts of a report are of three moments, yet they add up, as long as no
\* fetch failed and none was cut off: every event it counts is one of a
\* department, every bottleneck is of a department it shows, with no more events
\* than that one has, and a severe one is spoken of.
DayAddsUp ==
    mnReport.at = "done" /\ ~mnFailed /\ Len(mnIndex) <= FetchSize =>
        LET slow == mnReport.slow
            depts == mnReport.depts
        IN  /\ mnReport.total <= MapThenSumSet(LAMBDA d : depts[d].total, DOMAIN depts)
            /\ \A task \in DOMAIN slow : /\ slow[task].dept \in DOMAIN depts
                                         /\ slow[task].count <= depts[slow[task].dept].total
                                         /\ slow[task].severe => mnReport.advice # {}

------------------------------------------------------------------------------
(* The analyser of the event stream (BottleneckAnalyzer of the same file).     *)

CONSTANTS StreamTasks, Durations,
          WindowSize,     \* window_size, 100 in the code
          MinSamples,     \* durations a baseline is made of at least, 10 in the code
          FactorSquared   \* threshold_multiplier squared, 9 in the code

ASSUME AnalyserAssumption ==
    /\ Durations \subseteq Nat /\ WindowSize \in Nat /\ MinSamples \in Nat \ {0, 1} /\ FactorSquared \in Nat

VARIABLES anWindow,  \* _event_window: task and duration
          anBase,    \* _baseline_stats: how many durations, their sum and that of their squares
          anAlarm    \* the last event: whether it is a bottleneck, its baseline, and if it is in it

anVars == <<anWindow, anBase, anAlarm>>

NoBase == [count |-> 0, sum |-> 0, squares |-> 0]
Quiet == [on |-> FALSE, count |-> 0, own |-> FALSE]

AnalyserInit ==
    anWindow = <<>> /\ anBase = [task \in StreamTasks |-> NoBase] /\ anAlarm = Quiet

SamplesOf(window, task) == {i \in DOMAIN window : window[i].task = task}

\* _update_baseline: a task with too few events in the window keeps its old one.
Baseline(window, task) ==
    LET I == SamplesOf(window, task)
    IN  IF Cardinality(I) < MinSamples THEN anBase[task]
        ELSE [count |-> Cardinality(I), sum |-> Time(window, I),
              squares |-> MapThenSumSet(LAMBDA i : window[i].ms * window[i].ms, I)]

\* ms > mean + factor * stdev, multiplied out
Outlies(ms, base) ==
    LET n == base.count
        above == n * ms - base.sum
    IN  /\ n > 0 /\ above > 0
        /\ above * above * (n - 1) > FactorSquared * n * (n * base.squares - base.sum * base.sum)

\* mutant of AnalyzeEvent: the event is compared with what came before it
AnalyzeEvent_Before(task, ms) ==
    LET all == Append(anWindow, [task |-> task, ms |-> ms])
        window == IF Len(all) > WindowSize THEN Tail(all) ELSE all
        base == anBase
    IN  /\ anWindow' = window /\ anBase' = [x \in StreamTasks |-> Baseline(window, x)]
        /\ anAlarm' = [on |-> Outlies(ms, base[task]), count |-> base[task].count,
                       own |-> Cardinality(SamplesOf(window, task)) >= MinSamples]

\* analyze_event: the event is in the window, and so in its own baseline, before
\* it is compared with it.
AnalyzeEvent(task, ms) ==
    LET all == Append(anWindow, [task |-> task, ms |-> ms])
        window == IF Len(all) > WindowSize THEN Tail(all) ELSE all
        base == [x \in StreamTasks |-> Baseline(window, x)]
    IN  /\ anWindow' = window /\ anBase' = base
        /\ anAlarm' = [on |-> Outlies(ms, base[task]), count |-> base[task].count,
                       own |-> Cardinality(SamplesOf(window, task)) >= MinSamples]

AnalyserNext == \E task \in StreamTasks, ms \in Durations : AnalyzeEvent(task, ms)

AnalyserSpec == AnalyserInit /\ [][AnalyserNext]_anVars

AnalyserTypeOK ==
    /\ Len(anWindow) <= WindowSize /\ anAlarm.on \in BOOLEAN
    /\ \A task \in StreamTasks : anBase[task].count \in {0} \cup MinSamples .. WindowSize

\* What a baseline contains it cannot exceed by much: with n durations no event is
\* more than (n - 1) / sqrt(n) deviations above their mean.  With the ten the code
\* asks for and its factor of three no duration, however long, is a bottleneck;
\* from eleven on one may be.
FewHideBottlenecks ==
    anAlarm.on /\ anAlarm.own =>
        (anAlarm.count - 1) * (anAlarm.count - 1) > FactorSquared * anAlarm.count
==============================================================================
