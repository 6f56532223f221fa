--------------------------- MODULE OutsideServices ---------------------------
(* What department 1 asks of servers outside: the language models, and the chain *)
(* through Jito, by the engine that follows the slots and by the proxy that takes *)
(* packets.  Three parts, each with its own state.                               *)
EXTENDS Integers, Sequences, FiniteSets, SequencesExt, FiniteSetsExt

------------------------------------------------------------------------------
(* The Solana engine of department 1 (src/department_1/src/jito_rpc_engine.py): *)
(* a listener polls the slot, asks for its time and the last blockhash, caches  *)
(* the block and tells the callbacks; each request goes to the endpoints in     *)
(* their order until one answers, and one endpoint may lag behind another.      *)
(* start and stop are called by other tasks of the loop.                        *)

CONSTANTS Endpoints,   \* number of endpoints, 3 in the code when Helius has a key
          MaxSlot,     \* bound: slots of the chain
          MaxLag,      \* bound: slots an endpoint is behind
          MaxStarts,   \* bound: starts of the engine
          MaxBundles   \* bound: bundles submitted

ASSUME EngineAssumption == Endpoints \in Nat \ {0} /\ MaxSlot \in Nat /\ MaxLag \in Nat

VARIABLES jeChain,      \* the slot of the chain
          jeRunning,    \* _running
          jeListener,   \* where the listener is, the endpoint it asks, its current_slot and last_slot
          jeHealth,     \* the health check is alive
          jeStop,       \* where stop() is
          jeBlocks,     \* history: what the callbacks heard, with the start it belongs to
          jeCached,     \* slots under the keys block:*
          jeStarts,     \* starts so far
          jeRaced,      \* history: a start came during a stop
          jeBundles     \* bundles sent, bundles_submitted, and those the block engine took

jeVars == <<jeChain, jeRunning, jeListener, jeHealth, jeStop, jeBlocks, jeCached, jeStarts, jeRaced, jeBundles>>

NoListener == [pc |-> "off", asks |-> 1, slot |-> 0, last |-> 0]

EngineInit ==
    /\ jeChain = 1 /\ jeRunning = FALSE /\ jeListener = NoListener /\ jeHealth = FALSE
    /\ jeStop = "none" /\ jeBlocks = <<>> /\ jeCached = {} /\ jeStarts = 0 /\ jeRaced = FALSE
    /\ jeBundles = [sent |-> 0, submitted |-> 0, taken |-> 0]

SlotPasses ==
    /\ jeChain < MaxSlot /\ jeChain' = jeChain + 1
    /\ UNCHANGED <<jeRunning, jeListener, jeHealth, jeStop, jeBlocks, jeCached, jeStarts, jeRaced, jeBundles>>

\* start
EngineStarts ==
    /\ ~jeRunning /\ jeStarts < MaxStarts
    /\ jeRunning' = TRUE /\ jeStarts' = jeStarts + 1
    /\ jeListener' = [NoListener EXCEPT !.pc = "first"] /\ jeHealth' = TRUE
    /\ jeRaced' = (jeRaced \/ jeStop # "none")
    /\ UNCHANGED <<jeChain, jeStop, jeBlocks, jeCached, jeBundles>>

\* stop: it cancels the listener and waits for it, cancels the health check that
\* the field then holds and waits, closes the clients.
EngineStops ==
    /\ jeStop = "none" /\ jeRunning
    /\ jeRunning' = FALSE /\ jeListener' = NoListener /\ jeStop' = "listener"
    /\ UNCHANGED <<jeChain, jeHealth, jeBlocks, jeCached, jeStarts, jeRaced, jeBundles>>

StopGoesOn ==
    /\ \/ jeStop = "listener" /\ jeStop' = "health" /\ jeHealth' = FALSE
       \/ jeStop = "health" /\ jeStop' = "closing" /\ UNCHANGED jeHealth
       \/ jeStop = "closing" /\ jeStop' = "none" /\ UNCHANGED jeHealth
    /\ UNCHANGED <<jeChain, jeRunning, jeListener, jeBlocks, jeCached, jeStarts, jeRaced, jeBundles>>

To(pc) == [jeListener EXCEPT !.pc = pc, !.asks = 1]
ListenerSteps(next) ==
    /\ jeListener' = next
    /\ UNCHANGED <<jeChain, jeRunning, jeHealth, jeStop, jeStarts, jeRaced, jeBundles>>

\* What a request that no endpoint answers gives: None, so that the first slot is
\* 0, a poll finds nothing new, and a block goes without its time or hash.
Unanswered ==
    CASE jeListener.pc = "first" -> To("slot") [] jeListener.pc = "slot" -> To("sleep")
      [] jeListener.pc = "time" -> To("hash") [] jeListener.pc = "hash" -> To("cache")

\* _call_rpc gave up on an endpoint after its retries.
EndpointFails ==
    /\ jeListener.pc \in {"first", "slot", "time", "hash"}
    /\ ListenerSteps(IF jeListener.asks < Endpoints THEN [jeListener EXCEPT !.asks = @ + 1] ELSE Unanswered)
    /\ UNCHANGED <<jeBlocks, jeCached>>

\* mutant of IsNewer: any slot but the last one
IsNewer_Other(slot) == slot # jeListener.last

IsNewer(slot) == slot > jeListener.last

SlotAnswered ==
    \E slot \in (jeChain - MaxLag)..jeChain :
        /\ slot > 0
        /\ \/ jeListener.pc = "first" /\ ListenerSteps([To("slot") EXCEPT !.last = slot])
           \/ /\ jeListener.pc = "slot"
              /\ ListenerSteps(IF IsNewer(slot) THEN [To("cached_time") EXCEPT !.slot = slot] ELSE To("sleep"))
        /\ UNCHANGED <<jeBlocks, jeCached>>

\* get_block_time looks in Redis first.
TimeLooked ==
    /\ jeListener.pc = "cached_time"
    /\ ListenerSteps(To("time")) \/ ListenerSteps(To("hash"))
    /\ UNCHANGED <<jeBlocks, jeCached>>

DetailAnswered ==
    /\ \/ jeListener.pc = "time" /\ ListenerSteps(To("hash"))
       \/ jeListener.pc = "hash" /\ ListenerSteps(To("cache"))
    /\ UNCHANGED <<jeBlocks, jeCached>>

\* mutant of Afterwards: last_slot stays where it was
Afterwards_Stays == To("sleep")

\* The slot announced is the last one from now on.
Afterwards == [To("sleep") EXCEPT !.last = jeListener.slot]

\* The block is cached, and the callbacks hear of it.
BlockAnnounced ==
    /\ jeListener.pc = "cache"
    /\ jeCached' = jeCached \cup {jeListener.slot}
    /\ jeBlocks' = Append(jeBlocks, [slot |-> jeListener.slot, parent |-> jeListener.last, start |-> jeStarts])
    /\ ListenerSteps(Afterwards)

\* Redis raises: the slot is given up, the loop goes on.
RedisFails ==
    /\ jeListener.pc \in {"cached_time", "time", "cache"}
    /\ ListenerSteps(To("sleep")) /\ UNCHANGED <<jeBlocks, jeCached>>

ListenerWakes ==
    /\ jeListener.pc = "sleep" /\ ListenerSteps(IF jeRunning THEN To("slot") ELSE NoListener)
    /\ UNCHANGED <<jeBlocks, jeCached>>

\* submit_bundle: the block engine may take a bundle whose answer is lost.
SubmitBundle ==
    /\ jeBundles.sent < MaxBundles
    /\ \E taken, answered \in BOOLEAN :
         jeBundles' = [sent |-> jeBundles.sent + 1,
                       submitted |-> jeBundles.submitted + (IF taken /\ answered THEN 1 ELSE 0),
                       taken |-> jeBundles.taken + (IF taken THEN 1 ELSE 0)]
    /\ UNCHANGED <<jeChain, jeRunning, jeListener, jeHealth, jeStop, jeBlocks, jeCached, jeStarts, jeRaced>>

EngineNext ==
    \/ SlotPasses \/ EngineStarts \/ EngineStops \/ StopGoesOn \/ EndpointFails \/ SlotAnswered
    \/ TimeLooked \/ DetailAnswered \/ BlockAnnounced \/ RedisFails \/ ListenerWakes \/ SubmitBundle

EngineSpec == EngineInit /\ [][EngineNext]_jeVars

------------------------------------------------------------------------------
EngineTypeOK ==
    /\ jeChain \in 1..MaxSlot /\ jeListener.asks \in 1..Endpoints
    /\ jeStop \in {"none", "listener", "health", "closing"}
    /\ jeBundles.submitted <= jeBundles.taken

\* Within one start of the engine the callbacks hear of ascending slots, each with
\* the one before as its parent, and none they heard is missing from the cache,
\* whatever endpoints lag, fail or recover between the polls.
BlocksChain ==
    /\ \A i \in DOMAIN jeBlocks :
         /\ jeBlocks[i].slot > jeBlocks[i].parent /\ jeBlocks[i].slot \in jeCached
         /\ i > 1 /\ jeBlocks[i - 1].start = jeBlocks[i].start => jeBlocks[i].parent = jeBlocks[i - 1].slot
    /\ jeListener.slot <= jeChain

\* While the engine runs both its tasks do, unless it was started during a stop,
\* which then cancels the new health check.
EngineIsWhole == jeRunning /\ ~jeRaced => jeListener.pc # "off" /\ jeHealth

------------------------------------------------------------------------------
(* The shredstream proxy (src/jito/shredstream/proxy.py) from the websocket to   *)
(* its workers.  A worker hands what it parsed to a queue of its own that nobody *)
(* reads, so the soldiers and scouts behind parsed_tx_queue never run.           *)

CONSTANTS NumWorkers,   \* num_workers
          QueueSize,    \* maxsize of raw_tx_queue
          MaxReceived,  \* bound: transactions
          ShMaxStarts   \* bound: starts

ASSUME ShredAssumption == NumWorkers \in Nat \ {0} /\ QueueSize \in Nat \ {0}

VARIABLES shRunning,
          shQueue,      \* raw_tx_queue: transactions "tx" and sentinels "end"
          shWorkers,    \* len(workers): every worker ever made
          shLive,       \* those that still read the queue
          shReceivers,  \* what the receiver of each start does
          shStops,      \* how many sentinels each unfinished stop has put
          shReceived,   \* stats["total_received"]
          shParsed      \* transactions parsed

shVars == <<shRunning, shQueue, shWorkers, shLive, shReceivers, shStops, shReceived, shParsed>>

ShredInit ==
    /\ shRunning = FALSE /\ shQueue = <<>> /\ shWorkers = 0 /\ shLive = {}
    /\ shReceivers = <<>> /\ shStops = <<>> /\ shReceived = 0 /\ shParsed = 0

Room == Len(shQueue) < QueueSize

\* start: new workers beside those of earlier starts, and one more receiver.
StartProxy ==
    /\ Len(shReceivers) < ShMaxStarts
    /\ shRunning' = TRUE /\ shWorkers' = shWorkers + NumWorkers
    /\ shLive' = shLive \cup ((shWorkers + 1)..(shWorkers + NumWorkers))
    /\ shReceivers' = Append(shReceivers, "connecting")
    /\ UNCHANGED <<shQueue, shStops, shReceived, shParsed>>

StopProxy ==
    /\ shWorkers > 0 /\ Len(shStops) < ShMaxStarts
    /\ shRunning' = FALSE /\ shStops' = Append(shStops, 0)
    /\ UNCHANGED <<shQueue, shWorkers, shLive, shReceivers, shReceived, shParsed>>

\* mutant of Sentinels: one for each worker of a start
Sentinels_PerStart(n) == NumWorkers

\* for _ in self.workers: the list may grow while the loop waits for room.
Sentinels(n) == n

PutSentinel(i) ==
    /\ shStops[i] < Sentinels(shWorkers) /\ Room
    /\ shQueue' = Append(shQueue, "end") /\ shStops' = [shStops EXCEPT ![i] = @ + 1]
    /\ UNCHANGED <<shRunning, shWorkers, shLive, shReceivers, shReceived, shParsed>>

StopReturns(i) ==
    /\ shStops[i] >= Sentinels(shWorkers) /\ shStops' = RemoveAt(shStops, i)
    /\ UNCHANGED <<shRunning, shQueue, shWorkers, shLive, shReceivers, shReceived, shParsed>>

\* AntColonyWorker.process: the first sentinel ends the worker that takes it.
WorkerTakes(w) ==
    /\ shQueue # <<>> /\ shQueue' = Tail(shQueue)
    /\ IF Head(shQueue) = "end" THEN shLive' = shLive \ {w} /\ UNCHANGED shParsed
       ELSE shParsed' = shParsed + 1 /\ UNCHANGED shLive
    /\ UNCHANGED <<shRunning, shWorkers, shReceivers, shStops, shReceived>>

ReceiverGoes(i, to) ==
    /\ shReceivers' = [shReceivers EXCEPT ![i] = to]
    /\ UNCHANGED <<shRunning, shQueue, shWorkers, shLive, shStops, shReceived, shParsed>>

\* _connect_helius_ws: the connection is made or fails; running is read before
\* each attempt, so a proxy started again keeps its old receiver too.
Connects(i) ==
    /\ shReceivers[i] = "connecting"
    /\ \E to \in (IF shRunning THEN {"listening", "waiting"} ELSE {"ended"}) : ReceiverGoes(i, to)

RetryLater(i) == shReceivers[i] = "waiting" /\ ReceiverGoes(i, "connecting")

ConnectionEnds(i) ==
    /\ shReceivers[i] = "listening" /\ \E to \in {"waiting", "connecting"} : ReceiverGoes(i, to)

\* mutant of MessageComes: a transaction is counted before it has a place
MessageComes_Counted(i) ==
    /\ shReceivers[i] = "listening" /\ shReceived < MaxReceived
    /\ IF ~shRunning THEN ReceiverGoes(i, "connecting")
       ELSE /\ shReceivers' = [shReceivers EXCEPT ![i] = "putting"] /\ shReceived' = shReceived + 1
            /\ UNCHANGED <<shRunning, shQueue, shWorkers, shLive, shStops, shParsed>>

\* A message: the receiver of a stopped proxy leaves the connection.
MessageComes(i) ==
    /\ shReceivers[i] = "listening" /\ shReceived < MaxReceived
    /\ ReceiverGoes(i, IF shRunning THEN "putting" ELSE "connecting")

\* raw_tx_queue.put returns, and the transaction is counted.
PutTransaction(i) ==
    /\ shReceivers[i] = "putting" /\ Room
    /\ shQueue' = Append(shQueue, "tx") /\ shReceived' = shReceived + 1
    /\ shReceivers' = [shReceivers EXCEPT ![i] = "listening"]
    /\ UNCHANGED <<shRunning, shWorkers, shLive, shStops, shParsed>>

ShredNext ==
    \/ StartProxy \/ StopProxy
    \/ \E i \in DOMAIN shStops : PutSentinel(i) \/ StopReturns(i)
    \/ \E w \in shLive : WorkerTakes(w)
    \/ \E i \in DOMAIN shReceivers :
         Connects(i) \/ RetryLater(i) \/ ConnectionEnds(i) \/ MessageComes(i) \/ PutTransaction(i)

ShredSpec == ShredInit /\ [][ShredNext]_shVars

------------------------------------------------------------------------------
ShredTypeOK ==
    /\ Len(shQueue) <= QueueSize /\ ToSet(shQueue) \subseteq {"tx", "end"}
    /\ shLive \subseteq 1..shWorkers
    /\ ToSet(shReceivers) \subseteq {"connecting", "listening", "waiting", "putting", "ended"}
    /\ shReceived \in 0..(MaxReceived + ShMaxStarts) /\ shParsed <= shReceived

\* A stop ends every worker, those of all starts before it: once it has returned,
\* the queue holds a sentinel for each worker that still reads it.
StopEndsWorkers ==
    ~shRunning /\ shStops = <<>>
        => Cardinality({i \in DOMAIN shQueue : shQueue[i] = "end"}) >= Cardinality(shLive)

\* Every transaction that was counted is parsed once or waits in the queue.
ReceivedIsParsed ==
    shReceived = shParsed + Cardinality({i \in DOMAIN shQueue : shQueue[i] = "tx"})

------------------------------------------------------------------------------
(* The gateway to the language models (src/department_1/src/llm_gateway.py): a *)
(* request looks in the cache, chooses a provider, and on its failure goes to  *)
(* another and looks in the cache again.  Requests of several tasks share the  *)
(* error counts and the cache.                                                 *)

CONSTANTS Askers,       \* tasks of the loop that ask
          Kinds,        \* kinds of request, each with one prompt: the keys of the cache
          Prefers,      \* TASK_ROUTING: the providers each kind prefers, by their number
          Priority,     \* priority of each provider, in the order of registration
          MaxErrors,    \* max_errors, 3 in the code
          MaxAsked,     \* bound: requests begun
          MaxRecovered  \* bound: recoveries of a provider

ASSUME GatewayAssumption ==
    /\ MaxErrors \in Nat \ {0} /\ MaxAsked \in Nat /\ MaxRecovered \in Nat
    /\ Priority \in Seq(Nat) /\ Prefers \in [Kinds -> Seq(Nat)]

Llms == DOMAIN Priority

VARIABLES lgState,      \* state of each provider: ok, or error
          lgErrors,     \* error_count
          lgCache,      \* kinds whose answer is cached
          lgRequest,    \* what each asker does: idle, or the call it waits for
          lgMetrics,    \* cache_metrics
          lgAsked, lgRecovered,
          lgCalls,      \* history: calls made to providers
          lgRefused,    \* history: requests no provider was left for
          lgHelped      \* history: since an asker began, a provider's count was reset by others

lgVars == <<lgState, lgErrors, lgCache, lgRequest, lgMetrics, lgAsked, lgRecovered, lgCalls, lgRefused, lgHelped>>

NoRequest == [pc |-> "idle", calls |-> 0]

GatewayInit ==
    /\ lgState = [p \in Llms |-> "ok"] /\ lgErrors = [p \in Llms |-> 0]
    /\ lgCache = {} /\ lgRequest = [a \in Askers |-> NoRequest] /\ lgMetrics = [hits |-> 0, misses |-> 0]
    /\ lgAsked = 0 /\ lgRecovered = 0 /\ lgCalls = 0 /\ lgRefused = 0
    /\ lgHelped = [a \in Askers |-> FALSE]

\* min(..., key=priority): the first of those with the least priority; 0 for none.
FirstByPriority(ps) ==
    IF ps = {} THEN 0
    ELSE Min({p \in ps : \A q \in ps : Priority[p] <= Priority[q]})

\* select_provider, with the providers' states as they are then.
SelectProvider(kind, state) ==
    LET open == {p \in Llms : state[p] = "ok"}
        preferred == {i \in DOMAIN Prefers[kind] : Prefers[kind][i] \in open}
    IN  IF preferred # {} THEN Prefers[kind][Min(preferred)] ELSE FirstByPriority(open)

\* mutant of Fallback: any other provider, down or not
Fallback_Down(failed, state) == FirstByPriority(Llms \ {failed})

\* _get_fallback_provider
Fallback(failed, state) == FirstByPriority({p \in Llms \ {failed} : state[p] = "ok"})

\* generate: it looks in the cache, and calls the provider given.
AskProvider(a, kind, provider, calls) ==
    IF kind \in lgCache
    THEN /\ lgMetrics' = [lgMetrics EXCEPT !.hits = @ + 1]
         /\ lgRequest' = [lgRequest EXCEPT ![a] = NoRequest]
         /\ UNCHANGED <<lgCalls, lgRefused>>
    ELSE /\ lgMetrics' = [lgMetrics EXCEPT !.misses = @ + 1]
         /\ lgRequest' = [lgRequest EXCEPT ![a] =
                IF provider = 0 THEN NoRequest
                ELSE [pc |-> "calling", kind |-> kind, provider |-> provider, calls |-> calls + 1]]
         /\ lgCalls' = lgCalls + (IF provider = 0 THEN 0 ELSE 1)
         /\ lgRefused' = lgRefused + (IF provider = 0 THEN 1 ELSE 0)

Ask(a, kind) ==
    /\ lgRequest[a].pc = "idle" /\ lgAsked < MaxAsked
    /\ lgAsked' = lgAsked + 1
    /\ AskProvider(a, kind, SelectProvider(kind, lgState), 0)
    /\ lgHelped' = [lgHelped EXCEPT ![a] = FALSE]
    /\ UNCHANGED <<lgState, lgErrors, lgCache, lgRecovered>>

\* The provider answers: its count starts again, whatever its state is by now.
AnswerArrives(a) ==
    /\ lgRequest[a].pc = "calling"
    /\ lgErrors' = [lgErrors EXCEPT ![lgRequest[a].provider] = 0]
    /\ lgCache' = lgCache \cup {lgRequest[a].kind}
    /\ lgRequest' = [lgRequest EXCEPT ![a] = NoRequest]
    /\ lgHelped' = [b \in Askers |-> lgHelped[b] \/ b # a]
    /\ UNCHANGED <<lgState, lgMetrics, lgAsked, lgRecovered, lgCalls, lgRefused>>

\* mutant of TooManyErrors: the provider is taken out one failure late
TooManyErrors_Late(count) == count > MaxErrors

TooManyErrors(count) == count >= MaxErrors

\* It fails: counted, perhaps marked, and another provider asked, or the error raised.
CallFails(a) ==
    LET r == lgRequest[a]
        count == lgErrors[r.provider] + 1
        state == IF TooManyErrors(count) THEN [lgState EXCEPT ![r.provider] = "error"] ELSE lgState
        next  == Fallback(r.provider, state)
    IN  /\ r.pc = "calling"
        /\ lgErrors' = [lgErrors EXCEPT ![r.provider] = count] /\ lgState' = state
        /\ IF next # 0 THEN AskProvider(a, r.kind, next, r.calls)
           ELSE /\ lgRequest' = [lgRequest EXCEPT ![a] = NoRequest]
                /\ UNCHANGED <<lgMetrics, lgCalls, lgRefused>>
        /\ UNCHANGED <<lgCache, lgAsked, lgRecovered, lgHelped>>

\* recover_provider, answered.
RecoverProvider(p) ==
    /\ lgRecovered < MaxRecovered
    /\ lgRecovered' = lgRecovered + 1
    /\ lgState' = [lgState EXCEPT ![p] = "ok"] /\ lgErrors' = [lgErrors EXCEPT ![p] = 0]
    /\ lgHelped' = [b \in Askers |-> TRUE]
    /\ UNCHANGED <<lgCache, lgRequest, lgMetrics, lgAsked, lgCalls, lgRefused>>

\* The time to live of an answer is over.
AnswerExpires(kind) ==
    /\ kind \in lgCache /\ lgCache' = lgCache \ {kind}
    /\ UNCHANGED <<lgState, lgErrors, lgRequest, lgMetrics, lgAsked, lgRecovered, lgCalls, lgRefused, lgHelped>>

GatewayNext ==
    \/ \E a \in Askers : (\E kind \in Kinds : Ask(a, kind)) \/ AnswerArrives(a) \/ CallFails(a)
    \/ \E p \in Llms : RecoverProvider(p)
    \/ \E kind \in Kinds : AnswerExpires(kind)

GatewaySpec == GatewayInit /\ [][GatewayNext]_lgVars

------------------------------------------------------------------------------
GatewayTypeOK ==
    /\ lgState \in [Llms -> {"ok", "error"}] /\ lgErrors \in [Llms -> Nat] /\ lgCache \subseteq Kinds
    /\ \A a \in Askers : lgRequest[a].pc = "calling" => lgRequest[a].provider \in Llms

\* The fallback of a request ends: as long as no other request succeeds and no
\* provider is recovered meanwhile, it calls the providers no more often than
\* their limits of errors add up to, over any failures of other requests.
FallbackEnds == \A a \in Askers : ~lgHelped[a] => lgRequest[a].calls <= Cardinality(Llms) * MaxErrors

\* A provider that is chosen from has fewer errors in a row than its limit.
DownIsMarked == \A p \in Llms : lgState[p] = "ok" => lgErrors[p] < MaxErrors

\* A miss is a call, or a refusal: the misses count the calls, several for one
\* request, and not the requests.
MissesAreCalls == lgMetrics.misses = lgCalls + lgRefused
==============================================================================
