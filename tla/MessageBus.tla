----------------------------- MODULE MessageBus -----------------------------
(***************************************************************************)
(* lib/messaging/event_bus.py over lib/messaging/mqtt_client.py.           *)
(*                                                                         *)
(* publish sends an event to the MQTT broker, keeps it in Kafka when its   *)
(* priority is high, and then calls the local subscribers itself.          *)
(* subscribe adds a callback and starts one more listener task; every      *)
(* listener of a client iterates the SAME queue of incoming messages, so a *)
(* message is taken by one of them, and dropped when it is not of that     *)
(* listener's topic.  The broker sends a client whatever is published on a *)
(* topic it has subscribed to, its own messages included.  A connection is *)
(* a new client with a new queue; a listener stays with the client it was  *)
(* started for, and may still deliver what that one had received.          *)
(*                                                                         *)
(* Callbacks are awaited one after the other, over the live list: a        *)
(* subscriber that comes in the middle is called too.                      *)
(***************************************************************************)
EXTENDS Naturals, Sequences, FiniteSets, TLC, SequencesExt

CONSTANTS
    Types,          \* event types; topics are events/<type>
    Callbacks,      \* subscribers
    Local,          \* events this process publishes
    Foreign,        \* events other processes publish
    TypeOf,         \* the type of every event
    High,           \* those of priority HIGH or CRITICAL
    KafkaEnabled,
    MaxListeners,   \* bound: listeners at a time
    MaxConnects     \* bound: connections

Events      == Local \cup Foreign
Listeners   == 1 .. MaxListeners
Connections == 1 .. MaxConnects

ASSUME BusAssumption ==
    /\ TypeOf \in [Events -> Types] /\ High \subseteq Events
    /\ Local \cap Foreign = {} /\ "none" \notin Events
    /\ KafkaEnabled \in BOOLEAN
    /\ MaxListeners \in Nat /\ MaxConnects \in Nat

VARIABLES
    mUp,         \* MQTTClient._connected, EventBus._mqtt_connected
    mTopics,     \* what the broker forwards to this client
    mQueue,      \* client.messages of every connection: received, not yet taken
    mListen,     \* listener tasks: connection, topic, and the event they deliver
    mSubs,       \* EventBus._subscribers
    mPub,        \* local events: "new", at a subscriber, "done"
    mKafka,      \* events handed to Kafka
    mCalls,      \* how often a callback was called with an event
    mConnects    \* connections so far; the last one is the present client

mvars == <<mUp, mTopics, mQueue, mListen, mSubs, mPub, mKafka, mCalls, mConnects>>
NoListener == [conn |-> 0, topic |-> "none", event |-> "none", next |-> 0]
Listening(i) == mListen[i].conn # 0 /\ mListen[i].event = "none"

BusInit ==
    /\ mUp = FALSE /\ mTopics = {}
    /\ mQueue = [n \in Connections |-> <<>>]
    /\ mListen = [i \in Listeners |-> NoListener]
    /\ mSubs = [y \in Types |-> <<>>]
    /\ mPub = [e \in Events |-> [at |-> "new", next |-> 0]]
    /\ mKafka = {} /\ mCalls = [e \in Events |-> [c \in Callbacks |-> 0]]
    /\ mConnects = 0

\* connect: a new client, with no subscriptions and no listeners; nothing starts
\* those of the last one again.
BusConnect ==
    /\ ~mUp /\ mConnects < MaxConnects
    /\ mUp' = TRUE /\ mConnects' = mConnects + 1 /\ mTopics' = {}
    /\ UNCHANGED <<mQueue, mListen, mSubs, mPub, mKafka, mCalls>>

BusDisconnect ==
    /\ mUp
    /\ mUp' = FALSE /\ mTopics' = {}
    /\ UNCHANGED <<mQueue, mListen, mSubs, mPub, mKafka, mCalls, mConnects>>

\* subscribe, which callers do once for a callback and a type: the callback is on
\* the list at once; with a connection the topic is subscribed and one more
\* listener waits, unless the broker refuses (logged, raised; the callback stays).
Subscribe(y, c, granted) ==
    /\ c \notin Range(mSubs[y])
    /\ mSubs' = [mSubs EXCEPT ![y] = Append(@, c)]
    /\ IF mUp /\ granted
       THEN \E i \in Listeners :
                /\ mListen[i] = NoListener /\ \A j \in 1 .. i - 1 : mListen[j] # NoListener
                /\ mListen' = [mListen EXCEPT ![i] =
                       [conn |-> mConnects, topic |-> y, event |-> "none", next |-> 0]]
                /\ mTopics' = mTopics \cup {y}
       ELSE UNCHANGED <<mTopics, mListen>>
    /\ UNCHANGED <<mUp, mQueue, mPub, mKafka, mCalls, mConnects>>

\* What the broker does with a message on the topic of e.
Forward(e) ==
    IF mUp /\ TypeOf[e] \in mTopics
    THEN [mQueue EXCEPT ![mConnects] = Append(@, e)] ELSE mQueue

\* mutant of Publish: only what the broker took is kept
Publish_KeepsSent(e, sent) ==
    /\ e \in Local /\ mPub[e].at = "new"
    /\ mQueue' = IF sent THEN Forward(e) ELSE mQueue
    /\ mKafka' = IF KafkaEnabled /\ e \in High /\ sent THEN mKafka \cup {e} ELSE mKafka
    /\ mPub' = [mPub EXCEPT ![e] = [at |-> "local", next |-> 1]]
    /\ UNCHANGED <<mUp, mTopics, mListen, mSubs, mCalls, mConnects>>

\* publish up to the local subscribers; sent is FALSE when the client raised,
\* which is logged.
Publish(e, sent) ==
    /\ e \in Local /\ mPub[e].at = "new"
    /\ mQueue' = IF sent THEN Forward(e) ELSE mQueue
    /\ mKafka' = IF KafkaEnabled /\ e \in High THEN mKafka \cup {e} ELSE mKafka
    /\ mPub' = [mPub EXCEPT ![e] = [at |-> "local", next |-> 1]]
    /\ UNCHANGED <<mUp, mTopics, mListen, mSubs, mCalls, mConnects>>

ForeignPublish(e) ==
    /\ e \in Foreign /\ mPub[e].at = "new"
    /\ mQueue' = Forward(e)
    /\ mPub' = [mPub EXCEPT ![e].at = "done"]
    /\ UNCHANGED <<mUp, mTopics, mListen, mSubs, mKafka, mCalls, mConnects>>

\* _notify_subscribers: one callback, and the next; an error in it is logged.
CallOne(e, i) == mCalls' = [mCalls EXCEPT ![e][mSubs[TypeOf[e]][i]] = @ + 1]

\* mutant of NotifyLocal: with a connection the echo of the broker is relied on
NotifyLocal_Offline(e) ==
    /\ mPub[e].at = "local"
    /\ IF ~mUp /\ mPub[e].next <= Len(mSubs[TypeOf[e]])
       THEN CallOne(e, mPub[e].next) /\ mPub' = [mPub EXCEPT ![e].next = @ + 1]
       ELSE UNCHANGED mCalls /\ mPub' = [mPub EXCEPT ![e].at = "done"]
    /\ UNCHANGED <<mUp, mTopics, mQueue, mListen, mSubs, mKafka, mConnects>>

NotifyLocal(e) ==
    /\ mPub[e].at = "local"
    /\ IF mPub[e].next <= Len(mSubs[TypeOf[e]])
       THEN CallOne(e, mPub[e].next) /\ mPub' = [mPub EXCEPT ![e].next = @ + 1]
       ELSE UNCHANGED mCalls /\ mPub' = [mPub EXCEPT ![e].at = "done"]
    /\ UNCHANGED <<mUp, mTopics, mQueue, mListen, mSubs, mKafka, mConnects>>

\* mutant of Take: every listener sees every message
Take_Peeks(i) ==
    /\ Listening(i) /\ mQueue[mListen[i].conn] # <<>>
    /\ LET e == Head(mQueue[mListen[i].conn])
       IN  /\ TypeOf[e] = mListen[i].topic
           /\ mListen' = [mListen EXCEPT ![i].event = e, ![i].next = 1]
    /\ UNCHANGED <<mUp, mTopics, mQueue, mSubs, mPub, mKafka, mCalls, mConnects>>

\* _listen takes the next message, and drops it when it is not its topic's.
Take(i) ==
    /\ Listening(i) /\ mQueue[mListen[i].conn] # <<>>
    /\ mQueue' = [mQueue EXCEPT ![mListen[i].conn] = Tail(@)]
    /\ LET e == Head(mQueue[mListen[i].conn])
       IN  mListen' = IF TypeOf[e] = mListen[i].topic
                      THEN [mListen EXCEPT ![i].event = e, ![i].next = 1]
                      ELSE mListen
    /\ UNCHANGED <<mUp, mTopics, mSubs, mPub, mKafka, mCalls, mConnects>>

\* The iteration over the messages of a client that is gone raises when none is
\* left: the listener ends.
ListenerEnds(i) ==
    /\ Listening(i) /\ mQueue[mListen[i].conn] = <<>>
    /\ ~mUp \/ mListen[i].conn # mConnects
    /\ mListen' = [mListen EXCEPT ![i] = NoListener]
    /\ UNCHANGED <<mUp, mTopics, mQueue, mSubs, mPub, mKafka, mCalls, mConnects>>

\* The event bus is the callback of every listener: _on_mqtt_message notifies
\* all subscribers of the event's type.
NotifyRemote(i) ==
    /\ mListen[i].event # "none"
    /\ LET e == mListen[i].event
       IN  IF mListen[i].next <= Len(mSubs[TypeOf[e]])
           THEN CallOne(e, mListen[i].next) /\ mListen' = [mListen EXCEPT ![i].next = @ + 1]
           ELSE UNCHANGED mCalls /\ mListen' = [mListen EXCEPT ![i].event = "none"]
    /\ UNCHANGED <<mUp, mTopics, mQueue, mSubs, mPub, mKafka, mConnects>>

BusNext ==
    \/ BusConnect \/ BusDisconnect
    \/ \E y \in Types, c \in Callbacks, granted \in BOOLEAN : Subscribe(y, c, granted)
    \/ \E e \in Local, sent \in BOOLEAN : Publish(e, sent)
    \/ \E e \in Foreign : ForeignPublish(e)
    \/ \E e \in Local : NotifyLocal(e)
    \/ \E i \in Listeners : Take(i) \/ NotifyRemote(i) \/ ListenerEnds(i)

BusFairness == \A e \in Local : WF_mvars(NotifyLocal(e))
BusSpec == BusInit /\ [][BusNext]_mvars /\ BusFairness

BusTypeOK ==
    /\ mUp \in BOOLEAN /\ mTopics \subseteq Types
    /\ \A n \in Connections : Range(mQueue[n]) \subseteq Events
    /\ \A y \in Types : Range(mSubs[y]) \subseteq Callbacks
    /\ \A i \in Listeners : mListen[i] # NoListener =>
           mListen[i].conn \in 1 .. mConnects /\ mListen[i].topic \in Types
    /\ \A e \in Events : mPub[e].at \in {"new", "local", "done"}
    /\ mKafka \subseteq Events

\* Whoever was subscribed when an event of this process was published has been
\* called when publish returns, and a listener bringing the same event back
\* calls them once more at most: never three times, however many
\* subscriptions, reconnections and listeners there are.
AtMostTwice == \A e \in Events, c \in Callbacks : mCalls[e][c] <= IF e \in Local THEN 2 ELSE 1

\* An event of high priority is with Kafka before any subscriber acts on it
\* ("주문, 체결 (Kafka 영속화)", event_bus.py:27), also when MQTT fails.
PersistedFirst ==
    KafkaEnabled => \A e \in Local \cap High :
        (\E c \in Callbacks : mCalls[e][c] > 0) => e \in mKafka

\* An event of this process reaches Kafka first and a subscriber at most twice.
EventsAreKept == AtMostTwice /\ PersistedFirst

\* publish reaches every local subscriber, with or without a connection.
LocalIsServed ==
    \A e \in Local, c \in Callbacks :
        (mPub[e].at = "local" /\ c \in Range(mSubs[TypeOf[e]])) ~> mCalls[e][c] > 0

\* "Subscribe to topic with callback", "Listen for messages on a topic"
\* (mqtt_client.py): a message of another process on a subscribed topic is
\* taken from the queue only by the listener that will deliver it.
NothingIsDropped ==
    [][\A n \in Connections : Len(mQueue'[n]) < Len(mQueue[n]) =>
         \E i \in Listeners : mListen'[i].event = Head(mQueue[n])]_mvars
=============================================================================
