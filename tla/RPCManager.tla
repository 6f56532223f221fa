----------------------------- MODULE RPCManager -----------------------------
(***************************************************************************)
(* shared/rpc_manager.py: endpoints in order of priority, a health check   *)
(* that asks all of them at once and then chooses the primary, and calls   *)
(* that try the usable endpoints one after the other (call).  The list a   *)
(* call works through is the one of its beginning; statuses, failure       *)
(* counts and the primary change under it.  Lists are in order of          *)
(* priority, so that a list is the set of its endpoints.                   *)
(*                                                                         *)
(* Latencies are the verdicts they lead to; a failure count stays at       *)
(* MaxCount once it is there.                                              *)
(***************************************************************************)
EXTENDS Naturals, Sequences, FiniteSets, Functions

CONSTANTS
    Endpoints,          \* sequence, the highest priority first
    RpcCallers,         \* tasks inside call
    MaxFailures,
    RecoveryThreshold,
    RetryCount,
    MaxCount            \* bound: failures of an endpoint

ASSUME RpcAssumption ==
    /\ Endpoints \in Seq(Range(Endpoints)) /\ Endpoints # <<>>
    /\ \A i, j \in DOMAIN Endpoints : Endpoints[i] = Endpoints[j] => i = j
    /\ "none" \notin Range(Endpoints)
    /\ MaxFailures \in Nat \ {0} /\ RecoveryThreshold \in Nat /\ RetryCount \in Nat \ {0}
    /\ MaxCount \in Nat /\ MaxFailures <= MaxCount

VARIABLES
    rStatus,     \* RPCEndpoint.status
    rFailures,   \* RPCEndpoint.failure_count
    rPrimary,    \* _current_primary
    rHealth,     \* start and the health loop: "off", "first", "sleep", "check", "stopped"
    rAsked,      \* endpoints whose health check is under way
    rCall        \* calls: the endpoints still to try

rvars == <<rStatus, rFailures, rPrimary, rHealth, rAsked, rCall>>
Names == Range(Endpoints)
NoPrimary == "none"
CallIdle == [on |-> FALSE, left |-> {}]
Usable == {"healthy", "degraded"}

RpcInit ==
    /\ rStatus = [e \in Names |-> "unknown"]
    /\ rFailures = [e \in Names |-> 0]
    /\ rPrimary = NoPrimary
    /\ rHealth = "off" /\ rAsked = {}
    /\ rCall = [c \in RpcCallers |-> CallIdle]

More(n) == IF n < MaxCount THEN n + 1 ELSE n
Less(n, k) == IF n > k THEN n - k ELSE 0
Priority(e) == CHOOSE i \in DOMAIN Endpoints : Endpoints[i] = e

GetHealthy(status) == {e \in Names : status[e] \in Usable}
\* the head of a list
First(list) == CHOOSE e \in list : \A d \in list : Priority(e) <= Priority(d)

\* mutant of EvaluatePrimary: a usable primary is never left
EvaluatePrimary_Sticky(status) ==
    LET healthy == GetHealthy(status)
    IN  CASE healthy = {} -> NoPrimary
          [] rPrimary \in healthy -> rPrimary
          [] OTHER -> First(healthy)

\* _evaluate_primary_switch: a usable primary is left only for a usable
\* endpoint of higher priority.
EvaluatePrimary(status) ==
    LET healthy == GetHealthy(status)
        better == {e \in healthy : Priority(e) < Priority(rPrimary)}
    IN  CASE healthy = {} -> NoPrimary
          [] rPrimary \in healthy /\ better # {} -> First(better)
          [] rPrimary \in healthy /\ better = {} -> rPrimary
          [] healthy # {} /\ rPrimary \notin healthy -> First(healthy)

\* start: a session, and the first check of all endpoints.
RpcStart ==
    /\ rHealth = "off"
    /\ rHealth' = "first" /\ rAsked' = Names
    /\ UNCHANGED <<rStatus, rFailures, rPrimary, rCall>>

\* _check_endpoint ends: by the latency, or with an error.
CheckEndpoint(e, verdict) ==
    /\ e \in rAsked
    /\ rAsked' = rAsked \ {e}
    /\ rStatus' = [rStatus EXCEPT ![e] = IF verdict \in Usable THEN verdict ELSE "down"]
    /\ rFailures' = [rFailures EXCEPT ![e] =
         IF verdict = "error" THEN More(@)
         ELSE IF verdict \in Usable /\ rStatus[e] = "down" THEN Less(@, RecoveryThreshold) ELSE @]
    /\ UNCHANGED <<rPrimary, rHealth, rCall>>

\* gather returns: start creates the loop, which sleeps first; a pass of the
\* loop evaluates the primary.
CheckedAll ==
    /\ rHealth \in {"first", "check"} /\ rAsked = {}
    /\ rPrimary' = IF rHealth = "check" THEN EvaluatePrimary(rStatus) ELSE rPrimary
    /\ rHealth' = "sleep"
    /\ UNCHANGED <<rStatus, rFailures, rAsked, rCall>>

LoopWakes ==
    /\ rHealth = "sleep"
    /\ rHealth' = "check" /\ rAsked' = Names
    /\ UNCHANGED <<rStatus, rFailures, rPrimary, rCall>>

\* stop cancels the loop, with the checks it gathers, and closes the session.
RpcStop ==
    /\ rHealth \in {"sleep", "check"}
    /\ rHealth' = "stopped" /\ rAsked' = {}
    /\ UNCHANGED <<rStatus, rFailures, rPrimary, rCall>>

\* _get_endpoints_to_try
EndpointsToTry(fallback) ==
    LET healthy == GetHealthy(rStatus)
    IN  CASE healthy = {} -> Names
          [] healthy # {} /\ fallback -> healthy
          [] healthy # {} /\ ~fallback /\ rPrimary # NoPrimary -> {rPrimary}
          [] healthy # {} /\ ~fallback /\ rPrimary = NoPrimary -> {First(healthy)}

\* list[:retry_count]
ToTry(list) == {e \in list : Cardinality({d \in list : Priority(d) < Priority(e)}) < RetryCount}

RpcCall(c, fallback) ==
    /\ ~rCall[c].on
    /\ rCall' = [rCall EXCEPT ![c] = [on |-> TRUE, left |-> ToTry(EndpointsToTry(fallback))]]
    /\ UNCHANGED <<rStatus, rFailures, rPrimary, rHealth, rAsked>>

\* mutant of CallServed: the endpoint that answered becomes the primary
CallServed_Takes(c) ==
    /\ rCall[c].on /\ rHealth \in {"first", "sleep", "check"}
    /\ LET e == First(rCall[c].left)
       IN  rFailures' = [rFailures EXCEPT ![e] = Less(@, 1)] /\ rPrimary' = e
    /\ rCall' = [rCall EXCEPT ![c] = CallIdle]
    /\ UNCHANGED <<rStatus, rHealth, rAsked>>

\* _call_single answers: the count falls, and a call that did not go to the
\* primary evaluates it again.
CallServed(c) ==
    /\ rCall[c].on /\ rHealth \in {"first", "sleep", "check"}
    /\ LET e == First(rCall[c].left)
       IN  /\ rFailures' = [rFailures EXCEPT ![e] = Less(@, 1)]
           /\ rPrimary' = IF e # rPrimary THEN EvaluatePrimary(rStatus) ELSE rPrimary
    /\ rCall' = [rCall EXCEPT ![c] = CallIdle]
    /\ UNCHANGED <<rStatus, rHealth, rAsked>>

\* mutant of CallFailed: after the last endpoint the first is tried again
CallFailed_Again(c) ==
    /\ rCall[c].on
    /\ LET e == First(rCall[c].left)  rest == rCall[c].left \ {e}
       IN  /\ rFailures' = [rFailures EXCEPT ![e] = More(@)]
           /\ rStatus' = IF More(rFailures[e]) >= MaxFailures
                         THEN [rStatus EXCEPT ![e] = "down"] ELSE rStatus
           /\ rCall' = [rCall EXCEPT ![c].left = IF rest = {} THEN Names ELSE rest]
    /\ UNCHANGED <<rPrimary, rHealth, rAsked>>

\* It fails, for want of a session too: at the limit the endpoint is down; the
\* next one is tried, or the call raises.
CallFailed(c) ==
    /\ rCall[c].on
    /\ LET e == First(rCall[c].left)  rest == rCall[c].left \ {e}
       IN  /\ rFailures' = [rFailures EXCEPT ![e] = More(@)]
           /\ rStatus' = IF More(rFailures[e]) >= MaxFailures
                         THEN [rStatus EXCEPT ![e] = "down"] ELSE rStatus
           /\ rCall' = [rCall EXCEPT ![c] =
                          IF rest = {} THEN CallIdle ELSE [on |-> TRUE, left |-> rest]]
    /\ UNCHANGED <<rPrimary, rHealth, rAsked>>

Verdicts == {"healthy", "degraded", "slow", "error"}
CallEnds(c) == CallServed(c) \/ CallFailed(c)
HealthStep == CheckedAll \/ LoopWakes \/ (\E e \in Names, v \in Verdicts : CheckEndpoint(e, v))
RpcNext ==
    \/ RpcStart \/ RpcStop
    \/ HealthStep
    \/ \E c \in RpcCallers, fallback \in BOOLEAN : RpcCall(c, fallback)
    \/ \E c \in RpcCallers : CallServed(c)
    \/ \E c \in RpcCallers : CallFailed(c)

\* gather ends and the loop wakes; every health check has a timeout of five
\* seconds, every call one of its endpoint.
RpcFairness ==
    /\ WF_rvars(HealthStep)
    /\ \A c \in RpcCallers : WF_rvars(CallEnds(c))
RpcSpec == RpcInit /\ [][RpcNext]_rvars /\ RpcFairness

RpcTypeOK ==
    /\ rStatus \in [Names -> {"unknown", "down"} \cup Usable]
    /\ rFailures \in [Names -> 0 .. MaxCount]
    /\ rPrimary \in Names \cup {NoPrimary}
    /\ rHealth \in {"off", "first", "sleep", "check", "stopped"} /\ rAsked \subseteq Names
    /\ rCall \in [RpcCallers -> [on : BOOLEAN, left : SUBSET Names]]
    /\ \A c \in RpcCallers : rCall[c].on <=> rCall[c].left # {}

\* A new primary is the usable endpoint of highest priority at that moment,
\* whichever of the health loop and the calls switches, and whatever the other
\* has done since it was last looked at ("우선순위 기반 primary selection",
\* rpc_manager.py:47).
SwitchesToTheBest ==
    [][rPrimary' # rPrimary =>
         LET healthy == GetHealthy(rStatus)
         IN  rPrimary' = IF healthy = {} THEN NoPrimary ELSE First(healthy)]_rvars

\* "회복 시 자동 primary 복귀" (rpc_manager.py:50): while the loop runs and the
\* endpoint of highest priority stays usable, it becomes the primary and stays
\* it, whatever calls fail meanwhile.
FailsBack ==
    <>[](rHealth \in {"sleep", "check"} /\ rStatus[Endpoints[1]] \in Usable)
      => <>[](rPrimary = Endpoints[1])

\* The primary is chosen by priority among the usable endpoints, and the best one
\* comes back to it.
BestEndpointServes == SwitchesToTheBest /\ FailsBack

\* Every call ends, with an answer or an RPCError.
CallsEnd == \A c \in RpcCallers : rCall[c].on ~> ~rCall[c].on
=============================================================================
