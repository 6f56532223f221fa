----------------------------- MODULE BotRegistry -----------------------------
(* The registries of bots and agents in Redis (src/lib/cache/redis_client.py): *)
(* a key for every entry, which goes by itself when it is not written for a    *)
(* minute, and a set of names.  The launcher writes a bot's status every five  *)
(* seconds; an agent registers once and sends heartbeats.  Every command to    *)
(* Redis is an await: a listing goes through the names it has read while       *)
(* entries come and go.                                                        *)
EXTENDS Naturals, FiniteSets

CONSTANTS RegBots, RegAgents,
          MaxRedisFaults  \* bound: commands that fail

ASSUME RegistryAssumption == RegBots \cap RegAgents = {} /\ MaxRedisFaults \in Nat

Entries == RegBots \cup RegAgents
\* A dashboard lists each of the two.
Listers == {RegBots, RegAgents}

VARIABLES rgKey,    \* the key of an entry: "gone", "timed", or "kept": with no end
          rgNames,  \* KEY_BOTS_LIST and KEY_AGENTS_LIST
          rgOwner,  \* the process of the entry: "new", "up", "down"
          rgSave,   \* set_bot_status, register_agent: "idle" or "added" after the first command
          rgBeat,   \* update_agent_heartbeat: it has read the key
          rgMark,   \* set_agent_status: it has read the key
          rgList,   \* a listing: the names it has left, and the one it found expired
          rgFaults  \* commands that have failed

rgVars == <<rgKey, rgNames, rgOwner, rgSave, rgBeat, rgMark, rgList, rgFaults>>

RgIdle == [on |-> FALSE, todo |-> {}, expired |-> "none"]

RegInit ==
    /\ rgKey = [e \in Entries |-> "gone"] /\ rgNames = {}
    /\ rgOwner = [e \in Entries |-> "new"]
    /\ rgSave = [e \in Entries |-> "idle"]
    /\ rgBeat = [a \in RegAgents |-> FALSE] /\ rgMark = [a \in RegAgents |-> FALSE]
    /\ rgList = [l \in Listers |-> RgIdle] /\ rgFaults = 0

\* mutant of SaveKey: a key that is renewed has its name on the list already
SaveKey_Renews(e) ==
    /\ rgOwner[e] # "down" /\ rgSave[e] = "idle"
    /\ e \in RegAgents => rgOwner[e] = "new"
    /\ rgOwner' = [rgOwner EXCEPT ![e] = "up"]
    /\ rgKey' = [rgKey EXCEPT ![e] = "timed"]
    /\ rgSave' = [rgSave EXCEPT ![e] = IF rgKey[e] = "gone" THEN "added" ELSE "idle"]
    /\ UNCHANGED <<rgNames, rgBeat, rgMark, rgList, rgFaults>>

\* SETEX of set_bot_status, which the launcher calls again and again, and of
\* register_agent, which is called once.
SaveKey(e) ==
    /\ rgOwner[e] # "down" /\ rgSave[e] = "idle"
    /\ e \in RegAgents => rgOwner[e] = "new"
    /\ rgOwner' = [rgOwner EXCEPT ![e] = "up"]
    /\ rgKey' = [rgKey EXCEPT ![e] = "timed"]
    /\ rgSave' = [rgSave EXCEPT ![e] = "added"]
    /\ UNCHANGED <<rgNames, rgBeat, rgMark, rgList, rgFaults>>

\* SADD, the second command.
SaveName(e) ==
    /\ rgSave[e] = "added"
    /\ rgNames' = rgNames \cup {e}
    /\ rgSave' = [rgSave EXCEPT ![e] = "idle"]
    /\ UNCHANGED <<rgKey, rgOwner, rgBeat, rgMark, rgList, rgFaults>>

Faulty == rgFaults < MaxRedisFaults /\ rgFaults' = rgFaults + 1

\* Redis fails between the two: the key is there, the name is not.
SaveFails(e) ==
    /\ rgSave[e] = "added"
    /\ Faulty
    /\ rgSave' = [rgSave EXCEPT ![e] = "idle"]
    /\ UNCHANGED <<rgKey, rgNames, rgOwner, rgBeat, rgMark, rgList>>

\* update_agent_heartbeat reads the key, and writes it when it was there.
Heartbeat(a) ==
    /\ rgOwner[a] = "up" /\ ~rgBeat[a]
    /\ rgBeat' = [rgBeat EXCEPT ![a] = rgKey[a] # "gone"]
    /\ UNCHANGED <<rgKey, rgNames, rgOwner, rgSave, rgMark, rgList, rgFaults>>

HeartbeatSet(a) ==
    /\ rgBeat[a]
    /\ rgBeat' = [rgBeat EXCEPT ![a] = FALSE]
    /\ rgKey' = [rgKey EXCEPT ![a] = "timed"]
    /\ UNCHANGED <<rgNames, rgOwner, rgSave, rgMark, rgList, rgFaults>>

\* set_agent_status does the same, with a SET that has no end.
SetAgentStatus(a) ==
    /\ ~rgMark[a] /\ rgKey[a] # "gone"
    /\ rgMark' = [rgMark EXCEPT ![a] = TRUE]
    /\ UNCHANGED <<rgKey, rgNames, rgOwner, rgSave, rgBeat, rgList, rgFaults>>

StatusSet(a) ==
    /\ rgMark[a]
    /\ rgMark' = [rgMark EXCEPT ![a] = FALSE]
    /\ rgKey' = [rgKey EXCEPT ![a] = "kept"]
    /\ UNCHANGED <<rgNames, rgOwner, rgSave, rgBeat, rgList, rgFaults>>

\* list_agents, list_bot_statuses: SMEMBERS, a GET for every name, and an SREM
\* for one that had no answer: its key is gone, or the request failed, which
\* get_agent and get_bot_status answer with None as well.
ListNames(l) ==
    /\ ~rgList[l].on
    /\ rgList' = [rgList EXCEPT ![l] = [RgIdle EXCEPT !.on = TRUE, !.todo = rgNames \cap l]]
    /\ UNCHANGED <<rgKey, rgNames, rgOwner, rgSave, rgBeat, rgMark, rgFaults>>

ListGet(l, e, fails) ==
    /\ e \in rgList[l].todo /\ rgList[l].expired = "none"
    /\ IF fails THEN Faulty ELSE UNCHANGED rgFaults
    /\ rgList' = [rgList EXCEPT ![l].todo = @ \ {e},
                                ![l].expired = IF fails \/ rgKey[e] = "gone" THEN e ELSE "none"]
    /\ UNCHANGED <<rgKey, rgNames, rgOwner, rgSave, rgBeat, rgMark>>

\* mutant of ListRemove: the expired are left out of the answer only
ListRemove_Never(l, e) ==
    /\ rgList[l].expired = e
    /\ rgList' = [rgList EXCEPT ![l].expired = "none"]
    /\ UNCHANGED <<rgKey, rgNames, rgOwner, rgSave, rgBeat, rgMark, rgFaults>>

ListRemove(l, e) ==
    /\ rgList[l].expired = e
    /\ rgNames' = rgNames \ {e}
    /\ rgList' = [rgList EXCEPT ![l].expired = "none"]
    /\ UNCHANGED <<rgKey, rgOwner, rgSave, rgBeat, rgMark, rgFaults>>

ListReturns(l) ==
    /\ rgList[l].on /\ rgList[l].todo = {} /\ rgList[l].expired = "none"
    /\ rgList' = [rgList EXCEPT ![l] = RgIdle]
    /\ UNCHANGED <<rgKey, rgNames, rgOwner, rgSave, rgBeat, rgMark, rgFaults>>

\* An SREM fails: the rest of the names are not looked at.
ListFails(l) ==
    /\ rgList[l].expired # "none"
    /\ Faulty
    /\ rgList' = [rgList EXCEPT ![l] = RgIdle]
    /\ UNCHANGED <<rgKey, rgNames, rgOwner, rgSave, rgBeat, rgMark>>

\* A listing under way goes on to its end.
ListSteps(l) ==
    \/ ListNames(l) \/ ListReturns(l)
    \/ \E e \in l : ListGet(l, e, FALSE) \/ ListRemove(l, e)

KeyExpires(e) ==
    /\ rgKey[e] = "timed"
    /\ rgKey' = [rgKey EXCEPT ![e] = "gone"]
    /\ UNCHANGED <<rgNames, rgOwner, rgSave, rgBeat, rgMark, rgList, rgFaults>>

\* The key of an entry whose process is gone.
DeadKeyExpires(e) == rgOwner[e] = "down" /\ KeyExpires(e)

OwnerDies(e) ==
    /\ rgOwner[e] = "up" /\ rgSave[e] = "idle"
    /\ rgOwner' = [rgOwner EXCEPT ![e] = "down"]
    /\ UNCHANGED <<rgKey, rgNames, rgSave, rgBeat, rgMark, rgList, rgFaults>>

RegNext ==
    \/ \E e \in Entries : SaveKey(e) \/ SaveName(e) \/ SaveFails(e) \/ KeyExpires(e) \/ OwnerDies(e)
    \/ \E a \in RegAgents : Heartbeat(a) \/ HeartbeatSet(a) \/ SetAgentStatus(a) \/ StatusSet(a)
    \/ \E l \in Listers :
           \/ ListNames(l) \/ ListReturns(l) \/ ListFails(l)
           \/ \E e \in l : ListRemove(l, e) \/ \E fails \in BOOLEAN : ListGet(l, e, fails)

\* The launcher's loop goes on and dashboards go on asking for both lists; Redis
\* serves a command or fails it; the key of a process that is gone expires.
RegFairness ==
    /\ \A e \in Entries :
           WF_rgVars(SaveKey(e)) /\ WF_rgVars(SaveName(e)) /\ WF_rgVars(DeadKeyExpires(e))
    /\ \A a \in RegAgents : WF_rgVars(HeartbeatSet(a)) /\ WF_rgVars(StatusSet(a))
    /\ \A l \in Listers : WF_rgVars(ListSteps(l))

RegSpec == RegInit /\ [][RegNext]_rgVars /\ RegFairness

------------------------------------------------------------------------------
RegTypeOK ==
    /\ \A e \in Entries : /\ rgKey[e] \in {"gone", "timed", "kept"} /\ rgSave[e] \in {"idle", "added"}
                          /\ rgOwner[e] \in {"new", "up", "down"}
    /\ rgNames \subseteq Entries
    /\ \A l \in Listers : rgList[l].todo \subseteq Entries

\* A bot that goes on saving its status is on the list again and again, whatever
\* listings take off it for a key they saw expired before the last save.
RunningIsListed == \A b \in RegBots : []<>(b \in rgNames \/ rgOwner[b] # "up")

\* A process that is gone leaves the list for good, unless its key was made to last
\* by set_agent_status: commands that had read its key come to their ends.
DeadIsForgotten ==
    \A e \in Entries : rgOwner[e] = "down" ~> (rgKey[e] = "kept" \/ [](e \notin rgNames))
==============================================================================
