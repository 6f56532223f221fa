--------------------------------- MODULE MCServices ---------------------------------
(* The services around the trading stack whose calls must come to an end, on   *)
(* small instances.  They share no variable: the initial state chooses the one *)
(* that runs, and a run of TLC goes through them all.                          *)
EXTENDS BotManager, CapitalController, DailySettlement, JitoSender, BotRegistry

\* Values of constants.
BotsInOrder == <<"b1", "b3", "b2">>

VARIABLE which

serviceVars == <<which, mgrVars, capVars, svars, jvars, rgVars>>

\* The others stay as they are.
Only(part) ==
    /\ which = part /\ UNCHANGED which
    /\ part # "manager"    => UNCHANGED mgrVars
    /\ part # "capital"    => UNCHANGED capVars
    /\ part # "settlement" => UNCHANGED svars
    /\ part # "jito"       => UNCHANGED jvars
    /\ part # "registry"   => UNCHANGED rgVars

ServicesInit ==
    /\ which \in {"manager", "capital", "settlement", "jito", "registry"}
    /\ MgrInit /\ CapInit /\ SInit /\ JitoInit /\ RegInit

ServicesNext ==
    \/ Only("manager")    /\ MgrNext
    \/ Only("capital")    /\ CapNext
    \/ Only("settlement") /\ SNext
    \/ Only("jito")       /\ JitoNext
    \/ Only("registry")   /\ RegNext

\* The fairness of the modules, each for the part it belongs to.
In(part, A) == Only(part) /\ A

ServicesFairness ==
    /\ \A t \in Actors : WF_mgrVars(In("manager", Awaited(t)))
    /\ \A t \in Actors : WF_mgrVars(In("manager", RiskStops(t)))
    /\ \A t \in Actors : WF_mgrVars(In("manager", EngineStops(t)))
    /\ \A i \in Ids : WF_mgrVars(In("manager", LoopEnds(i)))
    /\ \A i \in Ids : WF_mgrVars(In("manager", LoopSafeStop(i)))
    /\ \A u \in Users : WF_capVars(In("capital", TransferEnds(u)))
    /\ \A t \in Settlers : WF_svars(In("settlement", SAnswer(t)))
    /\ WF_jvars(In("jito", TakeBundle))
    /\ \A b \in Bundles : WF_jvars(In("jito", JitoAnswered(b)))
    /\ \A e \in Entries : WF_rgVars(In("registry", SaveKey(e)))
    /\ \A e \in Entries : WF_rgVars(In("registry", SaveName(e)))
    /\ \A e \in Entries : WF_rgVars(In("registry", DeadKeyExpires(e)))
    /\ \A a \in RegAgents : WF_rgVars(In("registry", HeartbeatSet(a)))
    /\ \A a \in RegAgents : WF_rgVars(In("registry", StatusSet(a)))
    /\ \A l \in Listers : WF_rgVars(In("registry", ListSteps(l)))

ServicesSpec == ServicesInit /\ [][ServicesNext]_serviceVars /\ ServicesFairness

\* The types of every part.
ServicesTypeOK ==
    /\ MgrTypeOK /\ CapTypeOK /\ STypeOK /\ JitoTypeOK /\ RegTypeOK

\* Every call of a service that somebody waits for ends: a stop of a bot, an
\* approval, a settlement, a bundle in the sender's queue; and in the registries
\* what runs is listed again and again, what is gone is forgotten.
ServicesEnd ==
    /\ StopCompletes /\ ApprovalSettles /\ SettlementEnds /\ BundlesAreServed
    /\ RunningIsListed /\ DeadIsForgotten
==============================================================================
