---------------------------------- MODULE MCFleet ----------------------------------
(* The manager of department 7, its averaging bot, the launcher of its bots,   *)
(* and the message bus and the RPC manager its services use, on small          *)
(* instances.  They share no variable: the initial state chooses the one that  *)
(* runs, and a run of TLC goes through them all.                               *)
EXTENDS UnifiedBotManager, DCABot, RunAllBots, MessageBus, RPCManager

\* Values of constants.
BusTypeOf == [e \in {"e1", "f2"} |-> IF e = "f2" THEN "signal" ELSE "order"]
RpcInOrder == <<"alchemy", "chainstack">>

VARIABLE which

fleetVars == <<which, uvars, dvars, lvars, mvars, rvars>>

\* The others stay as they are.
Only(part) ==
    /\ which = part /\ UNCHANGED which
    /\ part # "manager"  => UNCHANGED uvars
    /\ part # "dca"      => UNCHANGED dvars
    /\ part # "launcher" => UNCHANGED lvars
    /\ part # "bus"      => UNCHANGED mvars
    /\ part # "rpc"      => UNCHANGED rvars

FleetInit ==
    /\ which \in {"manager", "dca", "launcher", "bus", "rpc"}
    /\ UInit /\ DcaInit /\ LInit /\ BusInit /\ RpcInit

FleetNext ==
    \/ Only("manager")  /\ UNext
    \/ Only("dca")      /\ DcaNext
    \/ Only("launcher") /\ LNext
    \/ Only("bus")      /\ BusNext
    \/ Only("rpc")      /\ RpcNext

\* The fairness of the modules, each for the part it belongs to.
In(part, A) == Only(part) /\ A

FleetFairness ==
    /\ \A s \in Slots : WF_uvars(In("manager", UCallStep(s)))
    /\ \A b \in UBots : WF_uvars(In("manager", KillStop(b)))
    /\ \A b \in UBots : WF_uvars(In("manager", uTask[b] = "cancelled" /\ RunEnds(b,
                  "STOPPED")))
    /\ WF_uvars(In("manager", KillReturns))
    /\ WF_dvars(In("dca", DcaAnswered))
    /\ \A b \in LBots : WF_lvars(In("launcher", MainStops(b)))
    /\ \A b \in LBots : WF_lvars(In("launcher", OwnStop(b)))
    /\ \A b \in LBots, who \in {"own", "main"} : WF_lvars(In("launcher", SaleEnds(b, who)))
    /\ WF_lvars(In("launcher", AllStopped))
    /\ \A e \in Local : WF_mvars(In("bus", NotifyLocal(e)))
    /\ WF_rvars(In("rpc", HealthStep))
    /\ \A c \in RpcCallers : WF_rvars(In("rpc", CallEnds(c)))

FleetSpec == FleetInit /\ [][FleetNext]_fleetVars /\ FleetFairness

\* The types of every part.
FleetTypeOK ==
    /\ UTypeOK /\ DcaTypeOK /\ LTypeOK /\ BusTypeOK /\ RpcTypeOK

\* Every stop of a bot, kill switch, shutdown, delivery and RPC call ends, and the
\* best endpoint that answers comes back into use.
FleetEnds ==
    /\ StopEnds /\ KillEnds /\ ShutdownEnds /\ LocalIsServed /\ CallsEnd
    /\ BestEndpointServes
==============================================================================
