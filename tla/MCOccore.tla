------------------------------ MODULE MCOccore ------------------------------
(***************************************************************************)
(* The bot manager and the position manager of occore on small instances.  *)
(* They share no variable: the initial state chooses the one that runs,    *)
(* and whether its exchange is a mock.  The bot manager runs on the mock   *)
(* with every caller and the monitoring loop at once, and on the real      *)
(* exchange, where connect() suspends, with one operator who calls one     *)
(* method after the other; the position manager in real trading and in the *)
(* dry run.  The same model values name the stacks and the orders, the     *)
(* callers and the symbols, so that one symmetry serves both.              *)
(***************************************************************************)
EXTENDS BotManager, PositionManager, TLC

CONSTANT Operator  \* the one caller of the real exchange

VARIABLE which

Real == INSTANCE BotManager WITH
            MockExchange <- FALSE, Callers <- {Operator}, AutoRestart <- FALSE, MaxRuntime <- FALSE

Dry == INSTANCE PositionManager WITH DryRun <- TRUE

OccoreInit ==
    /\ PmInit
    /\ \/ which \in {"mock", "positions", "dryrun"} /\ MgrInit
       \/ which = "real" /\ Real!MgrInit

OccoreNext ==
    /\ UNCHANGED which
    /\ \/ which = "mock" /\ MgrNext /\ UNCHANGED allVars
       \/ which = "real" /\ Real!MgrNext /\ UNCHANGED allVars
       \/ which = "positions" /\ PmNext /\ UNCHANGED mgrVars
       \/ which = "dryrun" /\ Dry!PmNext /\ UNCHANGED mgrVars

OccoreSpec == OccoreInit /\ [][OccoreNext]_<<which, mgrVars, allVars>>

Interchangeable == Permutations(Ids) \cup Permutations(Callers)
=============================================================================
