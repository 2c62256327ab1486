---------------------------- MODULE MCProcesses ----------------------------
(***************************************************************************)
(* The parts that start processes, each on its own, as in MCNames.         *)
(***************************************************************************)
EXTENDS SprocMgr, ExeCmd, ResinWorker, ResinServer

VARIABLE part

vars == <<part, spVars, ecVars, rwVars, rsVars>>

Init ==
    /\ part \in {"sproc", "cmd", "worker", "server"}
    /\ SpInit /\ EcInit /\ RwInit /\ RsInit

Next ==
    /\ UNCHANGED part
    /\ \/ part = "sproc" /\ SpNext /\ UNCHANGED <<ecVars, rwVars, rsVars>>
       \/ part = "cmd" /\ EcNext /\ UNCHANGED <<spVars, rwVars, rsVars>>
       \/ part = "worker" /\ RwNext /\ UNCHANGED <<spVars, ecVars, rsVars>>
       \/ part = "server" /\ RsNext /\ UNCHANGED <<spVars, ecVars, rwVars>>

Spec == Init /\ [][Next]_vars /\ SpFairness /\ RwFairness

(* exe_cmd returns what its command wrote (CommandComplete), a task taken  *)
(* from the queue runs once (TaskRunsOnce) and the application that runs   *)
(* keeps its files (RunningAppPresent).                                    *)
CommandsSound == CommandComplete /\ TaskRunsOnce /\ RunningAppPresent

(* A server that dies is started again (DeadRestarted), and a worker that  *)
(* wants to stop does (WorkerStops).                                       *)
ProcessesProceed == DeadRestarted /\ WorkerStops
=============================================================================
