------------------------------ MODULE SprocMgr ------------------------------
(***************************************************************************)
(* sproc_mgr.cpp: the parent process that keeps one server process going.  *)
(*                                                                         *)
(* start_server forks the new server, waits until it says that it is       *)
(* ready, stops the old one and then tells the new one to accept; a thread *)
(* per child waits for its death and, if the child is still in             *)
(* running_procs_map, starts another.  The parent keeps both ends of the   *)
(* command pipe of a proc_info, so a command that a child did not read     *)
(* waits there for the child that is started in its place, and a child     *)
(* that dies closes nothing: only read_ok's timer, of 10000 seconds, ends  *)
(* the wait for it, and it may also go off while the child still lives.    *)
(***************************************************************************)
EXTENDS Naturals, Sequences, FiniteSets

CONSTANTS SpPids,       \* process ids, given out in ascending order
          SpMaxCmds     \* commands a pipe may hold before send_sync adds one

ASSUME SpAssumption == SpPids \subseteq Nat \ {0}

VARIABLES
    spProc,     \* pid -> "none", "starting", "ready", "serving", "stopped", "dead"
    spInfo,     \* pid -> the proc_info it was started with, named by its first pid
    spPipe,     \* proc_info -> commands written and not yet read by a child
    spMap,      \* pids that are keys of running_procs_map
    spCur,      \* current_srv_pid
    spWatch,    \* pid -> its thread: "none", "poll", "starting", "done"
    spMgr,      \* the caller: "idle", "forked", "stopping" (holds the mutex), "crashed"
    spNew,      \* the child start_server has started
    spOld,      \* the child that is being stopped
    spHeir,     \* pid -> the pid that its watcher has started in its place
    spLate      \* history: processes whose stop was not awaited to its end

spVars == <<spProc, spInfo, spPipe, spMap, spCur, spWatch, spMgr, spNew, spOld,
            spHeir, spLate>>

NoPid == 0

SpInit ==
    /\ spProc = [p \in SpPids |-> "none"]
    /\ spInfo = [p \in SpPids |-> p]
    /\ spPipe = [p \in SpPids |-> <<>>]
    /\ spMap = {} /\ spCur = NoPid /\ spMgr = "idle"
    /\ spWatch = [p \in SpPids |-> "none"]
    /\ spNew = NoPid /\ spOld = NoPid
    /\ spHeir = [p \in SpPids |-> NoPid] /\ spLate = {}

Fresh(p) == spProc[p] = "none" /\ \A q \in SpPids : q < p => spProc[q] # "none"
Alive(p) == spProc[p] \in {"starting", "ready", "serving", "stopped"}
MutexFree == spMgr # "stopping" /\ \A p \in SpPids : spWatch[p] # "starting"

(* The outcomes of read_ok.  The child has answered; or the timer has gone *)
(* off, which it may at any moment, just before or just after the answer.  *)
(* A child that dies after its answer might as well die after the step     *)
(* that takes the answer.                                                  *)
ReadOk(p, answer) == spProc[p] = answer

(* start_child kills a child that read_ok gave up.                         *)
Killed(p) == spProc' = [spProc EXCEPT ![p] = "dead"]

(* write_cmd.                                                              *)
Command(info, c) == [spPipe EXCEPT ![info] = Append(@, c)]

(* The child: it says that it is ready; it obeys its commands (teflon      *)
(* ignores a second start and ends after a stop); and it may die.          *)
ChildReady(p) ==
    /\ spProc[p] = "starting"
    /\ spProc' = [spProc EXCEPT ![p] = "ready"]
    /\ UNCHANGED <<spInfo, spPipe, spMap, spCur, spWatch, spMgr, spNew, spOld,
                   spHeir, spLate>>

ChildReads(p) ==
    /\ spProc[p] \in {"ready", "serving"} /\ spPipe[spInfo[p]] # <<>>
    /\ LET c == Head(spPipe[spInfo[p]])
       IN spProc' = [spProc EXCEPT ![p] =
            CASE c = "start" -> "serving" [] c = "stop" -> "stopped" [] c = "sync" -> @]
    /\ spPipe' = [spPipe EXCEPT ![spInfo[p]] = Tail(@)]
    /\ UNCHANGED <<spInfo, spMap, spCur, spWatch, spMgr, spNew, spOld,
                   spHeir, spLate>>

ChildDies(p) ==
    /\ Alive(p)
    /\ spProc' = [spProc EXCEPT ![p] = "dead"]
    /\ UNCHANGED <<spInfo, spPipe, spMap, spCur, spWatch, spMgr, spNew, spOld,
                   spHeir, spLate>>

(* start_server up to read_ok in start_child.                              *)
StartServer(p) ==
    /\ spMgr = "idle" /\ Fresh(p)
    /\ spMgr' = "forked" /\ spNew' = p
    /\ spProc' = [spProc EXCEPT ![p] = "starting"]
    /\ UNCHANGED <<spInfo, spPipe, spMap, spCur, spWatch, spOld, spHeir, spLate>>

(* read_ok fails, for a dead child or a slow one: the child is killed and  *)
(* the exception goes to the caller.                                       *)
StartFails ==
    /\ spMgr = "forked"
    /\ Killed(spNew)
    /\ spMgr' = "idle"
    /\ UNCHANGED <<spInfo, spPipe, spMap, spCur, spWatch, spNew, spOld,
                   spHeir, spLate>>

(* Mutant: the old server stays in the map.                                *)
SwapKeepsOld ==
    /\ spMgr = "forked" /\ ReadOk(spNew, "ready")
    /\ MutexFree
    /\ spCur' = spNew /\ spMgr' = "stopping"
    /\ IF spCur \in spMap
       THEN /\ spPipe' = Command(spInfo[spCur], "stop")
            /\ spOld' = spCur /\ UNCHANGED spMap
       ELSE spOld' = NoPid /\ UNCHANGED <<spMap, spPipe>>
    /\ UNCHANGED <<spProc, spInfo, spWatch, spNew, spHeir, spLate>>

(* Under the mutex: the old server leaves the map and is told to stop.     *)
Swap ==
    /\ spMgr = "forked" /\ ReadOk(spNew, "ready")
    /\ MutexFree
    /\ spCur' = spNew /\ spMgr' = "stopping"
    /\ IF spCur \in spMap
       THEN /\ spPipe' = Command(spInfo[spCur], "stop")
            /\ spOld' = spCur /\ spMap' = spMap \ {spCur}
       ELSE spOld' = NoPid /\ UNCHANGED <<spMap, spPipe>>
    /\ UNCHANGED <<spProc, spInfo, spWatch, spNew, spHeir, spLate>>

(* write_stop returns, and what read_ok said is not looked at: the old one *)
(* has answered, or is dead, or has been given up while it still accepts.  *)
(* The new one is told to start, filed and watched.                        *)
StartNew ==
    /\ spMgr = "stopping"
    /\ spLate' = IF spOld = NoPid \/ ReadOk(spOld, "stopped") \/ ReadOk(spOld, "dead")
                 THEN spLate ELSE spLate \cup {spOld}
    /\ spPipe' = Command(spNew, "start")
    /\ spMap' = spMap \cup {spNew}
    /\ spWatch' = [spWatch EXCEPT ![spNew] = "poll"]
    /\ spMgr' = "idle"
    /\ UNCHANGED <<spProc, spInfo, spCur, spNew, spOld, spHeir>>

(* stop_server, and so sproc_mgr_term: the entry is read after it has been *)
(* erased; its proc_info was moved away, so the read is through null.      *)
StopServer ==
    /\ spMgr = "idle" /\ MutexFree
    /\ spCur' = NoPid
    /\ spMap' = spMap \ {spCur}
    /\ spMgr' = IF spCur \in spMap THEN "crashed" ELSE "idle"
    /\ UNCHANGED <<spProc, spInfo, spPipe, spWatch, spNew, spOld,
                   spHeir, spLate>>

SendSync ==
    /\ spMgr = "idle" /\ MutexFree /\ spCur \in spMap
    /\ Len(spPipe[spInfo[spCur]]) < SpMaxCmds
    /\ spPipe' = Command(spInfo[spCur], "sync")
    /\ UNCHANGED <<spProc, spInfo, spMap, spCur, spWatch, spMgr, spNew, spOld,
                   spHeir, spLate>>

(* The thread of p: its death is seen and reaped; under the mutex, a child *)
(* that is not in the map was meant to end, another is started again with  *)
(* the same proc_info.                                                     *)
WatchDeath(p) ==
    /\ spWatch[p] = "poll" /\ spProc[p] = "dead" /\ MutexFree
    /\ \/ /\ p \notin spMap
          /\ spWatch' = [spWatch EXCEPT ![p] = "done"]
          /\ UNCHANGED <<spProc, spInfo, spMap, spHeir>>
       \/ /\ p \in spMap
          /\ \E q \in SpPids :
               /\ Fresh(q)
               /\ spProc' = [spProc EXCEPT ![q] = "starting"]
               /\ spInfo' = [spInfo EXCEPT ![q] = spInfo[p]]
               /\ spHeir' = [spHeir EXCEPT ![p] = q]
          /\ spMap' = spMap \ {p}
          /\ spWatch' = [spWatch EXCEPT ![p] = "starting"]
    /\ UNCHANGED <<spPipe, spCur, spMgr, spNew, spOld, spLate>>

(* Mutant: the restarted process is not watched.                           *)
RestartedUnwatched(p) ==
    /\ spWatch[p] = "starting"
    /\ LET q == spHeir[p]
       IN \/ /\ ReadOk(q, "ready")
             /\ spPipe' = Command(spInfo[q], "start")
             /\ spMap' = spMap \cup {q}
             /\ spWatch' = [spWatch EXCEPT ![p] = "done"]
             /\ UNCHANGED <<spProc, spMgr>>
          \/ /\ Killed(q)
             /\ spMgr' = "crashed"
             /\ UNCHANGED <<spPipe, spMap, spWatch>>
    /\ UNCHANGED <<spInfo, spCur, spNew, spOld, spHeir, spLate>>

(* The new child is told to start, filed under its own pid and watched;    *)
(* current_srv_pid stays as it is.  If it died, or was too slow and so was *)
(* killed, the exception leaves the thread and ends the process.           *)
Restarted(p) ==
    /\ spWatch[p] = "starting"
    /\ LET q == spHeir[p]
       IN \/ /\ ReadOk(q, "ready")
             /\ spPipe' = Command(spInfo[q], "start")
             /\ spMap' = spMap \cup {q}
             /\ spWatch' = [spWatch EXCEPT ![p] = "done", ![q] = "poll"]
             /\ UNCHANGED <<spProc, spMgr>>
          \/ /\ Killed(q)
             /\ spMgr' = "crashed"
             /\ UNCHANGED <<spPipe, spMap, spWatch>>
    /\ UNCHANGED <<spInfo, spCur, spNew, spOld, spHeir, spLate>>

SpNext ==
    /\ spMgr # "crashed"
    /\ \/ \E p \in SpPids : \/ ChildReady(p) \/ ChildReads(p) \/ ChildDies(p)
                            \/ StartServer(p) \/ WatchDeath(p) \/ Restarted(p)
       \/ StartFails \/ Swap \/ StartNew \/ StopServer \/ SendSync

(* Threads are scheduled: read_ok ends through the timer if not before, so *)
(* nothing is assumed of the children.                                     *)
SpFairness ==
    /\ WF_spVars(spMgr # "crashed" /\ (StartFails \/ Swap \/ StartNew))
    /\ \A p \in SpPids :
         /\ SF_spVars(spMgr # "crashed" /\ WatchDeath(p))
         /\ WF_spVars(spMgr # "crashed" /\ Restarted(p))

-----------------------------------------------------------------------------
Heirs == {q \in SpPids : \E p \in SpPids : spHeir[p] = q}
Serving == {p \in SpPids : spProc[p] = "serving"}

(* Two processes accept connections at once only if a watcher started one  *)
(* of them or if start_server gave up waiting for one of them to stop:     *)
(* otherwise its swap never lets the new one accept before the old one has *)
(* stopped.                                                                *)
OneServer == Cardinality(Serving \ (Heirs \cup spLate)) <= 1

(* A server that start_server has stopped is not started again when its    *)
(* process ends, and nobody watches or files a process twice: the heirs of *)
(* different processes differ, and each entry of the map has its thread.   *)
StoppedStaysStopped ==
    /\ \A p \in SpPids : spOld = p => spHeir[p] = NoPid
    /\ \A p, r \in SpPids : p # r /\ spHeir[p] # NoPid => spHeir[p] # spHeir[r]
    /\ \A p \in spMap : spWatch[p] = "poll"

(* OneServer and StoppedStaysStopped.                                      *)
ServersSound == OneServer /\ StoppedStaysStopped

(* A server that dies and was not told to stop is started again, as long   *)
(* as the parent lives and process ids are left.                           *)
DeadRestarted == \A p \in SpPids :
    p \in spMap /\ spProc[p] = "dead"
        ~> \/ spHeir[p] # NoPid \/ spMgr = "crashed" \/ p \notin spMap
           \/ \A q \in SpPids : spProc[q] # "none"
=============================================================================
