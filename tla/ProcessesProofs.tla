-------------------------- MODULE ProcessesProofs --------------------------
(***************************************************************************)
(* Proofs about the parts that start processes: exe_cmd, the worker and    *)
(* the server of resin, and sproc_mgr.                                     *)
(***************************************************************************)
EXTENDS MCProcesses, FiniteSetTheorems, TLAPS

-----------------------------------------------------------------------------
(* exe_cmd.                                                                *)

CmdTypeOK ==
    /\ ecBash \in {"none", "running", "exited", "reaped"}
    /\ ecCode \in BOOLEAN /\ ecOthers \in BOOLEAN /\ ecBroken \in BOOLEAN
    /\ ecWritten \in Nat /\ ecRead \in Nat
    /\ ecReader \in {"none", "reading", "gone"}
    /\ ecEvent \in {"none", "armed", "fiber", "told"}
    /\ ecPc \in {"start", "child", "reader", "returned", "threw"}

(* The event of the exit and the reading fiber exist from the same moment, *)
(* and only for a process; the event follows the exit, and the caller      *)
(* follows the event.                                                      *)
CmdStages ==
    /\ (ecReader = "none") <=> (ecEvent = "none")
    /\ ecBash = "none" => ecReader = "none"
    /\ ecPc = "start" => ecBash = "none" /\ ~ecOthers
    /\ ecPc \in {"child", "reader", "returned"} => ecReader # "none"
    /\ ecEvent \in {"fiber", "told"} => ecBash \in {"exited", "reaped"}
    /\ ecPc = "reader" => ecEvent = "told"

(* Only the end of the output, with nobody left to write, or an error ends *)
(* the reading fiber.                                                      *)
CmdRead == ecReader = "gone" =>
    ecBroken \/ (ecRead = ecWritten /\ ~ecOthers /\ ecBash \in {"exited", "reaped"})

CmdInv == CmdTypeOK /\ CmdStages /\ CmdRead /\ CommandComplete

(* Every step of exe_cmd keeps CmdInv.                                     *)
LEMMA CmdStep == CmdInv /\ [EcNext]_ecVars => CmdInv'
<1> SUFFICES ASSUME CmdInv, [EcNext]_ecVars PROVE CmdInv'
  OBVIOUS
<1> USE DEF CmdInv, CmdTypeOK, CmdStages, CmdRead, CommandComplete
<1>1. CASE ExeCmdStarts
  BY <1>1 DEF ExeCmdStarts
<1>2. CASE CommandRuns
  <2>1. CmdTypeOK'
    <3>1. ecCode' \in BOOLEAN /\ ecOthers' \in BOOLEAN /\ ecBroken' \in BOOLEAN
      BY <1>2, Zenon DEF CommandRuns
    <3>2. ecWritten' \in Nat /\ ecBash' \in {"none", "running", "exited", "reaped"}
      BY <1>2 DEF CommandRuns
    <3>3. UNCHANGED <<ecRead, ecReader, ecEvent, ecPc>>
      BY <1>2 DEF CommandRuns
    <3> QED BY <3>1, <3>2, <3>3
  <2>2. CmdStages'
    BY <1>2 DEF CommandRuns
  <2>3. CmdRead' /\ CommandComplete'
    BY <1>2 DEF CommandRuns
  <2> QED BY <2>1, <2>2, <2>3
<1>3. CASE ReadOutput
  <2>1. CmdTypeOK'
    <3>1. ecCode' \in BOOLEAN /\ ecOthers' \in BOOLEAN /\ ecBroken' \in BOOLEAN
      BY <1>3, Zenon DEF ReadOutput
    <3>2. ecRead' \in Nat /\ ecReader' \in {"none", "reading", "gone"}
      BY <1>3 DEF ReadOutput
    <3>3. UNCHANGED <<ecWritten, ecBash, ecEvent, ecPc>>
      BY <1>3 DEF ReadOutput
    <3> QED BY <3>1, <3>2, <3>3
  <2>2. CmdStages'
    BY <1>3 DEF ReadOutput
  <2>3. CmdRead'
    BY <1>3 DEF ReadOutput
  <2>4. CommandComplete'
    BY <1>3 DEF ReadOutput
  <2> QED BY <2>1, <2>2, <2>3, <2>4
<1>4. CASE ChildExits
  BY <1>4 DEF ChildExits
<1>5. CASE ExeCmdWaits
  BY <1>5 DEF ExeCmdWaits
<1>6. CASE UNCHANGED ecVars
  BY <1>6 DEF ecVars
<1> QED BY <1>1, <1>2, <1>3, <1>4, <1>5, <1>6 DEF EcNext

-----------------------------------------------------------------------------
(* The worker of resin.                                                    *)

WorkTypeOK ==
    /\ rwMsg \in [RwTasks -> {"queued", "flight", "deleted"}]
    /\ rwGives \in Nat \ {0} /\ rwOver \in BOOLEAN
    /\ rwLeft \in [RwTasks -> Nat]
    /\ rwRan \in [RwTasks -> Nat]
    /\ rwKeep \subseteq RwTasks /\ rwBatch \subseteq RwTasks
    /\ rwTimer \in 0..RwRefresh /\ rwPoll \in 0..RwPollMax
    /\ rwKa \in {"none", "poll", "send", "rearm", "ended"}
    /\ rwMain \in {"none", "receive", "arm", "run", "delete", "stop", "join", "ended"}
    /\ rwMain \in {"arm", "run", "delete"} => rwTask \in RwTasks
    /\ rwLost \in BOOLEAN /\ rwStop \in BOOLEAN

(* The threads start together, and the second ends only after the first    *)
(* has set stop, which it does when it takes no more messages.             *)
WorkThreads ==
    /\ (rwMain = "none") <=> (rwKa = "none")
    /\ rwMain = "none" => \A m \in RwTasks : rwMsg[m] = "queued" /\ rwRan[m] = 0
    /\ rwStop <=> (rwMain \in {"join", "ended"})
    /\ rwKa = "ended" => rwStop

(* The refresh of a message that was just received is still to come: its   *)
(* thread is about to set the timer to now, or has done so.                *)
RefreshDue(m) ==
    /\ rwTimer = 0 \/ (rwMain = "arm" /\ m = rwTask)
    /\ rwLeft[m] > 0
    /\ rwGives > RwRefresh => rwLeft[m] > RwRefresh

(* What is left of a message's visibility outlasts the time until the next *)
(* refresh: the time until the thread wakes, while it polls; the whole     *)
(* period, once it goes to set the timer again.                            *)
Outlasts(m) ==
    /\ m \in rwKeep
    /\ rwKa = "poll" => rwLeft[m] > rwTimer \/ rwLeft[m] > rwPoll \/ RefreshDue(m)
    /\ rwKa = "send" => m \in rwBatch \/ rwLeft[m] > RwRefresh \/ RefreshDue(m)
    /\ rwKa = "rearm" => rwLeft[m] > RwRefresh \/ RefreshDue(m)

(* Until the second thread has ended, a message in flight stays so, and a  *)
(* message that is queued has not been run.                                *)
WorkKept == ~rwLost /\ (rwOver => rwGives > RwRefresh) =>
    /\ rwKa # "ended" => \A m \in RwTasks :
         /\ rwMsg[m] = "flight" => Outlasts(m)
         /\ rwMsg[m] = "queued" => rwRan[m] = 0
    /\ rwMain \in {"arm", "run"} => rwRan[rwTask] = 0

WorkInv == WorkTypeOK /\ WorkThreads /\ WorkKept /\ TaskRunsOnce

(* Every step of the worker keeps WorkInv.                                 *)
LEMMA WorkStep == WorkInv /\ [RwNext]_rwVars => WorkInv'
<1> SUFFICES ASSUME WorkInv, [RwNext]_rwVars PROVE WorkInv'
  OBVIOUS
<1> USE RwAssumption DEF RwAssumption, WorkInv, WorkTypeOK, WorkThreads, WorkKept, Outlasts, RefreshDue, TaskRunsOnce, KaDue, Less, rwKaVars, rwFixed,
           RwRefresh, RwVis, RwPollMax
<1>1. CASE RunWorker
  <2>1. WorkTypeOK'
    BY <1>1 DEF RunWorker
  <2>2. WorkThreads'
    BY <1>1 DEF RunWorker
  <2>3. WorkKept'
    BY <1>1 DEF RunWorker
  <2>4. TaskRunsOnce'
    BY <1>1 DEF RunWorker
  <2> QED BY <2>1, <2>2, <2>3, <2>4
<1>2. CASE TimePasses
  <2>1. WorkTypeOK'
    BY <1>2 DEF TimePasses
  <2>2. WorkThreads'
    BY <1>2 DEF TimePasses
  <2>3. WorkKept'
    BY <1>2 DEF TimePasses
  <2>4. TaskRunsOnce'
    BY <1>2 DEF TimePasses
  <2> QED BY <2>1, <2>2, <2>3, <2>4
<1>3. CASE ArmNow
  <2>1. WorkTypeOK'
    BY <1>3 DEF ArmNow
  <2>2. WorkThreads'
    BY <1>3 DEF ArmNow
  <2>3. WorkKept'
    BY <1>3 DEF ArmNow
  <2>4. TaskRunsOnce'
    BY <1>3 DEF ArmNow
  <2> QED BY <2>1, <2>2, <2>3, <2>4
<1>4. CASE RunTask
  <2>1. WorkTypeOK'
    BY <1>4 DEF RunTask
  <2>2. WorkThreads'
    BY <1>4 DEF RunTask
  <2>3. WorkKept'
    BY <1>4 DEF RunTask
  <2>4. TaskRunsOnce'
    BY <1>4 DEF RunTask
  <2> QED BY <2>1, <2>2, <2>3, <2>4
<1>5. CASE DeleteTask
  <2>1. WorkTypeOK'
    BY <1>5 DEF DeleteTask
  <2>2. WorkThreads'
    BY <1>5 DEF DeleteTask
  <2>3. WorkKept'
    BY <1>5 DEF DeleteTask
  <2>4. TaskRunsOnce'
    BY <1>5 DEF DeleteTask
  <2> QED BY <2>1, <2>2, <2>3, <2>4
<1>6. CASE NoTasks
  <2>1. WorkTypeOK'
    BY <1>6 DEF NoTasks
  <2>2. WorkThreads'
    BY <1>6 DEF NoTasks
  <2>3. WorkKept'
    BY <1>6 DEF NoTasks
  <2>4. TaskRunsOnce'
    BY <1>6 DEF NoTasks
  <2> QED BY <2>1, <2>2, <2>3, <2>4
<1>7. CASE StopWorker
  <2>1. WorkTypeOK'
    <3>1. rwLost' \in BOOLEAN /\ rwStop' \in BOOLEAN /\ rwOver' \in BOOLEAN
      BY <1>7, Zenon DEF StopWorker
    <3>2. rwTimer' \in 0..RwRefresh /\ rwMain' \in {"join", "ended"}
      BY <1>7 DEF StopWorker
    <3>3. UNCHANGED <<rwGives, rwMsg, rwLeft, rwRan, rwKeep, rwPoll, rwKa, rwBatch, rwTask>>
      BY <1>7 DEF StopWorker
    <3> QED BY <3>1, <3>2, <3>3
  <2>2. WorkThreads'
    BY <1>7 DEF StopWorker
  <2>3. WorkKept'
    BY <1>7 DEF StopWorker
  <2>4. TaskRunsOnce'
    BY <1>7 DEF StopWorker
  <2> QED BY <2>1, <2>2, <2>3, <2>4
<1>8. CASE KeepAliveWakes
  <2>1. WorkTypeOK'
    BY <1>8 DEF KeepAliveWakes
  <2>2. WorkThreads'
    BY <1>8 DEF KeepAliveWakes
  <2>3. WorkKept'
    BY <1>8 DEF KeepAliveWakes
  <2>4. TaskRunsOnce'
    BY <1>8 DEF KeepAliveWakes
  <2> QED BY <2>1, <2>2, <2>3, <2>4
<1>9. CASE KeepAliveSends
  <2>1. WorkTypeOK'
    <3>1. rwLost' \in BOOLEAN /\ rwStop' \in BOOLEAN /\ rwOver' \in BOOLEAN
      BY <1>9, Zenon DEF KeepAliveSends
    <3>2. rwLeft' \in [RwTasks -> Nat] /\ rwKa' = "rearm" /\ rwBatch' = {}
      BY <1>9 DEF KeepAliveSends
    <3>3. UNCHANGED <<rwGives, rwMsg, rwRan, rwKeep, rwTimer, rwPoll, rwMain, rwTask>>
      BY <1>9 DEF KeepAliveSends
    <3> QED BY <3>1, <3>2, <3>3
  <2>2. WorkThreads'
    BY <1>9 DEF KeepAliveSends
  <2>3. WorkKept'
    BY <1>9 DEF KeepAliveSends
  <2>4. TaskRunsOnce'
    BY <1>9 DEF KeepAliveSends
  <2> QED BY <2>1, <2>2, <2>3, <2>4
<1>10. CASE KeepAliveRearms
  <2>1. WorkTypeOK'
    <3>1. rwOver' \in BOOLEAN /\ rwLost' \in BOOLEAN /\ rwStop' \in BOOLEAN
      BY <1>10, Zenon DEF KeepAliveRearms
    <3>2. rwTimer' \in 0..RwRefresh /\ rwPoll' \in 0..RwPollMax /\ rwKa' = "poll"
      BY <1>10 DEF KeepAliveRearms
    <3>3. UNCHANGED <<rwGives, rwMsg, rwLeft, rwRan, rwKeep, rwBatch, rwMain, rwTask>>
      BY <1>10 DEF KeepAliveRearms
    <3> QED BY <3>1, <3>2, <3>3
  <2>2. WorkThreads'
    BY <1>10 DEF KeepAliveRearms
  <2>3. WorkKept'
    BY <1>10 DEF KeepAliveRearms
  <2>4. TaskRunsOnce'
    BY <1>10 DEF KeepAliveRearms
  <2> QED BY <2>1, <2>2, <2>3, <2>4
<1>11. ASSUME NEW m \in RwTasks, Receive(m) PROVE WorkInv'
  <2>1. WorkTypeOK'
    BY <1>11 DEF Receive
  <2>2. WorkThreads'
    BY <1>11 DEF Receive
  <2>3. WorkKept'
    BY <1>11 DEF Receive
  <2>4. TaskRunsOnce'
    BY <1>11 DEF Receive
  <2> QED BY <2>1, <2>2, <2>3, <2>4
<1>12. CASE UNCHANGED rwVars
  BY <1>12 DEF rwVars
<1> QED BY <1>1, <1>2, <1>3, <1>4, <1>5, <1>6, <1>7, <1>8, <1>9, <1>10, <1>11, <1>12 DEF RwNext

-----------------------------------------------------------------------------
(* The server of resin.                                                    *)

AppTypeOK ==
    /\ rsPub \in RsApps /\ rsCur \in RsApps \cup {RsNoApp}
    /\ rsRun \in RsApps \cup {RsNoApp} /\ rsUid \in RsApps \cup {RsNoApp}
    /\ rsFiles \in [RsApps -> {"none", "part", "full"}] /\ rsHad \in {"none", "part", "full"}
    /\ rsSync \in {"no", "query", "copy", "certs", "start", "running", "still", "failed", "threw"}
    /\ rsPc \in {"boot", "run", "starting", "listen", "accept", "head", "body", "spin", "reload",
                 "ended"}

(* sync_teflon_app copies the files of an application other than the one   *)
(* that runs, and a sync that has succeeded has a server.                  *)
AppSync ==
    /\ rsSync \in {"copy", "certs", "start"} => rsUid \in RsApps /\ rsUid # rsCur
    /\ rsSync \in {"running", "still"} => rsRun # RsNoApp
    /\ rsCur # RsNoApp => rsRun # RsNoApp

AppInv == AppTypeOK /\ AppSync /\ RunningAppPresent

(* Every step of the server keeps AppInv.                                  *)
LEMMA AppStep == AppInv /\ [RsNext]_rsVars => AppInv'
<1> SUFFICES ASSUME AppInv, [RsNext]_rsVars PROVE AppInv'
  OBVIOUS
<1> USE RsAssumption DEF RsAssumption, AppInv, AppTypeOK, AppSync, RunningAppPresent, CleanRoot, rsCtl
<1>1. CASE MetadataAnswers
  <2>1. AppTypeOK'
    BY <1>1 DEF MetadataAnswers
  <2>2. AppSync'
    BY <1>1 DEF MetadataAnswers
  <2>3. RunningAppPresent'
    BY <1>1 DEF MetadataAnswers
  <2> QED BY <2>1, <2>2, <2>3
<1>2. CASE Main
  <2>1. AppTypeOK'
    BY <1>2 DEF Main
  <2>2. AppSync'
    BY <1>2 DEF Main
  <2>3. RunningAppPresent'
    BY <1>2 DEF Main
  <2> QED BY <2>1, <2>2, <2>3
<1>3. CASE RunServer
  <2>1. AppTypeOK'
    BY <1>3 DEF RunServer
  <2>2. AppSync'
    BY <1>3 DEF RunServer
  <2>3. RunningAppPresent'
    BY <1>3 DEF RunServer
  <2> QED BY <2>1, <2>2, <2>3
<1>4. CASE SyncThrows
  <2>1. AppTypeOK'
    BY <1>4 DEF SyncThrows
  <2>2. AppSync'
    BY <1>4 DEF SyncThrows
  <2>3. RunningAppPresent'
    BY <1>4 DEF SyncThrows
  <2> QED BY <2>1, <2>2, <2>3
<1>5. CASE Query
  <2>1. AppTypeOK'
    BY <1>5 DEF Query
  <2>2. AppSync'
    BY <1>5 DEF Query
  <2>3. RunningAppPresent'
    BY <1>5 DEF Query
  <2> QED BY <2>1, <2>2, <2>3
<1>6. CASE CopyFiles
  <2>1. AppTypeOK'
    BY <1>6 DEF CopyFiles
  <2>2. AppSync'
    BY <1>6 DEF CopyFiles
  <2>3. RunningAppPresent'
    BY <1>6 DEF CopyFiles
  <2> QED BY <2>1, <2>2, <2>3
<1>7. CASE GetCerts
  <2>1. AppTypeOK'
    BY <1>7 DEF GetCerts
  <2>2. AppSync'
    BY <1>7 DEF GetCerts
  <2>3. RunningAppPresent'
    BY <1>7 DEF GetCerts
  <2> QED BY <2>1, <2>2, <2>3
<1>8. CASE StartApp
  <2>1. AppTypeOK'
    BY <1>8 DEF StartApp
  <2>2. AppSync'
    BY <1>8 DEF StartApp
  <2>3. RunningAppPresent'
    BY <1>8 DEF StartApp
  <2> QED BY <2>1, <2>2, <2>3
<1>9. CASE Started
  <2>1. AppTypeOK'
    BY <1>9 DEF Started
  <2>2. AppSync'
    BY <1>9 DEF Started
  <2>3. RunningAppPresent'
    BY <1>9 DEF Started
  <2> QED BY <2>1, <2>2, <2>3
<1>10. CASE ListenControl
  <2>1. AppTypeOK'
    BY <1>10 DEF ListenControl
  <2>2. AppSync'
    BY <1>10 DEF ListenControl
  <2>3. RunningAppPresent'
    BY <1>10 DEF ListenControl
  <2> QED BY <2>1, <2>2, <2>3
<1>11. CASE ReadHead
  <2>1. AppTypeOK'
    BY <1>11 DEF ReadHead
  <2>2. AppSync'
    BY <1>11 DEF ReadHead
  <2>3. RunningAppPresent'
    BY <1>11 DEF ReadHead
  <2> QED BY <2>1, <2>2, <2>3
<1>12. CASE ReadBody
  <2>1. AppTypeOK'
    BY <1>12 DEF ReadBody
  <2>2. AppSync'
    BY <1>12 DEF ReadBody
  <2>3. RunningAppPresent'
    BY <1>12 DEF ReadBody
  <2> QED BY <2>1, <2>2, <2>3
<1>13. CASE Reloaded
  <2>1. AppTypeOK'
    BY <1>13 DEF Reloaded
  <2>2. AppSync'
    BY <1>13 DEF Reloaded
  <2>3. RunningAppPresent'
    BY <1>13 DEF Reloaded
  <2> QED BY <2>1, <2>2, <2>3
<1>14. ASSUME NEW a \in RsApps, Publish(a) PROVE AppInv'
  <2>1. AppTypeOK'
    BY <1>14 DEF Publish
  <2>2. AppSync'
    BY <1>14 DEF Publish
  <2>3. RunningAppPresent'
    BY <1>14 DEF Publish
  <2> QED BY <2>1, <2>2, <2>3
<1>15. CASE UNCHANGED rsVars
  BY <1>15 DEF rsVars
<1> QED BY <1>1, <1>2, <1>3, <1>4, <1>5, <1>6, <1>7, <1>8, <1>9, <1>10, <1>11, <1>12, <1>13, <1>14, <1>15 DEF RsNext

-----------------------------------------------------------------------------
(* sproc_mgr.                                                              *)

SpTypeOK ==
    /\ spProc \in [SpPids -> {"none", "starting", "ready", "serving", "stopped", "dead"}]
    /\ spInfo \in [SpPids -> SpPids]
    /\ spPipe \in [SpPids -> Seq({"start", "stop", "sync"})]
    /\ spMap \subseteq SpPids /\ spCur \in SpPids \cup {NoPid}
    /\ spWatch \in [SpPids -> {"none", "poll", "starting", "done"}]
    /\ spMgr \in {"idle", "forked", "stopping", "crashed"}
    /\ spNew \in SpPids \cup {NoPid} /\ spOld \in SpPids \cup {NoPid}
    /\ spHeir \in [SpPids -> SpPids \cup {NoPid}] /\ spLate \subseteq SpPids

(* A pid that was not given out has left no trace, and the proc_info of    *)
(* another process is taken over only from the dead.                       *)
SpFresh ==
    /\ \A p \in SpPids : spProc[p] = "none" =>
         spPipe[p] = <<>> /\ spWatch[p] = "none" /\ spInfo[p] = p
    /\ \A p \in SpPids : spInfo[p] # p => spProc[spInfo[p]] = "dead"
    /\ \A p \in SpPids : spWatch[p] # "none" => spProc[p] # "none"

(* A process has an heir from the moment its watcher starts one; the heir  *)
(* is a process of its own, unwatched until it is filed.                   *)
SpHeirs ==
    /\ \A p \in SpPids : spWatch[p] \in {"none", "poll"} => spHeir[p] = NoPid
    /\ \A p \in SpPids : spHeir[p] # NoPid => spProc[spHeir[p]] # "none"
    /\ \A p \in SpPids : spWatch[p] = "starting" =>
         spHeir[p] # NoPid /\ spWatch[spHeir[p]] = "none"

(* start_server: the process that it starts is nobody's heir, unwatched    *)
(* and without a command until it is told to start; the one that is being  *)
(* stopped is in the map no more and will not be filed again.              *)
SpSwap ==
    /\ spMgr \in {"forked", "stopping"} =>
         /\ spNew # NoPid /\ spWatch[spNew] = "none" /\ spPipe[spNew] = <<>>
         /\ spNew \notin Heirs /\ spProc[spNew] \in {"starting", "ready", "dead"}
         /\ \A p \in SpPids : spInfo[p] = spNew => p = spNew
    /\ spMgr = "stopping" => spCur = spNew /\ \A p \in SpPids : spWatch[p] # "starting"
    /\ spOld # NoPid => spOld \notin spMap /\ spWatch[spOld] \in {"poll", "done"}
    /\ spMgr # "stopping" /\ spOld # NoPid =>
         spOld \in spLate \/ spProc[spOld] \in {"stopped", "dead"}
    /\ spMgr \in {"idle", "forked"} /\ spCur # NoPid => spCur \in spMap \/ spProc[spCur] = "dead"

(* Of the processes that start_server has started, only the current one,   *)
(* the one being started, the one being stopped and those whose stop was   *)
(* given up are not at their end.                                          *)
SpOwned ==
    /\ \A p \in SpPids \ Heirs : spInfo[p] = p
    /\ spMgr # "crashed" =>
         \A p \in SpPids \ Heirs : spProc[p] \in {"starting", "ready", "serving"} =>
            \/ p = spCur
            \/ spMgr = "forked" /\ p = spNew
            \/ spMgr = "stopping" /\ p = spOld
            \/ p \in spLate

(* OneServer, without the cardinality.                                     *)
SpOne == \A p, r \in Serving \ (Heirs \cup spLate) : p = r

SpInv == SpTypeOK /\ SpFresh /\ SpHeirs /\ SpSwap /\ SpOwned /\ SpOne /\ StoppedStaysStopped

Commands == {"start", "stop", "sync"}

(* write_cmd adds one command to one pipe.                                 *)
LEMMA CommandWritten ==
    ASSUME SpTypeOK, NEW info \in SpPids, NEW c \in Commands
    PROVE  /\ Command(info, c) \in [SpPids -> Seq(Commands)]
           /\ \A p \in SpPids \ {info} : Command(info, c)[p] = spPipe[p]
<1>1. Append(spPipe[info], c) \in Seq(Commands)
  BY DEF SpTypeOK, Commands
<1> QED BY <1>1 DEF SpTypeOK, Command, Commands

(* Every step of sproc_mgr keeps SpInv.                                    *)
LEMMA SpStep == SpInv /\ [SpNext]_spVars => SpInv'
<1> SUFFICES ASSUME SpInv, [SpNext]_spVars PROVE SpInv'
  OBVIOUS
<1>w. \A info \in SpPids, c \in Commands :
        /\ Command(info, c) \in [SpPids -> Seq(Commands)]
        /\ \A p \in SpPids \ {info} : Command(info, c)[p] = spPipe[p]
  BY CommandWritten DEF SpInv
<1>c. "start" \in Commands /\ "stop" \in Commands /\ "sync" \in Commands
  BY DEF Commands
<1>t. (spPipe' \in [SpPids -> Seq(Commands)])
        => spPipe' \in [SpPids -> Seq({"start", "stop", "sync"})]
  BY DEF Commands
<1> USE SpAssumption DEF SpAssumption, SpInv, NoPid
<1>0. CASE UNCHANGED spVars
  BY <1>0 DEF spVars, SpTypeOK, SpFresh, SpHeirs, SpSwap, SpOwned, SpOne, StoppedStaysStopped,
              Heirs, Serving
<1>1. ASSUME NEW p \in SpPids, spMgr # "crashed", ChildReady(p) PROVE SpInv'
  <2>1. SpTypeOK'
    BY <1>1 DEF ChildReady, SpTypeOK
  <2>2. SpFresh'
    BY <1>1 DEF ChildReady, SpTypeOK, SpFresh
  <2>3. SpHeirs'
    BY <1>1 DEF ChildReady, SpTypeOK, SpFresh, SpHeirs
  <2>4. SpSwap'
    BY <1>1 DEF ChildReady, SpTypeOK, SpFresh, SpHeirs, SpSwap, StoppedStaysStopped, Heirs
  <2>5. SpOwned'
    BY <1>1 DEF ChildReady, SpTypeOK, SpFresh, SpHeirs, SpSwap, SpOwned, Heirs
  <2>6. SpOne'
    BY <1>1 DEF ChildReady, SpTypeOK, SpSwap, SpOwned, SpOne, Serving, Heirs
  <2>7. StoppedStaysStopped'
    BY <1>1 DEF ChildReady, SpTypeOK, SpFresh, SpHeirs, SpSwap, StoppedStaysStopped
  <2> QED BY <2>1, <2>2, <2>3, <2>4, <2>5, <2>6, <2>7
<1>2. ASSUME NEW p \in SpPids, spMgr # "crashed", ChildReads(p) PROVE SpInv'
  <2>0. /\ spProc'[p] \in {"serving", "stopped", spProc[p]} /\ spProc[p] \in {"ready", "serving"}
        /\ \A r \in SpPids \ {p} : spProc'[r] = spProc[r]
    BY <1>2 DEF ChildReads, SpTypeOK
  <2>a. spMgr \in {"forked", "stopping"} => spInfo[p] # spNew /\ p # spNew
    BY <1>2 DEF ChildReads, SpTypeOK, SpSwap, SpOwned
  <2>b. \A r \in SpPids \ {spInfo[p]} : spPipe'[r] = spPipe[r]
    BY <1>2 DEF ChildReads, SpTypeOK
  <2>1. SpTypeOK'
    BY <1>2, <2>0, <2>a, <2>b, SMTT(30) DEF ChildReads, Commands, SpTypeOK
  <2>2. SpFresh'
    BY <1>2, <2>0, <2>a, <2>b DEF ChildReads, Commands, SpTypeOK, SpFresh
  <2>3. SpHeirs'
    BY <1>2, <2>0, <2>a, <2>b, SMTT(30) DEF ChildReads, Commands, SpTypeOK, SpFresh, SpHeirs
  <2>4. SpSwap'
    BY <1>2, <2>0, <2>a, <2>b, SMTT(30) DEF ChildReads, Commands, SpTypeOK, SpFresh, SpHeirs, SpSwap,
           StoppedStaysStopped, Heirs
  <2>5. SpOwned'
    <3>1. \A r \in SpPids : spProc'[r] \in {"starting", "ready", "serving"} =>
            spProc[r] \in {"starting", "ready", "serving"}
      BY <2>0 DEF SpTypeOK
    <3>2. UNCHANGED <<spInfo, spCur, spMgr, spNew, spOld, spHeir, spLate>>
      BY <1>2 DEF ChildReads
    <3> QED BY <3>1, <3>2 DEF SpOwned, Heirs
  <2>6. SpOne'
    BY <1>2, <2>0, <2>a, <2>b DEF ChildReads, Commands, SpTypeOK, SpSwap, SpOwned, SpOne, Serving,
           Heirs
  <2>7. StoppedStaysStopped'
    BY <1>2, <2>0, <2>a, <2>b DEF ChildReads, Commands, SpTypeOK, SpFresh, SpHeirs, SpSwap,
           StoppedStaysStopped
  <2> QED BY <2>1, <2>2, <2>3, <2>4, <2>5, <2>6, <2>7
<1>3. ASSUME NEW p \in SpPids, spMgr # "crashed", ChildDies(p) PROVE SpInv'
  <2>1. SpTypeOK'
    BY <1>3 DEF ChildDies, Alive, SpTypeOK
  <2>2. SpFresh'
    BY <1>3 DEF ChildDies, Alive, SpTypeOK, SpFresh
  <2>3. SpHeirs'
    BY <1>3 DEF ChildDies, Alive, SpTypeOK, SpFresh, SpHeirs
  <2>4. SpSwap'
    BY <1>3 DEF ChildDies, Alive, SpTypeOK, SpFresh, SpHeirs, SpSwap, StoppedStaysStopped, Heirs
  <2>5. SpOwned'
    BY <1>3 DEF ChildDies, Alive, SpTypeOK, SpFresh, SpHeirs, SpSwap, SpOwned, Heirs
  <2>6. SpOne'
    BY <1>3 DEF ChildDies, Alive, SpTypeOK, SpSwap, SpOwned, SpOne, Serving, Heirs
  <2>7. StoppedStaysStopped'
    BY <1>3 DEF ChildDies, Alive, SpTypeOK, SpFresh, SpHeirs, SpSwap, StoppedStaysStopped
  <2> QED BY <2>1, <2>2, <2>3, <2>4, <2>5, <2>6, <2>7
<1>4. ASSUME NEW p \in SpPids, spMgr # "crashed", StartServer(p) PROVE SpInv'
  <2>1. SpTypeOK'
    BY <1>4 DEF StartServer, Fresh, SpTypeOK
  <2>2. SpFresh'
    BY <1>4 DEF StartServer, Fresh, SpTypeOK, SpFresh
  <2>3. SpHeirs'
    BY <1>4 DEF StartServer, Fresh, SpTypeOK, SpFresh, SpHeirs
  <2>4. SpSwap'
    <3>1. /\ spMgr = "idle" /\ spMgr' = "forked" /\ spNew' = p /\ p # NoPid
          /\ spProc[p] = "none" /\ spProc' = [spProc EXCEPT ![p] = "starting"]
          /\ UNCHANGED <<spInfo, spPipe, spMap, spCur, spWatch, spOld, spHeir, spLate>>
      BY <1>4, SpAssumption DEF SpAssumption, NoPid, StartServer, Fresh
    <3>2. spWatch[p] = "none" /\ spPipe[p] = <<>> /\ p \notin Heirs
      BY <3>1 DEF SpFresh, SpHeirs, Heirs
    <3>3. \A q \in SpPids : spInfo[q] = p => q = p
      BY <3>1 DEF SpFresh
    <3>4. \A q \in SpPids : q # p => spProc'[q] = spProc[q]
      BY <3>1 DEF SpTypeOK
    <3>5. spProc'[p] = "starting" /\ Heirs' = Heirs
      BY <3>1 DEF SpTypeOK, Heirs
    <3>6. spOld # NoPid => spOld # p /\ spOld \in SpPids
      BY <3>1, <3>2 DEF SpTypeOK, SpSwap
    <3>7. spCur # NoPid => spCur \in SpPids /\ (spCur = p => spCur \in spMap)
      BY <3>1 DEF SpTypeOK, SpSwap
    <3> QED BY <3>1, <3>2, <3>3, <3>4, <3>5, <3>6, <3>7 DEF SpSwap
  <2>5. SpOwned'
    BY <1>4 DEF StartServer, Fresh, SpTypeOK, SpFresh, SpHeirs, SpSwap, SpOwned, Heirs
  <2>6. SpOne'
    BY <1>4 DEF StartServer, Fresh, SpTypeOK, SpSwap, SpOwned, SpOne, Serving, Heirs
  <2>7. StoppedStaysStopped'
    BY <1>4 DEF StartServer, Fresh, SpTypeOK, SpFresh, SpHeirs, SpSwap, StoppedStaysStopped
  <2> QED BY <2>1, <2>2, <2>3, <2>4, <2>5, <2>6, <2>7
<1>5. ASSUME NEW p \in SpPids, spMgr # "crashed", WatchDeath(p) PROVE SpInv'
  <2>0. /\ spWatch[p] = "poll" /\ spProc[p] = "dead" /\ MutexFree
        /\ UNCHANGED <<spPipe, spCur, spMgr, spNew, spOld, spLate>>
    BY <1>5 DEF WatchDeath
  <2>a. CASE /\ p \notin spMap
             /\ spWatch' = [spWatch EXCEPT ![p] = "done"]
             /\ UNCHANGED <<spProc, spInfo, spMap, spHeir>>
    <3>1. SpTypeOK'
      BY <2>0, <2>a DEF SpTypeOK
    <3>2. SpFresh'
      BY <2>0, <2>a DEF SpTypeOK, SpFresh
    <3>3. SpHeirs'
      BY <2>0, <2>a DEF SpTypeOK, SpFresh, SpHeirs
    <3>4. SpSwap'
      BY <2>0, <2>a DEF SpTypeOK, SpFresh, SpHeirs, SpSwap, StoppedStaysStopped, Heirs
    <3>5. SpOwned'
      BY <2>0, <2>a DEF SpTypeOK, SpFresh, SpHeirs, SpSwap, SpOwned, Heirs
    <3>6. SpOne'
      BY <2>0, <2>a, SMTT(30) DEF SpTypeOK, SpSwap, SpOwned, SpOne, Serving, Heirs
    <3>7. StoppedStaysStopped'
      BY <2>0, <2>a DEF SpTypeOK, SpFresh, SpHeirs, SpSwap, StoppedStaysStopped
    <3> QED BY <3>1, <3>2, <3>3, <3>4, <3>5, <3>6, <3>7
  <2>b. ASSUME NEW q \in SpPids, p \in spMap, Fresh(q),
               spProc' = [spProc EXCEPT ![q] = "starting"],
               spInfo' = [spInfo EXCEPT ![q] = spInfo[p]],
               spHeir' = [spHeir EXCEPT ![p] = q],
               spMap' = spMap \ {p},
               spWatch' = [spWatch EXCEPT ![p] = "starting"]
        PROVE  SpInv'
    <3>0. spProc[q] = "none" /\ q # p
      BY <2>0, <2>b DEF Fresh
    <3>1. SpTypeOK'
      BY <2>0, <2>b, <3>0 DEF MutexFree, SpTypeOK
    <3>2. SpFresh'
      BY <2>0, <2>b, <3>0 DEF MutexFree, SpTypeOK, SpFresh
    <3>3. SpHeirs'
      BY <2>0, <2>b, <3>0 DEF MutexFree, SpTypeOK, SpFresh, SpHeirs
    <3>4. SpSwap'
      BY <2>0, <2>b, <3>0 DEF MutexFree, SpTypeOK, SpFresh, SpHeirs, SpSwap, StoppedStaysStopped,
             Heirs
    <3>5. SpOwned'
      BY <2>0, <2>b, <3>0 DEF MutexFree, SpTypeOK, SpFresh, SpHeirs, SpSwap, SpOwned, Heirs
    <3>6. SpOne'
      <4>1. Serving' = Serving
        BY <2>b, <3>0 DEF Serving, SpTypeOK
      <4>2. spHeir[p] = NoPid
        BY <2>0 DEF SpHeirs
      <4>3. Heirs \subseteq Heirs'
        BY <2>b, <4>2 DEF Heirs, SpTypeOK
      <4> QED BY <2>0, <4>1, <4>3 DEF SpOne
    <3>7. StoppedStaysStopped'
      BY <2>0, <2>b, <3>0 DEF MutexFree, SpTypeOK, SpFresh, SpHeirs, SpSwap, StoppedStaysStopped
    <3> QED BY <3>1, <3>2, <3>3, <3>4, <3>5, <3>6, <3>7
  <2> QED BY <1>5, <2>a, <2>b DEF WatchDeath
<1>6. ASSUME NEW p \in SpPids, spMgr # "crashed", Restarted(p) PROVE SpInv'
  <2>0. /\ spWatch[p] = "starting" /\ spMgr # "stopping"
        /\ UNCHANGED <<spInfo, spCur, spNew, spOld, spHeir, spLate>>
    BY <1>6 DEF Restarted, SpSwap
  <2>1. PICK q \in SpPids : q = spHeir[p] /\ spWatch[q] = "none" /\ q # p
    BY <2>0 DEF SpHeirs, SpTypeOK
  <2>2. Serving' \subseteq Serving => SpOne'
    BY <2>0 DEF SpOne, Heirs
  <2>a. CASE /\ spProc[q] = "ready" /\ spPipe' = Command(spInfo[q], "start")
             /\ spMap' = spMap \cup {q}
             /\ spWatch' = [spWatch EXCEPT ![p] = "done", ![q] = "poll"]
             /\ UNCHANGED <<spProc, spMgr>>
    <3>i. spInfo[q] \in SpPids
      BY DEF SpTypeOK
    <3>p. spPipe' \in [SpPids -> Seq(Commands)]
      BY <1>w, <1>c, <2>a, <3>i, Zenon
    <3>0. \A r \in SpPids \ {spInfo[q]} : spPipe'[r] = spPipe[r]
      BY <1>w, <1>c, <2>a, <3>i, Zenon
    <3>a. spHeir[q] = NoPid /\ \A r \in SpPids \ {p} : spHeir[r] # q
      BY <2>0, <2>1 DEF SpHeirs, StoppedStaysStopped, SpTypeOK
    <3>b. \A r \in SpPids : spWatch'[r] = IF r = p THEN "done" ELSE IF r = q THEN "poll" ELSE spWatch[r]
      BY <2>0, <2>1, <2>a DEF SpTypeOK
    <3>c. spWatch' \in [SpPids -> {"none", "poll", "starting", "done"}]
      BY <2>a DEF SpTypeOK
    <3>d. spProc[spInfo[q]] # "none"
      BY <2>a DEF SpFresh, SpTypeOK
    <3>1. SpTypeOK'
      BY <2>0, <2>1, <2>a, <3>0, <3>a, <3>b, <3>c, <3>d, <1>t, <3>p DEF SpTypeOK
    <3>2. SpFresh'
      BY <2>0, <2>1, <2>a, <3>0, <3>a, <3>b, <3>c, <3>d DEF SpTypeOK, SpFresh
    <3>3. SpHeirs'
      <4>1. ASSUME NEW r \in SpPids, spWatch'[r] \in {"none", "poll"} PROVE spHeir[r] = NoPid
        BY <3>a, <3>b, <4>1 DEF SpHeirs
      <4>2. ASSUME NEW r \in SpPids, spWatch'[r] = "starting"
            PROVE  spHeir[r] # NoPid /\ spWatch'[spHeir[r]] = "none"
        <5>1. r # p /\ r # q /\ spWatch[r] = "starting"
          BY <3>b, <4>2
        <5>2. spHeir[r] \in SpPids /\ spWatch[spHeir[r]] = "none" /\ spHeir[r] # q /\ spHeir[r] # p
          BY <2>0, <3>a, <5>1 DEF SpHeirs, SpTypeOK
        <5> QED BY <3>b, <5>2
      <4> QED BY <2>0, <2>a, <4>1, <4>2 DEF SpHeirs
    <3>4. SpSwap'
      BY <2>0, <2>1, <2>a, <3>0, <3>a, <3>b, <3>c, <3>d DEF SpTypeOK, SpFresh, SpHeirs, SpSwap,
             StoppedStaysStopped, Heirs
    <3>5. SpOwned'
      BY <2>0, <2>1, <2>a, <3>0, <3>a, <3>b, <3>c, <3>d DEF SpTypeOK, SpFresh, SpHeirs, SpSwap,
             SpOwned, Heirs
    <3>6. SpOne'
      BY <2>2, <2>a DEF Serving
    <3>7. StoppedStaysStopped'
      BY <2>0, <2>1, <2>a, <3>0, <3>a, <3>b, <3>c, <3>d DEF SpTypeOK, SpFresh, SpHeirs, SpSwap,
             StoppedStaysStopped
    <3> QED BY <3>1, <3>2, <3>3, <3>4, <3>5, <3>6, <3>7
  <2>b. CASE /\ Killed(q) /\ spMgr' = "crashed"
             /\ UNCHANGED <<spPipe, spMap, spWatch>>
    <3>1. SpTypeOK'
      BY <2>0, <2>1, <2>b DEF Killed, SpTypeOK
    <3>2. SpFresh'
      BY <2>0, <2>1, <2>b DEF Killed, SpTypeOK, SpFresh
    <3>3. SpHeirs'
      BY <2>0, <2>1, <2>b DEF Killed, SpTypeOK, SpFresh, SpHeirs
    <3>4. SpSwap'
      BY <2>0, <2>1, <2>b DEF Killed, SpTypeOK, SpFresh, SpHeirs, SpSwap, StoppedStaysStopped, Heirs
    <3>5. SpOwned'
      BY <2>0, <2>1, <2>b DEF Killed, SpTypeOK, SpFresh, SpHeirs, SpSwap, SpOwned, Heirs
    <3>6. SpOne'
      BY <2>1, <2>2, <2>b DEF Killed, Serving, SpTypeOK
    <3>7. StoppedStaysStopped'
      BY <2>0, <2>1, <2>b DEF Killed, SpTypeOK, SpFresh, SpHeirs, SpSwap, StoppedStaysStopped
    <3> QED BY <3>1, <3>2, <3>3, <3>4, <3>5, <3>6, <3>7
  <2> QED BY <1>6, <2>1, <2>a, <2>b DEF Restarted, ReadOk
<1>7. ASSUME spMgr # "crashed", StartFails PROVE SpInv'
  <2>1. SpTypeOK'
    BY <1>7 DEF StartFails, Killed, SpTypeOK
  <2>2. SpFresh'
    BY <1>7 DEF StartFails, Killed, SpTypeOK, SpFresh
  <2>3. SpHeirs'
    BY <1>7 DEF StartFails, Killed, SpTypeOK, SpFresh, SpHeirs
  <2>4. SpSwap'
    BY <1>7 DEF StartFails, Killed, SpTypeOK, SpFresh, SpHeirs, SpSwap, StoppedStaysStopped,
           Heirs
  <2>5. SpOwned'
    BY <1>7 DEF StartFails, Killed, SpTypeOK, SpFresh, SpHeirs, SpSwap, SpOwned, Heirs
  <2>6. SpOne'
    BY <1>7 DEF StartFails, Killed, SpTypeOK, SpSwap, SpOwned, SpOne, Serving, Heirs
  <2>7. StoppedStaysStopped'
    BY <1>7 DEF StartFails, Killed, SpTypeOK, SpFresh, SpHeirs, SpSwap, StoppedStaysStopped
  <2> QED BY <2>1, <2>2, <2>3, <2>4, <2>5, <2>6, <2>7
<1>8. ASSUME spMgr # "crashed", Swap PROVE SpInv'
  <2>h. spCur \in spMap => spPipe' = Command(spInfo[spCur], "stop")
    BY <1>8, Zenon DEF Swap
  <2>i. spCur \in spMap => spInfo[spCur] \in SpPids
    BY DEF SpTypeOK
  <2>u. spCur \notin spMap => spPipe' = spPipe
    BY <1>8 DEF Swap
  <2>j. spPipe \in [SpPids -> Seq(Commands)]
    BY DEF SpTypeOK, Commands
  <2>p. spPipe' \in [SpPids -> Seq(Commands)]
    BY <1>w, <1>c, <2>h, <2>i, <2>j, <2>u, Zenon
  <2>0. spCur \in spMap => \A r \in SpPids \ {spInfo[spCur]} : spPipe'[r] = spPipe[r]
    <3>1. ASSUME spCur \in spMap, NEW r \in SpPids \ {spInfo[spCur]} PROVE spPipe'[r] = spPipe[r]
      <4>1. Command(spInfo[spCur], "stop")[r] = spPipe[r]
        BY <1>w, <1>c, <2>i, <3>1
      <4> QED BY <2>h, <3>1, <4>1, Zenon
    <3> QED BY <3>1
  <2>a. spCur \in spMap => spInfo[spCur] # spNew /\ spProc[spInfo[spCur]] # "none"
    BY <1>8 DEF Swap, SpTypeOK, SpSwap, SpFresh, StoppedStaysStopped
  <2>1. SpTypeOK'
    BY <1>8, <2>0, <2>u, <2>a, <1>t, <2>p DEF Swap, ReadOk, MutexFree, SpTypeOK
  <2>2. SpFresh'
    BY <1>8, <2>0, <2>u, <2>a DEF Swap, ReadOk, MutexFree, SpTypeOK, SpFresh
  <2>3. SpHeirs'
    BY <1>8, <2>0, <2>u, <2>a DEF Swap, ReadOk, MutexFree, SpTypeOK, SpFresh, SpHeirs
  <2>4. SpSwap'
    BY <1>8, <2>0, <2>u, <2>a DEF Swap, ReadOk, MutexFree, SpTypeOK, SpFresh, SpHeirs,
           SpSwap, StoppedStaysStopped, Heirs
  <2>5. SpOwned'
    BY <1>8, <2>0, <2>u, <2>a DEF Swap, ReadOk, MutexFree, SpTypeOK, SpFresh, SpHeirs,
           SpSwap, SpOwned, Heirs
  <2>6. SpOne'
    BY <1>8, <2>0, <2>u, <2>a, SMTT(30) DEF Swap, ReadOk, MutexFree, SpTypeOK, SpSwap, SpOwned, SpOne,
           Serving, Heirs
  <2>7. StoppedStaysStopped'
    <3>1. spOld' \in SpPids => spOld' = spCur /\ spCur \in spMap
      BY <1>8 DEF Swap
    <3>2. spOld' \in SpPids => spHeir[spOld'] = NoPid
      BY <3>1 DEF StoppedStaysStopped, SpHeirs, SpTypeOK
    <3>3. spMap' \subseteq spMap /\ UNCHANGED <<spHeir, spWatch>>
      BY <1>8 DEF Swap
    <3> QED BY <3>2, <3>3 DEF StoppedStaysStopped
  <2> QED BY <2>1, <2>2, <2>3, <2>4, <2>5, <2>6, <2>7
<1>9. ASSUME spMgr # "crashed", StartNew PROVE SpInv'
  <2>i. spNew \in SpPids /\ spPipe' = Command(spNew, "start")
    BY <1>9 DEF SpTypeOK, StartNew, SpSwap
  <2>p. spPipe' \in [SpPids -> Seq(Commands)]
    BY <1>w, <1>c, <2>i, Zenon
  <2>0. \A r \in SpPids \ {spNew} : spPipe'[r] = spPipe[r]
    BY <1>w, <1>c, <2>i, Zenon
  <2>1. SpTypeOK'
    BY <1>9, <2>i, <2>0, <1>t, <2>p DEF StartNew, ReadOk, SpTypeOK
  <2>2. SpFresh'
    BY <1>9, <2>i, <2>0 DEF StartNew, ReadOk, SpTypeOK, SpFresh, SpSwap, Heirs
  <2>3. SpHeirs'
    BY <1>9, <2>i, <2>0 DEF StartNew, ReadOk, SpTypeOK, SpFresh, SpHeirs, SpSwap, Heirs
  <2>4. SpSwap'
    BY <1>9, <2>i, <2>0 DEF StartNew, ReadOk, SpTypeOK, SpFresh, SpHeirs, SpSwap,
           StoppedStaysStopped, Heirs
  <2>5. SpOwned'
    BY <1>9, <2>i, <2>0 DEF StartNew, ReadOk, SpTypeOK, SpFresh, SpHeirs, SpSwap, SpOwned,
           Heirs
  <2>6. SpOne'
    BY <1>9, <2>i, <2>0 DEF StartNew, ReadOk, SpTypeOK, SpSwap, SpOwned, SpOne, Serving,
           Heirs
  <2>7. StoppedStaysStopped'
    BY <1>9, <2>i, <2>0 DEF StartNew, ReadOk, SpTypeOK, SpFresh, SpHeirs, SpSwap,
           StoppedStaysStopped
  <2> QED BY <2>1, <2>2, <2>3, <2>4, <2>5, <2>6, <2>7
<1>10. ASSUME spMgr # "crashed", StopServer PROVE SpInv'
  <2>1. SpTypeOK'
    BY <1>10 DEF StopServer, MutexFree, SpTypeOK
  <2>2. SpFresh'
    BY <1>10 DEF StopServer, MutexFree, SpTypeOK, SpFresh
  <2>3. SpHeirs'
    BY <1>10 DEF StopServer, MutexFree, SpTypeOK, SpFresh, SpHeirs
  <2>4. SpSwap'
    BY <1>10 DEF StopServer, MutexFree, SpTypeOK, SpFresh, SpHeirs, SpSwap, StoppedStaysStopped,
           Heirs
  <2>5. SpOwned'
    BY <1>10 DEF StopServer, MutexFree, SpTypeOK, SpFresh, SpHeirs, SpSwap, SpOwned, Heirs
  <2>6. SpOne'
    BY <1>10 DEF StopServer, MutexFree, SpTypeOK, SpSwap, SpOwned, SpOne, Serving, Heirs
  <2>7. StoppedStaysStopped'
    BY <1>10 DEF StopServer, MutexFree, SpTypeOK, SpFresh, SpHeirs, SpSwap, StoppedStaysStopped
  <2> QED BY <2>1, <2>2, <2>3, <2>4, <2>5, <2>6, <2>7
<1>11. ASSUME spMgr # "crashed", SendSync PROVE SpInv'
  <2>i. spInfo[spCur] \in SpPids /\ spPipe' = Command(spInfo[spCur], "sync")
    BY <1>11 DEF SpTypeOK, SendSync
  <2>p. spPipe' \in [SpPids -> Seq(Commands)]
    BY <1>w, <1>c, <2>i, Zenon
  <2>0. \A r \in SpPids \ {spInfo[spCur]} : spPipe'[r] = spPipe[r]
    BY <1>w, <1>c, <2>i, Zenon
  <2>a. spProc[spInfo[spCur]] # "none" /\ (spMgr = "forked" => spInfo[spCur] # spNew)
    BY <1>11 DEF SendSync, SpTypeOK, SpSwap, SpFresh, StoppedStaysStopped
  <2>1. SpTypeOK'
    BY <1>11, <2>0, <2>a, <1>t, <2>p DEF SendSync, MutexFree, SpTypeOK
  <2>2. SpFresh'
    BY <1>11, <2>0, <2>a DEF SendSync, MutexFree, SpTypeOK, SpFresh
  <2>3. SpHeirs'
    BY <1>11, <2>0, <2>a DEF SendSync, MutexFree, SpTypeOK, SpFresh, SpHeirs
  <2>4. SpSwap'
    BY <1>11, <2>0, <2>a DEF SendSync, MutexFree, SpTypeOK, SpFresh, SpHeirs, SpSwap,
           StoppedStaysStopped, Heirs
  <2>5. SpOwned'
    BY <1>11, <2>0, <2>a DEF SendSync, MutexFree, SpTypeOK, SpFresh, SpHeirs, SpSwap, SpOwned, Heirs
  <2>6. SpOne'
    BY <1>11, <2>0, <2>a DEF SendSync, MutexFree, SpTypeOK, SpSwap, SpOwned, SpOne, Serving, Heirs
  <2>7. StoppedStaysStopped'
    BY <1>11, <2>0, <2>a DEF SendSync, MutexFree, SpTypeOK, SpFresh, SpHeirs, SpSwap,
           StoppedStaysStopped
  <2> QED BY <2>1, <2>2, <2>3, <2>4, <2>5, <2>6, <2>7
<1> QED BY <1>0, <1>1, <1>2, <1>3, <1>4, <1>5, <1>6, <1>7, <1>8, <1>9, <1>10, <1>11 DEF SpNext

(* A set without two different members has at most one.                    *)
LEMMA AtMostOne ==
    ASSUME NEW S, \A p, r \in S : p = r
    PROVE  Cardinality(S) <= 1
<1>1. CASE S = {}
  BY <1>1, FS_EmptySet
<1>2. ASSUME NEW p \in S PROVE Cardinality(S) <= 1
  <2>1. S = {p}
    OBVIOUS
  <2>2. Cardinality({p}) = 1
    BY FS_Singleton
  <2>3. Cardinality(S) = 1
    BY <2>1, <2>2, Zenon
  <2> QED BY <2>3
<1> QED BY <1>1, <1>2

-----------------------------------------------------------------------------
(* The whole.                                                              *)

ProcessesInv == CmdInv /\ WorkInv /\ AppInv /\ SpInv

(* Initially, and after every step, of whichever part, the invariants of   *)
(* all four hold.                                                          *)
THEOREM ProcessesInvariance == Spec => []ProcessesInv
<1>1. Init => ProcessesInv
  <2> SUFFICES ASSUME Init PROVE ProcessesInv
    OBVIOUS
  <2>1. CmdInv
    BY DEF Init, EcInit, CmdInv, CmdTypeOK, CmdStages, CmdRead, CommandComplete
  <2>2. WorkInv
    <3>1. rwLost \in BOOLEAN /\ rwStop \in BOOLEAN /\ rwOver \in BOOLEAN
      BY Zenon DEF Init, RwInit
    <3> QED
      BY <3>1, RwAssumption DEF RwAssumption, Init, RwInit, WorkInv, WorkTypeOK, WorkThreads,
         WorkKept, TaskRunsOnce, RwRefresh, RwVis, RwPollMax
  <2>3. AppInv
    BY RsAssumption DEF RsAssumption, Init, RsInit, AppInv, AppTypeOK, AppSync, RunningAppPresent
  <2>4. SpInv
    <3>1. <<>> \in Seq({"start", "stop", "sync"})
      OBVIOUS
    <3> QED
      BY <3>1, SpAssumption DEF SpAssumption, Init, SpInit, SpInv, SpTypeOK, SpFresh, SpHeirs,
         SpSwap, SpOwned, SpOne, StoppedStaysStopped, Heirs, Serving, NoPid
  <2> QED BY <2>1, <2>2, <2>3, <2>4 DEF ProcessesInv
<1>2. ProcessesInv /\ [Next]_vars => ProcessesInv'
  <2> SUFFICES ASSUME ProcessesInv, [Next]_vars PROVE ProcessesInv'
    OBVIOUS
  <2>1. [EcNext]_ecVars /\ [RwNext]_rwVars /\ [RsNext]_rsVars /\ [SpNext]_spVars
    BY DEF Next, vars
  <2> QED BY <2>1, CmdStep, WorkStep, AppStep, SpStep DEF ProcessesInv
<1> QED BY <1>1, <1>2, PTL DEF Spec

(* What exe_cmd returns is all that the command wrote, a task that is      *)
(* taken from the queue is run once while its refreshes succeed and, where *)
(* the visibility is no longer than the refresh period, none is lost to    *)
(* the timer of the other thread; and the application that runs keeps the  *)
(* files it was started with: for any number of tasks and applications,    *)
(* any visibility, and whatever else fails.                                *)
THEOREM CommandsAreSound == Spec => []CommandsSound
<1>1. ProcessesInv => CommandsSound
  BY DEF ProcessesInv, CmdInv, WorkInv, AppInv, CommandsSound
<1> QED BY <1>1, ProcessesInvariance, PTL

(* The swap of start_server never lets two processes accept at once that   *)
(* it started itself, but for those it gave up waiting for, and what it    *)
(* has stopped is not started again: for any number of processes, which    *)
(* may die, or be too slow for read_ok, at any moment.                     *)
THEOREM ServersAreSound == Spec => []ServersSound
<1>1. SpOne => OneServer
  BY AtMostOne DEF SpOne, OneServer
<1>2. ProcessesInv => ServersSound
  BY <1>1 DEF ProcessesInv, SpInv, ServersSound
<1> QED BY <1>2, ProcessesInvariance, PTL
=============================================================================
