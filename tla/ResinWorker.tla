---------------------------- MODULE ResinWorker ----------------------------
(***************************************************************************)
(* run_worker of examples/resin/worker.cpp: an instance that takes shell   *)
(* commands from an SQS queue.  While a command runs a second thread keeps *)
(* its message invisible: a timerfd wakes it every 30 seconds, or at once  *)
(* when the first thread has a new message or wants to stop.  Time passes  *)
(* in units of 15 seconds, only while no thread has anything to do.  SQS   *)
(* makes a message visible again when its visibility has run out; the      *)
(* receive call leaves that time to the queue, whose default is 30 seconds *)
(* (2 units).                                                              *)
(***************************************************************************)
EXTENDS Naturals

CONSTANTS RwTasks,      \* messages of the queue
          RwQueueVis    \* visibilities a queue may give a message that is received

RwRefresh == 2          \* visibility_refresh_secs
RwVis     == 4          \* visibility_secs
RwPollMax == 3          \* the timeout of poll, a second more than RwRefresh

ASSUME RwAssumption == RwQueueVis \subseteq Nat \ {0}

VARIABLES
    rwGives,    \* the visibility that this queue gives
    rwMsg,      \* message -> "queued", "flight", "deleted"
    rwLeft,     \* message -> what is left of its visibility
    rwRan,      \* message -> how often its command was run
    rwKeep,     \* keep_alive_set
    rwTimer,    \* time until the timerfd is readable
    rwPoll,     \* time until poll gives up
    rwKa,       \* the keep-alive thread: "none", "poll", "send", "rearm", "ended"
    rwBatch,    \* the messages it refreshes
    rwLost,     \* a refresh failed
    rwMain,     \* "none", "receive", "arm", "run", "delete", "stop", "join", "ended"
    rwTask,     \* the message in hand
    rwIdle,     \* a unit has passed without a message
    rwStop,     \* stop
    rwOver      \* history: a timer set to now was set again before it was seen

rwVars == <<rwGives, rwOver, rwMsg, rwLeft, rwRan, rwKeep, rwTimer, rwPoll, rwKa, rwBatch, rwLost,
            rwMain, rwTask, rwIdle, rwStop>>
rwKaVars == <<rwKa, rwBatch, rwLost, rwPoll>>
rwFixed == <<rwGives, rwOver>>

RwInit ==
    /\ rwGives \in RwQueueVis /\ rwOver = FALSE
    /\ rwMsg = [m \in RwTasks |-> "queued"]
    /\ rwLeft = [m \in RwTasks |-> 0] /\ rwRan = [m \in RwTasks |-> 0]
    /\ rwKeep = {} /\ rwTimer = RwRefresh /\ rwPoll = RwPollMax
    /\ rwKa = "none" /\ rwBatch = {} /\ rwLost = FALSE
    /\ rwMain = "none" /\ rwTask = CHOOSE m \in RwTasks : TRUE
    /\ rwIdle = FALSE /\ rwStop = FALSE

Less(n) == IF n = 0 THEN 0 ELSE n - 1
KaDue == rwTimer = 0 \/ rwPoll = 0

(* The start of run_worker: the queue's region and address, the status     *)
(* socket, the timer and the thread.                                       *)
RunWorker ==
    /\ rwMain = "none" /\ rwMain' = "receive"
    /\ rwKa' = "poll"
    /\ UNCHANGED <<rwFixed, rwMsg, rwLeft, rwRan, rwKeep, rwTimer, rwPoll, rwBatch, rwLost,
                   rwTask, rwIdle, rwStop>>

(* Nobody has anything to do but to wait: for messages, for the command,   *)
(* for the other thread or for poll.                                       *)
TimePasses ==
    /\ rwKa = "ended" \/ (rwKa = "poll" /\ ~KaDue)
    /\ rwMain \in {"receive", "run", "join"}
    /\ rwTimer' = Less(rwTimer) /\ rwPoll' = Less(rwPoll)
    /\ rwLeft' = [m \in RwTasks |-> Less(rwLeft[m])]
    /\ rwMsg' = [m \in RwTasks |-> IF rwMsg[m] = "flight" /\ rwLeft[m] <= 1
                                   THEN "queued" ELSE rwMsg[m]]
    /\ rwIdle' = (rwIdle \/ rwMain = "receive")
    /\ UNCHANGED <<rwFixed, rwRan, rwKeep, rwKa, rwBatch, rwLost, rwMain, rwTask, rwStop>>

(* Mutant: a task is received without being kept alive.                    *)
ReceiveNotKept(m) ==
    /\ rwMain = "receive" /\ rwMsg[m] = "queued" /\ rwRan[m] < 2
    /\ rwMsg' = [rwMsg EXCEPT ![m] = "flight"]
    /\ rwLeft' = [rwLeft EXCEPT ![m] = rwGives]
    /\ rwMain' = "arm" /\ rwTask' = m
    /\ UNCHANGED <<rwFixed, rwRan, rwKeep, rwTimer, rwKaVars, rwIdle, rwStop>>

(* A message arrives and enters keep_alive_set.                            *)
Receive(m) ==
    /\ rwMain = "receive" /\ rwMsg[m] = "queued" /\ rwRan[m] < 2
    /\ rwMsg' = [rwMsg EXCEPT ![m] = "flight"]
    /\ rwLeft' = [rwLeft EXCEPT ![m] = rwGives]
    /\ rwKeep' = rwKeep \cup {m}
    /\ rwMain' = "arm" /\ rwTask' = m
    /\ UNCHANGED <<rwFixed, rwRan, rwTimer, rwKaVars, rwIdle, rwStop>>

(* The timer is set to now; an invalid message is deleted without more.    *)
ArmNow ==
    /\ rwMain = "arm"
    /\ rwTimer' = 0
    /\ rwMain' \in {"run", "delete"}
    /\ UNCHANGED <<rwFixed, rwMsg, rwLeft, rwRan, rwKeep, rwKaVars, rwTask, rwIdle, rwStop>>

(* The command has ended, and its end was reported over UDP: up to eight   *)
(* times until something comes back.                                       *)
RunTask ==
    /\ rwMain = "run"
    /\ rwRan' = [rwRan EXCEPT ![rwTask] = @ + 1]
    /\ rwMain' = "delete"
    /\ UNCHANGED <<rwFixed, rwMsg, rwLeft, rwKeep, rwTimer, rwKaVars, rwTask, rwIdle, rwStop>>

(* DeleteMessage, which may fail; keep_alive_set stays as it is.           *)
DeleteTask ==
    /\ rwMain = "delete"
    /\ rwMsg' \in {rwMsg, [rwMsg EXCEPT ![rwTask] = "deleted"]}
    /\ rwMain' = "receive" /\ rwIdle' = FALSE
    /\ UNCHANGED <<rwFixed, rwLeft, rwRan, rwKeep, rwTimer, rwKaVars, rwTask, rwStop>>

(* No message for idle_time: unless should_shut_down counts too few other  *)
(* instances, the done action is started and the loop ends.                *)
NoTasks ==
    /\ rwMain = "receive" /\ rwIdle
    /\ rwMain' = "stop"
    /\ UNCHANGED <<rwFixed, rwMsg, rwLeft, rwRan, rwKeep, rwTimer, rwKaVars, rwTask, rwIdle, rwStop>>

StopWorker ==
    /\ \/ /\ rwMain = "stop" /\ rwMain' = "join"
          /\ rwStop' = TRUE /\ rwTimer' = 0
       \/ /\ rwMain = "join" /\ rwKa = "ended" /\ rwMain' = "ended"
          /\ UNCHANGED <<rwFixed, rwStop, rwTimer>>
    /\ UNCHANGED <<rwFixed, rwMsg, rwLeft, rwRan, rwKeep, rwKaVars, rwTask, rwIdle>>

(* Mutant: the keep alive thread looks for messages before exit_now.       *)
KeepAliveWakesIfKept ==
    /\ rwKa = "poll" /\ KaDue
    /\ rwKa' = IF rwKeep = {} THEN "rearm" ELSE IF rwStop THEN "ended" ELSE "send"
    /\ rwBatch' = IF rwStop THEN {} ELSE rwKeep
    /\ rwTimer' = IF rwTimer = 0 THEN RwRefresh ELSE rwTimer
    /\ UNCHANGED <<rwFixed, rwMsg, rwLeft, rwRan, rwKeep, rwPoll, rwLost, rwMain, rwTask,
                   rwIdle, rwStop>>

(* The keep-alive thread returns from poll and looks at stop and the set.  *)
KeepAliveWakes ==
    /\ rwKa = "poll" /\ KaDue
    /\ rwKa' = IF rwStop THEN "ended" ELSE IF rwKeep = {} THEN "rearm" ELSE "send"
    /\ rwBatch' = IF rwStop THEN {} ELSE rwKeep
    /\ rwTimer' = IF rwTimer = 0 THEN RwRefresh ELSE rwTimer
    /\ UNCHANGED <<rwFixed, rwMsg, rwLeft, rwRan, rwKeep, rwPoll, rwLost, rwMain, rwTask,
                   rwIdle, rwStop>>

(* The refresh, without the mutex: it does what it can for the messages    *)
(* that are still in flight.                                               *)
KeepAliveSends ==
    /\ rwKa = "send" /\ rwKa' = "rearm" /\ rwBatch' = {}
    /\ \/ /\ rwLeft' = [m \in RwTasks |-> IF m \in rwBatch /\ rwMsg[m] = "flight"
                                          THEN RwVis ELSE rwLeft[m]]
          /\ UNCHANGED rwLost
       \/ rwLost' = TRUE /\ UNCHANGED rwLeft
    /\ UNCHANGED <<rwFixed, rwMsg, rwRan, rwKeep, rwTimer, rwPoll, rwMain, rwTask, rwIdle, rwStop>>

(* It sets the timer, also when the other thread has just set it to now:   *)
(* that immediate refresh is then lost.                                    *)
KeepAliveRearms ==
    /\ rwKa = "rearm" /\ rwKa' = "poll"
    /\ rwOver' = (rwOver \/ rwTimer = 0)
    /\ rwTimer' = RwRefresh /\ rwPoll' = RwPollMax
    /\ UNCHANGED <<rwGives, rwMsg, rwLeft, rwRan, rwKeep, rwBatch, rwLost, rwMain, rwTask,
                   rwIdle, rwStop>>

RwNext ==
    \/ RunWorker \/ TimePasses \/ ArmNow \/ RunTask \/ DeleteTask \/ NoTasks \/ StopWorker
    \/ \E m \in RwTasks : Receive(m)
    \/ KeepAliveWakes \/ KeepAliveSends \/ KeepAliveRearms

(* Time passes and both threads are scheduled.                             *)
RwFairness ==
    /\ WF_rwVars(TimePasses) /\ WF_rwVars(StopWorker)
    /\ WF_rwVars(KeepAliveWakes) /\ WF_rwVars(KeepAliveSends)
    /\ WF_rwVars(KeepAliveRearms)

-----------------------------------------------------------------------------
(* As long as every refresh succeeds no other worker can take the message  *)
(* whose command runs, and no command is run a second time by this one,    *)
(* not even when its deletion failed.  Where the queue makes a message     *)
(* visible again before the next regular refresh (its default does) this   *)
(* needs every immediate refresh: one lost to the other thread's timer is  *)
(* enough to run a task twice.                                             *)
TaskRunsOnce == ~rwLost /\ (rwOver => rwGives > RwRefresh) =>
    /\ \A m \in RwTasks : rwRan[m] <= 1
    /\ rwMain \in {"arm", "run", "delete"} => rwMsg[rwTask] = "flight"

(* A worker that wants to stop does, though its wake-up may be lost.       *)
WorkerStops == rwStop ~> rwMain = "ended"
=============================================================================
