------------------------------- MODULE IoTimer -------------------------------
(***************************************************************************)
(* The timer of io_dispatch: schedule_task, remove_task and                *)
(* io_timer_handler (src/cpp/io_dispatch.h, src/cpp/io_dispatch.cpp).      *)
(*                                                                         *)
(* Tasks wait in the multimap task_map_, under task_mutex_.  One timerfd   *)
(* is set to the time of the first of them and watched by all the io       *)
(* threads, level triggered, so that several threads may run the handler   *)
(* for one expiration.  schedule_task sets the timerfd only when the new   *)
(* task is the first one, remove_task never does, and the handler reads    *)
(* the clock before it takes the mutex.                                    *)
(*                                                                         *)
(* A critical section on task_mutex_ is one action.  Time is counted in    *)
(* ticks.                                                                  *)
(***************************************************************************)
EXTENDS Integers, FiniteSets

CONSTANTS
    Threads,    \* the io threads
    MaxTime,    \* bound: the clock stops here
    MaxTasks    \* bound: tasks scheduled

ASSUME IoTimerAssumption == MaxTime \in Nat /\ MaxTasks \in Nat

VARIABLES
    now,        \* CLOCK_MONOTONIC
    taskMap,    \* task_map_, as a set of tasks [when, id]
    expiry,     \* when the timerfd expires, 0 if it is not set
    readable,   \* the timerfd has an expiration to be read
    pc,         \* pc[t]: where thread t is in the handler
    readNow,    \* readNow[t]: the handler's local now
    ready,      \* ready[t]: ready_tasks
    lastId,     \* tasks scheduled so far
    removed,    \* history: tasks for which remove_task returned true
    executed    \* history: tasks that have been executed

vars == <<now, taskMap, expiry, readable, pc, readNow, ready, lastId,
          removed, executed>>

Times == 1..MaxTime
Ids   == 1..MaxTasks
Tasks == [when : Times, id : Ids]

Init ==
    /\ now = 0
    /\ taskMap = {}
    /\ expiry = 0
    /\ readable = FALSE
    /\ pc = [t \in Threads |-> "epoll"]
    /\ readNow = [t \in Threads |-> 0]
    /\ ready = [t \in Threads |-> {}]
    /\ lastId = 0
    /\ removed = {}
    /\ executed = {}

(* x is first (one of the first, if several have the same time) in s.      *)
IsFirst(x, s) == x \in s /\ \A y \in s : x.when <= y.when

(* timerfd_settime: the timer is set and what had not been read is gone.   *)
SetTime(when) ==
    /\ expiry' = when
    /\ readable' = FALSE
-----------------------------------------------------------------------------
(* The clock and the timerfd.                                              *)
Tick ==
    /\ now < MaxTime
    /\ now' = now + 1
    /\ UNCHANGED <<taskMap, expiry, readable, pc, readNow, ready, lastId,
                   removed, executed>>

Expire ==
    /\ expiry # 0
    /\ expiry <= now
    /\ readable' = TRUE
    /\ expiry' = 0
    /\ UNCHANGED <<now, taskMap, pc, readNow, ready, lastId, removed,
                   executed>>
-----------------------------------------------------------------------------
(* Mutant: the timer is set only if the map was empty.                     *)
ScheduleTaskIfEmpty(when) ==
    /\ lastId < MaxTasks
    /\ lastId' = lastId + 1
    /\ taskMap' = taskMap \cup {[when |-> when, id |-> lastId']}
    /\ IF taskMap = {} THEN SetTime(when) ELSE UNCHANGED <<expiry, readable>>
    /\ UNCHANGED <<now, pc, readNow, ready, removed, executed>>

(* schedule_task, for a time to come or one that has passed.               *)
ScheduleTask(when) ==
    /\ lastId < MaxTasks
    /\ lastId' = lastId + 1
    /\ LET task == [when |-> when, id |-> lastId'] IN
          /\ taskMap' = taskMap \cup {task}
          /\ IF IsFirst(task, taskMap')
               THEN SetTime(when)
               ELSE UNCHANGED <<expiry, readable>>
    /\ UNCHANGED <<now, pc, readNow, ready, removed, executed>>

(* Mutant: the result does not say whether the task was found.             *)
RemoveTaskBlindly(x) ==
    /\ x.id <= lastId
    /\ x.id \notin removed
    /\ taskMap' = taskMap \ {x}
    /\ removed' = removed \cup {x.id}
    /\ UNCHANGED <<now, expiry, readable, pc, readNow, ready, lastId,
                   executed>>

(* remove_task finds the task and returns true.  When it does not find it, *)
(* it returns false and changes nothing.                                   *)
RemoveTask(x) ==
    /\ x \in taskMap
    /\ taskMap' = taskMap \ {x}
    /\ removed' = removed \cup {x.id}
    /\ UNCHANGED <<now, expiry, readable, pc, readNow, ready, lastId,
                   executed>>
-----------------------------------------------------------------------------
(* io_timer_handler::io_avail                                              *)

(* epoll_wait returns the timerfd, perhaps to several threads.             *)
TakeTimer(t) ==
    /\ pc[t] = "epoll"
    /\ readable
    /\ pc' = [pc EXCEPT ![t] = "read"]
    /\ UNCHANGED <<now, taskMap, expiry, readable, readNow, ready, lastId,
                   removed, executed>>

(* One of them reads the expiration...                                     *)
ReadTimer(t) ==
    /\ pc[t] = "read"
    /\ readable
    /\ readable' = FALSE
    /\ pc' = [pc EXCEPT ![t] = "clock"]
    /\ UNCHANGED <<now, taskMap, expiry, readNow, ready, lastId, removed,
                   executed>>

(* ... and the others get EAGAIN.                                          *)
ReadEagain(t) ==
    /\ pc[t] = "read"
    /\ ~readable
    /\ pc' = [pc EXCEPT ![t] = "epoll"]
    /\ UNCHANGED <<now, taskMap, expiry, readable, readNow, ready, lastId,
                   removed, executed>>

ReadClock(t) ==
    /\ pc[t] = "clock"
    /\ readNow' = [readNow EXCEPT ![t] = now]
    /\ pc' = [pc EXCEPT ![t] = "lock"]
    /\ UNCHANGED <<now, taskMap, expiry, readable, ready, lastId, removed,
                   executed>>

(* Mutant: a handler that finds nothing to execute does not set the timer. *)
CollectReadyLazy(t) ==
    /\ pc[t] = "lock"
    /\ ready' = [ready EXCEPT ![t] = {x \in taskMap : x.when <= readNow[t]}]
    /\ taskMap' = taskMap \ ready'[t]
    /\ IF taskMap' = {} \/ ready'[t] = {}
         THEN UNCHANGED <<expiry, readable>>
         ELSE \E x \in taskMap' : IsFirst(x, taskMap') /\ SetTime(x.when)
    /\ pc' = [pc EXCEPT ![t] = "exec"]
    /\ UNCHANGED <<now, readNow, lastId, removed, executed>>

(* Mutant: a task that is ready stays in the map while it is executed.     *)
CollectReadyKeep(t) ==
    /\ pc[t] = "lock"
    /\ ready' = [ready EXCEPT ![t] = {x \in taskMap : x.when <= readNow[t]}]
    /\ taskMap' = taskMap
    /\ LET rest == taskMap \ ready'[t] IN
          IF rest = {}
            THEN UNCHANGED <<expiry, readable>>
            ELSE \E x \in rest : IsFirst(x, rest) /\ SetTime(x.when)
    /\ pc' = [pc EXCEPT ![t] = "exec"]
    /\ UNCHANGED <<now, readNow, lastId, removed, executed>>

(* With task_mutex_, the tasks whose time has come leave the map, and the  *)
(* timer is set to the first of those that stay.                           *)
CollectReady(t) ==
    /\ pc[t] = "lock"
    /\ ready' = [ready EXCEPT ![t] = {x \in taskMap : x.when <= readNow[t]}]
    /\ taskMap' = taskMap \ ready'[t]
    /\ IF taskMap' = {}
         THEN UNCHANGED <<expiry, readable>>
         ELSE \E x \in taskMap' : IsFirst(x, taskMap') /\ SetTime(x.when)
    /\ pc' = [pc EXCEPT ![t] = "exec"]
    /\ UNCHANGED <<now, readNow, lastId, removed, executed>>

(* Without it they are executed, in the order of their times.              *)
ExecTask(t, x) ==
    /\ pc[t] = "exec"
    /\ IsFirst(x, ready[t])
    /\ ready' = [ready EXCEPT ![t] = @ \ {x}]
    /\ executed' = executed \cup {x.id}
    /\ UNCHANGED <<now, taskMap, expiry, readable, pc, readNow, lastId,
                   removed>>

EndHandler(t) ==
    /\ pc[t] = "exec"
    /\ ready[t] = {}
    /\ pc' = [pc EXCEPT ![t] = "epoll"]
    /\ UNCHANGED <<now, taskMap, expiry, readable, readNow, ready, lastId,
                   removed, executed>>
-----------------------------------------------------------------------------
ThreadStep(t) ==
    \/ TakeTimer(t) \/ ReadTimer(t) \/ ReadEagain(t) \/ ReadClock(t)
    \/ CollectReady(t) \/ EndHandler(t)
    \/ \E x \in Tasks : ExecTask(t, x)

Next ==
    \/ Tick \/ Expire
    \/ \E when \in Times : ScheduleTask(when)
    \/ \E x \in Tasks : RemoveTask(x)
    \/ \E t \in Threads : ThreadStep(t)

Spec == Init /\ [][Next]_vars

(* Time passes, the kernel expires the timer and schedules the threads.    *)
Fairness ==
    /\ WF_vars(Tick)
    /\ WF_vars(Expire)
    /\ \A t \in Threads : WF_vars(ThreadStep(t))

FairSpec == Spec /\ Fairness
-----------------------------------------------------------------------------
(* The variables have their types.                                        *)
TypeOK ==
    /\ now \in 0..MaxTime
    /\ taskMap \in SUBSET Tasks
    /\ expiry \in 0..MaxTime
    /\ readable \in BOOLEAN
    /\ pc \in [Threads -> {"epoll", "read", "clock", "lock", "exec"}]
    /\ readNow \in [Threads -> 0..MaxTime]
    /\ ready \in [Threads -> SUBSET Tasks]
    /\ lastId \in 0..MaxTasks
    /\ removed \in SUBSET Ids
    /\ executed \in SUBSET Ids

(* While a task is in the map the timer is sure to be handled in time: it  *)
(* is set to no later than every task, or it has expired and not been      *)
(* read, or a handler has read it and has yet to look at the map.          *)
TimerCovers ==
    taskMap # {} =>
        \/ expiry # 0 /\ \A x \in taskMap : expiry <= x.when
        \/ readable
        \/ \E t \in Threads : pc[t] \in {"clock", "lock"}

(* A task for which remove_task returned true is not executed, not even by *)
(* a handler that was already at work when it was removed.                 *)
RemovedStaysOut ==
    \A i \in removed :
        /\ i \notin executed
        /\ \A t \in Threads : \A x \in ready[t] : x.id # i

(* A task is in one place: scheduled, collected by one thread or executed. *)
ExecutedOnce ==
    /\ \A x \in taskMap : x.id \notin executed
    /\ \A t \in Threads : \A x \in ready[t] :
          /\ x.id \notin executed
          /\ \A y \in taskMap : y.id # x.id
          /\ \A u \in Threads \ {t} : \A y \in ready[u] : y.id # x.id

(* No handler is about to execute a task before its time.                  *)
NeverEarly == \A t \in Threads : \A x \in ready[t] : x.when <= now

(* Every task that is scheduled is executed, unless it is removed.         *)
EveryTaskExecuted ==
    \A i \in Ids :
        (\E x \in taskMap : x.id = i) ~> (i \in executed \cup removed)

(* The handler's clock reading is in the past, and it holds tasks only     *)
(* while it executes them.                                                 *)
HandlerInv ==
    \A t \in Threads :
        /\ readNow[t] <= now
        /\ ready[t] # {} => pc[t] = "exec"

(* Identifiers name one task each, and those above lastId are unused.      *)
IdInv ==
    /\ \A x \in taskMap : x.id <= lastId /\ x.id \notin removed
    /\ \A x, y \in taskMap : x.id = y.id => x = y
    /\ \A t \in Threads : \A x \in ready[t] : x.id <= lastId
    /\ \A t \in Threads : \A x, y \in ready[t] : x.id = y.id => x = y
    /\ \A i \in removed \cup executed : i <= lastId

(* The inductive invariant.                                                *)
IInv ==
    /\ TypeOK
    /\ TimerCovers
    /\ RemovedStaysOut
    /\ ExecutedOnce
    /\ NeverEarly
    /\ HandlerInv
    /\ IdInv
=============================================================================
