---------------------------- MODULE IoTimerProofs ----------------------------
(***************************************************************************)
(* What IoTimer guarantees for any number of io threads, any number of     *)
(* tasks and any range of times.  The invariant IInv is inductive: each    *)
(* action that can disturb a part of it has a lemma of its own, and the    *)
(* theorems follow from IInv.                                              *)
(***************************************************************************)
EXTENDS IoTimer, TLAPS

(* The initial state of the timer satisfies the inductive invariant.       *)
LEMMA InitIInv == Init => IInv
<1> SUFFICES ASSUME Init PROVE IInv
  OBVIOUS
<1>1. TypeOK
  <2>1. readable \in BOOLEAN
    BY Zenon DEF Init
  <2>2. now \in 0..MaxTime /\ expiry \in 0..MaxTime /\ lastId \in 0..MaxTasks
    BY IoTimerAssumption DEF IoTimerAssumption, Init
  <2>3. readNow \in [Threads -> 0..MaxTime]
    BY IoTimerAssumption DEF IoTimerAssumption, Init
  <2> QED BY <2>1, <2>2, <2>3 DEF Init, TypeOK
<1>2. TimerCovers /\ RemovedStaysOut /\ ExecutedOnce /\ NeverEarly
  BY DEF Init, TimerCovers, RemovedStaysOut, ExecutedOnce, NeverEarly
<1>3. HandlerInv /\ IdInv
  BY DEF Init, HandlerInv, IdInv
<1> QED BY <1>1, <1>2, <1>3 DEF IInv

(* The passing of time keeps the invariant.                                *)
LEMMA TickStep == ASSUME IInv, Tick PROVE IInv'
BY IoTimerAssumption DEF IoTimerAssumption, Tick, IInv, TypeOK, TimerCovers, RemovedStaysOut,
    ExecutedOnce, NeverEarly, HandlerInv, IdInv,
    Tasks, Times, Ids

(* The expiration of the timerfd keeps the invariant: from then on it is   *)
(* readable.                                                               *)
LEMMA ExpireStep == ASSUME IInv, Expire PROVE IInv'
BY IoTimerAssumption DEF IoTimerAssumption, Expire, IInv, TypeOK, TimerCovers, RemovedStaysOut,
    ExecutedOnce, NeverEarly, HandlerInv, IdInv,
    Tasks, Times, Ids

(* schedule_task keeps the invariant: if the new task is not the first     *)
(* one, there is an earlier one that the timer already covers.             *)
LEMMA ScheduleTaskStep ==
    ASSUME IInv, NEW when \in Times, ScheduleTask(when) PROVE IInv'
<1> DEFINE task == [when |-> when, id |-> lastId']
<1>1. /\ lastId' = lastId + 1
      /\ lastId' \in Ids
      /\ task \in Tasks
      /\ taskMap' = taskMap \cup {task}
      /\ task.when = when /\ task.id = lastId'
      /\ UNCHANGED <<now, pc, readNow, ready, removed, executed>>
  BY IoTimerAssumption DEF IoTimerAssumption, ScheduleTask, IInv, TypeOK, Tasks, Ids
<1>2. expiry' \in 0..MaxTime /\ readable' \in BOOLEAN /\ TimerCovers'
  <2>1. CASE IsFirst(task, taskMap')
    <3>1. expiry' = when /\ readable' = FALSE
      BY <2>1 DEF ScheduleTask, SetTime
    <3>2. readable' \in BOOLEAN
      BY <3>1, Zenon
    <3>3. expiry' \in 0..MaxTime /\ expiry' # 0
      BY <3>1, IoTimerAssumption DEF IoTimerAssumption, Times
    <3>4. \A x \in taskMap' : expiry' <= x.when
      BY <1>1, <2>1, <3>1 DEF IsFirst
    <3> QED BY <3>2, <3>3, <3>4 DEF TimerCovers
  <2>2. CASE ~IsFirst(task, taskMap')
    <3>1. UNCHANGED <<expiry, readable>>
      BY <2>2 DEF ScheduleTask
    <3>2. PICK y \in taskMap : y.when < when
      BY <1>1, <2>2 DEF IsFirst, IInv, TypeOK, Tasks, Times
    <3> QED BY <1>1, <3>1, <3>2
            DEF TimerCovers, IInv, TypeOK, Tasks, Times
  <2> QED BY <2>1, <2>2
<1> HIDE DEF task
<1>3. TypeOK'
  BY <1>1, <1>2, IoTimerAssumption
  DEF IoTimerAssumption, IInv, TypeOK, Ids
<1>4. lastId \in Nat /\ lastId' \in Nat /\ lastId' = lastId + 1 /\ \A i \in Ids : i \in Nat
  BY <1>1, IoTimerAssumption DEF IoTimerAssumption, IInv, TypeOK, Ids
<1>5. \A y \in taskMap : y.id # task.id
  BY <1>1, <1>4 DEF IInv, TypeOK, IdInv, Tasks
<1>6. \A t \in Threads : \A y \in ready[t] : y.id # task.id
  BY <1>1, <1>4 DEF IInv, TypeOK, IdInv, Tasks
<1>7. task.id \notin removed \cup executed
  BY <1>1, <1>4 DEF IInv, TypeOK, IdInv
<1>8. RemovedStaysOut' /\ ExecutedOnce' /\ NeverEarly' /\ HandlerInv'
  BY <1>1, <1>5, <1>6, <1>7
  DEF IInv, RemovedStaysOut, ExecutedOnce, NeverEarly, HandlerInv
<1>9. IdInv'
  <2>1. \A x \in taskMap' : x.id <= lastId' /\ x.id \notin removed'
    <3> SUFFICES ASSUME NEW x \in taskMap'
                 PROVE  x.id <= lastId' /\ x.id \notin removed'
      OBVIOUS
    <3>1. CASE x = task
      BY <1>1, <1>4, <1>7, <3>1
    <3>2. CASE x \in taskMap
      <4>1. x.id \in Ids /\ x.id <= lastId /\ x.id \notin removed
        BY <3>2 DEF IInv, TypeOK, IdInv, Tasks
      <4>2. removed' = removed
        BY <1>1
      <4>3. x.id \in Nat
        BY <1>4, <4>1
      <4> QED BY <1>4, <4>1, <4>2, <4>3
    <3> QED BY <1>1, <3>1, <3>2
  <2>2. \A x, y \in taskMap' : x.id = y.id => x = y
    BY <1>1, <1>5 DEF IInv, IdInv
  <2>3. \A t \in Threads : \A x \in ready[t] : x.id <= lastId'
    <3> SUFFICES ASSUME NEW t \in Threads, NEW x \in ready[t]
                 PROVE  x.id <= lastId'
      OBVIOUS
    <3>1. x.id \in Ids /\ x.id <= lastId
      BY DEF IInv, TypeOK, IdInv, Tasks
    <3> QED BY <1>4, <3>1
  <2>4. \A i \in removed \cup executed : i <= lastId'
    <3> SUFFICES ASSUME NEW i \in removed \cup executed
                 PROVE  i <= lastId'
      OBVIOUS
    <3>1. i \in Ids /\ i <= lastId
      BY DEF IInv, TypeOK, IdInv
    <3> QED BY <1>4, <3>1
  <2> QED BY <1>1, <2>1, <2>2, <2>3, <2>4 DEF IInv, IdInv
<1> QED BY <1>2, <1>3, <1>8, <1>9 DEF IInv

(* remove_task keeps the invariant: a timer that covers the map covers     *)
(* what is left of it.                                                     *)
LEMMA RemoveTaskStep ==
    ASSUME IInv, NEW x \in Tasks, RemoveTask(x) PROVE IInv'
<1> USE DEF IInv, RemoveTask
<1>1. TypeOK' /\ x.id \in Ids
  BY DEF TypeOK, Tasks
<1>2. TimerCovers'
  BY DEF TimerCovers
<1>3. RemovedStaysOut' /\ ExecutedOnce' /\ NeverEarly'
  BY DEF RemovedStaysOut, ExecutedOnce, NeverEarly, IdInv
<1>4. HandlerInv' /\ IdInv'
  BY DEF HandlerInv, IdInv
<1> QED BY <1>1, <1>2, <1>3, <1>4

(* The steps of the handler up to the mutex keep the invariant: of the     *)
(* threads that were given one expiration, the one that reads it goes on   *)
(* to look at the map.                                                     *)
LEMMA HandlerStep ==
    ASSUME IInv, NEW t \in Threads,
           TakeTimer(t) \/ ReadTimer(t) \/ ReadEagain(t) \/ ReadClock(t)
             \/ EndHandler(t)
    PROVE  IInv'
<1>1. CASE TakeTimer(t)
  BY <1>1, IoTimerAssumption DEF IoTimerAssumption, TakeTimer, IInv, TypeOK, TimerCovers,
    RemovedStaysOut, ExecutedOnce, NeverEarly, HandlerInv, IdInv,
    Tasks, Times, Ids
<1>2. CASE ReadTimer(t)
  BY <1>2, IoTimerAssumption DEF IoTimerAssumption, ReadTimer, IInv, TypeOK, TimerCovers,
    RemovedStaysOut, ExecutedOnce, NeverEarly, HandlerInv, IdInv,
    Tasks, Times, Ids
<1>3. CASE ReadEagain(t)
  BY <1>3, IoTimerAssumption DEF IoTimerAssumption, ReadEagain, IInv, TypeOK, TimerCovers,
    RemovedStaysOut, ExecutedOnce, NeverEarly, HandlerInv, IdInv,
    Tasks, Times, Ids
<1>4. CASE ReadClock(t)
  BY <1>4, IoTimerAssumption DEF IoTimerAssumption, ReadClock, IInv, TypeOK, TimerCovers,
    RemovedStaysOut, ExecutedOnce, NeverEarly, HandlerInv, IdInv,
    Tasks, Times, Ids
<1>5. CASE EndHandler(t)
  BY <1>5, IoTimerAssumption DEF IoTimerAssumption, EndHandler, IInv, TypeOK, TimerCovers,
    RemovedStaysOut, ExecutedOnce, NeverEarly, HandlerInv, IdInv,
    Tasks, Times, Ids
<1> QED BY <1>1, <1>2, <1>3, <1>4, <1>5

(* The handler's critical section keeps the invariant: what it collects    *)
(* leaves the map, and the timer is set to the first of the rest.          *)
LEMMA CollectReadyStep ==
    ASSUME IInv, NEW t \in Threads, CollectReady(t) PROVE IInv'
<1> DEFINE R == {x \in taskMap : x.when <= readNow[t]}
<1>1. /\ ready' = [ready EXCEPT ![t] = R]
      /\ ready'[t] = R
      /\ taskMap' = taskMap \ R
      /\ pc' = [pc EXCEPT ![t] = "exec"]
      /\ pc[t] = "lock"
      /\ ready[t] = {}
      /\ UNCHANGED <<now, readNow, lastId, removed, executed>>
  BY DEF CollectReady, IInv, TypeOK, HandlerInv
<1>2. \A x \in R : x \in taskMap /\ x.when <= now
  BY IoTimerAssumption
  DEF IoTimerAssumption, IInv, TypeOK, HandlerInv, Tasks, Times
<1>3. TimerCovers' /\ expiry' \in 0..MaxTime /\ readable' \in BOOLEAN
  <2>1. CASE taskMap' = {}
    BY <2>1 DEF CollectReady, TimerCovers, IInv, TypeOK
  <2>2. CASE taskMap' # {}
    <3>1. PICK x \in taskMap' : IsFirst(x, taskMap') /\ SetTime(x.when)
      BY <2>2 DEF CollectReady
    <3>2. x.when \in Times
      BY <3>1, <1>1 DEF IInv, TypeOK, Tasks
    <3>3. readable' \in BOOLEAN
      BY <3>1, Zenon DEF SetTime
    <3>4. expiry' \in 0..MaxTime /\ expiry' # 0
      BY <3>1, <3>2, IoTimerAssumption DEF IoTimerAssumption, SetTime, Times
    <3>5. \A y \in taskMap' : expiry' <= y.when
      BY <3>1 DEF IsFirst, SetTime
    <3> QED BY <3>3, <3>4, <3>5 DEF TimerCovers
  <2> QED BY <2>1, <2>2
<1>4. TypeOK'
  BY <1>1, <1>2, <1>3 DEF IInv, TypeOK
<1>5. \A u \in Threads : ready'[u] = IF u = t THEN R ELSE ready[u]
  BY <1>1 DEF IInv, TypeOK
<1> HIDE DEF R
<1>6. RemovedStaysOut'
  BY <1>1, <1>2, <1>5 DEF IInv, RemovedStaysOut, IdInv
<1>7. ExecutedOnce'
  BY <1>1, <1>2, <1>5 DEF IInv, ExecutedOnce, IdInv
<1>8. NeverEarly' /\ IdInv'
  BY <1>1, <1>2, <1>5 DEF IInv, NeverEarly, IdInv
<1>9. HandlerInv'
  BY <1>1, <1>5 DEF IInv, TypeOK, HandlerInv
<1> QED BY <1>3, <1>4, <1>6, <1>7, <1>8, <1>9 DEF IInv

(* The execution of a task keeps the invariant.                            *)
LEMMA ExecTaskStep ==
    ASSUME IInv, NEW t \in Threads, NEW x \in Tasks, ExecTask(t, x)
    PROVE  IInv'
<1>1. /\ x \in ready[t] /\ pc[t] = "exec"
      /\ ready' = [ready EXCEPT ![t] = ready[t] \ {x}]
      /\ executed' = executed \cup {x.id}
      /\ x.id \in Ids
      /\ UNCHANGED <<now, taskMap, expiry, readable, pc, readNow, lastId,
                     removed>>
  BY DEF ExecTask, IsFirst, Tasks
<1>2. ready' \in [Threads -> SUBSET Tasks]
  BY <1>1 DEF IInv, TypeOK
<1>3. \A u \in Threads : ready'[u] = IF u = t THEN ready[t] \ {x} ELSE ready[u]
  BY <1>1 DEF IInv, TypeOK
<1>4. TypeOK'
  BY <1>1, <1>2 DEF IInv, TypeOK
<1>5. TimerCovers' /\ HandlerInv' /\ NeverEarly'
  BY <1>1, <1>3 DEF IInv, TimerCovers, HandlerInv, NeverEarly
<1>6. RemovedStaysOut'
  BY <1>1, <1>3 DEF IInv, RemovedStaysOut
<1>7. ExecutedOnce'
  BY <1>1, <1>3 DEF IInv, ExecutedOnce, IdInv
<1>8. IdInv'
  BY <1>1, <1>3 DEF IInv, IdInv
<1> QED BY <1>4, <1>5, <1>6, <1>7, <1>8 DEF IInv

(* Every step keeps the invariant.                                         *)
LEMMA NextIInv == IInv /\ [Next]_vars => IInv'
<1> SUFFICES ASSUME IInv, [Next]_vars PROVE IInv'
  OBVIOUS
<1>1. CASE UNCHANGED vars
  BY <1>1 DEF vars, IInv, TypeOK, TimerCovers, RemovedStaysOut, ExecutedOnce,
    NeverEarly, HandlerInv, IdInv
<1>2. CASE Next
  BY <1>2, TickStep, ExpireStep, ScheduleTaskStep, RemoveTaskStep,
     HandlerStep, CollectReadyStep, ExecTaskStep DEF Next, ThreadStep
<1> QED BY <1>1, <1>2

(* The inductive invariant holds in every state of the timer.              *)
THEOREM Invariance == Spec => []IInv
BY InitIInv, NextIInv, PTL DEF Spec

(* No task is ever left in the map without a timer, an unread expiration   *)
(* or a handler that will see to it, in whatever order schedule_task,      *)
(* remove_task and the handlers of several threads run.                    *)
THEOREM NoLostTask == Spec => []TimerCovers
<1>1. IInv => TimerCovers BY DEF IInv
<1> QED BY <1>1, Invariance, PTL

(* remove_task returning true means that the task is never executed.       *)
THEOREM RemovalIsFinal == Spec => []RemovedStaysOut
<1>1. IInv => RemovedStaysOut BY DEF IInv
<1> QED BY <1>1, Invariance, PTL

(* No task is executed twice or by two threads.                            *)
THEOREM AtMostOnce == Spec => []ExecutedOnce
<1>1. IInv => ExecutedOnce BY DEF IInv
<1> QED BY <1>1, Invariance, PTL

(* No task is executed before its time.                                    *)
THEOREM NotBeforeTime == Spec => []NeverEarly
<1>1. IInv => NeverEarly BY DEF IInv
<1> QED BY <1>1, Invariance, PTL
=============================================================================
