----------------------------- MODULE FiberProofs -----------------------------
(***************************************************************************)
(* Proofs about fibers and what they wait for: the network pipes and their *)
(* sweeps (FiberPipe), the life of fibers (FiberLife), the listening       *)
(* socket (TcpServer), the cache of addresses (DnsCache) and the lookup    *)
(* service behind it (DnsLookup), for any number of fibers, threads,       *)
(* connections and hosts.                                                  *)
(***************************************************************************)
EXTENDS FiberPipe, FiberLife, TcpServer, DnsCache, DnsLookup, SequenceTheorems, FiniteSetTheorems, TLAPS

-----------------------------------------------------------------------------
(* fiber_pipe: a sweep wakes only fibers that sleep with their contexts    *)
(* saved and that no event can wake, and without sweeps of hibernating     *)
(* pipes no sleeper is lost and the sweeps go on.                          *)

(* What a thread does and what it holds: a fiber that runs, or that it     *)
(* switches away from, sweeps to run, the pause.  A connection's fiber is  *)
(* on one thread at most.                                                  *)
ThreadInv ==
    /\ \A t \in Threads :
         /\ th[t] = "fiber" => fib[t] \in open \ waiting
         /\ th[t] = "arm" => fib[t] \in (open \cap waiting) \ armed
         /\ fib[t] # NoConn => th[t] \in {"fiber", "arm", "lost"}
         /\ th[t] = "rest" => resting[1] = t
         /\ th[t] \notin {"task", "pause", "lost"} => todo[t] = {}
         /\ th[t] = "pause" => pauser[1] = t
         /\ pauser[1] = t => th[t] \in {"pause", "lost"}
    /\ \A t, u \in Threads : fib[t] = fib[u] /\ fib[t] # NoConn => t = u

(* While a thread switches away from a fiber its limit is not yet due in   *)
(* any registered function; the fiber does not hibernate unless its pipe   *)
(* was attached before, or the mode allows it.  Only such a fiber makes    *)
(* the process go astray.                                                  *)
ArmInv ==
    /\ \A t \in Threads : th[t] = "arm" =>
         /\ \A r \in rest : fib[t] \notin r.past
         /\ fib[t] \in (listed \cap hibernating) \ attached => "fresh" \in mode
    /\ (\E t \in Threads : th[t] = "lost") =>
         /\ "fresh" \in mode /\ "hib" \in mode
         /\ \A t \in Threads : th[t] = "lost"

(* One thread at most is at rest, after the countdown has ended, and the   *)
(* list of timed out pipes belongs to the function it runs.                *)
RestInv ==
    /\ pauser[1] = NoThread <=> pauser[2] = "none"
    /\ resting[1] = NoThread => resting[2] = "none"
    /\ resting[1] # NoThread =>
         owed = {} /\ th[resting[1]] \in {"rest", "fiber", "arm", "lost"}
    /\ resting[2] = "none" => timedOut = {}

(* What epoll or a sweep is about to wake sleeps, never both, and only a   *)
(* sleeping fiber has a limit.                                             *)
SleepInv ==
    /\ armed \subseteq waiting
    /\ timedOut \subseteq waiting \ armed
    /\ \A t \in Threads : fib[t] \in timedOut => th[t] = "lost"
    /\ \A c \in Conns : timeout[c] # "forever" => c \in waiting

(* Without sweeps of hibernating pipes there is one sweep at most: due in  *)
(* the timer, in the hands of a thread, in the pause, waiting for the      *)
(* threads to come round, or at work; and next_pipe_sweep_ says so, except *)
(* that it may be stale after an idle failure.                             *)
NoTodo == \A t \in Threads : todo[t] = {}
OneSweep ==
    \/ /\ nextSweep /\ tasks = {"sweep"} /\ NoTodo /\ pauser[2] = "none"
       /\ rest = {} /\ resting[2] = "none"
    \/ /\ nextSweep /\ tasks = {} /\ pauser[2] = "none" /\ rest = {} /\ resting[2] = "none"
       /\ \E t \in Threads : todo[t] = {"sweep"} /\ \A u \in Threads \ {t} : todo[u] = {}
    \/ /\ nextSweep /\ tasks = {} /\ NoTodo /\ pauser[2] = "sweep"
       /\ rest = {} /\ resting[2] = "none"
    \/ /\ nextSweep /\ tasks = {} /\ NoTodo /\ pauser[2] = "none"
       /\ (\E r \in rest : rest = {r} /\ r.kind = "sweep") /\ resting[2] = "none"
    \/ /\ nextSweep /\ tasks = {} /\ NoTodo /\ pauser[2] = "none"
       /\ rest = {} /\ resting[2] = "sweep"
    \/ /\ nextSweep => "idle" \in mode
       /\ tasks = {} /\ NoTodo /\ pauser[2] = "none"
       /\ rest = {} /\ resting[2] = "none"

TimeoutsInv == "hib" \notin mode =>
    /\ OneSweep
    /\ open # {} => nextSweep
    /\ SleeperReachable

PipeInv == TypeOK /\ ThreadInv /\ ArmInv /\ RestInv /\ SleepInv /\ TimeoutsInv

(* Nobody is connected.                                                    *)
LEMMA PipeInitInv == Init => PipeInv
<1> SUFFICES ASSUME Init PROVE PipeInv
  OBVIOUS
<1>1. forcedClose \in BOOLEAN /\ nextSweep \in BOOLEAN /\ ~nextSweep
  BY Zenon DEF Init
<1>2. TypeOK
  BY <1>1, FiberPipeAssumption DEF FiberPipeAssumption, Init, TypeOK, Kinds
<1>3. ThreadInv /\ ArmInv /\ RestInv /\ SleepInv
  BY FiberPipeAssumption DEF FiberPipeAssumption, Init, ThreadInv, ArmInv, RestInv, SleepInv
<1>4. TimeoutsInv
  BY <1>1 DEF Init, TimeoutsInv, OneSweep, NoTodo, SleeperReachable
<1> QED BY <1>2, <1>3, <1>4 DEF PipeInv

(* Assigning a limit takes the connection out of the registered functions  *)
(* and leaves the others in.                                               *)
LEMMA SetTimeoutKeeps ==
    ASSUME TypeOK, NEW c, NEW v, SetTimeout(c, v)
    PROVE  /\ rest = {} => rest' = {}
           /\ \A r \in rest : rest = {r} /\ r.kind = "sweep" =>
                \E q \in rest' : rest' = {q} /\ q.kind = "sweep"
           /\ \A d : \A r \in rest : d # c /\ d \in r.past =>
                \E q \in rest' : q.kind = r.kind /\ d \in q.past
<1>1. rest' = {[r EXCEPT !.past = @ \ {c}] : r \in rest}
  BY DEF SetTimeout
<1>2. ASSUME NEW r \in rest
      PROVE  /\ [r EXCEPT !.past = @ \ {c}].kind = r.kind
             /\ [r EXCEPT !.past = @ \ {c}].past = r.past \ {c}
  BY DEF TypeOK
<1>3. ASSUME NEW r \in rest, rest = {r}, r.kind = "sweep"
      PROVE  \E q \in rest' : rest' = {q} /\ q.kind = "sweep"
  <2>1. PICK q : q = [r EXCEPT !.past = @ \ {c}]
    OBVIOUS
  <2>2. rest' = {q}
    BY <1>1, <1>3, <2>1
  <2>3. q.kind = "sweep"
    BY <1>2, <1>3, <2>1
  <2> QED BY <2>2, <2>3
<1>4. ASSUME NEW d, NEW r \in rest, d # c, d \in r.past
      PROVE  \E q \in rest' : q.kind = r.kind /\ d \in q.past
  <2>1. PICK q : q = [r EXCEPT !.past = @ \ {c}]
    OBVIOUS
  <2>2. q \in rest' /\ q.kind = r.kind /\ q.past = r.past \ {c}
    BY <1>1, <1>2, <2>1
  <2> QED BY <1>4, <2>2
<1> QED BY <1>1, <1>3, <1>4

(* A connection is accepted: its fiber runs, on this thread only.          *)
LEMMA OpenKeeps ==
    ASSUME PipeInv, NEW t \in Threads, NEW c \in Conns, Open(t, c)
    PROVE  PipeInv'
<1> USE FiberPipeAssumption DEF FiberPipeAssumption, PipeInv
<1>0. forcedClose' \in BOOLEAN /\ nextSweep' \in BOOLEAN
  BY Zenon DEF Open, TypeOK
<1>1. TypeOK'
  <2>1. tasks' \in SUBSET Kinds
    <3>1. tasks' = tasks \/ tasks' = tasks \cup {"sweep"}
      BY Zenon DEF Open
    <3> QED BY <3>1 DEF TypeOK, Kinds
  <2>2. /\ open' = open \cup {c} /\ listed' = listed \cup {c}
        /\ th' = [th EXCEPT ![t] = "fiber"] /\ fib' = [fib EXCEPT ![t] = c]
        /\ UNCHANGED <<mode, attached, armed, waiting, hibernating, timeout, todo,
                       pauser, owed, rest, resting, timedOut>>
    BY DEF Open, RunFiber, Goto
  <2> QED BY <1>0, <2>1, <2>2 DEF TypeOK
<1>2. ThreadInv'
  BY DEF TypeOK, ThreadInv, ArmInv, RestInv, SleepInv, Open, RunFiber, Goto, server, connVars, Kinds
<1>3. RestInv'
  BY DEF TypeOK, ThreadInv, ArmInv, RestInv, SleepInv, Open, RunFiber, Goto, server, connVars, Kinds
<1>4. SleepInv'
  BY DEF TypeOK, ThreadInv, ArmInv, RestInv, SleepInv, Open, RunFiber, Goto, server, connVars, Kinds
<1>6. ArmInv'
  BY DEF TypeOK, ThreadInv, ArmInv, RestInv, SleepInv, Open, RunFiber, Goto, server, connVars, Kinds
<1>5. TimeoutsInv'
  <2> SUFFICES ASSUME "hib" \notin mode PROVE OneSweep' /\ nextSweep' /\ SleeperReachable'
    BY DEF TimeoutsInv, Open
  <2>1. OneSweep /\ (open # {} => nextSweep) /\ SleeperReachable
    BY DEF TimeoutsInv
  <2>2. SleeperReachable'
    BY <2>1 DEF SleeperReachable, Late, Open, RunFiber, Goto, TypeOK
  <2>3. CASE open = {} /\ ~nextSweep
    <3>1. nextSweep'
      BY <2>3, Zenon DEF Open
    <3>2. tasks' = tasks \cup {"sweep"} /\ UNCHANGED <<todo, pauser, rest, resting>>
      BY <2>3 DEF Open
    <3> QED BY <2>1, <2>2, <2>3, <3>1, <3>2 DEF OneSweep, NoTodo
  <2>4. CASE ~(open = {} /\ ~nextSweep)
    <3>1. UNCHANGED <<mode, nextSweep, tasks, todo, pauser, rest, resting>>
      BY <2>4 DEF Open
    <3> QED BY <2>1, <2>2, <2>4, <3>1 DEF OneSweep, NoTodo
  <2> QED BY <2>3, <2>4
<1> QED BY <1>1, <1>2, <1>3, <1>4, <1>5, <1>6

(* A fiber goes to sleep; its pipe is not armed yet.                       *)
LEMMA SleepKeeps ==
    ASSUME PipeInv, NEW t \in Threads, NEW v \in {"forever", "later"}, NEW h \in BOOLEAN, Sleep(t, v, h)
    PROVE  PipeInv'
<1> USE FiberPipeAssumption DEF FiberPipeAssumption, PipeInv
<1>1. TypeOK'
  BY DEF TypeOK, ThreadInv, Sleep, SetTimeout, Goto, server, connVars, Kinds
<1>2. ThreadInv'
  BY DEF TypeOK, ThreadInv, ArmInv, RestInv, SleepInv, Sleep, SetTimeout, Goto, server, connVars, Kinds
<1>3. RestInv'
  BY DEF TypeOK, ThreadInv, ArmInv, RestInv, SleepInv, Sleep, SetTimeout, Goto, server, connVars, Kinds
<1>4. SleepInv'
  BY DEF TypeOK, ThreadInv, ArmInv, RestInv, SleepInv, Sleep, SetTimeout, Goto, server, connVars, Kinds
<1>6. ArmInv'
  BY DEF TypeOK, ThreadInv, ArmInv, RestInv, SleepInv, Sleep, SetTimeout, Goto, server, connVars, Kinds
<1>5. TimeoutsInv'
  <2> SUFFICES ASSUME "hib" \notin mode
               PROVE  OneSweep' /\ (open' # {} => nextSweep') /\ SleeperReachable'
    BY DEF TimeoutsInv, Sleep, server
  <2>1. OneSweep /\ (open # {} => nextSweep) /\ SleeperReachable
    BY DEF TimeoutsInv
  <2>2. /\ rest = {} => rest' = {}
        /\ \A r \in rest : rest = {r} /\ r.kind = "sweep" =>
             \E q \in rest' : rest' = {q} /\ q.kind = "sweep"
        /\ \A d : \A r \in rest : d # fib[t] /\ d \in r.past =>
             \E q \in rest' : q.kind = r.kind /\ d \in q.past
    BY SetTimeoutKeeps DEF Sleep
  <2>3. OneSweep' /\ (open' # {} => nextSweep')
    BY <2>1, <2>2 DEF OneSweep, NoTodo, Sleep, server
  <2>4. \A r \in rest : r.kind = "sweep"
    BY <2>1 DEF OneSweep
  <2>5. ASSUME NEW d \in waiting', d # fib[t]
        PROVE  d \in armed' \/ d \in timedOut'
                 \/ (\E u \in Threads : th'[u] = "arm" /\ fib'[u] = d)
                 \/ \E r \in rest' : d \in (Late(r.kind, r.past) \cap listed) \ attached'
    <3>1. d \in waiting
      BY <2>5 DEF Sleep
    <3>2. CASE d \in armed \/ d \in timedOut
      BY <2>5, <3>2 DEF Sleep
    <3>3. CASE \E r \in rest : d \in (Late(r.kind, r.past) \cap listed) \ attached
      <4>1. PICK r \in rest : d \in (Late(r.kind, r.past) \cap listed) \ attached
        BY <3>3
      <4>2. d \in r.past /\ d \in listed /\ d \notin attached'
        BY <2>4, <2>5, <4>1 DEF Late, Sleep
      <4>3. PICK q \in rest' : q.kind = r.kind /\ d \in q.past
        BY <2>2, <2>5, <4>2
      <4> QED BY <4>2, <4>3 DEF Late
    <3>4. CASE \E u \in Threads : th[u] = "arm" /\ fib[u] = d
      BY <2>5, <3>4 DEF Sleep, Goto, TypeOK
    <3> QED BY <2>1, <3>1, <3>2, <3>3, <3>4 DEF SleeperReachable
  <2>6. th'[t] = "arm" /\ fib'[t] = fib[t]
    BY DEF Sleep, Goto, TypeOK
  <2>7. listed' = listed /\ hibernating' \subseteq Conns
    BY <1>1 DEF Sleep, TypeOK
  <2>8. \A r \in rest' : r.kind = "sweep"
    BY <2>3 DEF OneSweep
  <2> QED BY <2>3, <2>5, <2>6, <2>7, <2>8 DEF SleeperReachable, Late
<1> QED BY <1>1, <1>2, <1>3, <1>4, <1>5, <1>6

(* The parent fiber arms the pipe.                                         *)
LEMMA ArmKeeps ==
    ASSUME PipeInv, NEW t \in Threads, Arm(t)
    PROVE  PipeInv'
<1> USE FiberPipeAssumption DEF FiberPipeAssumption, PipeInv
<1>1. TypeOK'
  BY DEF TypeOK, ThreadInv, Arm, LeaveFiber, Goto, server, connVars, Kinds
<1>2. ThreadInv'
  BY DEF TypeOK, ThreadInv, ArmInv, RestInv, SleepInv, Arm, LeaveFiber, Goto, server, connVars, Kinds
<1>3. RestInv'
  BY DEF TypeOK, ThreadInv, ArmInv, RestInv, SleepInv, Arm, LeaveFiber, Goto, server, connVars, Kinds
<1>4. SleepInv'
  BY DEF TypeOK, ThreadInv, ArmInv, RestInv, SleepInv, Arm, LeaveFiber, Goto, server, connVars, Kinds
<1>6. ArmInv'
  BY DEF TypeOK, ThreadInv, ArmInv, RestInv, SleepInv, Arm, LeaveFiber, Goto, server, connVars, Kinds
<1>5. TimeoutsInv'
  BY DEF TypeOK, ThreadInv, ArmInv, RestInv, SleepInv, TimeoutsInv, OneSweep, NoTodo, SleeperReachable, Late, Arm, LeaveFiber, Goto, server, connVars, Kinds
<1> QED BY <1>1, <1>2, <1>3, <1>4, <1>5, <1>6

(* An event wakes the fiber of an armed pipe.                              *)
LEMMA IoAvailKeeps ==
    ASSUME PipeInv, NEW t \in Threads, NEW c \in Conns, IoAvail(t, c)
    PROVE  PipeInv'
<1> USE FiberPipeAssumption DEF FiberPipeAssumption, PipeInv
<1>1. TypeOK'
  BY DEF TypeOK, ThreadInv, IoAvail, SetTimeout, RunFiber, Goto, server, connVars, Kinds
<1>2. ThreadInv'
  BY DEF TypeOK, ThreadInv, ArmInv, RestInv, SleepInv, IoAvail, SetTimeout, RunFiber, Goto, server, connVars, Kinds
<1>3. RestInv'
  BY DEF TypeOK, ThreadInv, ArmInv, RestInv, SleepInv, IoAvail, SetTimeout, RunFiber, Goto, server, connVars, Kinds
<1>4. SleepInv'
  BY DEF TypeOK, ThreadInv, ArmInv, RestInv, SleepInv, IoAvail, SetTimeout, RunFiber, Goto, server, connVars, Kinds
<1>6. ArmInv'
  BY DEF TypeOK, ThreadInv, ArmInv, RestInv, SleepInv, IoAvail, SetTimeout, RunFiber, Goto, server, connVars, Kinds
<1>5. TimeoutsInv'
  <2> SUFFICES ASSUME "hib" \notin mode
               PROVE  OneSweep' /\ (open' # {} => nextSweep') /\ SleeperReachable'
    BY DEF TimeoutsInv, IoAvail, server
  <2>1. OneSweep /\ (open # {} => nextSweep) /\ SleeperReachable
    BY DEF TimeoutsInv
  <2>2. /\ rest = {} => rest' = {}
        /\ \A r \in rest : rest = {r} /\ r.kind = "sweep" =>
             \E q \in rest' : rest' = {q} /\ q.kind = "sweep"
        /\ \A d : \A r \in rest : d # c /\ d \in r.past =>
             \E q \in rest' : q.kind = r.kind /\ d \in q.past
    BY SetTimeoutKeeps DEF IoAvail
  <2>3. OneSweep' /\ (open' # {} => nextSweep')
    BY <2>1, <2>2 DEF OneSweep, NoTodo, IoAvail, server
  <2>4. \A r \in rest : r.kind = "sweep"
    BY <2>1 DEF OneSweep
  <2>5. ASSUME NEW d \in waiting', d # c
        PROVE  d \in armed' \/ d \in timedOut'
                 \/ (\E u \in Threads : th'[u] = "arm" /\ fib'[u] = d)
                 \/ \E r \in rest' : d \in (Late(r.kind, r.past) \cap listed) \ attached'
    <3>1. d \in waiting
      BY <2>5 DEF IoAvail
    <3>2. CASE d \in armed \/ d \in timedOut
      BY <2>5, <3>2 DEF IoAvail
    <3>3. CASE \E r \in rest : d \in (Late(r.kind, r.past) \cap listed) \ attached
      <4>1. PICK r \in rest : d \in (Late(r.kind, r.past) \cap listed) \ attached
        BY <3>3
      <4>2. d \in r.past /\ d \in listed /\ d \notin attached'
        BY <2>4, <2>5, <4>1 DEF Late, IoAvail
      <4>3. PICK q \in rest' : q.kind = r.kind /\ d \in q.past
        BY <2>2, <2>5, <4>2
      <4> QED BY <4>2, <4>3 DEF Late
    <3>4. CASE \E u \in Threads : th[u] = "arm" /\ fib[u] = d
      BY <2>5, <3>4 DEF IoAvail, RunFiber, Goto, TypeOK
    <3> QED BY <2>1, <3>1, <3>2, <3>3, <3>4 DEF SleeperReachable
  <2>6. c \in waiting' => c \in armed'
    BY DEF IoAvail
  <2>7. listed' = listed /\ hibernating' \subseteq Conns
    BY <1>1 DEF IoAvail, TypeOK
  <2>8. \A r \in rest' : r.kind = "sweep"
    BY <2>3 DEF OneSweep
  <2> QED BY <2>3, <2>5, <2>6, <2>7, <2>8 DEF SleeperReachable, Late
<1> QED BY <1>1, <1>2, <1>3, <1>4, <1>5, <1>6

(* A fiber ends and its pipe is gone.                                      *)
LEMMA CloseKeeps ==
    ASSUME PipeInv, NEW t \in Threads, Close(t)
    PROVE  PipeInv'
<1> USE FiberPipeAssumption DEF FiberPipeAssumption, PipeInv
<1>1. TypeOK'
  BY DEF TypeOK, ThreadInv, Close, LeaveFiber, Goto, server, connVars, Kinds
<1>2. ThreadInv'
  BY DEF TypeOK, ThreadInv, ArmInv, RestInv, SleepInv, Close, LeaveFiber, Goto, server, connVars, Kinds
<1>3. RestInv'
  BY DEF TypeOK, ThreadInv, ArmInv, RestInv, SleepInv, Close, LeaveFiber, Goto, server, connVars, Kinds
<1>4. SleepInv'
  BY DEF TypeOK, ThreadInv, ArmInv, RestInv, SleepInv, Close, LeaveFiber, Goto, server, connVars, Kinds
<1>6. ArmInv'
  BY DEF TypeOK, ThreadInv, ArmInv, RestInv, SleepInv, Close, LeaveFiber, Goto, server, connVars, Kinds
<1>5. TimeoutsInv'
  BY DEF TypeOK, ThreadInv, ArmInv, RestInv, SleepInv, TimeoutsInv, OneSweep, NoTodo, SleeperReachable, Late, Close, LeaveFiber, Goto, server, connVars, Kinds
<1> QED BY <1>1, <1>2, <1>3, <1>4, <1>5, <1>6

(* A limit passes.                                                         *)
LEMMA ExpireKeeps ==
    ASSUME PipeInv, NEW c \in Conns, Expire(c)
    PROVE  PipeInv'
<1> USE FiberPipeAssumption DEF FiberPipeAssumption, PipeInv
<1>1. TypeOK'
  BY DEF TypeOK, ThreadInv, Expire, server, connVars, Kinds
<1>2. ThreadInv'
  BY DEF TypeOK, ThreadInv, ArmInv, RestInv, SleepInv, Expire, server, connVars, Kinds
<1>3. RestInv'
  BY DEF TypeOK, ThreadInv, ArmInv, RestInv, SleepInv, Expire, server, connVars, Kinds
<1>4. SleepInv'
  BY DEF TypeOK, ThreadInv, ArmInv, RestInv, SleepInv, Expire, server, connVars, Kinds
<1>6. ArmInv'
  BY DEF TypeOK, ThreadInv, ArmInv, RestInv, SleepInv, Expire, server, connVars, Kinds
<1>5. TimeoutsInv'
  BY DEF TypeOK, ThreadInv, ArmInv, RestInv, SleepInv, TimeoutsInv, OneSweep, NoTodo, SleeperReachable, Late, Expire, server, connVars, Kinds
<1> QED BY <1>1, <1>2, <1>3, <1>4, <1>5, <1>6

(* A thread takes the sweeps that are due.                                 *)
LEMMA TakeTasksKeeps ==
    ASSUME PipeInv, NEW t \in Threads, NEW due \in SUBSET Kinds, TakeTasks(t, due)
    PROVE  PipeInv'
<1> USE FiberPipeAssumption DEF FiberPipeAssumption, PipeInv
<1>1. TypeOK'
  BY DEF TypeOK, ThreadInv, TakeTasks, Goto, server, connVars, Kinds
<1>2. ThreadInv'
  BY DEF TypeOK, ThreadInv, ArmInv, RestInv, SleepInv, TakeTasks, Goto, server, connVars, Kinds
<1>3. RestInv'
  BY DEF TypeOK, ThreadInv, ArmInv, RestInv, SleepInv, TakeTasks, Goto, server, connVars, Kinds
<1>4. SleepInv'
  BY DEF TypeOK, ThreadInv, ArmInv, RestInv, SleepInv, TakeTasks, Goto, server, connVars, Kinds
<1>6. ArmInv'
  BY DEF TypeOK, ThreadInv, ArmInv, RestInv, SleepInv, TakeTasks, Goto, server, connVars, Kinds
<1>5. TimeoutsInv'
  <2> SUFFICES ASSUME "hib" \notin mode
               PROVE  OneSweep' /\ (open # {} => nextSweep') /\ SleeperReachable'
    BY DEF TimeoutsInv, TakeTasks, server, connVars
  <2>1. OneSweep /\ (open # {} => nextSweep) /\ SleeperReachable
    BY DEF TimeoutsInv
  <2>2. /\ due = {"sweep"} /\ tasks = {"sweep"} /\ nextSweep /\ NoTodo
        /\ pauser[2] = "none" /\ rest = {} /\ resting[2] = "none"
    BY <2>1 DEF OneSweep, TakeTasks
  <2>3. /\ tasks' = {} /\ todo'[t] = {"sweep"} /\ \A u \in Threads \ {t} : todo'[u] = {}
    BY <2>2 DEF TakeTasks, TypeOK, NoTodo
  <2>4. UNCHANGED <<connVars, nextSweep, pauser, rest, resting, timedOut>>
    BY DEF TakeTasks
  <2>5. OneSweep'
    BY <2>2, <2>3, <2>4 DEF OneSweep
  <2>6. SleeperReachable'
    <3>1. \A u \in Threads : th[u] = "arm" => th'[u] = "arm" /\ fib'[u] = fib[u]
      BY DEF TakeTasks, Goto, TypeOK
    <3> QED BY <2>1, <2>4, <3>1 DEF SleeperReachable, connVars, Late
  <2> QED BY <2>1, <2>4, <2>5, <2>6
<1> QED BY <1>1, <1>2, <1>3, <1>4, <1>5, <1>6

(* Descriptors run out.                                                    *)
LEMMA SweepHibernatingKeeps ==
    ASSUME PipeInv, NEW t \in Threads, SweepHibernating(t)
    PROVE  PipeInv'
<1> USE FiberPipeAssumption DEF FiberPipeAssumption, PipeInv
<1>1. TypeOK'
  BY DEF TypeOK, ThreadInv, SweepHibernating, Goto, server, connVars, Kinds
<1>2. ThreadInv'
  BY DEF TypeOK, ThreadInv, ArmInv, RestInv, SleepInv, SweepHibernating, Goto, server, connVars, Kinds
<1>3. RestInv'
  BY DEF TypeOK, ThreadInv, ArmInv, RestInv, SleepInv, SweepHibernating, Goto, server, connVars, Kinds
<1>4. SleepInv'
  BY DEF TypeOK, ThreadInv, ArmInv, RestInv, SleepInv, SweepHibernating, Goto, server, connVars, Kinds
<1>6. ArmInv'
  BY DEF TypeOK, ThreadInv, ArmInv, RestInv, SleepInv, SweepHibernating, Goto, server, connVars, Kinds
<1>5. TimeoutsInv'
  BY DEF TypeOK, ThreadInv, ArmInv, RestInv, SleepInv, TimeoutsInv, OneSweep, NoTodo, SleeperReachable, Late, SweepHibernating, Goto, server, connVars, Kinds
<1> QED BY <1>1, <1>2, <1>3, <1>4, <1>5, <1>6

(* A sweep enters while_paused2.                                           *)
LEMMA SweepKeeps ==
    ASSUME PipeInv, NEW t \in Threads, NEW k \in Kinds, Sweep(t, k)
    PROVE  PipeInv'
<1> USE FiberPipeAssumption DEF FiberPipeAssumption, PipeInv
<1>1. TypeOK'
  BY DEF TypeOK, ThreadInv, Sweep, Goto, server, connVars, Kinds
<1>2. ThreadInv'
  BY DEF TypeOK, ThreadInv, ArmInv, RestInv, SleepInv, Sweep, Goto, server, connVars, Kinds
<1>3. RestInv'
  BY DEF TypeOK, ThreadInv, ArmInv, RestInv, SleepInv, Sweep, Goto, server, connVars, Kinds
<1>4. SleepInv'
  BY DEF TypeOK, ThreadInv, ArmInv, RestInv, SleepInv, Sweep, Goto, server, connVars, Kinds
<1>6. ArmInv'
  BY DEF TypeOK, ThreadInv, ArmInv, RestInv, SleepInv, Sweep, Goto, server, connVars, Kinds
<1>5. TimeoutsInv'
  BY DEF TypeOK, ThreadInv, ArmInv, RestInv, SleepInv, TimeoutsInv, OneSweep, NoTodo, SleeperReachable, Late, Sweep, Goto, server, connVars, Kinds
<1> QED BY <1>1, <1>2, <1>3, <1>4, <1>5, <1>6

(* A sweep finds pause_outer_mutex_ locked.                                *)
LEMMA SweepBusyKeeps ==
    ASSUME PipeInv, NEW t \in Threads, NEW k \in Kinds, SweepBusy(t, k)
    PROVE  PipeInv'
<1> USE FiberPipeAssumption DEF FiberPipeAssumption, PipeInv
<1>0. nextSweep' \in BOOLEAN
  BY Zenon DEF SweepBusy, TypeOK
<1>1. TypeOK'
  <2>1. tasks' \in SUBSET Kinds
    <3>1. tasks' = tasks \/ tasks' = tasks \cup {k}
      BY Zenon DEF SweepBusy
    <3> QED BY <3>1 DEF TypeOK, Kinds
  <2>2. /\ todo' = [todo EXCEPT ![t] = @ \ {k}]
        /\ UNCHANGED <<server, connVars, th, fib, pauser, owed, rest, resting, timedOut>>
    BY DEF SweepBusy
  <2> QED BY <1>0, <2>1, <2>2 DEF TypeOK, server, connVars
<1>2. ThreadInv'
  BY DEF TypeOK, ThreadInv, ArmInv, RestInv, SleepInv, SweepBusy, server, connVars, Kinds
<1>3. RestInv'
  BY DEF TypeOK, ThreadInv, ArmInv, RestInv, SleepInv, SweepBusy, server, connVars, Kinds
<1>4. SleepInv'
  BY DEF TypeOK, ThreadInv, ArmInv, RestInv, SleepInv, SweepBusy, server, connVars, Kinds
<1>6. ArmInv'
  BY DEF TypeOK, ThreadInv, ArmInv, RestInv, SleepInv, SweepBusy, server, connVars, Kinds
<1>5. TimeoutsInv'
  <2> SUFFICES ASSUME "hib" \notin mode
               PROVE  OneSweep' /\ (open # {} => nextSweep') /\ SleeperReachable'
    BY DEF TimeoutsInv, SweepBusy, server, connVars
  <2>1. OneSweep /\ (open # {} => nextSweep) /\ SleeperReachable
    BY DEF TimeoutsInv
  <2>2. /\ k = "sweep" /\ nextSweep /\ tasks = {} /\ todo[t] = {"sweep"}
        /\ \A u \in Threads \ {t} : todo[u] = {}
        /\ pauser[2] = "none" /\ rest = {} /\ resting[2] = "none"
    BY <2>1 DEF OneSweep, NoTodo, SweepBusy, Kinds
  <2>3. /\ NoTodo' /\ UNCHANGED <<mode, open, listed, attached, armed, waiting, hibernating,
                                 th, fib, pauser, rest, resting, timedOut>>
    BY <2>2 DEF SweepBusy, NoTodo, TypeOK, server, connVars
  <2>4. CASE open # {}
    <3>1. tasks' = {"sweep"} /\ nextSweep'
      <4>1. tasks' = tasks \cup {k} /\ nextSweep' = (nextSweep \/ k = "sweep")
        BY <2>4, Zenon DEF SweepBusy
      <4> QED BY <2>2, <4>1
    <3> QED BY <2>1, <2>2, <2>3, <2>4, <3>1 DEF OneSweep, SleeperReachable, Late
  <2>5. CASE open = {}
    <3>1. UNCHANGED <<tasks, nextSweep>>
      BY <2>2, <2>5 DEF SweepBusy
    <3>2. "idle" \in mode
      BY <2>2, <2>5 DEF SweepBusy, RestInv
    <3> QED BY <2>1, <2>2, <2>3, <2>5, <3>1, <3>2 DEF OneSweep, SleeperReachable, Late
  <2> QED BY <2>4, <2>5
<1> QED BY <1>1, <1>2, <1>3, <1>4, <1>5, <1>6

(* The late pipes are taken out of epoll.                                  *)
LEMMA PausedKeeps ==
    ASSUME PipeInv, NEW t \in Threads, Paused(t)
    PROVE  PipeInv'
<1> USE FiberPipeAssumption DEF FiberPipeAssumption, PipeInv
<1>0. PICK k \in Kinds, past \in SUBSET Conns :
        /\ k = pauser[2] /\ past = {c \in listed : timeout[c] = "past"}
        /\ Late(k, past) \subseteq attached
        /\ attached' = attached \ Late(k, past) /\ armed' = armed \ Late(k, past)
        /\ rest' = rest \cup {[kind |-> k, past |-> past]}
  <2>1. pauser[2] \in Kinds
    BY DEF Paused, RestInv, TypeOK
  <2>2. {c \in listed : timeout[c] = "past"} \in SUBSET Conns
    BY DEF TypeOK
  <2> QED BY <2>1, <2>2 DEF Paused
<1>1. TypeOK'
  <2>1. rest' \in SUBSET [kind : Kinds, past : SUBSET Conns]
    BY <1>0 DEF TypeOK
  <2>2. /\ pauser' = <<NoThread, "none">> /\ owed' = Threads
        /\ th' = [u \in Threads |-> IF u = t THEN "task" ELSE "top"]
        /\ UNCHANGED <<server, open, listed, waiting, hibernating, timeout,
                       nextSweep, tasks, fib, todo, resting, timedOut>>
    BY DEF Paused, EndPause
  <2> QED BY <1>0, <2>1, <2>2 DEF TypeOK, server
<1>7. /\ \A u \in Threads : fib[u] = NoConn /\ th[u] \in {"epoll", "pause"}
      /\ resting[1] = NoThread /\ resting[2] = "none" /\ timedOut = {}
      /\ todo[t] \subseteq Kinds /\ \A u \in Threads \ {t} : todo[u] = {}
  BY DEF TypeOK, ThreadInv, RestInv, Paused
<1>8. /\ \A u \in Threads : th'[u] = IF u = t THEN "task" ELSE "top"
      /\ pauser' = <<NoThread, "none">>
      /\ UNCHANGED <<mode, open, listed, waiting, hibernating, timeout, fib, todo, resting, timedOut>>
  BY DEF Paused, EndPause, server
<1>2. ThreadInv'
  BY <1>7, <1>8 DEF ThreadInv
<1>3. RestInv'
  BY <1>7, <1>8 DEF RestInv
<1>9. armed' \subseteq armed
  BY <1>0
<1>4. SleepInv'
  BY <1>7, <1>8, <1>9 DEF SleepInv
<1>6. ArmInv'
  BY <1>7, <1>8 DEF ArmInv
<1>5. TimeoutsInv'
  <2> SUFFICES ASSUME "hib" \notin mode
               PROVE  OneSweep' /\ (open # {} => nextSweep') /\ SleeperReachable'
    BY DEF TimeoutsInv, Paused, server
  <2>1. OneSweep /\ (open # {} => nextSweep) /\ SleeperReachable
    BY DEF TimeoutsInv
  <2>2. /\ k = "sweep" /\ tasks = {} /\ nextSweep /\ NoTodo
        /\ rest = {} /\ resting[2] = "none"
    BY <1>0, <2>1 DEF OneSweep, Kinds
  <2>3. /\ pauser' = <<NoThread, "none">> /\ rest' = {[kind |-> "sweep", past |-> past]}
        /\ UNCHANGED <<open, listed, waiting, hibernating, timeout, nextSweep, tasks, todo,
                       resting, timedOut>>
    BY <1>0, <2>2 DEF Paused, EndPause
  <2>4. OneSweep'
    BY <2>2, <2>3 DEF OneSweep, NoTodo
  <2>5. Late(k, past) = past
    BY <2>2 DEF Late
  <2>6. ASSUME NEW c \in waiting
        PROVE  c \in armed' \/ c \in timedOut
                 \/ \E r \in rest' : c \in (r.past \cap listed) \ attached'
    <3>1. c \in armed \/ c \in timedOut
      BY <2>1, <2>2 DEF SleeperReachable, Paused, ThreadInv
    <3>2. CASE c \in armed /\ c \in past
      <4>1. [kind |-> "sweep", past |-> past] \in rest' /\ c \in listed /\ c \notin attached'
        BY <1>0, <2>3, <2>5, <3>2
      <4> QED BY <3>2, <4>1
    <3>3. CASE c \in armed /\ c \notin past
      BY <1>0, <2>5, <3>3
    <3> QED BY <3>1, <3>2, <3>3
  <2>7. SleeperReachable'
    <3>1. \A r \in rest' : r.past \subseteq Late(r.kind, r.past)'
      BY DEF Late
    <3> QED BY <2>3, <2>6, <3>1 DEF SleeperReachable, Late
  <2> QED BY <2>1, <2>3, <2>4, <2>7
<1> QED BY <1>1, <1>2, <1>3, <1>4, <1>5, <1>6

(* epoll_ctl throws.                                                       *)
LEMMA PausedThrowsKeeps ==
    ASSUME PipeInv, NEW t \in Threads, PausedThrows(t)
    PROVE  PipeInv'
<1> USE FiberPipeAssumption DEF FiberPipeAssumption, PipeInv
<1>1. TypeOK'
  BY DEF TypeOK, ThreadInv, PausedThrows, EndPause, Late, server, connVars, Kinds
<1>7. /\ \A u \in Threads : fib[u] = NoConn /\ th[u] \in {"epoll", "pause"}
      /\ resting[1] = NoThread /\ resting[2] = "none" /\ timedOut = {}
      /\ todo[t] \subseteq Kinds /\ \A u \in Threads \ {t} : todo[u] = {}
  BY DEF TypeOK, ThreadInv, RestInv, PausedThrows
<1>8. /\ \A u \in Threads : th'[u] = IF u = t THEN "task" ELSE "top"
      /\ pauser' = <<NoThread, "none">>
      /\ UNCHANGED <<mode, open, listed, waiting, hibernating, timeout, fib, todo, resting, timedOut>>
  BY DEF PausedThrows, EndPause, server
<1>2. ThreadInv'
  BY <1>7, <1>8 DEF ThreadInv
<1>3. RestInv'
  BY <1>7, <1>8 DEF RestInv
<1>9. armed' \subseteq armed
  BY DEF PausedThrows, TypeOK
<1>4. SleepInv'
  BY <1>7, <1>8, <1>9 DEF SleepInv
<1>6. ArmInv'
  BY <1>7, <1>8 DEF ArmInv
<1>5. TimeoutsInv'
  BY DEF TypeOK, ThreadInv, ArmInv, RestInv, SleepInv, TimeoutsInv, OneSweep, NoTodo, SleeperReachable, Late, PausedThrows, EndPause, Late, server, connVars, Kinds
<1> QED BY <1>1, <1>2, <1>3, <1>4, <1>5, <1>6

(* A thread has run its sweeps.                                            *)
LEMMA EndTasksKeeps ==
    ASSUME PipeInv, NEW t \in Threads, EndTasks(t)
    PROVE  PipeInv'
<1> USE FiberPipeAssumption DEF FiberPipeAssumption, PipeInv
<1>1. TypeOK'
  BY DEF TypeOK, ThreadInv, EndTasks, Goto, server, connVars, Kinds
<1>2. ThreadInv'
  BY DEF TypeOK, ThreadInv, ArmInv, RestInv, SleepInv, EndTasks, Goto, server, connVars, Kinds
<1>3. RestInv'
  BY DEF TypeOK, ThreadInv, ArmInv, RestInv, SleepInv, EndTasks, Goto, server, connVars, Kinds
<1>4. SleepInv'
  BY DEF TypeOK, ThreadInv, ArmInv, RestInv, SleepInv, EndTasks, Goto, server, connVars, Kinds
<1>6. ArmInv'
  BY DEF TypeOK, ThreadInv, ArmInv, RestInv, SleepInv, EndTasks, Goto, server, connVars, Kinds
<1>5. TimeoutsInv'
  BY DEF TypeOK, ThreadInv, ArmInv, RestInv, SleepInv, TimeoutsInv, OneSweep, NoTodo, SleeperReachable, Late, EndTasks, Goto, server, connVars, Kinds
<1> QED BY <1>1, <1>2, <1>3, <1>4, <1>5, <1>6

(* The top of the loop.                                                    *)
LEMMA TopKeeps ==
    ASSUME PipeInv, NEW t \in Threads, Top(t)
    PROVE  PipeInv'
<1> USE FiberPipeAssumption DEF FiberPipeAssumption, PipeInv
<1>1. TypeOK'
  BY DEF TypeOK, ThreadInv, Top, Goto, server, connVars, Kinds
<1>2. ThreadInv'
  BY DEF TypeOK, ThreadInv, ArmInv, RestInv, SleepInv, Top, Goto, server, connVars, Kinds
<1>3. RestInv'
  BY DEF TypeOK, ThreadInv, ArmInv, RestInv, SleepInv, Top, Goto, server, connVars, Kinds
<1>4. SleepInv'
  BY DEF TypeOK, ThreadInv, ArmInv, RestInv, SleepInv, Top, Goto, server, connVars, Kinds
<1>6. ArmInv'
  BY DEF TypeOK, ThreadInv, ArmInv, RestInv, SleepInv, Top, Goto, server, connVars, Kinds
<1>5. TimeoutsInv'
  BY DEF TypeOK, ThreadInv, ArmInv, RestInv, SleepInv, TimeoutsInv, OneSweep, NoTodo, SleeperReachable, Late, Top, Goto, server, connVars, Kinds
<1> QED BY <1>1, <1>2, <1>3, <1>4, <1>5, <1>6

(* An at-rest function collects.                                           *)
LEMMA CollectKeeps ==
    ASSUME PipeInv, NEW t \in Threads, NEW r \in rest, Collect(t, r)
    PROVE  PipeInv'
<1> USE FiberPipeAssumption DEF FiberPipeAssumption, PipeInv
<1>1. TypeOK'
  BY DEF TypeOK, ThreadInv, Collect, Late, server, connVars, Kinds
<1>7. /\ th[t] = "rest" /\ resting[1] = t /\ resting' = <<t, r.kind>> /\ rest' = rest \ {r}
      /\ r.kind \in Kinds /\ timedOut = {}
      /\ timedOut' \subseteq (waiting \cap listed) \ attached
      /\ listed' = listed \ timedOut'
      /\ UNCHANGED <<mode, open, attached, armed, waiting, hibernating, timeout, fib, todo,
                     nextSweep, tasks, pauser, owed>>
  BY DEF Collect, RestInv, TypeOK, server
<1>8. CASE \E u \in Threads : fib[u] \in timedOut'
  <2>1. PICK u \in Threads : fib[u] \in timedOut'
    BY <1>8
  <2>2. th' = [v \in Threads |-> "lost"]
    BY <1>8 DEF Collect
  <2>3. th[u] = "arm"
    BY <1>7, <2>1 DEF ThreadInv, ArmInv, TypeOK
  <2>4. /\ r.kind = "hib" /\ fib[u] \in hibernating /\ "fresh" \in mode
    <3>1. fib[u] \in Late(r.kind, r.past)
      BY <2>1 DEF Collect
    <3> QED BY <1>7, <2>1, <2>3, <3>1 DEF ArmInv, Late, Kinds
  <2>5. "hib" \in mode
    BY <2>4 DEF TimeoutsInv, OneSweep
  <2>6. ThreadInv'
    BY <1>7, <2>2 DEF ThreadInv, TypeOK
  <2>7. RestInv'
    BY <1>7, <2>2 DEF RestInv, TypeOK, Kinds
  <2>8. SleepInv'
    BY <1>7, <2>2 DEF SleepInv, TypeOK
  <2>9. ArmInv'
    BY <1>7, <2>2, <2>4, <2>5 DEF ArmInv, TypeOK
  <2> QED BY <1>1, <1>7, <2>5, <2>6, <2>7, <2>8, <2>9 DEF TimeoutsInv
<1>9. CASE ~ \E u \in Threads : fib[u] \in timedOut'
  <2>1. th' = th
    BY <1>9 DEF Collect
  <2>2. ThreadInv'
    BY <1>7, <2>1 DEF ThreadInv, TypeOK
  <2>3. RestInv'
    BY <1>7, <2>1 DEF RestInv, TypeOK, Kinds
  <2>4. SleepInv'
    BY <1>7, <1>9, <2>1 DEF SleepInv, TypeOK
  <2>5. ArmInv'
    BY <1>7, <2>1 DEF ArmInv, TypeOK
  <2>6. TimeoutsInv'
    <3> SUFFICES ASSUME "hib" \notin mode
                 PROVE  OneSweep' /\ (open # {} => nextSweep) /\ SleeperReachable'
      BY <1>7 DEF TimeoutsInv
    <3>1. OneSweep /\ (open # {} => nextSweep) /\ SleeperReachable
      BY DEF TimeoutsInv
    <3>2. /\ rest = {r} /\ r.kind = "sweep" /\ nextSweep /\ tasks = {} /\ NoTodo
          /\ pauser[2] = "none"
      BY <3>1 DEF OneSweep
    <3>3. OneSweep'
      BY <1>7, <3>2 DEF OneSweep, NoTodo
    <3>4. SleeperReachable'
      <4>1. timedOut' = (Late(r.kind, r.past) \cap waiting \cap listed) \ attached
        BY DEF Collect
      <4> QED BY <1>7, <2>1, <3>1, <3>2, <4>1 DEF SleeperReachable
    <3> QED BY <3>1, <3>3, <3>4
  <2> QED BY <1>1, <2>2, <2>3, <2>4, <2>5, <2>6
<1> QED BY <1>8, <1>9

(* A timed out fiber is woken.                                             *)
LEMMA WakeTimedOutKeeps ==
    ASSUME PipeInv, NEW t \in Threads, NEW c \in Conns, WakeTimedOut(t, c)
    PROVE  PipeInv'
<1> USE FiberPipeAssumption DEF FiberPipeAssumption, PipeInv
<1>1. TypeOK'
  BY DEF TypeOK, ThreadInv, WakeTimedOut, SetTimeout, RunFiber, Goto, server, connVars, Kinds
<1>2. ThreadInv'
  BY DEF TypeOK, ThreadInv, ArmInv, RestInv, SleepInv, WakeTimedOut, SetTimeout, RunFiber, Goto, server, connVars, Kinds
<1>3. RestInv'
  BY DEF TypeOK, ThreadInv, ArmInv, RestInv, SleepInv, WakeTimedOut, SetTimeout, RunFiber, Goto, server, connVars, Kinds
<1>4. SleepInv'
  BY DEF TypeOK, ThreadInv, ArmInv, RestInv, SleepInv, WakeTimedOut, SetTimeout, RunFiber, Goto, server, connVars, Kinds
<1>6. ArmInv'
  BY DEF TypeOK, ThreadInv, ArmInv, RestInv, SleepInv, WakeTimedOut, SetTimeout, RunFiber, Goto, server, connVars, Kinds
<1>5. TimeoutsInv'
  BY DEF TypeOK, ThreadInv, ArmInv, RestInv, SleepInv, TimeoutsInv, OneSweep, NoTodo, SleeperReachable, Late, WakeTimedOut, SetTimeout, RunFiber, Goto, server, connVars, Kinds
<1> QED BY <1>1, <1>2, <1>3, <1>4, <1>5, <1>6

(* The at-rest function ends.                                              *)
LEMMA EndFunctionKeeps ==
    ASSUME PipeInv, NEW t \in Threads, EndFunction(t)
    PROVE  PipeInv'
<1> USE FiberPipeAssumption DEF FiberPipeAssumption, PipeInv
<1>0. nextSweep' \in BOOLEAN
  BY Zenon DEF EndFunction, TypeOK
<1>1. TypeOK'
  <2>1. tasks' \in SUBSET Kinds
    <3>1. tasks' = tasks \/ tasks' = tasks \cup {"sweep"}
      BY Zenon DEF EndFunction
    <3> QED BY <3>1 DEF TypeOK, Kinds
  <2>2. /\ th' = th \/ th' = [th EXCEPT ![t] = "epoll"]
        /\ resting' = <<NoThread, "none">> \/ resting' = <<t, "none">>
        /\ UNCHANGED <<server, connVars, fib, todo, pauser, owed, rest, timedOut>>
    BY DEF EndFunction, Goto
  <2> QED BY <1>0, <2>1, <2>2 DEF TypeOK, server, connVars
<1>2. ThreadInv'
  BY DEF TypeOK, ThreadInv, ArmInv, RestInv, SleepInv, EndFunction, Goto, server, connVars, Kinds
<1>3. RestInv'
  BY DEF TypeOK, ThreadInv, ArmInv, RestInv, SleepInv, EndFunction, Goto, server, connVars, Kinds
<1>4. SleepInv'
  BY DEF TypeOK, ThreadInv, ArmInv, RestInv, SleepInv, EndFunction, Goto, server, connVars, Kinds
<1>6. ArmInv'
  BY DEF TypeOK, ThreadInv, ArmInv, RestInv, SleepInv, EndFunction, Goto, server, connVars, Kinds
<1>5. TimeoutsInv'
  <2> SUFFICES ASSUME "hib" \notin mode
               PROVE  OneSweep' /\ (open # {} => nextSweep') /\ SleeperReachable'
    BY DEF TimeoutsInv, EndFunction, server, connVars
  <2>1. OneSweep /\ (open # {} => nextSweep) /\ SleeperReachable
    BY DEF TimeoutsInv
  <2>2. /\ resting[2] = "sweep" /\ tasks = {} /\ NoTodo /\ pauser[2] = "none" /\ rest = {}
        /\ timedOut = {}
    BY <2>1 DEF OneSweep, EndFunction, TypeOK
  <2>3. resting' = <<NoThread, "none">>
        /\ UNCHANGED <<connVars, todo, pauser, rest, timedOut>>
    BY <2>2 DEF EndFunction
  <2>4. (nextSweep' <=> open # {}) /\ tasks' = IF open # {} THEN tasks \cup {"sweep"} ELSE tasks
    BY <2>2, Zenon DEF EndFunction
  <2>5. OneSweep'
    BY <2>2, <2>3, <2>4 DEF OneSweep, NoTodo
  <2>6. SleeperReachable'
    <3>1. \A u \in Threads : th[u] = "arm" => th'[u] = "arm" /\ fib'[u] = fib[u]
      BY DEF EndFunction, Goto, TypeOK
    <3> QED BY <2>1, <2>2, <2>3, <3>1 DEF SleeperReachable, connVars
  <2> QED BY <2>4, <2>5, <2>6
<1> QED BY <1>1, <1>2, <1>3, <1>4, <1>5, <1>6

(* Every step of the threads, the timer and the clock keeps PipeInv.       *)
LEMMA PipeNextInv == PipeInv /\ [Next]_vars => PipeInv'
<1> SUFFICES ASSUME PipeInv, [Next]_vars PROVE PipeInv'
  OBVIOUS
<1>1. ASSUME NEW t \in Threads, ThreadStep(t) PROVE PipeInv'
  BY <1>1, SleepKeeps, ArmKeeps, CloseKeeps, SweepKeeps, SweepBusyKeeps, EndTasksKeeps, TopKeeps,
     CollectKeeps, WakeTimedOutKeeps, EndFunctionKeeps DEF ThreadStep
<1>2. ASSUME NEW t \in Threads,
             \/ Paused(t) \/ PausedThrows(t) \/ SweepHibernating(t)
             \/ \E c \in Conns : Open(t, c) \/ IoAvail(t, c)
      PROVE  PipeInv'
  BY <1>2, PausedKeeps, PausedThrowsKeeps, SweepHibernatingKeeps, OpenKeeps, IoAvailKeeps
<1>3. CASE TakeAnyTasks \/ \E c \in Conns : Expire(c)
  BY <1>3, TakeTasksKeeps, ExpireKeeps DEF TakeAnyTasks
<1>4. CASE UNCHANGED vars
  BY <1>4 DEF vars, PipeInv, TypeOK, ThreadInv, ArmInv, RestInv, SleepInv, TimeoutsInv, OneSweep, NoTodo,
              SleeperReachable, Late
<1> QED BY <1>1, <1>2, <1>3, <1>4 DEF Next

(* PipeInv is an invariant of the pipes and their sweeps.                  *)
THEOREM PipeInvariance == Spec => []PipeInv
  BY PipeInitInv, PipeNextInv, PTL DEF Spec

(* For any threads and connections, any sweeps and other pauses, as long   *)
(* as no pipe hibernates in its first wait: the fibers in the list of an   *)
(* at-rest function sleep with their contexts saved, on pipes that exist,  *)
(* and no event can wake one of them.                                      *)
THEOREM SweptAsleep == Spec => []TimedOutAsleep
<1>1. PipeInv => TimedOutAsleep
  <2> SUFFICES ASSUME PipeInv, "fresh" \notin mode, NEW c \in timedOut
               PROVE  /\ c \in waiting /\ c \notin armed /\ c \in open
                      /\ \A t \in Threads : fib[t] # c
    BY DEF TimedOutAsleep, WokenAsleep
  <2>1. c \in waiting /\ c \notin armed /\ c \in open
    BY DEF PipeInv, TypeOK, SleepInv
  <2>2. \A t \in Threads : fib[t] # c
    BY DEF PipeInv, SleepInv, ArmInv
  <2> QED BY <2>1, <2>2
<1> QED BY <1>1, PipeInvariance, PTL

(* Without sweeps of hibernating pipes, whatever other pauses there are:   *)
(* no fiber sleeps out of reach of both epoll and the sweeps, and sweeps   *)
(* go on while there are pipes unless one failed when there was none.      *)
THEOREM SweepsReach == Spec => []SweepsSound
<1>1. PipeInv => SweepsSound
  <2> SUFFICES ASSUME PipeInv, "hib" \notin mode
               PROVE  SleeperReachable /\ ("idle" \notin mode => SweepScheduled)
    BY DEF SweepsSound
  <2>1. OneSweep /\ (open # {} => nextSweep) /\ SleeperReachable
    BY DEF PipeInv, TimeoutsInv
  <2> QED BY <2>1 DEF OneSweep, SweepScheduled
<1> QED BY <1>1, PipeInvariance, PTL

-----------------------------------------------------------------------------
(* The life of fibers.                                                     *)

(* The values that the variables of FiberLife take.                        *)
FlPhases == {"none", "queued", "running", "joining", "woken", "parallel",
             "counting", "ended", "stopped", "gone"}
FlTypeOK ==
    /\ flPhase \in [FlFibers -> FlPhases]
    /\ flKind \in [FlFibers -> {"none", "auto", "owned", "child"}]
    /\ flOwner \in [FlFibers -> FlFibers \cup {FlMain}]
    /\ flDead \subseteq FlFibers /\ flLate \subseteq FlFibers
    /\ flCount \in Nat /\ flZero \in {"no", "waiting", "returned"}
    /\ flHolder \in [FlFibers -> FlFibers]
    /\ flDone \in [FlFibers -> Nat]

(* Where a child of run_in_parallel is before it has counted itself, and   *)
(* the children of g that have.                                            *)
Uncounted == {"queued", "running", "joining", "woken", "parallel"}
Counted(g) == {f \in Children(g) : flPhase[f] \in {"counting", "ended", "stopped", "gone"}}

(* A fiber has a kind once it is asked for; only children count and end;   *)
(* one that is owned or a child has another fiber as its owner.            *)
KindInv == \A f \in FlFibers :
    /\ flKind[f] = "none" <=> flPhase[f] = "none"
    /\ flPhase[f] \in {"counting", "ended"} => flKind[f] = "child"
    /\ flKind[f] \in {"owned", "child"} => flOwner[f] \in FlFibers \ {f}

(* num_completed is the number of children that have counted; the one that *)
(* is doing it has the mutex; and run_in_parallel waits for the others.    *)
ParallelInv ==
    /\ \A g \in FlFibers : flDone[g] = Cardinality(Counted(g))
    /\ \A f \in FlFibers : flPhase[f] = "counting" => flHolder[flOwner[f]] = f
    /\ \A f \in FlFibers : flKind[f] = "child" /\ flPhase[f] \in Uncounted \cup {"counting"}
                             => flPhase[flOwner[f]] = "parallel"

FlInv == FlTypeOK /\ KindInv /\ ParallelInv /\ ZeroMeansNone /\ ExitBeforeDestroyed

-----------------------------------------------------------------------------
(* The initial state of the fibers satisfies the invariant.                *)
LEMMA FlInitInv == FlInit => FlInv
<1> SUFFICES ASSUME FlInit PROVE FlInv
  OBVIOUS
<1>1. FlTypeOK
  BY DEF FlInit, FlTypeOK, FlPhases
<1>2. KindInv /\ ExitBeforeDestroyed
  BY DEF FlInit, KindInv, ExitBeforeDestroyed
<1>3. \A g \in FlFibers : Counted(g) = {}
  BY DEF FlInit, Counted, Children
<1>4. Living = {}
  BY DEF FlInit, Living
<1>5. ParallelInv
  BY <1>3, FS_EmptySet DEF FlInit, ParallelInv
<1>6. ZeroMeansNone
  BY <1>4, FS_EmptySet DEF FlInit, ZeroMeansNone
<1> QED BY <1>1, <1>2, <1>5, <1>6 DEF FlInv

(* When no fiber is added, the fibers that live are counted as before.     *)
LEMMA FiniteLiving == /\ IsFiniteSet(Living) /\ Cardinality(Living) \in Nat
                      /\ \A g \in FlFibers : IsFiniteSet(Children(g)) /\ IsFiniteSet(Counted(g))
  BY FlAssumption, FS_Subset, FS_CardinalityType DEF FlAssumption, Living, Children, Counted

(* Asking for one fiber, by run_in_fiber or by a constructor.              *)
LEMMA RunInFiberStep ==
    ASSUME FlInv, NEW f \in FlFibers, NEW g \in FlFibers \cup {FlMain},
           RunInFiber(g, f) \/ NewFiber(g, f)
    PROVE  FlInv'
<1> USE DEF FlInv
<1>1. FlTypeOK'
  BY FlAssumption DEF FlAssumption, RunInFiber, NewFiber, FlTypeOK, FlPhases, flParallel
<1>2. KindInv' /\ ExitBeforeDestroyed'
  BY FlAssumption DEF FlAssumption, RunInFiber, NewFiber, FlTypeOK, FlPhases, flParallel,
     KindInv, ExitBeforeDestroyed, Unused, Caller
<1>3. \A h \in FlFibers : Counted(h)' = Counted(h)
  BY DEF RunInFiber, NewFiber, FlTypeOK, FlPhases, KindInv, Unused, Counted, Children
<1>4. ParallelInv'
  BY <1>3 DEF RunInFiber, NewFiber, FlTypeOK, FlPhases, flParallel, KindInv, ParallelInv,
     Unused, Caller, Uncounted
<1>5. Living' = Living \cup {f} /\ f \notin Living
  BY DEF RunInFiber, NewFiber, FlTypeOK, FlPhases, Unused, Living
<1>6. flCount' = flCount + 1 /\ Cardinality(Living') = Cardinality(Living) + 1
  BY <1>5, FiniteLiving, FS_AddElement DEF RunInFiber, NewFiber
<1>7. flZero' # "returned"
  BY FlAssumption DEF FlAssumption, RunInFiber, NewFiber, Caller, ZeroMeansNone, Living
<1>8. ZeroMeansNone'
  BY <1>6, <1>7 DEF ZeroMeansNone
<1> QED BY <1>1, <1>2, <1>4, <1>8

(* A step that moves fibers between phases in which they live and leaves   *)
(* the rest to FlTypeOK: what it must not disturb.                         *)
LEMMA FiberStartsStep ==
    ASSUME FlInv, NEW f \in FlFibers, FiberStarts(f)
    PROVE  FlInv'
<1> USE DEF FlInv
<1>1. FlTypeOK' /\ KindInv' /\ ExitBeforeDestroyed'
  BY DEF FiberStarts, FlTypeOK, FlPhases, flParallel, KindInv, ExitBeforeDestroyed
<1>2. \A h \in FlFibers : Counted(h)' = Counted(h)
  BY DEF FiberStarts, FlTypeOK, FlPhases, Counted, Children
<1>3. Living' = Living
  BY DEF FiberStarts, FlTypeOK, FlPhases, Living
<1>4. ParallelInv'
  BY <1>2 DEF FiberStarts, FlTypeOK, FlPhases, flParallel, ParallelInv, Uncounted
<1>5. ZeroMeansNone'
  BY <1>3 DEF FiberStarts, ZeroMeansNone
<1> QED BY <1>1, <1>4, <1>5

(* join: sleeping, or destroying a fiber that has stopped.                 *)
LEMMA JoinStep ==
    ASSUME FlInv, NEW f \in FlFibers, NEW g \in FlFibers, Join(g, f)
    PROVE  FlInv'
<1> USE DEF FlInv
<1>0. flPhase[g] = "running"
  BY FlAssumption DEF FlAssumption, Join, Caller
<1>1. FlTypeOK' /\ KindInv' /\ ExitBeforeDestroyed'
  BY <1>0 DEF Join, FlTypeOK, FlPhases, flParallel, KindInv, ExitBeforeDestroyed
<1>2. \A h \in FlFibers : Counted(h)' = Counted(h)
  BY <1>0 DEF Join, FlTypeOK, FlPhases, Counted, Children
<1>3. Living' = Living
  BY <1>0 DEF Join, FlTypeOK, FlPhases, Living
<1>4. ParallelInv'
  BY <1>0, <1>2 DEF Join, FlTypeOK, FlPhases, flParallel, KindInv, ParallelInv, Uncounted
<1>5. ZeroMeansNone'
  BY <1>3 DEF Join, ZeroMeansNone
<1> QED BY <1>1, <1>4, <1>5

(* stop_fiber: only a fiber asleep in join is woken.                       *)
LEMMA StopFiberStep ==
    ASSUME FlInv, NEW f \in FlFibers, StopFiber(f)
    PROVE  FlInv'
<1> USE DEF FlInv
<1>1. FlTypeOK' /\ KindInv' /\ ExitBeforeDestroyed'
  BY DEF StopFiber, FunctionReturned, FlTypeOK, FlPhases, flParallel, KindInv, ExitBeforeDestroyed
<1>2. \A h \in FlFibers : Counted(h)' = Counted(h)
  BY DEF StopFiber, FunctionReturned, FlTypeOK, FlPhases, Counted, Children
<1>3. Living' = Living
  BY DEF StopFiber, FunctionReturned, FlTypeOK, FlPhases, Living
<1>4. ParallelInv'
  BY <1>2 DEF StopFiber, FunctionReturned, FlTypeOK, FlPhases, flParallel, KindInv, ParallelInv,
     Uncounted
<1>5. ZeroMeansNone'
  BY <1>3 DEF StopFiber, ZeroMeansNone
<1> QED BY <1>1, <1>4, <1>5

(* The exit: one living fiber less, and a joiner goes on.                  *)
LEMMA ExitFiberStep ==
    ASSUME FlInv, NEW f \in FlFibers, ExitFiber(f)
    PROVE  FlInv'
<1> USE DEF FlInv
<1>1. Living' = Living \ {f} /\ f \in Living
  BY DEF ExitFiber, FlTypeOK, FlPhases, Living
<1>2. Cardinality(Living') = Cardinality(Living) - 1 /\ Cardinality(Living') \in Nat
  BY <1>1, FiniteLiving, FS_RemoveElement, FS_CardinalityType
<1>3. flCount' = flCount - 1 /\ flCount' = Cardinality(Living')
  BY <1>2 DEF ExitFiber, ZeroMeansNone, FlTypeOK
<1>4. FlTypeOK'
  BY <1>2, <1>3 DEF ExitFiber, FlTypeOK, FlPhases, flParallel
<1>5. KindInv' /\ ExitBeforeDestroyed'
  BY DEF ExitFiber, FlTypeOK, FlPhases, flParallel, KindInv, ExitBeforeDestroyed
<1>6. \A h \in FlFibers : Counted(h)' = Counted(h)
  BY DEF ExitFiber, FlTypeOK, FlPhases, Counted, Children
<1>7. ParallelInv'
  BY <1>6 DEF ExitFiber, FlTypeOK, FlPhases, flParallel, KindInv, ParallelInv, Uncounted
<1>8. ZeroMeansNone'
  BY <1>1, <1>3 DEF ExitFiber, ZeroMeansNone
<1> QED BY <1>4, <1>5, <1>7, <1>8

(* run_in_parallel: its children are new, so none of them has counted.     *)
LEMMA RunInParallelStep ==
    ASSUME FlInv, NEW g \in FlFibers, NEW S \in SUBSET FlFibers, RunInParallel(g, S)
    PROVE  FlInv'
<1> USE DEF FlInv
<1>0. flPhase[g] = "running" /\ \A f \in S : flPhase[f] = "none" /\ flKind[f] = "none"
  BY FlAssumption DEF FlAssumption, RunInParallel, Caller, Unused, KindInv
<1>1. Living' = Living \cup S /\ Living \cap S = {}
  BY <1>0 DEF RunInParallel, FlTypeOK, FlPhases, Living
<1>2. IsFiniteSet(S) /\ Cardinality(S) \in Nat /\ Cardinality({}) = 0
  BY FlAssumption, FS_Subset, FS_CardinalityType, FS_EmptySet DEF FlAssumption
<1>3. Cardinality(Living') = Cardinality(Living) + Cardinality(S)
  <2>1. Cardinality(Living \cup S)
          = Cardinality(Living) + Cardinality(S) - Cardinality(Living \cap S)
    BY <1>2, FiniteLiving, FS_Union
  <2>2. /\ Cardinality(Living') = Cardinality(Living \cup S)
        /\ Cardinality(Living \cap S) = 0
    BY <1>1, <1>2, Zenon
  <2> QED BY <1>2, <2>1, <2>2, FiniteLiving
<1>4. flCount' = Cardinality(Living') /\ flCount' \in Nat
  BY <1>2, <1>3 DEF RunInParallel, ZeroMeansNone, FlTypeOK
<1>5. FlTypeOK'
  BY <1>4 DEF RunInParallel, FlTypeOK, FlPhases, flParallel
<1>6. KindInv' /\ ExitBeforeDestroyed'
  BY <1>0 DEF RunInParallel, FlTypeOK, FlPhases, flParallel, KindInv, ExitBeforeDestroyed
<1>7. \A h \in FlFibers : Counted(h)' = Counted(h)
  BY <1>0 DEF RunInParallel, FlTypeOK, FlPhases, Counted, Children, KindInv
<1>8. ParallelInv'
  BY <1>0, <1>7 DEF RunInParallel, FlTypeOK, FlPhases, flParallel, KindInv, ParallelInv, Uncounted
<1>9. flZero' # "returned"
  BY <1>0 DEF RunInParallel, ZeroMeansNone, Living
<1>10. ZeroMeansNone'
  BY <1>4, <1>9 DEF ZeroMeansNone
<1> QED BY <1>5, <1>6, <1>8, <1>10

(* A child takes the mutex and counts.                                     *)
LEMMA ChildCountsStep ==
    ASSUME FlInv, NEW f \in FlFibers, NEW failed \in BOOLEAN, ChildCounts(f, failed)
    PROVE  FlInv'
<1> USE DEF FlInv
<1> DEFINE o == flOwner[f]
<1>0. o \in FlFibers \ {f} /\ flKind[f] = "child" /\ flPhase[f] = "running" /\ flHolder[o] = o
  BY DEF ChildCounts, KindInv
<1>1. FlTypeOK' /\ KindInv' /\ ExitBeforeDestroyed'
  BY <1>0 DEF ChildCounts, FlTypeOK, FlPhases, KindInv, ExitBeforeDestroyed
<1>2. /\ Counted(o)' = Counted(o) \cup {f} /\ f \notin Counted(o)
      /\ \A h \in FlFibers \ {o} : Counted(h)' = Counted(h)
  BY <1>0 DEF ChildCounts, FlTypeOK, FlPhases, Counted, Children
<1>3. Cardinality(Counted(o)') = Cardinality(Counted(o)) + 1
  BY <1>0, <1>2, FiniteLiving, FS_AddElement, ZenonT(30)
<1>4. \A h \in FlFibers : flDone'[h] = Cardinality(Counted(h)')
  BY <1>0, <1>2, <1>3, ZenonT(30) DEF ChildCounts, FlTypeOK, ParallelInv
<1>5. ParallelInv'
  BY <1>0, <1>4 DEF ChildCounts, FlTypeOK, FlPhases, KindInv, ParallelInv, Uncounted
<1>6. Living' = Living
  BY <1>0 DEF ChildCounts, FlTypeOK, FlPhases, Living
<1>7. ZeroMeansNone'
  BY <1>6 DEF ChildCounts, ZeroMeansNone
<1> QED BY <1>1, <1>5, <1>7

(* It lets go of the mutex.                                                *)
LEMMA ChildUnlocksStep ==
    ASSUME FlInv, NEW f \in FlFibers, ChildUnlocks(f)
    PROVE  FlInv'
<1> USE DEF FlInv
<1> DEFINE o == flOwner[f]
<1>0. o \in FlFibers \ {f} /\ flKind[f] = "child" /\ flPhase[f] = "counting" /\ flHolder[o] = f
  BY DEF ChildUnlocks, KindInv, ParallelInv
<1>1. FlTypeOK' /\ KindInv' /\ ExitBeforeDestroyed'
  BY <1>0 DEF ChildUnlocks, FlTypeOK, FlPhases, KindInv, ExitBeforeDestroyed
<1>2. \A h \in FlFibers : Counted(h)' = Counted(h)
  BY <1>0 DEF ChildUnlocks, FlTypeOK, FlPhases, Counted, Children
<1>3. Living' = Living
  BY <1>0 DEF ChildUnlocks, FlTypeOK, FlPhases, Living
<1>4. ParallelInv'
  BY <1>0, <1>2 DEF ChildUnlocks, FlTypeOK, FlPhases, KindInv, ParallelInv, Uncounted
<1>5. ZeroMeansNone'
  BY <1>3 DEF ChildUnlocks, ZeroMeansNone
<1> QED BY <1>1, <1>4, <1>5

(* run_in_parallel returns: as many have counted as there are children, so *)
(* all of them have, and as nobody has the mutex none is doing it.         *)
LEMMA ParallelReturnsStep ==
    ASSUME FlInv, NEW g \in FlFibers, ParallelReturns(g)
    PROVE  FlInv'
<1> USE DEF FlInv
<1>1. Counted(g) = Children(g)
  <2>1. Counted(g) \subseteq Children(g)
    BY DEF Counted
  <2>2. Cardinality(Counted(g)) = Cardinality(Children(g))
    BY DEF ParallelReturns, ParallelInv
  <2> QED BY <2>1, <2>2, FiniteLiving, FS_Subset
<1>2. \A f \in FlFibers : flKind[f] = "child" /\ flOwner[f] = g
                            => flPhase[f] \notin Uncounted \cup {"counting"}
  BY <1>1 DEF Counted, Children, ParallelReturns, ParallelInv, KindInv, Uncounted
<1>3. FlTypeOK' /\ KindInv' /\ ExitBeforeDestroyed'
  BY DEF ParallelReturns, FlTypeOK, FlPhases, flParallel, KindInv, ExitBeforeDestroyed
<1>4. \A h \in FlFibers : Counted(h)' = Counted(h)
  BY DEF ParallelReturns, FlTypeOK, FlPhases, Counted, Children
<1>5. Living' = Living
  BY DEF ParallelReturns, FlTypeOK, FlPhases, Living
<1>6. ParallelInv'
  BY <1>2, <1>4 DEF ParallelReturns, FlTypeOK, FlPhases, flParallel, KindInv, ParallelInv, Uncounted
<1>7. ZeroMeansNone'
  BY <1>5 DEF ParallelReturns, ZeroMeansNone
<1> QED BY <1>3, <1>6, <1>7

(* wait_for_zero_fibers returns only when the count is zero.               *)
LEMMA WaitForZeroStep == ASSUME FlInv, WaitForZeroFibers PROVE FlInv'
<1> USE DEF FlInv
<1>1. FlTypeOK' /\ KindInv' /\ ExitBeforeDestroyed'
  BY DEF WaitForZeroFibers, FlTypeOK, flParallel, KindInv, ExitBeforeDestroyed
<1>2. Living' = Living /\ \A h \in FlFibers : Counted(h)' = Counted(h)
  BY DEF WaitForZeroFibers, Living, Counted, Children
<1>3. ParallelInv'
  BY <1>2 DEF WaitForZeroFibers, flParallel, ParallelInv
<1>4. flCount = 0 => Living = {}
  BY FiniteLiving, FS_EmptySet DEF ZeroMeansNone
<1>5. ZeroMeansNone'
  BY <1>2, <1>4 DEF WaitForZeroFibers, ZeroMeansNone
<1> QED BY <1>1, <1>3, <1>5

(* FlInv is an invariant of the fibers' life cycle.                        *)
THEOREM FiberInvariance == FlSpec => []FlInv
<1>1. FlInv /\ [FlNext]_flVars => FlInv'
  <2> SUFFICES ASSUME FlInv, [FlNext]_flVars PROVE FlInv'
    OBVIOUS
  <2>1. CASE FlNext
    BY <2>1, RunInFiberStep, FiberStartsStep, JoinStep, StopFiberStep, ExitFiberStep,
       RunInParallelStep, ChildCountsStep, ChildUnlocksStep, ParallelReturnsStep,
       WaitForZeroStep DEF FlNext
  <2>2. CASE UNCHANGED flVars
    BY <2>2 DEF flVars, FlInv, FlTypeOK, KindInv, ParallelInv, ZeroMeansNone,
       ExitBeforeDestroyed, Living, Counted, Children
  <2> QED BY <2>1, <2>2
<1> QED BY <1>1, FlInitInv, PTL DEF FlSpec

(* No fiber is used after its end: num_running_fibers_ reaches zero only   *)
(* when no fiber is left, a fiber that is joined in time is destroyed      *)
(* after its exit, and the children of run_in_parallel do not outlive the  *)
(* frame that they refer to.                                               *)
THEOREM FibersLive == FlSpec => []FiberLives
<1>1. FlInv => FiberLives
  BY DEF FlInv, FiberLives, ParallelInv, ParallelFrame, Uncounted
<1> QED BY <1>1, FiberInvariance, PTL

-----------------------------------------------------------------------------
(* The threads between the event of the listening socket and the end of    *)
(* accept.                                                                 *)
Accepting == {t \in TcpThreads : tcpPc[t] = "accept"}

(* The values that matter, and that a socket taken from epoll is with one  *)
(* thread, which finds a connection to accept.                             *)
ListenInv ==
    /\ tcpListen \in {"none", "armed", "taken", "off"}
    /\ tcpBacklog \in Seq(AllConns)
    /\ tcpPc \in [TcpThreads -> {"idle", "accept"} \cup AllConns]
    /\ IF tcpListen = "taken"
       THEN tcpBacklog # <<>> /\ \E t \in TcpThreads : Accepting = {t}
       ELSE Accepting = {}

(* The socket is not armed before the server is made nor after stop has    *)
(* been noticed, and stop_ is set from the call of stop until then.        *)
StopInv ==
    /\ ~tfServer => tcpListen = "none"
    /\ tcpStopper \in {"none", "connected", "locked", "wait", "woken", "back"}
    /\ tcpStopper # "none" => tfPc # "ready"
    /\ tcpStopper \in {"locked", "wait"} => tcpStop
    /\ tcpStopper \in {"none", "woken", "back"} => ~tcpStop
    /\ tcpStopper # "none" /\ ~tcpStop => tcpListen = "off"
    /\ tcpWake # {} => tcpStopper = "woken"
    /\ \A t, u \in tcpWake : t = u

TcpInv == ListenInv /\ StopInv

(* A server that has not been started listens to nothing.                  *)
LEMMA TcpInitInv == TcpInit => TcpInv
  BY DEF TcpInit, TcpInv, ListenInv, StopInv, Accepting, AllConns

(* The event of the listening socket: one thread takes it.                 *)
LEMMA ListenEventStep ==
    ASSUME TcpInv, NEW t \in TcpThreads, ListenEvent(t) PROVE TcpInv'
<1> USE DEF TcpInv
<1>1. Accepting' = {t}
  BY DEF ListenEvent, ListenInv, Accepting
<1>2. ListenInv'
  BY <1>1 DEF ListenEvent, ListenInv
<1>3. StopInv'
  BY DEF ListenEvent, StopInv
<1> QED BY <1>2, <1>3

(* The end of accept, with a connection or without: nobody else is there.  *)
LEMMA AcceptStep ==
    ASSUME TcpInv, ~tcpCrash, NEW t \in TcpThreads,
           AcceptFails(t) \/ AcceptClient(t) \/ AcceptStop(t)
    PROVE  TcpInv'
<1> USE DEF TcpInv
<1>1. tcpPc[t] = "accept" /\ tcpListen = "taken" /\ Accepting = {t} /\ tcpBacklog # <<>>
  BY DEF AcceptFails, AcceptClient, AcceptStop, Accepted, ListenInv, Accepting
<1>2. Head(tcpBacklog) \in AllConns /\ Tail(tcpBacklog) \in Seq(AllConns)
  BY <1>1, HeadTailProperties DEF ListenInv
<1>3. tcpPc' \in [TcpThreads -> {"idle", "accept"} \cup AllConns] /\ tcpBacklog' \in Seq(AllConns)
  BY <1>2 DEF AcceptFails, AcceptClient, AcceptStop, Accepted, ListenInv
<1>4. Accepting' = {}
  BY <1>1, <1>2, TcpAssumption
     DEF TcpAssumption, AcceptFails, AcceptClient, AcceptStop, Accepted, ListenInv, Accepting
<1>5. ListenInv'
  BY <1>3, <1>4 DEF AcceptFails, AcceptClient, AcceptStop, ListenInv
<1>6. CASE AcceptFails(t) \/ AcceptClient(t)
  <2>1. StopInv'
    BY <1>1, <1>6 DEF AcceptFails, AcceptClient, Accepted, StopInv
  <2> QED BY <1>5, <2>1
<1>7. CASE AcceptStop(t)
  <2>1. tcpStop' <=> tcpStopper = "locked"
    BY <1>7, Zenon DEF AcceptStop
  <2>2. StopInv'
    BY <1>1, <1>7, <2>1 DEF AcceptStop, Accepted, StopInv
  <2> QED BY <1>5, <2>2
<1> QED BY <1>6, <1>7

(* Connections come, are queued, run and end; a thread that runs one also  *)
(* runs what is in its wake list.                                          *)
LEMMA ConnStep ==
    ASSUME TcpInv,
           \/ \E c \in TcpConns : ClientConnects(c)
           \/ \E t \in TcpThreads : \/ QueueConn(t)
                                    \/ \E c \in AllConns : RunConn(t, c) \/ CloseConn(t, c)
    PROVE  TcpInv'
<1> USE DEF TcpInv
<1>1. ASSUME NEW c \in TcpConns, ClientConnects(c) PROVE TcpInv'
  <2>1. tcpBacklog' \in Seq(AllConns) /\ tcpBacklog' # <<>>
    BY <1>1, AppendProperties DEF ClientConnects, ListenInv, AllConns
  <2>2. ListenInv' /\ StopInv'
    BY <1>1, <2>1 DEF ClientConnects, ListenInv, StopInv, Accepting
  <2> QED BY <2>2
<1>2. ASSUME NEW t \in TcpThreads, QueueConn(t) PROVE TcpInv'
  <2>1. Accepting' = Accepting
    BY <1>2, TcpAssumption DEF TcpAssumption, QueueConn, ListenInv, Accepting
  <2>2. ListenInv' /\ StopInv'
    BY <1>2, <2>1 DEF QueueConn, ListenInv, StopInv
  <2> QED BY <2>2
<1>3. ASSUME NEW t \in TcpThreads, NEW c \in AllConns, RunConn(t, c) \/ CloseConn(t, c)
      PROVE  TcpInv'
  BY <1>3 DEF RunConn, CloseConn, Drain, ListenInv, StopInv, Accepting
<1> QED BY <1>1, <1>2, <1>3

(* The steps of stop and of teflon's command fiber.                        *)
LEMMA CommandStep ==
    ASSUME TcpInv, ~tcpCrash,
           ServerStop \/ StopLocks \/ StopWaits \/ StartCommand \/ StopCommand \/ ShutDown
    PROVE  TcpInv'
<1> USE DEF TcpInv
<1>1. CASE ServerStop
  <2>1. tcpBacklog' \in Seq(AllConns) /\ tcpBacklog' # <<>>
    BY <1>1, AppendProperties DEF ServerStop, ListenInv, AllConns
  <2> QED BY <1>1, <2>1 DEF ServerStop, ListenInv, StopInv, Accepting
<1>2. CASE StopLocks \/ StopWaits
  BY <1>2 DEF StopLocks, StopWaits, ListenInv, StopInv, Accepting
<1>3. CASE StartCommand
  BY <1>3 DEF StartCommand, InitSocket, ListenInv, StopInv, Accepting
<1>4. CASE StopCommand \/ ShutDown
  BY <1>4 DEF StopCommand, ShutDown, ListenInv, StopInv, Accepting
<1> QED BY <1>1, <1>2, <1>3, <1>4

(* TcpInv is an invariant of the server and of the program around it.      *)
THEOREM TcpInvariance == TcpSpec => []TcpInv
<1>1. TcpInv /\ [TcpNext]_tcpVars => TcpInv'
  <2> SUFFICES ASSUME TcpInv, [TcpNext]_tcpVars PROVE TcpInv'
    OBVIOUS
  <2>1. CASE TcpNext
    BY <2>1, ListenEventStep, AcceptStep, ConnStep, CommandStep DEF TcpNext, TcpThreadStep
  <2>2. CASE UNCHANGED tcpVars
    BY <2>2 DEF tcpVars, TcpInv, ListenInv, StopInv, Accepting
  <2> QED BY <2>1, <2>2
<1> QED BY <1>1, TcpInitInv, PTL DEF TcpSpec

(* One thread accepts at a time, and none once tcp_server::stop has been   *)
(* noticed, for any number of io threads, clients and descriptors.         *)
THEOREM NoAcceptAfterStop == TcpSpec => []AcceptsStopped
<1>1. TcpInv => AcceptsStopped
  <2> SUFFICES ASSUME TcpInv PROVE AcceptsStopped
    OBVIOUS
  <2>1. Cardinality(Accepting) = IF tcpListen = "taken" THEN 1 ELSE 0
    BY FS_EmptySet, FS_Singleton DEF TcpInv, ListenInv
  <2> QED BY <2>1 DEF TcpInv, StopInv, AcceptsStopped, Accepting
<1> QED BY <1>1, TcpInvariance, PTL

-----------------------------------------------------------------------------
(* The values that the variables of DnsCache take.                         *)
DnsFiberSet == [to : DnsClients, n : 1..DnsMaxCalls, op : DnsOps, err : BOOLEAN,
                at : {"callback", "connecting"}]
DnsTypeOK ==
    /\ dnsEntry \in [DnsHosts -> {"none", "in_progress", "resolved"}]
    /\ dnsPending \in [DnsHosts -> Seq(DnsIds \X DnsOps)]
    /\ dnsGai \in [DnsHosts -> Nat]
    /\ dnsCall \in [DnsClients -> [op : DnsOps \cup {"none"}, n : 0..DnsMaxCalls,
                                   st : {"idle", "wait", "threw"}]]
    /\ dnsFibers \subseteq DnsFiberSet
    /\ dnsAnswers \in [DnsIds -> Nat]

(* Callers wait only at an entry whose lookup is under way, and one that   *)
(* waits there in get_addrinfo or connect has not left its frame.          *)
PendingInv == \A h \in DnsHosts :
    /\ dnsEntry[h] # "in_progress" => dnsPending[h] = <<>>
    /\ \A k \in DOMAIN dnsPending[h] : dnsPending[h][k][2] # "connect_and_run" =>
         LET id == dnsPending[h][k][1]
         IN  dnsCall[id[1]].n = id[2] /\ dnsCall[id[1]].st = "wait"

(* A call is in one place: not made yet, answered, with its callback under *)
(* way, or in a list of pending callers.                                   *)
Made(id) == id[2] <= dnsCall[id[1]].n
Place(id) ==
    \/ ~Made(id) /\ dnsAnswers[id] = 0 /\ InFlight(id) = {} /\ Queued(id) = {}
    \/ Made(id) /\ dnsAnswers[id] = 1 /\ InFlight(id) = {} /\ Queued(id) = {}
    \/ Made(id) /\ dnsAnswers[id] = 0 /\ (\E f : InFlight(id) = {f}) /\ Queued(id) = {}
    \/ Made(id) /\ dnsAnswers[id] = 0 /\ InFlight(id) = {} /\ (\E q : Queued(id) = {q})
PlaceInv == \A id \in DnsIds : Place(id)

DnsInv == DnsTypeOK /\ PendingInv /\ PlaceInv /\ FramesAlive

(* Nothing has been asked for.                                             *)
LEMMA DnsInitInv == DnsInit => DnsInv
<1> SUFFICES ASSUME DnsInit PROVE DnsInv
  OBVIOUS
<1>1. DnsTypeOK
  BY DnsAssumption DEF DnsAssumption, DnsInit, DnsTypeOK
<1>2. PendingInv /\ FramesAlive
  BY DEF DnsInit, PendingInv, FramesAlive
<1>3. \A id \in DnsIds : InFlight(id) = {} /\ Queued(id) = {} /\ dnsAnswers[id] = 0
  BY DEF DnsInit, InFlight, Queued
<1>4. \A id \in DnsIds : ~Made(id)
  BY DnsAssumption DEF DnsAssumption, DnsInit, Made, DnsIds
<1> QED BY <1>1, <1>2, <1>3, <1>4 DEF DnsInv, PlaceInv, Place

(* What a new call is: the next number of an idle fiber, in no place yet.  *)
LEMMA NewCall ==
    ASSUME DnsInv, NEW c \in DnsClients, MayCall(c)
    PROVE  /\ NextCall(c) \in DnsIds /\ ~Made(NextCall(c))
           /\ NextCall(c)[1] = c /\ NextCall(c)[2] = dnsCall[c].n + 1
           /\ dnsAnswers[NextCall(c)] = 0
           /\ InFlight(NextCall(c)) = {} /\ Queued(NextCall(c)) = {}
<1>1. dnsCall[c].n \in 0..DnsMaxCalls /\ dnsCall[c].n < DnsMaxCalls
  BY DEF DnsInv, DnsTypeOK, MayCall
<1>2. NextCall(c) \in DnsIds /\ NextCall(c)[1] = c /\ NextCall(c)[2] = dnsCall[c].n + 1
  BY <1>1, DnsAssumption DEF DnsAssumption, NextCall, DnsIds
<1>3. ~Made(NextCall(c))
  BY <1>1, <1>2 DEF Made
<1> QED BY <1>2, <1>3 DEF DnsInv, PlaceInv, Place

(* Beginning a call makes that one, and no other.                          *)
LEMMA BeginMakes ==
    ASSUME DnsInv, NEW c \in DnsClients, MayCall(c), NEW op \in DnsOps,
           NEW st \in {"idle", "wait", "threw"}, Begin(c, op, st)
    PROVE  /\ dnsCall' \in [DnsClients -> [op : DnsOps \cup {"none"}, n : 0..DnsMaxCalls,
                                           st : {"idle", "wait", "threw"}]]
           /\ dnsCall'[c] = [op |-> op, n |-> dnsCall[c].n + 1, st |-> st]
           /\ \A d \in DnsClients \ {c} : dnsCall'[d] = dnsCall[d]
           /\ \A id \in DnsIds : Made(id)' <=> Made(id) \/ id = NextCall(c)
<1>1. dnsCall[c].n \in 0..DnsMaxCalls /\ dnsCall[c].n < DnsMaxCalls
  BY DEF DnsInv, DnsTypeOK, MayCall
<1>2. /\ dnsCall' \in [DnsClients -> [op : DnsOps \cup {"none"}, n : 0..DnsMaxCalls,
                                      st : {"idle", "wait", "threw"}]]
      /\ dnsCall'[c] = [op |-> op, n |-> dnsCall[c].n + 1, st |-> st]
      /\ \A d \in DnsClients \ {c} : dnsCall'[d] = dnsCall[d]
  BY <1>1, DnsAssumption DEF DnsAssumption, Begin, DnsInv, DnsTypeOK
<1>3. ASSUME NEW id \in DnsIds PROVE Made(id)' <=> Made(id) \/ id = NextCall(c)
  <2>1. /\ id[1] \in DnsClients /\ id[2] \in 1..DnsMaxCalls /\ id = <<id[1], id[2]>>
        /\ dnsCall'[c].n = dnsCall[c].n + 1
    BY <1>2 DEF DnsIds
  <2>2. CASE id[1] = c
    <3>1. Made(id)' <=> id[2] <= dnsCall[c].n + 1
      BY <2>1, <2>2 DEF Made
    <3>2. id = NextCall(c) <=> id[2] = dnsCall[c].n + 1
      BY <2>1, <2>2 DEF NextCall
    <3> QED BY <1>1, <2>1, <2>2, <3>1, <3>2, DnsAssumption DEF DnsAssumption, Made
  <2>3. CASE id[1] # c
    BY <1>2, <2>1, <2>3 DEF Made, NextCall
  <2> QED BY <2>2, <2>3
<1> QED BY <1>2, <1>3

(* The places of a call in the lists, one by one.                          *)
LEMMA QueuedAt ==
    \A id, q : q \in Queued(id) <=> \E h \in DnsHosts : \E k \in DOMAIN dnsPending[h] :
                                     dnsPending[h][k][1] = id /\ q = <<h, k>>
  BY DEF Queued

(* A caller queues at an entry, a new one or one whose lookup is under     *)
(* way: its call stands there and nowhere else.                            *)
LEMMA EnqueueStep ==
    ASSUME DnsInv, NEW c \in DnsClients, NEW op \in DnsOps, NEW h \in DnsHosts,
           InitiateLookup(c, op, h) \/ JoinLookup(c, op, h)
    PROVE  DnsInv'
<1> USE DEF DnsInv
<1>0. PICK st \in {"idle", "wait", "threw"} :
      /\ MayCall(c) /\ Begin(c, op, st)
      /\ st = "wait" <=> op # "connect_and_run"
      /\ UNCHANGED <<dnsFibers, dnsAnswers>>
  BY DEF InitiateLookup, JoinLookup, AfterCall
<1>1. /\ dnsEntry' \in [DnsHosts -> {"none", "in_progress", "resolved"}]
      /\ dnsGai' \in [DnsHosts -> Nat]
      /\ \A g \in DnsHosts : dnsGai'[g] = IF dnsEntry'[g] = "in_progress" THEN 1 ELSE 0
      /\ dnsEntry'[h] = "in_progress" /\ \A g \in DnsHosts \ {h} : dnsEntry'[g] = dnsEntry[g]
  <2>1. CASE InitiateLookup(c, op, h)
    BY <2>1 DEF InitiateLookup, DnsTypeOK, FramesAlive
  <2>2. CASE JoinLookup(c, op, h)
    BY <2>2 DEF JoinLookup, DnsTypeOK, FramesAlive
  <2> QED BY <2>1, <2>2
<1>2. PICK id \in DnsIds : id = NextCall(c)
  BY <1>0, NewCall
<1>3. /\ ~Made(id) /\ id[1] = c /\ id[2] = dnsCall[c].n + 1
      /\ dnsAnswers[id] = 0 /\ InFlight(id) = {} /\ Queued(id) = {}
  BY <1>0, <1>2, NewCall
<1>4. PICK s \in Seq(DnsIds \X DnsOps), entry \in DnsIds \X DnsOps :
        /\ s = dnsPending[h] /\ entry = <<id, op>>
        /\ dnsPending' = [dnsPending EXCEPT ![h] = Append(s, entry)]
  <2>1. dnsPending[h] \in Seq(DnsIds \X DnsOps) /\ <<id, op>> \in DnsIds \X DnsOps
    BY DEF DnsTypeOK
  <2>2. CASE InitiateLookup(c, op, h)
    <3>1. dnsPending[h] = <<>>
      BY <2>2 DEF InitiateLookup, PendingInv
    <3>2. Append(<<>>, <<id, op>>) = << <<id, op>> >>
      OBVIOUS
    <3>3. Append(dnsPending[h], <<id, op>>) = << <<id, op>> >>
      BY <3>1, <3>2, Zenon
    <3> QED BY <1>2, <2>1, <2>2, <3>3, Zenon DEF InitiateLookup
  <2>3. CASE JoinLookup(c, op, h)
    BY <1>2, <2>1, <2>3 DEF JoinLookup
  <2> QED BY <2>2, <2>3
<1>5. entry[1] = id /\ entry[2] = op
  BY <1>4
<1>6. PICK m : m = Len(s) + 1
  OBVIOUS
<1>7. /\ dnsPending' \in [DnsHosts -> Seq(DnsIds \X DnsOps)]
      /\ DOMAIN dnsPending'[h] = DOMAIN s \cup {m} /\ m \notin DOMAIN s
      /\ dnsPending'[h][m] = entry
      /\ \A k \in DOMAIN s : dnsPending'[h][k] = s[k]
      /\ \A g \in DnsHosts \ {h} : dnsPending'[g] = dnsPending[g]
  <2>1. /\ Append(s, entry) \in Seq(DnsIds \X DnsOps)
        /\ Len(Append(s, entry)) = m /\ m \in Nat \ {0} /\ Append(s, entry)[m] = entry
        /\ \A k \in 1..Len(s) : Append(s, entry)[k] = s[k]
        /\ DOMAIN s = 1..Len(s) /\ DOMAIN Append(s, entry) = 1..m /\ Len(s) \in Nat
    BY <1>4, <1>6, AppendProperties, LenProperties
  <2>2. dnsPending'[h] = Append(s, entry)
    BY <1>4 DEF DnsTypeOK
  <2>3. DOMAIN Append(s, entry) = DOMAIN s \cup {m} /\ m \notin DOMAIN s
    BY <1>6, <2>1
  <2> QED BY <1>4, <2>1, <2>2, <2>3 DEF DnsTypeOK
<1>8. /\ dnsCall' \in [DnsClients -> [op : DnsOps \cup {"none"}, n : 0..DnsMaxCalls,
                                      st : {"idle", "wait", "threw"}]]
      /\ dnsCall'[c].n = dnsCall[c].n + 1 /\ dnsCall'[c].st = st
      /\ \A d \in DnsClients \ {c} : dnsCall'[d] = dnsCall[d]
      /\ \A i \in DnsIds : Made(i)' <=> Made(i) \/ i = id
  <2>1. DnsInv /\ MayCall(c) /\ Begin(c, op, st)
    BY <1>0
  <2>2. /\ dnsCall' \in [DnsClients -> [op : DnsOps \cup {"none"}, n : 0..DnsMaxCalls,
                                        st : {"idle", "wait", "threw"}]]
        /\ dnsCall'[c] = [op |-> op, n |-> dnsCall[c].n + 1, st |-> st]
        /\ \A d \in DnsClients \ {c} : dnsCall'[d] = dnsCall[d]
        /\ \A i \in DnsIds : Made(i)' <=> Made(i) \/ i = NextCall(c)
    <3> HIDE DEF DnsInv
    <3> QED BY <2>1, BeginMakes, Zenon
  <2> QED BY <1>2, <2>2
<1>9. DnsTypeOK'
  BY <1>0, <1>1, <1>7, <1>8 DEF DnsTypeOK
<1>10. Queued(id)' = {<<h, m>>}
  BY <1>3, <1>4, <1>5, <1>7 DEF Queued
<1>11. \A i \in DnsIds : i # id => Queued(i)' = Queued(i)
  BY <1>4, <1>5, <1>7 DEF Queued
<1>12. \A i \in DnsIds : InFlight(i)' = InFlight(i)
  BY <1>0 DEF InFlight
<1>13. PlaceInv'
  <2>1. SUFFICES ASSUME NEW i \in DnsIds PROVE Place(i)'
    BY DEF PlaceInv
  <2>2. CASE i = id
    BY <1>0, <1>3, <1>8, <1>10, <1>12, <2>2 DEF Place
  <2>3. CASE i # id
    <3>1. /\ Made(i)' <=> Made(i)
          /\ InFlight(i)' = InFlight(i) /\ Queued(i)' = Queued(i)
          /\ dnsAnswers'[i] = dnsAnswers[i]
      BY <1>0, <1>8, <1>11, <1>12, <2>3
    <3>2. Place(i)
      BY DEF PlaceInv
    <3> QED BY <3>1, <3>2, Zenon DEF Place
  <2> QED BY <2>2, <2>3
<1>14. dnsCall[c].st = "idle"
  BY <1>0 DEF MayCall
<1>15. PendingInv'
  <2>1. \A g \in DnsHosts : \A k \in DOMAIN dnsPending[g] :
          dnsPending[g][k][1] \in DnsIds /\ dnsPending[g][k][1][1] \in DnsClients
    BY SMTT(30) DEF DnsTypeOK, DnsIds
  <2>2. \A g \in DnsHosts : \A k \in DOMAIN dnsPending[g] :
          dnsPending[g][k][2] # "connect_and_run" => dnsPending[g][k][1][1] # c
    BY <1>14, <2>1 DEF PendingInv
  <2>3. ASSUME NEW g \in DnsHosts, NEW k \in DOMAIN dnsPending'[g],
               dnsPending'[g][k][2] # "connect_and_run"
        PROVE  /\ dnsCall'[dnsPending'[g][k][1][1]].n = dnsPending'[g][k][1][2]
               /\ dnsCall'[dnsPending'[g][k][1][1]].st = "wait"
    <3>1. CASE g = h /\ k = m
      BY <1>0, <1>3, <1>5, <1>7, <1>8, <2>3, <3>1
    <3>2. CASE ~(g = h /\ k = m)
      <4>1. k \in DOMAIN dnsPending[g] /\ dnsPending'[g][k] = dnsPending[g][k]
        BY <1>4, <1>7, <2>3, <3>2
      <4> QED BY <1>8, <2>1, <2>2, <2>3, <4>1 DEF PendingInv
    <3> QED BY <3>1, <3>2
  <2>4. ASSUME NEW g \in DnsHosts, dnsEntry'[g] # "in_progress"
        PROVE  dnsPending'[g] = <<>>
    BY <1>1, <1>7, <2>4 DEF PendingInv
  <2> QED BY <2>3, <2>4 DEF PendingInv
<1>16. FramesAlive'
  <2>1. ASSUME NEW f \in dnsFibers', f.op # "connect_and_run"
        PROVE  /\ dnsCall'[f.to].n = f.n
               /\ dnsCall'[f.to].st = "wait" \/ (dnsCall'[f.to].st = "threw" /\ f.err)
    <3>1. f \in dnsFibers /\ f.to \in DnsClients
      BY <1>0, <2>1 DEF DnsTypeOK, DnsFiberSet
    <3>2. f.to # c
      BY <1>14, <2>1, <3>1 DEF FramesAlive
    <3>3. dnsCall'[f.to] = dnsCall[f.to]
      BY <1>8, <3>1, <3>2
    <3> QED BY <2>1, <3>1, <3>3 DEF FramesAlive
  <2> QED BY <1>1, <2>1 DEF FramesAlive
<1> QED BY <1>9, <1>13, <1>15, <1>16

(* What stands for a fiber that is idle was put there by connect_and_run:  *)
(* another call of its leaves the frames of all the others alone.          *)
LEMMA OthersKept ==
    ASSUME DnsInv, NEW c \in DnsClients, MayCall(c),
           \A d \in DnsClients \ {c} : dnsCall'[d] = dnsCall[d],
           UNCHANGED <<dnsEntry, dnsPending, dnsGai>>
    PROVE  /\ PendingInv'
           /\ \A g \in DnsHosts : dnsGai'[g] = IF dnsEntry'[g] = "in_progress" THEN 1 ELSE 0
           /\ \A f \in dnsFibers : f.op # "connect_and_run" =>
                /\ dnsCall'[f.to].n = f.n
                /\ dnsCall'[f.to].st = "wait" \/ (dnsCall'[f.to].st = "threw" /\ f.err)
<1> USE DEF DnsInv
<1>1. dnsCall[c].st = "idle"
  BY DEF MayCall
<1>2. PendingInv'
  <2>1. \A g \in DnsHosts : \A k \in DOMAIN dnsPending[g] :
          dnsPending[g][k][1][1] \in DnsClients
    BY DEF DnsTypeOK, DnsIds
  <2>2. \A g \in DnsHosts : \A k \in DOMAIN dnsPending[g] :
          dnsPending[g][k][2] # "connect_and_run" => dnsPending[g][k][1][1] # c
    BY <1>1, <2>1 DEF PendingInv
  <2> QED BY <2>1, <2>2 DEF PendingInv
<1>3. ASSUME NEW f \in dnsFibers, f.op # "connect_and_run"
      PROVE  /\ dnsCall'[f.to].n = f.n
             /\ dnsCall'[f.to].st = "wait" \/ (dnsCall'[f.to].st = "threw" /\ f.err)
  <2>1. f.to \in DnsClients /\ f.to # c
    BY <1>1, <1>3 DEF FramesAlive, DnsTypeOK, DnsFiberSet
  <2> QED BY <1>3, <2>1 DEF FramesAlive
<1> QED BY <1>2, <1>3 DEF FramesAlive

(* A call starts a callback: a lookup that could not be started, or an     *)
(* answer from the cache.                                                  *)
LEMMA StartStep ==
    ASSUME DnsInv, NEW c \in DnsClients, NEW op \in DnsOps, NEW h \in DnsHosts,
           \/ InitiateLookupFails(c, op, h)
           \/ CallFromCache(c, op, h) /\ op # "get_addrinfo"
    PROVE  DnsInv'
<1>0. PICK st \in {"idle", "wait", "threw"}, err \in BOOLEAN :
      /\ MayCall(c) /\ Begin(c, op, st)
      /\ op # "connect_and_run" => st = "wait" \/ (st = "threw" /\ err)
      /\ dnsFibers' = dnsFibers \cup {Callback(NextCall(c), op, err)}
      /\ UNCHANGED <<dnsEntry, dnsPending, dnsGai, dnsAnswers>>
  <2>1. CASE InitiateLookupFails(c, op, h)
    BY <2>1 DEF InitiateLookupFails, AfterCall
  <2>2. CASE CallFromCache(c, op, h) /\ op # "get_addrinfo"
    BY <2>2 DEF CallFromCache, AfterCall
  <2> QED BY <2>1, <2>2
<1>1. PICK id \in DnsIds : id = NextCall(c)
  BY <1>0, NewCall
<1>2. /\ ~Made(id) /\ id[1] = c /\ id[2] = dnsCall[c].n + 1
      /\ dnsAnswers[id] = 0 /\ InFlight(id) = {} /\ Queued(id) = {}
  BY <1>0, <1>1, NewCall
<1>3. PICK f : f = Callback(id, op, err)
  OBVIOUS
<1>4. /\ f \in DnsFiberSet /\ dnsFibers' = dnsFibers \cup {f}
      /\ f.to = c /\ f.n = id[2] /\ f.op = op /\ f.err = err /\ <<f.to, f.n>> = id
  BY <1>0, <1>1, <1>2, <1>3 DEF Callback, DnsFiberSet, DnsIds
<1>5. /\ dnsCall' \in [DnsClients -> [op : DnsOps \cup {"none"}, n : 0..DnsMaxCalls,
                                      st : {"idle", "wait", "threw"}]]
      /\ dnsCall'[c].n = dnsCall[c].n + 1 /\ dnsCall'[c].st = st
      /\ \A d \in DnsClients \ {c} : dnsCall'[d] = dnsCall[d]
      /\ \A i \in DnsIds : Made(i)' <=> Made(i) \/ i = id
  <2>1. /\ dnsCall' \in [DnsClients -> [op : DnsOps \cup {"none"}, n : 0..DnsMaxCalls,
                                        st : {"idle", "wait", "threw"}]]
        /\ dnsCall'[c] = [op |-> op, n |-> dnsCall[c].n + 1, st |-> st]
        /\ \A d \in DnsClients \ {c} : dnsCall'[d] = dnsCall[d]
        /\ \A i \in DnsIds : Made(i)' <=> Made(i) \/ i = NextCall(c)
    BY <1>0, BeginMakes, Zenon
  <2> QED BY <1>1, <2>1
<1>6. DnsTypeOK'
  BY <1>0, <1>4, <1>5 DEF DnsInv, DnsTypeOK
<1>7. PendingInv' /\ FramesAlive'
  <2>1. /\ PendingInv'
        /\ \A g \in DnsHosts : dnsGai'[g] = IF dnsEntry'[g] = "in_progress" THEN 1 ELSE 0
        /\ \A e \in dnsFibers : e.op # "connect_and_run" =>
             /\ dnsCall'[e.to].n = e.n
             /\ dnsCall'[e.to].st = "wait" \/ (dnsCall'[e.to].st = "threw" /\ e.err)
    BY <1>0, <1>5, OthersKept
  <2>2. f.op # "connect_and_run" =>
             /\ dnsCall'[f.to].n = f.n
             /\ dnsCall'[f.to].st = "wait" \/ (dnsCall'[f.to].st = "threw" /\ f.err)
    BY <1>0, <1>2, <1>4, <1>5
  <2> QED BY <1>4, <2>1, <2>2 DEF FramesAlive
<1>8. \A i \in DnsIds : Queued(i)' = Queued(i)
  BY <1>0 DEF Queued
<1>9. /\ InFlight(id)' = {f}
      /\ \A i \in DnsIds : i # id => InFlight(i)' = InFlight(i)
  BY <1>2, <1>4 DEF InFlight
<1>10. ASSUME NEW i \in DnsIds PROVE Place(i)'
  <2>1. CASE i = id
    BY <1>0, <1>2, <1>5, <1>8, <1>9, <2>1 DEF Place
  <2>2. CASE i # id
    <3>1. /\ Made(i)' <=> Made(i)
          /\ InFlight(i)' = InFlight(i) /\ Queued(i)' = Queued(i)
          /\ dnsAnswers'[i] = dnsAnswers[i]
      BY <1>0, <1>5, <1>8, <1>9, <2>2
    <3>2. Place(i)
      BY DEF DnsInv, PlaceInv
    <3> QED BY <3>1, <3>2, Zenon DEF Place
  <2> QED BY <2>1, <2>2
<1> QED BY <1>6, <1>7, <1>10 DEF DnsInv, PlaceInv

(* get_addrinfo finds the entry resolved and has its answer.               *)
LEMMA AtOnceStep ==
    ASSUME DnsInv, NEW c \in DnsClients, NEW h \in DnsHosts,
           CallFromCache(c, "get_addrinfo", h)
    PROVE  DnsInv'
<1>0. /\ MayCall(c) /\ Begin(c, "get_addrinfo", "idle") /\ "get_addrinfo" \in DnsOps
      /\ dnsAnswers' = [dnsAnswers EXCEPT ![NextCall(c)] = @ + 1]
      /\ UNCHANGED <<dnsEntry, dnsPending, dnsGai, dnsFibers>>
  BY DEF CallFromCache, DnsOps
<1>1. PICK id \in DnsIds : id = NextCall(c)
  BY <1>0, NewCall
<1>2. /\ ~Made(id) /\ dnsAnswers[id] = 0 /\ InFlight(id) = {} /\ Queued(id) = {}
  BY <1>0, <1>1, NewCall
<1>3. /\ dnsCall' \in [DnsClients -> [op : DnsOps \cup {"none"}, n : 0..DnsMaxCalls,
                                      st : {"idle", "wait", "threw"}]]
      /\ \A d \in DnsClients \ {c} : dnsCall'[d] = dnsCall[d]
      /\ \A i \in DnsIds : Made(i)' <=> Made(i) \/ i = id
  <2>1. /\ dnsCall' \in [DnsClients -> [op : DnsOps \cup {"none"}, n : 0..DnsMaxCalls,
                                        st : {"idle", "wait", "threw"}]]
        /\ \A d \in DnsClients \ {c} : dnsCall'[d] = dnsCall[d]
        /\ \A i \in DnsIds : Made(i)' <=> Made(i) \/ i = NextCall(c)
    BY <1>0, BeginMakes
  <2> QED BY <1>1, <2>1
<1>4. /\ dnsAnswers' \in [DnsIds -> Nat] /\ dnsAnswers'[id] = 1
      /\ \A i \in DnsIds : i # id => dnsAnswers'[i] = dnsAnswers[i]
  BY <1>0, <1>1, <1>2 DEF DnsInv, DnsTypeOK
<1>5. DnsTypeOK'
  BY <1>0, <1>3, <1>4 DEF DnsInv, DnsTypeOK
<1>6. PendingInv' /\ FramesAlive'
  BY <1>0, <1>3, OthersKept DEF FramesAlive
<1>7. \A i \in DnsIds : Queued(i)' = Queued(i) /\ InFlight(i)' = InFlight(i)
  BY <1>0 DEF Queued, InFlight
<1>8. ASSUME NEW i \in DnsIds PROVE Place(i)'
  <2>1. CASE i = id
    BY <1>2, <1>3, <1>4, <1>7, <2>1 DEF Place
  <2>2. CASE i # id
    <3>1. /\ Made(i)' <=> Made(i)
          /\ InFlight(i)' = InFlight(i) /\ Queued(i)' = Queued(i)
          /\ dnsAnswers'[i] = dnsAnswers[i]
      BY <1>3, <1>4, <1>7, <2>2
    <3>2. Place(i)
      BY DEF DnsInv, PlaceInv
    <3> QED BY <3>1, <3>2, Zenon DEF Place
  <2> QED BY <2>1, <2>2
<1> QED BY <1>5, <1>6, <1>8 DEF DnsInv, PlaceInv

(* resolve_complete: every call that waited at the entry has its callback  *)
(* under way, one each, because it stood there once.                       *)
LEMMA ResolveStep ==
    ASSUME DnsInv, NEW h \in DnsHosts, ResolveComplete(h)
    PROVE  DnsInv'
<1>0. PICK err \in BOOLEAN, e \in {"none", "resolved"} :
      /\ dnsGai[h] > 0
      /\ dnsGai' = [dnsGai EXCEPT ![h] = @ - 1]
      /\ dnsPending' = [dnsPending EXCEPT ![h] = <<>>]
      /\ InformAll(h, err)
      /\ dnsEntry' = [dnsEntry EXCEPT ![h] = e]
      /\ UNCHANGED <<dnsCall, dnsAnswers>>
  BY DEF ResolveComplete
<1>1. PICK s \in Seq(DnsIds \X DnsOps) : s = dnsPending[h]
  BY DEF DnsInv, DnsTypeOK
<1>2. ToSet(s) = {s[k] : k \in DOMAIN s}
  BY DEF ToSet
<1>3. dnsFibers' = dnsFibers \cup {Callback(s[k][1], s[k][2], err) : k \in DOMAIN s}
  BY <1>0, <1>1, <1>2, SMTT(30) DEF InformAll
<1>4. \A k \in DOMAIN s : s[k] \in DnsIds \X DnsOps
  BY <1>1, ElementOfSeq, LenProperties
<1>5. ASSUME NEW k \in DOMAIN s
      PROVE  LET f == Callback(s[k][1], s[k][2], err)
             IN  /\ f \in DnsFiberSet /\ <<f.to, f.n>> = s[k][1]
                 /\ f.to = s[k][1][1] /\ f.n = s[k][1][2] /\ f.op = s[k][2]
  BY <1>4 DEF Callback, DnsFiberSet, DnsIds
<1>6. /\ dnsPending' \in [DnsHosts -> Seq(DnsIds \X DnsOps)]
      /\ dnsPending'[h] = <<>> /\ DOMAIN dnsPending'[h] = {}
      /\ \A g \in DnsHosts \ {h} : dnsPending'[g] = dnsPending[g]
  BY <1>0 DEF DnsInv, DnsTypeOK
<1>7. /\ dnsGai[h] = 1 /\ dnsEntry[h] = "in_progress"
  BY <1>0 DEF DnsInv, FramesAlive, DnsTypeOK
<1>8. DnsTypeOK'
  BY <1>0, <1>3, <1>5, <1>6, <1>7 DEF DnsInv, DnsTypeOK
<1>9. PendingInv'
  <2>1. \A g \in DnsHosts \ {h} : dnsEntry'[g] = dnsEntry[g]
    BY <1>0 DEF DnsInv, DnsTypeOK
  <2> QED BY <1>0, <1>6, <2>1 DEF DnsInv, PendingInv
<1>10. FramesAlive'
  <2>1. \A g \in DnsHosts : dnsGai'[g] = IF dnsEntry'[g] = "in_progress" THEN 1 ELSE 0
    BY <1>0, <1>7 DEF DnsInv, FramesAlive, DnsTypeOK
  <2>2. ASSUME NEW f \in dnsFibers', f.op # "connect_and_run"
        PROVE  /\ dnsCall'[f.to].n = f.n
               /\ dnsCall'[f.to].st = "wait" \/ (dnsCall'[f.to].st = "threw" /\ f.err)
    <3>1. CASE f \in dnsFibers
      BY <1>0, <2>2, <3>1 DEF DnsInv, FramesAlive
    <3>2. CASE f \notin dnsFibers
      <4>1. PICK k \in DOMAIN s : f = Callback(s[k][1], s[k][2], err)
        BY <1>3, <2>2, <3>2
      <4>2. f.to = s[k][1][1] /\ f.n = s[k][1][2] /\ f.op = s[k][2]
        BY <1>5, <4>1
      <4> QED BY <1>0, <1>1, <2>2, <4>2 DEF DnsInv, PendingInv
    <3> QED BY <3>1, <3>2
  <2> QED BY <2>1, <2>2 DEF FramesAlive
<1>11. ASSUME NEW i \in DnsIds PROVE Place(i)'
  <2>0. Place(i) /\ (Made(i)' <=> Made(i)) /\ dnsAnswers'[i] = dnsAnswers[i]
    BY <1>0 DEF DnsInv, PlaceInv, Made
  <2>1. CASE \E k \in DOMAIN s : s[k][1] = i
    <3>1. PICK k \in DOMAIN s : s[k][1] = i
      BY <2>1
    <3>2. <<h, k>> \in Queued(i)
      BY <1>1, <3>1, QueuedAt
    <3>3. Made(i) /\ dnsAnswers[i] = 0 /\ InFlight(i) = {} /\ Queued(i) = {<<h, k>>}
      BY <2>0, <3>2 DEF Place
    <3>4. \A j \in DOMAIN s : s[j][1] = i => j = k
      <4>1. \A j \in DOMAIN s : s[j][1] = i => <<h, j>> \in Queued(i)
        BY <1>1, QueuedAt
      <4> QED BY <3>3, <4>1
    <3>5. PICK f : f = Callback(s[k][1], s[k][2], err)
      OBVIOUS
    <3>6. InFlight(i)' = {f}
      <4>1. \A g \in dnsFibers : <<g.to, g.n>> # i
        BY <3>3 DEF InFlight
      <4>2. f \in dnsFibers' /\ <<f.to, f.n>> = i
        BY <1>3, <1>5, <3>1, <3>5
      <4>3. ASSUME NEW g \in dnsFibers', <<g.to, g.n>> = i PROVE g = f
        <5>1. PICK j \in DOMAIN s : g = Callback(s[j][1], s[j][2], err)
          BY <1>3, <4>1, <4>3
        <5>2. s[j][1] = i
          BY <1>5, <4>3, <5>1
        <5> QED BY <3>4, <3>5, <5>1, <5>2
      <4> QED BY <4>2, <4>3 DEF InFlight
    <3>7. Queued(i)' = {}
      <4>1. \A q : q \notin Queued(i)'
        <5>1. \A q : q \in Queued(i)' => \E g \in DnsHosts : \E j \in DOMAIN dnsPending'[g] :
                       dnsPending'[g][j][1] = i /\ q = <<g, j>>
          BY DEF Queued
        <5>2. \A g \in DnsHosts : \A j \in DOMAIN dnsPending'[g] :
                  dnsPending'[g][j][1] = i => g # h /\ <<g, j>> \in Queued(i)
          BY <1>6, QueuedAt
        <5> QED BY <3>3, <5>1, <5>2
      <4> QED BY <4>1
    <3> QED BY <2>0, <3>3, <3>6, <3>7, Zenon DEF Place
  <2>2. CASE ~\E k \in DOMAIN s : s[k][1] = i
    <3>1. InFlight(i)' = InFlight(i)
      <4>1. \A k \in DOMAIN s : LET f == Callback(s[k][1], s[k][2], err)
                               IN  <<f.to, f.n>> # i
        BY <1>5, <2>2
      <4>2. \A g : g \in dnsFibers' /\ <<g.to, g.n>> = i => g \in dnsFibers
        BY <1>3, <4>1
      <4>3. dnsFibers \subseteq dnsFibers'
        BY <1>3
      <4> QED BY <4>2, <4>3 DEF InFlight
    <3>2. Queued(i)' = Queued(i)
      <4>1. \A q : q \in Queued(i)' <=> \E g \in DnsHosts : \E j \in DOMAIN dnsPending'[g] :
                     dnsPending'[g][j][1] = i /\ q = <<g, j>>
        BY DEF Queued
      <4>2. ASSUME NEW g \in DnsHosts, NEW j
            PROVE  (j \in DOMAIN dnsPending'[g] /\ dnsPending'[g][j][1] = i)
                     <=> (j \in DOMAIN dnsPending[g] /\ dnsPending[g][j][1] = i)
        <5>1. CASE g = h
          BY <1>1, <1>6, <2>2, <5>1
        <5>2. CASE g # h
          BY <1>6, <5>2
        <5> QED BY <5>1, <5>2
      <4>3. \A q : q \in Queued(i)' <=> q \in Queued(i)
        <5>1. ASSUME NEW q \in Queued(i)' PROVE q \in Queued(i)
          <6>1. PICK g \in DnsHosts : \E j \in DOMAIN dnsPending'[g] :
                  dnsPending'[g][j][1] = i /\ q = <<g, j>>
            BY <4>1, <5>1
          <6>2. PICK j \in DOMAIN dnsPending'[g] : dnsPending'[g][j][1] = i /\ q = <<g, j>>
            BY <6>1
          <6> QED BY <4>2, <6>1, <6>2, QueuedAt
        <5>2. ASSUME NEW q \in Queued(i) PROVE q \in Queued(i)'
          <6>1. PICK g \in DnsHosts : \E j \in DOMAIN dnsPending[g] :
                  dnsPending[g][j][1] = i /\ q = <<g, j>>
            BY <5>2, QueuedAt
          <6>2. PICK j \in DOMAIN dnsPending[g] : dnsPending[g][j][1] = i /\ q = <<g, j>>
            BY <6>1
          <6> QED BY <4>1, <4>2, <6>1, <6>2
        <5> QED BY <5>1, <5>2
      <4> QED BY <4>3
    <3> QED BY <2>0, <3>1, <3>2, Zenon DEF Place
  <2> QED BY <2>1, <2>2
<1> QED BY <1>8, <1>9, <1>10, <1>11 DEF DnsInv, PlaceInv

(* A callback answers its caller and ends: the call has its answer, and    *)
(* nothing else can answer it.                                             *)
LEMMA AnswerStep ==
    ASSUME DnsInv, NEW f \in dnsFibers, Answer(f),
           UNCHANGED <<dnsEntry, dnsPending, dnsGai, dnsCall>>
    PROVE  DnsInv'
<1>1. PICK id \in DnsIds : id = <<f.to, f.n>>
  BY DEF DnsInv, DnsTypeOK, DnsFiberSet, DnsIds
<1>2. f \in InFlight(id)
  BY <1>1 DEF InFlight
<1>3. Made(id) /\ dnsAnswers[id] = 0 /\ InFlight(id) = {f} /\ Queued(id) = {}
  <2>1. Place(id)
    BY DEF DnsInv, PlaceInv
  <2> QED BY <1>2, <2>1 DEF Place
<1>4. /\ dnsAnswers' \in [DnsIds -> Nat] /\ dnsAnswers'[id] = 1
      /\ \A i \in DnsIds : i # id => dnsAnswers'[i] = dnsAnswers[i]
  BY <1>1, <1>3 DEF Answer, DnsInv, DnsTypeOK
<1>5. DnsTypeOK' /\ PendingInv' /\ FramesAlive'
  BY <1>4 DEF DnsInv, DnsTypeOK, PendingInv, FramesAlive, Answer
<1>6. \A i \in DnsIds : Queued(i)' = Queued(i) /\ (Made(i)' <=> Made(i))
  BY DEF Queued, Made
<1>7. InFlight(id)' = {} /\ \A i \in DnsIds : i # id => InFlight(i)' = InFlight(i)
  <2>1. InFlight(id)' = {}
    BY <1>3 DEF InFlight, Answer
  <2>2. \A i \in DnsIds : i # id => InFlight(i)' = InFlight(i)
    BY <1>1 DEF InFlight, Answer
  <2> QED BY <2>1, <2>2
<1>8. ASSUME NEW i \in DnsIds PROVE Place(i)'
  <2>1. CASE i = id
    BY <1>3, <1>4, <1>6, <1>7, <2>1 DEF Place
  <2>2. CASE i # id
    <3>1. /\ Made(i)' <=> Made(i)
          /\ InFlight(i)' = InFlight(i) /\ Queued(i)' = Queued(i)
          /\ dnsAnswers'[i] = dnsAnswers[i]
      BY <1>4, <1>6, <1>7, <2>2
    <3>2. Place(i)
      BY DEF DnsInv, PlaceInv
    <3> QED BY <3>1, <3>2, Zenon DEF Place
  <2> QED BY <2>1, <2>2
<1> QED BY <1>5, <1>8 DEF DnsInv, PlaceInv

(* A callback goes on to connect: its call still has exactly this one.     *)
LEMMA ConnectStep ==
    ASSUME DnsInv, NEW f \in dnsFibers,
           dnsFibers' = (dnsFibers \ {f}) \cup {[f EXCEPT !.at = "connecting"]},
           UNCHANGED <<dnsEntry, dnsPending, dnsGai, dnsCall, dnsAnswers>>
    PROVE  DnsInv'
<1>1. PICK g \in DnsFiberSet : /\ g = [f EXCEPT !.at = "connecting"]
        /\ g.to = f.to /\ g.n = f.n /\ g.op = f.op /\ g.err = f.err
        /\ dnsFibers' = (dnsFibers \ {f}) \cup {g}
  BY DEF DnsInv, DnsTypeOK, DnsFiberSet
<1>2. DnsTypeOK' /\ PendingInv'
  <2>1. dnsFibers' \subseteq DnsFiberSet
    BY <1>1 DEF DnsInv, DnsTypeOK
  <2>2. DnsTypeOK'
    BY <2>1 DEF DnsInv, DnsTypeOK
  <2>3. PendingInv'
    BY DEF DnsInv, PendingInv
  <2> QED BY <2>2, <2>3
<1>3. FramesAlive'
  <2>1. ASSUME NEW e \in dnsFibers', e.op # "connect_and_run"
        PROVE  /\ dnsCall[e.to].n = e.n
               /\ dnsCall[e.to].st = "wait" \/ (dnsCall[e.to].st = "threw" /\ e.err)
    <3>1. f.op # "connect_and_run" =>
               /\ dnsCall[f.to].n = f.n
               /\ dnsCall[f.to].st = "wait" \/ (dnsCall[f.to].st = "threw" /\ f.err)
      BY DEF DnsInv, FramesAlive
    <3>2. CASE e = g
      BY <1>1, <2>1, <3>1, <3>2
    <3>3. CASE e \in dnsFibers
      BY <2>1, <3>3 DEF DnsInv, FramesAlive
    <3> QED BY <1>1, <2>1, <3>2, <3>3
  <2> QED BY <2>1 DEF DnsInv, FramesAlive
<1>4. ASSUME NEW i \in DnsIds PROVE Place(i)'
  <2>1. /\ Made(i)' <=> Made(i)
        /\ Queued(i)' = Queued(i)
        /\ dnsAnswers'[i] = dnsAnswers[i]
        /\ Place(i)
    BY DEF Made, Queued, DnsInv, PlaceInv
  <2>2. CASE i = <<f.to, f.n>>
    <3>1. f \in InFlight(i)
      BY <2>2 DEF InFlight
    <3>2. Made(i) /\ dnsAnswers[i] = 0 /\ InFlight(i) = {f} /\ Queued(i) = {}
      BY <2>1, <3>1 DEF Place
    <3>3. InFlight(i)' = {g}
      BY <1>1, <2>2, <3>2 DEF InFlight
    <3> QED BY <2>1, <3>2, <3>3, Zenon DEF Place
  <2>3. CASE i # <<f.to, f.n>>
    <3>1. InFlight(i)' = InFlight(i)
      BY <1>1, <2>3 DEF InFlight
    <3> QED BY <2>1, <3>1, Zenon DEF Place
  <2> QED BY <2>2, <2>3
<1> QED BY <1>2, <1>3, <1>4 DEF DnsInv, PlaceInv

(* A fiber that waited goes on only when its call has been answered: no    *)
(* callback and no list still refers to its frame.                         *)
LEMMA ReturnStep ==
    ASSUME DnsInv, NEW c \in DnsClients, Return(c)
    PROVE  DnsInv'
<1>1. PICK id : id = <<c, dnsCall[c].n>>
  OBVIOUS
<1>2. dnsCall[c].n \in 0..DnsMaxCalls /\ dnsCall[c].st = "wait" /\ id[1] = c /\ id[2] = dnsCall[c].n
  BY <1>1 DEF DnsInv, DnsTypeOK, Return
<1>3. /\ dnsCall' \in [DnsClients -> [op : DnsOps \cup {"none"}, n : 0..DnsMaxCalls,
                                      st : {"idle", "wait", "threw"}]]
      /\ \A d \in DnsClients : dnsCall'[d].n = dnsCall[d].n
      /\ \A d \in DnsClients \ {c} : dnsCall'[d] = dnsCall[d]
      /\ UNCHANGED <<dnsEntry, dnsPending, dnsGai, dnsFibers, dnsAnswers>>
  BY DEF Return, DnsInv, DnsTypeOK
<1>4. DnsTypeOK'
  BY <1>3 DEF DnsInv, DnsTypeOK
<1>5. ASSUME NEW i \in DnsIds PROVE Place(i)'
  <2>1. Made(i)' <=> Made(i)
    BY <1>3 DEF Made, DnsIds
  <2>2. Queued(i)' = Queued(i) /\ InFlight(i)' = InFlight(i) /\ dnsAnswers'[i] = dnsAnswers[i]
    BY <1>3 DEF Queued, InFlight
  <2>3. Place(i)
    BY DEF DnsInv, PlaceInv
  <2> QED BY <2>1, <2>2, <2>3, Zenon DEF Place
<1>6. id \in DnsIds => InFlight(id) = {} /\ Queued(id) = {}
  <2>1. dnsAnswers[id] > 0
    BY <1>1 DEF Return
  <2>2. id \in DnsIds => Place(id)
    BY DEF DnsInv, PlaceInv
  <2> QED BY <2>1, <2>2 DEF Place
<1>7. PendingInv'
  <2>1. ASSUME NEW h \in DnsHosts, NEW k \in DOMAIN dnsPending[h],
               dnsPending[h][k][2] # "connect_and_run"
        PROVE  dnsPending[h][k][1][1] \in DnsClients \ {c}
    <3>1. dnsPending[h][k][1] \in DnsIds
      BY DEF DnsInv, DnsTypeOK
    <3>2. SUFFICES ASSUME dnsPending[h][k][1][1] = c PROVE FALSE
      BY <3>1 DEF DnsIds
    <3>3. dnsPending[h][k][1] = id
      BY <1>1, <2>1, <3>1, <3>2 DEF DnsInv, PendingInv, DnsIds
    <3>4. <<h, k>> \in Queued(id)
      BY <3>3, QueuedAt
    <3> QED BY <1>6, <3>1, <3>3, <3>4
  <2> QED BY <1>3, <2>1 DEF DnsInv, PendingInv
<1>8. FramesAlive'
  <2>1. ASSUME NEW f \in dnsFibers, f.op # "connect_and_run"
        PROVE  f.to \in DnsClients \ {c}
    <3>1. f.to \in DnsClients /\ <<f.to, f.n>> \in DnsIds
      BY DEF DnsInv, DnsTypeOK, DnsFiberSet, DnsIds
    <3>2. SUFFICES ASSUME f.to = c PROVE FALSE
      BY <3>1
    <3>3. <<f.to, f.n>> = id
      BY <1>1, <2>1, <3>2 DEF DnsInv, FramesAlive
    <3>4. f \in InFlight(id)
      BY <3>3 DEF InFlight
    <3> QED BY <1>6, <3>1, <3>3, <3>4
  <2> QED BY <1>3, <2>1 DEF DnsInv, FramesAlive
<1> QED BY <1>4, <1>5, <1>7, <1>8 DEF DnsInv, PlaceInv

(* The place of a call depends on these four variables only.               *)
LEMMA PlacesKept ==
    ASSUME PlaceInv, UNCHANGED <<dnsPending, dnsCall, dnsFibers, dnsAnswers>>
    PROVE  PlaceInv'
<1> SUFFICES ASSUME NEW i \in DnsIds PROVE Place(i)'
  BY DEF PlaceInv
<1>1. /\ Made(i)' <=> Made(i)
      /\ dnsAnswers'[i] = dnsAnswers[i]
  BY DEF Made
<1>2. Queued(i)' = Queued(i) /\ InFlight(i)' = InFlight(i)
  BY DEF Queued, InFlight
<1>3. Place(i)
  BY DEF PlaceInv
<1> QED BY <1>1, <1>2, <1>3, Zenon DEF Place

(* The sweep erases resolved entries, at which nobody waits.               *)
LEMMA SweepStep ==
    ASSUME DnsInv, SweepOldCacheEntries
    PROVE  DnsInv'
<1>1. \A h \in DnsHosts : dnsPending'[h] = dnsPending[h]
  BY DEF SweepOldCacheEntries, Swept, DnsInv, PendingInv
<1>2. dnsPending' = dnsPending
  BY <1>1 DEF SweepOldCacheEntries, DnsInv, DnsTypeOK
<1>3. /\ dnsEntry' \in [DnsHosts -> {"none", "in_progress", "resolved"}]
      /\ \A h \in DnsHosts : dnsEntry'[h] = "in_progress" <=> dnsEntry[h] = "in_progress"
  BY DEF SweepOldCacheEntries, Swept, DnsInv, DnsTypeOK
<1>4. DnsTypeOK' /\ PendingInv' /\ FramesAlive'
  BY <1>2, <1>3 DEF SweepOldCacheEntries, DnsInv, DnsTypeOK, PendingInv, FramesAlive
<1>5. PlaceInv'
  BY <1>2, PlacesKept DEF SweepOldCacheEntries, DnsInv
<1> QED BY <1>4, <1>5 DEF DnsInv

(* Every step of the cache, its callbacks and its callers keeps DnsInv.    *)
LEMMA DnsNextInv == DnsInv /\ [DnsNext]_dnsVars => DnsInv'
<1> SUFFICES ASSUME DnsInv, [DnsNext]_dnsVars PROVE DnsInv'
  OBVIOUS
<1>1. ASSUME NEW c \in DnsClients, DnsCalls(c) PROVE DnsInv'
  <2>1. PICK op \in DnsOps, h \in DnsHosts :
          \/ InitiateLookup(c, op, h) \/ InitiateLookupFails(c, op, h)
          \/ JoinLookup(c, op, h) \/ CallFromCache(c, op, h)
    BY <1>1 DEF DnsCalls
  <2>2. CASE InitiateLookup(c, op, h) \/ JoinLookup(c, op, h)
    BY <2>2, EnqueueStep
  <2>3. CASE InitiateLookupFails(c, op, h)
    BY <2>3, StartStep
  <2>4. CASE CallFromCache(c, op, h)
    BY <2>4, StartStep, AtOnceStep
  <2> QED BY <2>1, <2>2, <2>3, <2>4
<1>2. ASSUME NEW f \in dnsFibers, RunCallback(f) \/ ConnectDone(f) PROVE DnsInv'
  <2>1. UNCHANGED <<dnsEntry, dnsPending, dnsGai, dnsCall>>
    BY <1>2 DEF RunCallback, ConnectDone
  <2>2. CASE Answer(f)
    BY <2>1, <2>2, AnswerStep
  <2>3. CASE ~Answer(f)
    BY <1>2, <2>1, <2>3, ConnectStep DEF RunCallback, ConnectDone
  <2> QED BY <2>2, <2>3
<1>3. CASE UNCHANGED <<dnsEntry, dnsPending, dnsGai, dnsCall, dnsFibers, dnsAnswers>>
  BY <1>3, PlacesKept DEF DnsInv, DnsTypeOK, PendingInv, FramesAlive
<1>4. ASSUME NEW h \in DnsHosts, GrowOld(h) PROVE DnsInv'
  BY <1>3, <1>4 DEF GrowOld
<1>5. CASE RescheduleSweep \/ TerminateCache
  BY <1>3, <1>5 DEF RescheduleSweep, TerminateCache
<1>6. CASE UNCHANGED dnsVars
  BY <1>3, <1>6 DEF dnsVars
<1> QED BY <1>1, <1>2, <1>4, <1>5, <1>6, ResolveStep, ReturnStep, SweepStep
        DEF DnsNext, DnsFiberStep

(* DnsInv is an invariant of the cache.                                    *)
THEOREM DnsInvariance == DnsSpec => []DnsInv
  BY DnsInitInv, DnsNextInv, PTL DEF DnsSpec

(* In one place of each kind means that the numbers add up to one.         *)
LEMMA PlaceCounts ==
    ASSUME PlaceInv PROVE OneAnswer
<1> SUFFICES ASSUME NEW id \in DnsIds
             PROVE  dnsAnswers[id] + Cardinality(InFlight(id)) + Cardinality(Queued(id))
                      = IF id[2] <= dnsCall[id[1]].n THEN 1 ELSE 0
  BY DEF OneAnswer
<1>1. \A S : S = {} => Cardinality(S) = 0
  BY FS_EmptySet
<1>2. \A S : (\E x : S = {x}) => Cardinality(S) = 1
  BY FS_Singleton
<1>3. Place(id)
  BY DEF PlaceInv
<1>4. PICK a, b : a = Cardinality(InFlight(id)) /\ b = Cardinality(Queued(id))
  OBVIOUS
<1>5. \/ ~Made(id) /\ dnsAnswers[id] = 0 /\ a = 0 /\ b = 0
      \/ Made(id) /\ dnsAnswers[id] = 1 /\ a = 0 /\ b = 0
      \/ Made(id) /\ dnsAnswers[id] = 0 /\ a = 1 /\ b = 0
      \/ Made(id) /\ dnsAnswers[id] = 0 /\ a = 0 /\ b = 1
  BY <1>1, <1>2, <1>3, <1>4, Zenon DEF Place
<1> QED BY <1>4, <1>5 DEF Made

(* Every call of get_addrinfo, connect and connect_and_run is answered     *)
(* exactly once or still has exactly one way to its answer, and a callback *)
(* that writes into its caller's frame finds the caller waiting there: for *)
(* any hosts, any fibers and any number of calls.                          *)
THEOREM DnsAnswersOnce == DnsSpec => []DnsCallsSound
<1>1. DnsInv => DnsCallsSound
  BY PlaceCounts DEF DnsInv, DnsCallsSound
<1> QED BY <1>1, DnsInvariance, PTL

-----------------------------------------------------------------------------
(* dns_lookup.                                                             *)

LkTypeOK ==
    /\ lkPipe \in Seq(LkClients \cup {LkNull}) /\ lkFibers \in SUBSET LkClients
    /\ lkThread \in LkClients \cup {"none", "reading", "ended"}
    /\ lkStop \in {"none", "joining", "done"}
    /\ lkClient \in [LkClients -> {"new", "checked", "wait", "done", "threw", "crashed"}]

(* The thread lives as long as the singleton, and a lookup that found the  *)
(* singleton found its thread.                                             *)
ServiceInv ==
    /\ lkService <=> lkThread # "none" /\ lkStop # "done"
    /\ lkThread = "none" => lkStop = "none"
    /\ \A c \in LkClients : lkClient[c] = "checked" => lkThread # "none"

LkInv == LkTypeOK /\ ServiceInv /\ LookupsKept

LEMMA PipeHead ==
    ASSUME NEW S, NEW s \in Seq(S), s # <<>>, IsInjective(s)
    PROVE  /\ Head(s) \in ToSet(s) /\ Head(s) \in S /\ Tail(s) \in Seq(S)
           /\ ToSet(Tail(s)) = ToSet(s) \ {Head(s)} /\ IsInjective(Tail(s))
<1>1. /\ Len(s) \in Nat /\ 1 \in 1..Len(s) /\ DOMAIN s = 1..Len(s) /\ Head(s) = s[1]
      /\ Tail(s) \in Seq(S) /\ Len(Tail(s)) = Len(s) - 1 /\ DOMAIN Tail(s) = 1..(Len(s) - 1)
      /\ \A i \in 1..(Len(s) - 1) : Tail(s)[i] = s[i + 1]
  OBVIOUS
<1>2. \A i \in 1..(Len(s) - 1) : i + 1 \in 1..Len(s) /\ i + 1 # 1
  BY <1>1
<1>3. ASSUME NEW x \in ToSet(Tail(s)) PROVE x \in ToSet(s) \ {Head(s)}
  BY <1>1, <1>2 DEF ToSet, IsInjective
<1>4. ASSUME NEW x \in ToSet(s) \ {Head(s)} PROVE x \in ToSet(Tail(s))
  <2>1. PICK i \in 1..Len(s) : x = s[i]
    BY <1>1 DEF ToSet
  <2>2. i # 1
    BY <1>1, <2>1
  <2>3. i - 1 \in 1..(Len(s) - 1) /\ (i - 1) + 1 = i
    BY <1>1, <2>1, <2>2
  <2>4. Tail(s)[i - 1] = x
    BY <1>1, <2>1, <2>3
  <2> QED BY <1>1, <2>3, <2>4 DEF ToSet
<1>5. IsInjective(Tail(s))
  <2>1. \A a, b \in 1..Len(s) : s[a] = s[b] => a = b
    BY <1>1 DEF IsInjective
  <2>2. ASSUME NEW a \in 1..(Len(s) - 1), NEW b \in 1..(Len(s) - 1), Tail(s)[a] = Tail(s)[b]
        PROVE  a = b
    <3>1. s[a + 1] = s[b + 1]
      BY <1>1, <2>2
    <3>2. a + 1 = b + 1
      BY <1>2, <2>1, <3>1
    <3> QED BY <3>2
  <2> QED BY <1>1, <2>2 DEF IsInjective
<1>6. Head(s) \in ToSet(s)
  BY <1>1 DEF ToSet
<1> QED BY <1>1, <1>3, <1>4, <1>5, <1>6

LEMMA PipeAppend ==
    ASSUME NEW S, NEW s \in Seq(S), NEW x \in S
    PROVE  /\ Append(s, x) \in Seq(S) /\ ToSet(Append(s, x)) = ToSet(s) \cup {x}
           /\ IsInjective(s) /\ x \notin ToSet(s) => IsInjective(Append(s, x))
<1> DEFINE u == Append(s, x)
           n == Len(s)
<1>1. /\ n \in Nat /\ u \in Seq(S) /\ DOMAIN s = 1..n /\ DOMAIN u = 1..(n + 1)
      /\ u[n + 1] = x /\ \A i \in 1..n : u[i] = s[i]
  OBVIOUS
<1>2. \A i \in 1..(n + 1) : i = n + 1 \/ i \in 1..n
  BY <1>1
<1> HIDE DEF u, n
<1>3. ToSet(u) = ToSet(s) \cup {x}
  <2>1. \A y \in ToSet(u) : y \in ToSet(s) \cup {x}
    BY <1>1, <1>2 DEF ToSet
  <2>2. \A i \in 1..n : i \in 1..(n + 1)
    BY <1>1
  <2>3. n + 1 \in 1..(n + 1)
    BY <1>1
  <2>4. \A y \in ToSet(s) \cup {x} : y \in ToSet(u)
    BY <1>1, <2>2, <2>3 DEF ToSet
  <2> QED BY <2>1, <2>4
<1>4. ASSUME IsInjective(s), x \notin ToSet(s) PROVE IsInjective(u)
  <2>1. \A i \in 1..n : s[i] # x
    BY <1>1, <1>4 DEF ToSet
  <2>2. \A a, b \in 1..n : s[a] = s[b] => a = b
    BY <1>1, <1>4 DEF IsInjective
  <2>3. \A a, b \in 1..(n + 1) : u[a] = u[b] => a = b
    BY <1>1, <1>2, <2>1, <2>2
  <2> QED BY <1>1, <2>3 DEF IsInjective
<1> QED BY <1>1, <1>3, <1>4 DEF u

LEMMA LkInitInv == LkInit => LkInv
<1> SUFFICES ASSUME LkInit PROVE LkInv
  OBVIOUS
<1>1. LkTypeOK
  BY DEF LkInit, LkTypeOK
<1>2. ServiceInv
  <2>1. ~lkService /\ lkThread = "none" /\ lkStop = "none"
    BY Zenon DEF LkInit
  <2> QED BY <2>1 DEF LkInit, ServiceInv
<1>3. ToSet(lkPipe) = {} /\ IsInjective(lkPipe)
  BY DEF LkInit, ToSet, IsInjective
<1>4. LookupsKept
  BY <1>3, LkAssumption DEF LkAssumption, LkInit, LookupsKept
<1> QED BY <1>1, <1>2, <1>4 DEF LkInv

LEMMA LkNextInv == LkInv /\ [LkNext]_lkVars => LkInv'
<1> SUFFICES ASSUME LkInv, [LkNext]_lkVars PROVE LkInv'
  OBVIOUS
<1> DEFINE W == {c \in LkClients : lkClient[c] = "wait"}
           P == ToSet(lkPipe)
<1>0. LkClients \cap {LkNull, "none", "reading", "ended"} = {} /\ LkNull = "null"
  BY LkAssumption DEF LkAssumption, LkNull
<1>1. CASE StartService
  <2>1. /\ lkStop = "none" /\ lkThread = "none" /\ lkThread' = "reading" /\ lkService'
        /\ UNCHANGED <<lkPipe, lkStop, lkClient, lkFibers>>
    BY <1>1, Zenon DEF StartService, LkInv, ServiceInv
  <2>2. LkTypeOK' /\ LookupsKept'
    BY <1>0, <2>1 DEF LkInv, LkTypeOK, LookupsKept, ToSet
  <2>3. ServiceInv'
    BY <2>1 DEF ServiceInv
  <2> QED BY <2>2, <2>3 DEF LkInv
<1>2. ASSUME NEW c \in LkClients, LookupChecks(c) PROVE LkInv'
  <2>1. /\ lkClient[c] = "new" /\ UNCHANGED <<lkService, lkPipe, lkThread, lkStop, lkFibers>>
        /\ lkClient' = [lkClient EXCEPT ![c] = IF lkService THEN "checked" ELSE "threw"]
    BY <1>2 DEF LookupChecks
  <2>2. LkTypeOK' /\ ServiceInv'
    BY <2>1 DEF LkInv, LkTypeOK, ServiceInv
  <2>3. LookupsKept'
    BY <2>1 DEF LkInv, LkTypeOK, LookupsKept
  <2> QED BY <2>2, <2>3 DEF LkInv
<1>3. ASSUME NEW c \in LkClients, LookupWrites(c) PROVE LkInv'
  <2>1. /\ lkClient[c] = "checked" /\ UNCHANGED <<lkService, lkThread, lkStop, lkFibers>>
        /\ lkPipe' = IF lkService THEN Append(lkPipe, c) ELSE lkPipe
        /\ lkClient' = [lkClient EXCEPT ![c] = IF lkService THEN "wait" ELSE "crashed"]
    BY <1>3 DEF LookupWrites
  <2>2. c \notin P /\ c # lkThread /\ c \notin lkFibers
    BY <2>1 DEF LkInv, LookupsKept
  <2>3. CASE lkService
    <3>1. lkPipe' = Append(lkPipe, c) /\ lkClient' = [lkClient EXCEPT ![c] = "wait"]
      BY <2>1, <2>3
    <3>2. /\ lkPipe' \in Seq(LkClients \cup {LkNull}) /\ ToSet(lkPipe') = P \cup {c}
          /\ IsInjective(lkPipe')
      BY <2>2, <3>1, PipeAppend DEF LkInv, LkTypeOK, LookupsKept
    <3>3. LkTypeOK' /\ ServiceInv'
      BY <2>1, <3>1, <3>2 DEF LkInv, LkTypeOK, ServiceInv
    <3>4. LookupsKept'
      BY <1>0, <2>1, <2>2, <3>1, <3>2 DEF LkInv, LkTypeOK, LookupsKept
    <3> QED BY <3>3, <3>4 DEF LkInv
  <2>4. CASE ~lkService
    <3>1. lkPipe' = lkPipe /\ lkClient' = [lkClient EXCEPT ![c] = "crashed"] /\ lkStop = "done"
      BY <2>1, <2>4 DEF LkInv, LkTypeOK, ServiceInv
    <3>2. LkTypeOK' /\ ServiceInv'
      BY <2>1, <3>1 DEF LkInv, LkTypeOK, ServiceInv
    <3>3. LookupsKept'
      BY <2>1, <3>1 DEF LkInv, LkTypeOK, LookupsKept
    <3> QED BY <3>2, <3>3 DEF LkInv
  <2> QED BY <2>3, <2>4
<1>4. CASE ReadCommand
  <2> DEFINE x == Head(lkPipe)
  <2>1. /\ lkThread = "reading" /\ lkPipe # <<>> /\ lkPipe' = Tail(lkPipe)
        /\ lkThread' = IF x = LkNull THEN "ended" ELSE x
        /\ UNCHANGED <<lkService, lkStop, lkClient, lkFibers>>
    BY <1>4 DEF ReadCommand
  <2>2. /\ x \in P /\ x \in LkClients \cup {LkNull} /\ ToSet(lkPipe') = P \ {x}
        /\ lkPipe' \in Seq(LkClients \cup {LkNull}) /\ IsInjective(lkPipe')
    BY <2>1, PipeHead DEF LkInv, LkTypeOK, LookupsKept
  <2> HIDE DEF x
  <2>3. lkThread' \in LkClients \cup {"ended"}
    BY <2>1, <2>2
  <2>4. LkTypeOK'
    BY <2>1, <2>2, <2>3 DEF LkInv, LkTypeOK
  <2>5. ServiceInv'
    BY <1>0, <2>1, <2>3 DEF LkInv, ServiceInv
  <2>6. P \subseteq LkClients \cup {LkNull}
    BY DEF LkInv, LkTypeOK, ToSet
  <2>7. LookupsKept'
    <3>1. CASE x = LkNull
      BY <1>0, <2>1, <2>2, <2>6, <3>1 DEF LkInv, LkTypeOK, LookupsKept
    <3>2. CASE x # LkNull
      BY <1>0, <2>1, <2>2, <2>6, <3>2 DEF LkInv, LkTypeOK, LookupsKept
    <3> QED BY <3>1, <3>2
  <2> QED BY <2>4, <2>5, <2>7 DEF LkInv
<1>5. CASE AnswerInFiber
  <2>1. /\ lkThread \in LkClients /\ lkFibers' = lkFibers \cup {lkThread} /\ lkThread' = "reading"
        /\ UNCHANGED <<lkService, lkPipe, lkStop, lkClient>>
    BY <1>5 DEF AnswerInFiber
  <2>2. P \subseteq LkClients \cup {LkNull}
    BY DEF LkInv, LkTypeOK, ToSet
  <2>3. LkTypeOK' /\ ServiceInv'
    BY <1>0, <2>1 DEF LkInv, LkTypeOK, ServiceInv
  <2>4. LookupsKept'
    BY <1>0, <2>1, <2>2 DEF LkInv, LkTypeOK, LookupsKept
  <2> QED BY <2>3, <2>4 DEF LkInv
<1>6. ASSUME NEW c \in LkClients, LookupReturns(c) PROVE LkInv'
  <2>1. /\ c \in lkFibers /\ lkFibers' = lkFibers \ {c}
        /\ lkClient' = [lkClient EXCEPT ![c] = "done"]
        /\ UNCHANGED <<lkService, lkPipe, lkThread, lkStop>>
    BY <1>6 DEF LookupReturns
  <2>2. LkTypeOK' /\ ServiceInv'
    BY <2>1 DEF LkInv, LkTypeOK, ServiceInv
  <2>3. LookupsKept'
    BY <2>1 DEF LkInv, LkTypeOK, LookupsKept
  <2> QED BY <2>2, <2>3 DEF LkInv
<1>7. CASE EndService
  <2>1. /\ lkService /\ lkStop = "none" /\ lkPipe' = Append(lkPipe, LkNull) /\ lkStop' = "joining"
        /\ UNCHANGED <<lkService, lkThread, lkClient, lkFibers>>
    BY <1>7 DEF EndService
  <2>2. LkNull \notin P
    BY <2>1 DEF LkInv, LookupsKept
  <2>3. /\ lkPipe' \in Seq(LkClients \cup {LkNull}) /\ ToSet(lkPipe') = P \cup {LkNull}
        /\ IsInjective(lkPipe')
    BY <2>1, <2>2, PipeAppend DEF LkInv, LkTypeOK, LookupsKept
  <2>4. LkTypeOK' /\ ServiceInv'
    BY <2>1, <2>3 DEF LkInv, LkTypeOK, ServiceInv
  <2>5. LookupsKept'
    BY <1>0, <2>1, <2>2, <2>3 DEF LkInv, LkTypeOK, LookupsKept
  <2> QED BY <2>4, <2>5 DEF LkInv
<1>8. CASE ThreadJoined
  <2>1. /\ lkStop = "joining" /\ lkThread = "ended" /\ lkStop' = "done" /\ ~lkService'
        /\ UNCHANGED <<lkPipe, lkThread, lkClient, lkFibers>>
    BY <1>8, Zenon DEF ThreadJoined
  <2>2. LkTypeOK' /\ ServiceInv'
    BY <2>1 DEF LkInv, LkTypeOK, ServiceInv
  <2>3. LookupsKept'
    BY <2>1 DEF LkInv, LkTypeOK, LookupsKept
  <2> QED BY <2>2, <2>3 DEF LkInv
<1>9. CASE UNCHANGED lkVars
  BY <1>9 DEF lkVars, LkInv, LkTypeOK, ServiceInv, LookupsKept
<1> QED BY <1>1, <1>2, <1>3, <1>4, <1>5, <1>6, <1>7, <1>8, <1>9 DEF LkNext, LkThreadStep

(* For any set of callers of dns_lookup, and wherever end_service comes    *)
(* between them: exactly the callers that wait have one command, lookup or *)
(* answer under way, and end_service's null command is never lost.         *)
THEOREM LookupsAreKept == LkSpec => []LookupsKept
<1>1. LkInv => LookupsKept
  BY DEF LkInv
<1> QED BY <1>1, LkInitInv, LkNextInv, PTL DEF LkSpec
=============================================================================
