----------------------------- MODULE FiberMutex -----------------------------
(***************************************************************************)
(* fiber_mutex, fiber_cond and the scheduling loop io_params::wake_all     *)
(* (src/cpp/fiber.h, src/cpp/fiber.cpp).                                   *)
(*                                                                         *)
(* A number of OS threads (the io threads of io_dispatch) run a number of  *)
(* fibers.  A thread is either on its own stack, the "parent" context that *)
(* runs wake_all, or on the stack of the fiber current_fiber_.  One        *)
(* fiber_mutex and one fiber_cond are shared by all the fibers.  Every     *)
(* atomic operation on fiber_mutex::state_ is an action of its own, and so *)
(* is every block of plain accesses to one of the intrusive lists, because *)
(* it is only the value of state_ that makes those accesses exclusive.     *)
(*                                                                         *)
(* A list linked through fiber::next_wake_ is a sequence of fibers.        *)
(***************************************************************************)
EXTENDS Integers, Sequences, FiniteSets, Functions

CONSTANTS
    Fibers,     \* the fibers that share the mutex and the condition
    Threads,    \* the OS threads that run them
    NoFiber,    \* the null fiber pointer
    MaxOps      \* bound: locks, waits and sleeps performed by all the fibers

ASSUME FiberMutexAssumption ==
    /\ NoFiber \notin Fibers
    /\ IsFiniteSet(Threads)
    /\ MaxOps \in Nat

VARIABLES
    state,      \* fiber_mutex::state_
    wakeList,   \* fiber_mutex::fiber_wake_head_ .. fiber_wake_tail_
    condList,   \* fiber_cond::wake_head_ ..
    runq,       \* runq[t]: io_params::wake_head_ .. of thread t
    cur,        \* cur[t]: io_params::current_fiber_ of thread t
    ctx,        \* ctx[t]: whose stack thread t is on
    pc,         \* pc[t]: the next thing thread t does, on that stack
    saved,      \* saved[f]: where the saved ucontext_ of f continues
    armed,      \* fibers that an event (epoll, timer, command) will wake
    holding,    \* fibers that are between lock() returning and unlock()'s end
    left        \* locks, waits and sleeps still to be performed

vars == <<state, wakeList, condList, runq, cur, ctx, pc, saved, armed,
          holding, left>>

(* Steps on a fiber's stack, with the fiber not holding the mutex.         *)
OutsidePc == {"run", "lock", "backoff", "enqueue", "switch_suspend"}
(* Steps taken while current_fiber_ holds the mutex.                       *)
HoldingPc == {"cs", "unlock", "wake", "release", "switch_cond"}
(* Steps of wake_all on the thread's own stack, fiber_cond's unlock apart. *)
ParentPc  == {"epoll", "loop", "suspend", "arm"}
(* Steps that give the thread the right to touch the mutex's wake list.    *)
ListPc    == {"enqueue", "switch_suspend", "suspend", "wake", "release"}

Init ==
    /\ state = 0
    /\ wakeList = <<>>
    /\ condList = <<>>
    /\ runq = [t \in Threads |-> <<>>]
    /\ cur = [t \in Threads |-> NoFiber]
    /\ ctx = [t \in Threads |-> "parent"]
    /\ pc = [t \in Threads |-> "epoll"]
    /\ saved = [f \in Fibers |-> "run"]
    /\ armed = Fibers
    /\ holding = {}
    /\ left = MaxOps

Goto(t, l) == pc' = [pc EXCEPT ![t] = l]

(* The bound on the work of the fibers.                                    *)
Spend ==
    /\ left > 0
    /\ left' = left - 1

(* fiber::switch_to_fiber(parent): the context of the fiber is saved, to   *)
(* continue at `at', and the thread is back in wake_all at `l'.            *)
SwitchToParent(t, at, l) ==
    /\ saved' = [saved EXCEPT ![cur[t]] = at]
    /\ ctx' = [ctx EXCEPT ![t] = "parent"]
    /\ Goto(t, l)

(* Fibers in list are put in front of thread t's wake list.                *)
PushAll(t, list) == runq' = [runq EXCEPT ![t] = list \o @]
-----------------------------------------------------------------------------
(* io_params::wake_all                                                     *)

(* An event for fiber f is delivered to a thread in epoll_wait, which      *)
(* calls wake_all(f).                                                      *)
WakeAll(t, f) ==
    /\ pc[t] = "epoll"
    /\ f \in armed
    /\ armed' = armed \ {f}
    /\ PushAll(t, <<f>>)
    /\ Goto(t, "loop")
    /\ UNCHANGED <<state, wakeList, condList, cur, ctx, saved, holding, left>>

(* One turn of the loop: pop the first fiber and switch to its stack.      *)
SwitchToFiber(t) ==
    /\ pc[t] = "loop"
    /\ runq[t] # <<>>
    /\ LET f == Head(runq[t]) IN
          /\ cur' = [cur EXCEPT ![t] = f]
          /\ Goto(t, saved[f])
          /\ saved' = [saved EXCEPT ![f] = "none"]
    /\ runq' = [runq EXCEPT ![t] = Tail(@)]
    /\ ctx' = [ctx EXCEPT ![t] = "fiber"]
    /\ UNCHANGED <<state, wakeList, condList, armed, holding, left>>

(* The loop ends and the thread goes back to epoll_wait.                   *)
EndWakeAll(t) ==
    /\ pc[t] = "loop"
    /\ runq[t] = <<>>
    /\ cur' = [cur EXCEPT ![t] = NoFiber]
    /\ Goto(t, "epoll")
    /\ UNCHANGED <<state, wakeList, condList, runq, ctx, saved, armed,
                   holding, left>>

(* oc_mutex_suspend: the decrement that sleep_till_woken left to us.       *)
SuspendDone(t) ==
    /\ pc[t] = "suspend"
    /\ state' = state - 1
    /\ Goto(t, "loop")
    /\ UNCHANGED <<wakeList, condList, runq, cur, ctx, saved, armed, holding,
                   left>>

(* oc_read, oc_write, oc_sleep: only now can an event wake the fiber.      *)
Arm(t) ==
    /\ pc[t] = "arm"
    /\ armed' = armed \cup {cur[t]}
    /\ Goto(t, "loop")
    /\ UNCHANGED <<state, wakeList, condList, runq, cur, ctx, saved, holding,
                   left>>
-----------------------------------------------------------------------------
(* What a fiber does outside fiber_mutex and fiber_cond                    *)

(* A blocking read, write or msleep, with or without the mutex held.       *)
Sleep(t) ==
    /\ ctx[t] = "fiber"
    /\ pc[t] \in {"run", "cs"}
    /\ Spend
    /\ SwitchToParent(t, pc[t], "arm")
    /\ UNCHANGED <<state, wakeList, condList, runq, cur, armed, holding>>

CallLock(t) ==
    /\ pc[t] = "run"
    /\ Spend
    /\ Goto(t, "lock")
    /\ UNCHANGED <<state, wakeList, condList, runq, cur, ctx, saved, armed,
                   holding>>

CallUnlock(t) ==
    /\ pc[t] = "cs"
    /\ Goto(t, "unlock")
    /\ UNCHANGED <<state, wakeList, condList, runq, cur, ctx, saved, armed,
                   holding, left>>

(* The fiber's function returns and its stack is never used again.         *)
Exit(t) ==
    /\ pc[t] = "run"
    /\ SwitchToParent(t, "done", "loop")
    /\ UNCHANGED <<state, wakeList, condList, runq, cur, armed, holding, left>>
-----------------------------------------------------------------------------
(* fiber_mutex::lock                                                       *)

(* case 0: state_.fetch_add(1) returned 0                                  *)
LockAcquired(t) ==
    /\ pc[t] = "lock"
    /\ state = 0
    /\ state' = state + 1
    /\ holding' = holding \cup {cur[t]}
    /\ Goto(t, "cs")
    /\ UNCHANGED <<wakeList, condList, runq, cur, ctx, saved, armed, left>>

(* case 1: locked, and the wake list is now ours                           *)
LockContended(t) ==
    /\ pc[t] = "lock"
    /\ state = 1
    /\ state' = state + 1
    /\ Goto(t, "enqueue")
    /\ UNCHANGED <<wakeList, condList, runq, cur, ctx, saved, armed, holding,
                   left>>

(* default: locked, and the wake list is someone else's                    *)
LockBusy(t) ==
    /\ pc[t] = "lock"
    /\ state \notin {0, 1}
    /\ state' = state + 1
    /\ Goto(t, "backoff")
    /\ UNCHANGED <<wakeList, condList, runq, cur, ctx, saved, armed, holding,
                   left>>

Backoff(t) ==
    /\ pc[t] = "backoff"
    /\ state' = state - 1
    /\ Goto(t, "lock")
    /\ UNCHANGED <<wakeList, condList, runq, cur, ctx, saved, armed, holding,
                   left>>

(* Mutant: state_ is decremented before the switch to the parent.          *)
SleepTillWokenEarly(t) ==
    /\ pc[t] = "enqueue"
    /\ wakeList' = <<cur[t]>> \o wakeList
    /\ state' = state - 1
    /\ Goto(t, "switch_suspend")
    /\ UNCHANGED <<condList, runq, cur, ctx, saved, armed, holding, left>>

(* sleep_till_woken: first the list, then the switch to the parent.        *)
SleepTillWoken(t) ==
    /\ pc[t] = "enqueue"
    /\ wakeList' = <<cur[t]>> \o wakeList
    /\ Goto(t, "switch_suspend")
    /\ UNCHANGED <<state, condList, runq, cur, ctx, saved, armed, holding,
                   left>>

SwitchSuspend(t) ==
    /\ pc[t] = "switch_suspend"
    /\ SwitchToParent(t, "lock", "suspend")
    /\ UNCHANGED <<state, wakeList, condList, runq, cur, armed, holding, left>>
-----------------------------------------------------------------------------
(* fiber_mutex::unlock, called by a fiber or, for fiber_cond::wait, by     *)
(* wake_all once it is off the fiber's stack                               *)

(* Mutant: a store instead of the compare-and-swap from 1.                 *)
UnlockBeginStore(t) ==
    /\ pc[t] = "unlock"
    /\ state' = 2
    /\ Goto(t, "wake")
    /\ UNCHANGED <<wakeList, condList, runq, cur, ctx, saved, armed, holding,
                   left>>

UnlockBegin(t) ==
    /\ pc[t] = "unlock"
    /\ state = 1
    /\ state' = 2
    /\ Goto(t, "wake")
    /\ UNCHANGED <<wakeList, condList, runq, cur, ctx, saved, armed, holding,
                   left>>

(* Mutant: fiber_wake_head_ is not reset.                                  *)
WakeSleepersKeep(t) ==
    /\ pc[t] = "wake"
    /\ PushAll(t, wakeList)
    /\ Goto(t, "release")
    /\ UNCHANGED <<state, wakeList, condList, cur, ctx, saved, armed, holding,
                   left>>

(* Mutant: the fibers already in the thread's wake list are not linked     *)
(* behind the sleepers.                                                    *)
WakeSleepersUnlinked(t) ==
    /\ pc[t] = "wake"
    /\ runq' = [runq EXCEPT ![t] = IF wakeList = <<>> THEN @ ELSE wakeList]
    /\ wakeList' = <<>>
    /\ Goto(t, "release")
    /\ UNCHANGED <<state, condList, cur, ctx, saved, armed, holding, left>>

WakeSleepers(t) ==
    /\ pc[t] = "wake"
    /\ PushAll(t, wakeList)
    /\ wakeList' = <<>>
    /\ Goto(t, "release")
    /\ UNCHANGED <<state, condList, cur, ctx, saved, armed, holding, left>>

(* Mutant: a store instead of the compare-and-swap from 2.                 *)
UnlockEndStore(t) ==
    /\ pc[t] = "release"
    /\ state' = 0
    /\ holding' = holding \ {cur[t]}
    /\ Goto(t, IF ctx[t] = "fiber" THEN "run" ELSE "loop")
    /\ UNCHANGED <<wakeList, condList, runq, cur, ctx, saved, armed, left>>

(* Mutant: fetch_add(-2), which the comment in unlock warns about.         *)
UnlockEndSubtract(t) ==
    /\ pc[t] = "release"
    /\ state' = state - 2
    /\ holding' = holding \ {cur[t]}
    /\ Goto(t, IF ctx[t] = "fiber" THEN "run" ELSE "loop")
    /\ UNCHANGED <<wakeList, condList, runq, cur, ctx, saved, armed, left>>

UnlockEnd(t) ==
    /\ pc[t] = "release"
    /\ state = 2
    /\ state' = 0
    /\ holding' = holding \ {cur[t]}
    /\ Goto(t, IF ctx[t] = "fiber" THEN "run" ELSE "loop")
    /\ UNCHANGED <<wakeList, condList, runq, cur, ctx, saved, armed, left>>
-----------------------------------------------------------------------------
(* fiber_cond                                                              *)

(* Mutant: the waiter is pushed in front of the list.                      *)
WaitInFront(t) ==
    /\ pc[t] = "cs"
    /\ Spend
    /\ condList' = <<cur[t]>> \o condList
    /\ Goto(t, "switch_cond")
    /\ UNCHANGED <<state, wakeList, runq, cur, ctx, saved, armed, holding>>

(* wait: the fiber joins the end of the list and switches to its parent,   *)
(* which unlocks the mutex; resumed, it locks the mutex again.             *)
Wait(t) ==
    /\ pc[t] = "cs"
    /\ Spend
    /\ condList' = Append(condList, cur[t])
    /\ Goto(t, "switch_cond")
    /\ UNCHANGED <<state, wakeList, runq, cur, ctx, saved, armed, holding>>

SwitchCond(t) ==
    /\ pc[t] = "switch_cond"
    /\ SwitchToParent(t, "lock", "unlock")
    /\ UNCHANGED <<state, wakeList, condList, runq, cur, armed, holding, left>>

NotifyOne(t) ==
    /\ pc[t] = "cs"
    /\ condList # <<>>
    /\ PushAll(t, <<Head(condList)>>)
    /\ condList' = Tail(condList)
    /\ UNCHANGED <<state, wakeList, cur, ctx, pc, saved, armed, holding, left>>

NotifyAll(t) ==
    /\ pc[t] = "cs"
    /\ condList # <<>>
    /\ PushAll(t, condList)
    /\ condList' = <<>>
    /\ UNCHANGED <<state, wakeList, cur, ctx, pc, saved, armed, holding, left>>
-----------------------------------------------------------------------------
ThreadStep(t) ==
    \/ SwitchToFiber(t) \/ EndWakeAll(t) \/ SuspendDone(t) \/ Arm(t)
    \/ Sleep(t) \/ CallLock(t) \/ CallUnlock(t) \/ Exit(t)
    \/ LockAcquired(t) \/ LockContended(t) \/ LockBusy(t) \/ Backoff(t)
    \/ SleepTillWoken(t) \/ SwitchSuspend(t)
    \/ UnlockBegin(t) \/ WakeSleepers(t) \/ UnlockEnd(t)
    \/ Wait(t) \/ SwitchCond(t) \/ NotifyOne(t) \/ NotifyAll(t)

Next == \E t \in Threads : ThreadStep(t) \/ \E f \in Fibers : WakeAll(t, f)

Spec == Init /\ [][Next]_vars

(* Every thread keeps running, every armed event is delivered, and the     *)
(* compare-and-swap loops of unlock and the retries of lock are not        *)
(* defeated for ever by other lockers that raise state_ at the very moment *)
(* of each attempt: those spin for exponentially growing times in between. *)
Fairness ==
    /\ \A t \in Threads :
          /\ WF_vars(ThreadStep(t))
          /\ SF_vars(UnlockBegin(t))
          /\ SF_vars(UnlockEnd(t))
          /\ SF_vars(LockContended(t))
    /\ \A f \in Fibers : SF_vars(\E t \in Threads : WakeAll(t, f))

FairSpec == Spec /\ Fairness
-----------------------------------------------------------------------------
(* Properties                                                              *)

(* Every variable has the type that the code gives it.                     *)
TypeOK ==
    /\ state \in Int
    /\ wakeList \in Seq(Fibers)
    /\ condList \in Seq(Fibers)
    /\ runq \in [Threads -> Seq(Fibers)]
    /\ cur \in [Threads -> Fibers \cup {NoFiber}]
    /\ ctx \in [Threads -> {"fiber", "parent"}]
    /\ pc \in [Threads -> OutsidePc \cup HoldingPc \cup ParentPc]
    /\ saved \in [Fibers -> {"none", "run", "lock", "cs", "done"}]
    /\ armed \in SUBSET Fibers
    /\ holding \in SUBSET Fibers
    /\ left \in 0..MaxOps

(* fiber_mutex excludes: two fibers are never both between the return of   *)
(* lock() and the last compare-and-swap of unlock().                       *)
MutualExclusion == \A f, g \in holding : f = g

(* No lost wakeup: a fiber sleeps in the wake list of the mutex only while *)
(* somebody holds the mutex, and so has still to run wake_sleepers.        *)
SleeperHasWaker == wakeList # <<>> => holding # {}

(* A fiber is never given to a thread, or made wakeable by an event,       *)
(* before swapcontext has saved its context: no two threads run on one     *)
(* stack.  This is why state_ is decremented, and the mutex of a           *)
(* fiber_cond unlocked, only by the parent after the switch.               *)
RunnableIsSaved ==
    \A f \in armed \cup UNION {Range(runq[t]) : t \in Threads} :
        saved[f] \in {"run", "lock", "cs"}

(* The fiber that thread t alone refers to: it runs on t and is in no      *)
(* list, or t is about to arm its event.                                   *)
Carried(t) ==
    IF pc[t] \in {"epoll", "loop", "suspend", "switch_suspend", "switch_cond"}
       \/ (ctx[t] = "parent" /\ pc[t] # "arm")
    THEN {} ELSE {cur[t]}

(* The places a fiber can be found in; an occurrence in a list linked by   *)
(* next_wake_ is a place.                                                  *)
Places(f) ==
    {<<"carried", t>> : t \in {u \in Threads : f \in Carried(u)}}
    \cup {<<"wakeList", i>> : i \in {j \in DOMAIN wakeList : wakeList[j] = f}}
    \cup {<<"condList", i>> : i \in {j \in DOMAIN condList : condList[j] = f}}
    \cup (UNION {{<<"runq", t, i>> :
                    i \in {j \in DOMAIN runq[t] : runq[t][j] = f}} : t \in Threads})
    \cup (IF f \in armed THEN {<<"armed">>} ELSE {})

(* The one link next_wake_ suffices, and no fiber is ever dropped: until   *)
(* it exits, every fiber is in exactly one place.                          *)
ExactlyOnePlace ==
    \A f \in Fibers :
        Cardinality(Places(f)) = IF saved[f] = "done" THEN 0 ELSE 1

(* Every fiber ends its work or waits on the condition with nobody left to *)
(* notify it; none is left behind in the mutex's wake list or in a         *)
(* thread's wake list.                                                     *)
EveryFiberProceeds ==
    <>[](\A f \in Fibers : saved[f] = "done" \/ f \in Range(condList))
-----------------------------------------------------------------------------
(* The inductive invariant behind MutualExclusion, SleeperHasWaker and     *)
(* RunnableIsSaved.                                                        *)

ListUsers == {t \in Threads : pc[t] \in ListPc}
Backers == {t \in Threads : pc[t] = "backoff"}

(* The parent of t is unlocking the mutex for a fiber in fiber_cond::wait. *)
ParentUnlocks(t) == ctx[t] = "parent" /\ pc[t] \in {"unlock", "wake", "release"}

(* A thread is on a stack that fits its step, and the fiber it is on has   *)
(* no saved context.                                                       *)
StackInv ==
    /\ \A t \in Threads :
          /\ pc[t] \in OutsidePc \cup {"cs", "switch_cond"} => ctx[t] = "fiber"
          /\ pc[t] \in ParentPc => ctx[t] = "parent"
          /\ pc[t] \notin {"epoll", "loop"} => cur[t] \in Fibers
          /\ ctx[t] = "fiber" => saved[cur[t]] = "none"
          /\ pc[t] = "arm" => saved[cur[t]] \in {"run", "cs"}
    /\ \A t, u \in Threads :
          /\ ctx[t] = "fiber" /\ ctx[u] = "fiber" /\ cur[t] = cur[u] => t = u
          /\ pc[t] = "arm" /\ pc[u] = "arm" /\ cur[t] = cur[u] => t = u

(* The lists have no fiber in common and none twice.                       *)
DistinctInv ==
    /\ IsInjective(wakeList) /\ IsInjective(condList)
    /\ Range(wakeList) \cap Range(condList) = {}
    /\ armed \cap (Range(wakeList) \cup Range(condList)) = {}
    /\ \A t \in Threads :
          /\ IsInjective(runq[t])
          /\ Range(runq[t]) \cap (Range(wakeList) \cup Range(condList)) = {}
          /\ Range(runq[t]) \cap armed = {}
    /\ \A t, u \in Threads : t # u => Range(runq[t]) \cap Range(runq[u]) = {}

(* The fiber a thread is on, or about to arm, is in no list, unless it has *)
(* just put itself there.                                                  *)
CarriedInv ==
    \A t \in Threads :
        /\ ctx[t] = "fiber" /\ pc[t] # "switch_suspend"
              => cur[t] \notin Range(wakeList)
        /\ ctx[t] = "fiber" /\ pc[t] # "switch_cond"
              => cur[t] \notin Range(condList)
        /\ pc[t] = "arm"
              => /\ cur[t] \notin armed \cup Range(wakeList) \cup Range(condList)
                 /\ \A u \in Threads : cur[t] \notin Range(runq[u])

(* A fiber that sits in a list has its context saved, unless it has just   *)
(* put itself there and is about to switch to its parent.                  *)
SavedInv ==
    /\ RunnableIsSaved
    /\ \A f \in Range(wakeList) :
          saved[f] = "lock"
          \/ \E t \in Threads : cur[t] = f /\ pc[t] = "switch_suspend"
    /\ \A f \in Range(condList) :
          saved[f] = "lock"
          \/ \E t \in Threads : cur[t] = f /\ pc[t] = "switch_cond"
    /\ \A f \in Fibers : saved[f] = "cs" => f \in holding

(* One fiber holds the mutex, on one thread at most; a fiber for which its *)
(* parent unlocks the mutex is on the list of the condition.               *)
HolderInv ==
    /\ MutualExclusion
    /\ \A t \in Threads :
          /\ pc[t] \in HoldingPc => cur[t] \in holding
          /\ pc[t] = "switch_cond" \/ ParentUnlocks(t)
                => cur[t] \in Range(condList)
    /\ \A t, u \in Threads :
          pc[t] \in HoldingPc /\ pc[u] \in HoldingPc => t = u

(* One thread has the wake list, and state_ counts the holder, that thread *)
(* and the lockers that are backing off.                                   *)
CountInv ==
    /\ \A t, u \in Threads : pc[t] \in ListPc /\ pc[u] \in ListPc => t = u
    /\ \A t \in Threads : pc[t] = "release" => wakeList = <<>>
    /\ holding = {} => wakeList = <<>> /\ ListUsers = {} /\ Backers = {}
    /\ state = (IF holding = {} THEN 0 ELSE 1)
               + (IF ListUsers = {} THEN 0 ELSE 1) + Cardinality(Backers)

(* The inductive invariant: the mutex excludes because state_ counts       *)
(* exactly the holder, the user of the wake list and the lockers backing   *)
(* off, and every fiber is in one list at most.                            *)
IInv ==
    /\ TypeOK
    /\ StackInv
    /\ DistinctInv
    /\ CarriedInv
    /\ SavedInv
    /\ HolderInv
    /\ CountInv
-----------------------------------------------------------------------------
(* The waiters of the monitor that the mutex and the condition together    *)
(* implement: a fiber that has joined condList but still holds the mutex   *)
(* is not yet waiting.                                                     *)
MonitorQueue ==
    IF condList # <<>> /\ condList[Len(condList)] \in holding
    THEN SubSeq(condList, 1, Len(condList) - 1)
    ELSE condList

Monitor == INSTANCE FiberMonitor WITH owner <- holding, queue <- MonitorQueue

(* lock, unlock, wait, notify_one and notify_all are those of a monitor    *)
(* with first-in-first-out waiters.                                        *)
MonitorSpec == Monitor!Spec
=============================================================================
