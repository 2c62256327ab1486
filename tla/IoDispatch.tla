----------------------------- MODULE IoDispatch -----------------------------
(***************************************************************************)
(* io_dispatch: the epoll loop, the control pipe and the calls that stop   *)
(* the world (src/cpp/io_dispatch.h, src/cpp/io_dispatch.cpp).             *)
(*                                                                         *)
(* The io threads wait in epoll_wait.  One control pipe, watched in        *)
(* one-shot mode, carries the commands k_wake, k_pause, k_on_each and      *)
(* k_on_one to whichever io thread the kernel picks.  while_paused and     *)
(* while_paused2 write one k_pause per io thread they have to stop, wait   *)
(* for all of them, run a function and let them go; while_paused2 also     *)
(* registers a function that runs once every io thread has come back to    *)
(* the top of its loop, which the threads establish by counting down       *)
(* thread_countdown_.                                                      *)
(*                                                                         *)
(* pause_com_mutex_ is held across several steps only by a thread in "f"   *)
(* or in "at_rest"; every other critical section on it is one action.  A   *)
(* wait on a condition variable gives the mutex up, and the waiter goes on *)
(* when it has been notified, or woken spuriously, and the mutex is free.  *)
(***************************************************************************)
EXTENDS Integers, Sequences, FiniteSets, FiniteSetsExt

CONSTANTS
    IoThreads,  \* the threads that run epoll_loop
    Outside,    \* threads of the program that are not io threads
    NoThread,   \* no owner of a mutex
    Mixes       \* bounds: a mix allows mix[api] calls of each api

Threads == IoThreads \cup Outside
Apis == {"while_paused", "while_paused2", "on_each", "on_one", "stop"}
NumThreads == Cardinality(IoThreads)        \* num_threads_

ASSUME IoDispatchAssumption ==
    /\ IsFiniteSet(IoThreads)
    /\ IoThreads # {}
    /\ IoThreads \cap Outside = {}
    /\ NoThread \notin Threads
    /\ IsFiniteSet(Mixes)
    /\ Mixes \subseteq [Apis -> Nat]

VARIABLES
    running,    \* running_
    ctl,        \* the commands in the control pipe
    ctlArmed,   \* the one-shot watch of the control pipe is armed
    numPaused,  \* num_paused_threads_
    numDone,    \* num_pause_done_threads_
    countdown,  \* thread_countdown_
    cd,         \* cd[t]: tls_iod_params.countdown_ of io thread t
    atRest,     \* at_rest_functions_
    outer,      \* the owner of pause_outer_mutex_
    pc,         \* pc[t]: what thread t does next
    call,       \* call[t]: the call thread t is making or serving
    notified,   \* waiting threads whose condition variable was notified
    owed,       \* history: <<t, fn>>, io thread t has not been back at the
                \* top of its loop since the at-rest function fn was added
    ran,        \* history: <<t, fn>>, io thread t has executed fn
    lastId,     \* history: the number of calls made so far
    left        \* left[api]: calls still to be made

ctlVars   == <<ctl, ctlArmed>>
pauseVars == <<numPaused, numDone, countdown, cd, atRest, owed>>
callVars  == <<call, lastId, left>>
vars == <<running, ctl, ctlArmed, numPaused, numDone, countdown, cd, atRest,
          outer, pc, call, notified, owed, ran, lastId, left>>

NoCall == [api |-> "none", id |-> 0]
MaxId  == Max({MapThenSumSet(LAMBDA a : mix[a], Apis) : mix \in Mixes})

Init ==
    /\ running = TRUE
    /\ ctl = <<>>
    /\ ctlArmed = TRUE
    /\ numPaused = 0
    /\ numDone = 0
    /\ countdown = 0
    /\ cd = [t \in IoThreads |-> 0]
    /\ atRest = <<>>
    /\ outer = NoThread
    /\ pc = [t \in Threads |-> IF t \in IoThreads THEN "top" ELSE "idle"]
    /\ call = [t \in Threads |-> NoCall]
    /\ notified = {}
    /\ owed = {}
    /\ ran = {}
    /\ lastId = 0
    /\ left \in Mixes

(* Where a thread is before and after a call: an io thread in a handler,   *)
(* any other thread in its own code.                                       *)
Base(t) == IF t \in IoThreads THEN "event" ELSE "idle"
Goto(t, l) == pc' = [pc EXCEPT ![t] = l]

(* pause_com_mutex_ is free.                                               *)
ComFree == \A t \in Threads : pc[t] \notin {"f", "at_rest"}

(* Waiting on one of the condition variables.                              *)
WaitLabels == {"resume_wait", "each_resume_wait", "pause_wait",
               "resume2_wait", "each_wait"}

(* The waiters of pause_cond_, and the threads that a notify_one or a      *)
(* notify_all of a condition variable may leave notified.                  *)
At(labels) == {t \in Threads : pc[t] \in labels}
PauseWaiters  == At({"pause_wait", "each_wait"})
ResumeWaiters == At({"resume_wait", "each_resume_wait"})
NotifyOne(waiters) ==
    IF waiters \subseteq notified
      THEN notified' = notified
      ELSE \E w \in waiters \ notified : notified' = notified \cup {w}

(* A call begins: it takes its share of the budget and is numbered.        *)
Begin(t, api) ==
    /\ pc[t] = Base(t)
    /\ left[api] > 0
    /\ left' = [left EXCEPT ![api] = @ - 1]
    /\ lastId' = lastId + 1

Command(c, i) == [cmd |-> c, id |-> i]
-----------------------------------------------------------------------------
(* epoll_loop                                                              *)

(* The loop ends when running_ has been cleared.                           *)
LeaveLoop(t) ==
    /\ pc[t] = "top"
    /\ ~running
    /\ Goto(t, "gone")
    /\ UNCHANGED <<running, ctl, ctlArmed, pauseVars, outer, notified, ran,
                   callVars>>

(* The top of the loop: the thread takes its share off thread_countdown_,  *)
(* and the thread that brings it to zero goes on to the at-rest functions. *)
LoopTop(t) ==
    /\ pc[t] = "top"
    /\ running
    /\ countdown' = countdown - cd[t]
    /\ cd' = [cd EXCEPT ![t] = 0]
    /\ owed' = {o \in owed : o[1] # t}
    /\ Goto(t, IF cd[t] # 0 /\ countdown' = 0 THEN "lock_rest" ELSE "epoll")
    /\ UNCHANGED <<running, ctl, ctlArmed, numPaused, numDone, atRest, outer,
                   notified, ran, callVars>>

(* pause_com_mutex_ is taken for the at-rest functions.                    *)
LockAtRest(t) ==
    /\ pc[t] = "lock_rest"
    /\ ComFree
    /\ Goto(t, "at_rest")
    /\ UNCHANGED <<running, ctl, ctlArmed, pauseVars, outer, notified, ran,
                   callVars>>

(* All of them have run; they are dropped and the mutex is released.       *)
RunAtRest(t) ==
    /\ pc[t] = "at_rest"
    /\ atRest' = <<>>
    /\ Goto(t, "epoll")
    /\ UNCHANGED <<running, ctl, ctlArmed, numPaused, numDone, countdown, cd,
                   outer, notified, owed, ran, callVars>>

(* epoll_wait returns an event for some other handler...                   *)
TakeEvent(t) ==
    /\ pc[t] = "epoll"
    /\ Goto(t, "event")
    /\ UNCHANGED <<running, ctl, ctlArmed, pauseVars, outer, notified, ran,
                   callVars>>

(* ... whose io_avail returns.                                             *)
EndEvent(t) ==
    /\ t \in IoThreads
    /\ pc[t] = "event"
    /\ Goto(t, "top")
    /\ UNCHANGED <<running, ctl, ctlArmed, pauseVars, outer, notified, ran,
                   callVars>>
-----------------------------------------------------------------------------
(* io_ctl_handler::io_avail                                                *)

(* Mutant: the control pipe is watched with EPOLLIN alone.                 *)
TakeCommandLevel(t) ==
    /\ pc[t] = "epoll"
    /\ ctlArmed
    /\ ctl # <<>>
    /\ ctlArmed' = TRUE
    /\ ctl' = Tail(ctl)
    /\ Goto(t, Head(ctl).cmd)
    /\ call' = [call EXCEPT ![t] = [api |-> "none", id |-> Head(ctl).id]]
    /\ UNCHANGED <<running, pauseVars, outer, notified, ran, lastId, left>>

(* epoll_wait returns the control pipe, which disarms the watch, and the   *)
(* handler reads the command.                                              *)
TakeCommand(t) ==
    /\ pc[t] = "epoll"
    /\ ctlArmed
    /\ ctl # <<>>
    /\ ctlArmed' = FALSE
    /\ ctl' = Tail(ctl)
    /\ Goto(t, Head(ctl).cmd)
    /\ call' = [call EXCEPT ![t] = [api |-> "none", id |-> Head(ctl).id]]
    /\ UNCHANGED <<running, pauseVars, outer, notified, ran, lastId, left>>

(* Mutant: wake_next_thread is not called.                                 *)
HandleWakeOnly(t) ==
    /\ pc[t] = "k_wake"
    /\ ctlArmed' = TRUE
    /\ ctl' = ctl
    /\ Goto(t, "top")
    /\ UNCHANGED <<running, pauseVars, outer, notified, ran, callVars>>

(* k_wake: the watch is armed again and the wake is passed on.             *)
HandleWake(t) ==
    /\ pc[t] = "k_wake"
    /\ ctlArmed' = TRUE
    /\ ctl' = Append(ctl, Command("k_wake", 0))
    /\ Goto(t, "top")
    /\ UNCHANGED <<running, pauseVars, outer, notified, ran, callVars>>

(* Mutant: the watch of the control pipe is not armed again.               *)
HandlePauseDisarmed(t) ==
    /\ pc[t] = "k_pause"
    /\ ComFree
    /\ ctlArmed' = ctlArmed
    /\ numPaused' = numPaused + 1
    /\ IF numPaused' = NumThreads
         THEN NotifyOne(PauseWaiters)
         ELSE notified' = notified
    /\ Goto(t, "resume_wait")
    /\ UNCHANGED <<running, ctl, numDone, countdown, cd, atRest, outer, owed,
                   ran, callVars>>

(* k_pause: the watch is armed again for the next io thread, the last one  *)
(* to arrive notifies the caller, and the thread waits to be resumed.      *)
HandlePause(t) ==
    /\ pc[t] = "k_pause"
    /\ ComFree
    /\ ctlArmed' = TRUE
    /\ numPaused' = numPaused + 1
    /\ IF numPaused' = NumThreads
         THEN NotifyOne(PauseWaiters)
         ELSE notified' = notified
    /\ Goto(t, "resume_wait")
    /\ UNCHANGED <<running, ctl, numDone, countdown, cd, atRest, outer, owed,
                   ran, callVars>>

(* A notified thread finds num_paused_threads_ zero, says so to            *)
(* while_paused2 and remembers to count down.                              *)
Resume(t) ==
    /\ pc[t] = "resume_wait"
    /\ t \in notified
    /\ ComFree
    /\ numPaused = 0
    /\ numDone' = numDone + 1
    /\ notified' = (notified \ {t})
                     \cup IF numDone' = NumThreads THEN At({"resume2_wait"})
                                                   ELSE {}
    /\ cd' = [cd EXCEPT ![t] = @ + 1]
    /\ Goto(t, "top")
    /\ UNCHANGED <<running, ctl, ctlArmed, numPaused, countdown, atRest,
                   outer, owed, ran, callVars>>

(* A notified thread finds its condition false and waits again.            *)
WaitAgain(t) ==
    /\ t \in notified
    /\ \/ pc[t] = "resume_wait" /\ ComFree /\ numPaused # 0
       \/ pc[t] = "each_resume_wait" /\ outer = NoThread /\ numPaused # 0
       \/ pc[t] = "pause_wait" /\ ComFree /\ numPaused # NumThreads
       \/ pc[t] = "each_wait" /\ outer = NoThread /\ numPaused # NumThreads
       \/ pc[t] = "resume2_wait" /\ ComFree /\ numDone # NumThreads
    /\ notified' = notified \ {t}
    /\ UNCHANGED <<running, ctl, ctlArmed, pauseVars, outer, pc, ran,
                   callVars>>

(* condition_variable::wait may return without having been notified.       *)
SpuriousWakeup(t) ==
    /\ pc[t] \in WaitLabels
    /\ t \notin notified
    /\ notified' = notified \cup {t}
    /\ UNCHANGED <<running, ctl, ctlArmed, pauseVars, outer, pc, ran,
                   callVars>>

(* k_on_each: pause_outer_mutex_ is taken, the watch is armed again and    *)
(* the function is entered.                                                *)
HandleOnEach(t) ==
    /\ pc[t] = "k_on_each"
    /\ outer = NoThread
    /\ outer' = t
    /\ ctlArmed' = TRUE
    /\ Goto(t, "each_exec")
    /\ UNCHANGED <<running, ctl, pauseVars, notified, ran, callVars>>

(* Mutant: the thread does not wait for the others.                        *)
OnEachExecutedNoWait(t) ==
    /\ pc[t] = "each_exec"
    /\ ran' = ran \cup {<<t, call[t].id>>}
    /\ numPaused' = numPaused + 1
    /\ IF numPaused' = NumThreads
         THEN /\ NotifyOne(PauseWaiters)
              /\ ctl' = ctl
         ELSE /\ notified' = notified
              /\ ctl' = Append(ctl, Command("k_on_each", call[t].id))
    /\ outer' = NoThread
    /\ Goto(t, "top")
    /\ UNCHANGED <<running, ctlArmed, numDone, countdown, cd, atRest, owed,
                   callVars>>

(* The function has returned: the last thread notifies the caller, any     *)
(* other one passes the command on, and the thread waits to be resumed.    *)
OnEachExecuted(t) ==
    /\ pc[t] = "each_exec"
    /\ ran' = ran \cup {<<t, call[t].id>>}
    /\ numPaused' = numPaused + 1
    /\ IF numPaused' = NumThreads
         THEN /\ NotifyOne(PauseWaiters)
              /\ ctl' = ctl
         ELSE /\ notified' = notified
              /\ ctl' = Append(ctl, Command("k_on_each", call[t].id))
    /\ outer' = NoThread
    /\ Goto(t, "each_resume_wait")
    /\ UNCHANGED <<running, ctlArmed, numDone, countdown, cd, atRest, owed,
                   callVars>>

OnEachResumed(t) ==
    /\ pc[t] = "each_resume_wait"
    /\ t \in notified
    /\ outer = NoThread
    /\ numPaused = 0
    /\ notified' = notified \ {t}
    /\ Goto(t, "top")
    /\ UNCHANGED <<running, ctl, ctlArmed, pauseVars, outer, ran, callVars>>

(* k_on_one: the watch is armed again and the function runs.               *)
HandleOnOne(t) ==
    /\ pc[t] = "k_on_one"
    /\ ctlArmed' = TRUE
    /\ ran' = ran \cup {<<t, call[t].id>>}
    /\ Goto(t, "event")
    /\ UNCHANGED <<running, ctl, pauseVars, outer, notified, callVars>>
-----------------------------------------------------------------------------
(* while_paused and while_paused2                                          *)

(* try_to_lock of pause_outer_mutex_ fails: the call returns false.        *)
Busy(t, api) ==
    /\ api \in {"while_paused", "while_paused2", "on_each"}
    /\ api = "while_paused2" => t \in IoThreads
    /\ outer # NoThread
    /\ Begin(t, api)
    /\ UNCHANGED <<running, ctl, ctlArmed, pauseVars, outer, pc, call,
                   notified, ran>>

(* try_to_lock succeeds.  while_paused2 is for io threads only.            *)
WhilePaused(t, api) ==
    /\ api \in {"while_paused", "while_paused2"}
    /\ api = "while_paused2" => t \in IoThreads
    /\ outer = NoThread
    /\ Begin(t, api)
    /\ outer' = t
    /\ call' = [call EXCEPT ![t] = [api |-> api, id |-> lastId']]
    /\ Goto(t, "lock_com")
    /\ UNCHANGED <<running, ctl, ctlArmed, pauseVars, notified, ran>>

(* Mutant: the command loop starts one io thread too late.                 *)
SendPausesOneLess(t) ==
    /\ pc[t] = "lock_com"
    /\ ComFree
    /\ numPaused' = IF NumThreads > 1 THEN 2 ELSE 1
    /\ ctl' = ctl \o [i \in 1..(NumThreads - numPaused') |->
                                                   Command("k_pause", 0)]
    /\ Goto(t, IF numPaused' = NumThreads THEN "f" ELSE "pause_wait")
    /\ UNCHANGED <<running, ctlArmed, numDone, countdown, cd, atRest, outer,
                   notified, owed, ran, callVars>>

(* With pause_com_mutex_ a command is written for each of the other io     *)
(* threads, and unless there is none the caller waits.                     *)
SendPauses(t) ==
    /\ pc[t] = "lock_com"
    /\ ComFree
    /\ numPaused' = IF t \in IoThreads THEN 1 ELSE 0
    /\ ctl' = ctl \o [i \in 1..(NumThreads - numPaused') |->
                                                   Command("k_pause", 0)]
    /\ Goto(t, IF numPaused' = NumThreads THEN "f" ELSE "pause_wait")
    /\ UNCHANGED <<running, ctlArmed, numDone, countdown, cd, atRest, outer,
                   notified, owed, ran, callVars>>

(* All have paused; f is entered with both mutexes held.                   *)
AllPaused(t) ==
    /\ pc[t] = "pause_wait"
    /\ t \in notified
    /\ ComFree
    /\ numPaused = NumThreads
    /\ notified' = notified \ {t}
    /\ Goto(t, "f")
    /\ UNCHANGED <<running, ctl, ctlArmed, pauseVars, outer, ran, callVars>>

(* while_paused: f has returned, everyone is resumed, the call returns.    *)
EndWhilePaused(t) ==
    /\ pc[t] = "f"
    /\ call[t].api = "while_paused"
    /\ numPaused' = 0
    /\ notified' = notified \cup ResumeWaiters
    /\ outer' = NoThread
    /\ call' = [call EXCEPT ![t] = NoCall]
    /\ Goto(t, Base(t))
    /\ UNCHANGED <<running, ctl, ctlArmed, numDone, countdown, cd, atRest,
                   owed, ran, lastId, left>>

(* Mutant: the countdown leaves the calling thread out.                    *)
EndWhilePaused2Short(t) ==
    /\ pc[t] = "f"
    /\ call[t].api = "while_paused2"
    /\ \/ /\ atRest' = <<call[t].id>> \o atRest
          /\ owed' = owed \cup (IoThreads \X {call[t].id})
       \/ UNCHANGED <<atRest, owed>>
    /\ countdown' = countdown + NumThreads - 1
    /\ cd' = [cd EXCEPT ![t] = @ + 1]
    /\ numPaused' = 0
    /\ numDone' = 1
    /\ notified' = notified \cup ResumeWaiters
    /\ Goto(t, IF NumThreads = 1 THEN "paused2_return" ELSE "resume2_wait")
    /\ UNCHANGED <<running, ctl, ctlArmed, outer, ran, callVars>>

(* Mutant: the caller does not wait for the others to have resumed.        *)
EndWhilePaused2NoWait(t) ==
    /\ pc[t] = "f"
    /\ call[t].api = "while_paused2"
    /\ \/ /\ atRest' = <<call[t].id>> \o atRest
          /\ owed' = owed \cup (IoThreads \X {call[t].id})
       \/ UNCHANGED <<atRest, owed>>
    /\ countdown' = countdown + NumThreads
    /\ cd' = [cd EXCEPT ![t] = @ + 1]
    /\ numPaused' = 0
    /\ numDone' = 1
    /\ notified' = notified \cup ResumeWaiters
    /\ Goto(t, "paused2_return")
    /\ UNCHANGED <<running, ctl, ctlArmed, outer, ran, callVars>>

(* Mutant: set_this_thread_countdown is not called.                        *)
EndWhilePaused2NotSelf(t) ==
    /\ pc[t] = "f"
    /\ call[t].api = "while_paused2"
    /\ \/ /\ atRest' = <<call[t].id>> \o atRest
          /\ owed' = owed \cup (IoThreads \X {call[t].id})
       \/ UNCHANGED <<atRest, owed>>
    /\ countdown' = countdown + NumThreads
    /\ numPaused' = 0
    /\ numDone' = 1
    /\ notified' = notified \cup ResumeWaiters
    /\ Goto(t, IF NumThreads = 1 THEN "paused2_return" ELSE "resume2_wait")
    /\ UNCHANGED <<running, ctl, ctlArmed, cd, outer, ran, callVars>>

(* while_paused2: f has returned the at-rest function or thrown; in both   *)
(* cases a countdown by all the io threads starts, everyone is resumed and *)
(* the caller waits until they have seen it.                               *)
EndWhilePaused2(t) ==
    /\ pc[t] = "f"
    /\ call[t].api = "while_paused2"
    /\ \/ /\ atRest' = <<call[t].id>> \o atRest
          /\ owed' = owed \cup (IoThreads \X {call[t].id})
       \/ UNCHANGED <<atRest, owed>>
    /\ countdown' = countdown + NumThreads
    /\ cd' = [cd EXCEPT ![t] = @ + 1]
    /\ numPaused' = 0
    /\ numDone' = 1
    /\ notified' = notified \cup ResumeWaiters
    /\ Goto(t, IF NumThreads = 1 THEN "paused2_return" ELSE "resume2_wait")
    /\ UNCHANGED <<running, ctl, ctlArmed, outer, ran, callVars>>

Resume2(t) ==
    /\ pc[t] = "resume2_wait"
    /\ t \in notified
    /\ ComFree
    /\ numDone = NumThreads
    /\ notified' = notified \ {t}
    /\ Goto(t, "paused2_return")
    /\ UNCHANGED <<running, ctl, ctlArmed, pauseVars, outer, ran, callVars>>

(* pause_outer_mutex_ is released and while_paused2 returns.               *)
WhilePaused2Return(t) ==
    /\ pc[t] = "paused2_return"
    /\ outer' = NoThread
    /\ call' = [call EXCEPT ![t] = NoCall]
    /\ Goto(t, Base(t))
    /\ UNCHANGED <<running, ctl, ctlArmed, pauseVars, notified, ran, lastId,
                   left>>
-----------------------------------------------------------------------------
(* on_each, on_one, stop and join                                          *)

(* try_to_lock succeeds; the command is written unless the caller is the   *)
(* only io thread, and the caller waits, which releases the mutex.         *)
OnEach(t) ==
    /\ outer = NoThread
    /\ Begin(t, "on_each")
    /\ call' = [call EXCEPT ![t] = [api |-> "on_each", id |-> lastId']]
    /\ numPaused' = IF t \in IoThreads THEN 1 ELSE 0
    /\ IF numPaused' < NumThreads
         THEN /\ ctl' = Append(ctl, Command("k_on_each", lastId'))
              /\ Goto(t, "each_wait")
              /\ outer' = outer
         ELSE /\ ctl' = ctl
              /\ Goto(t, "each_f")
              /\ outer' = t
    /\ UNCHANGED <<running, ctlArmed, numDone, countdown, cd, atRest,
                   notified, owed, ran>>

(* All the other io threads have executed the function.                    *)
AllExecuted(t) ==
    /\ pc[t] = "each_wait"
    /\ t \in notified
    /\ outer = NoThread
    /\ numPaused = NumThreads
    /\ notified' = notified \ {t}
    /\ outer' = t
    /\ Goto(t, "each_f")
    /\ UNCHANGED <<running, ctl, ctlArmed, pauseVars, ran, callVars>>

(* Mutant: resume_cond_ is notified with notify_one.                       *)
EndOnEachNotifyOne(t) ==
    /\ pc[t] = "each_f"
    /\ ran' = IF t \in IoThreads THEN ran \cup {<<t, call[t].id>>} ELSE ran
    /\ numPaused' = 0
    /\ NotifyOne(ResumeWaiters)
    /\ outer' = NoThread
    /\ call' = [call EXCEPT ![t] = NoCall]
    /\ Goto(t, Base(t))
    /\ UNCHANGED <<running, ctl, ctlArmed, numDone, countdown, cd, atRest,
                   owed, lastId, left>>

(* An io thread executes it too; everyone is resumed, the call returns.    *)
EndOnEach(t) ==
    /\ pc[t] = "each_f"
    /\ ran' = IF t \in IoThreads THEN ran \cup {<<t, call[t].id>>} ELSE ran
    /\ numPaused' = 0
    /\ notified' = notified \cup ResumeWaiters
    /\ outer' = NoThread
    /\ call' = [call EXCEPT ![t] = NoCall]
    /\ Goto(t, Base(t))
    /\ UNCHANGED <<running, ctl, ctlArmed, numDone, countdown, cd, atRest,
                   owed, lastId, left>>

(* On an io thread the function is called directly, and elsewhere written  *)
(* to the control pipe.                                                    *)
OnOne(t) ==
    /\ Begin(t, "on_one")
    /\ IF t \in IoThreads
         THEN /\ ran' = ran \cup {<<t, lastId'>>}
              /\ ctl' = ctl
         ELSE /\ ctl' = Append(ctl, Command("k_on_one", lastId'))
              /\ ran' = ran
    /\ UNCHANGED <<running, ctlArmed, pauseVars, outer, pc, call, notified>>

(* stop, from an io thread or as the first thing that join does.           *)
Stop(t) ==
    /\ Begin(t, "stop")
    /\ running' = FALSE
    /\ ctl' = IF running THEN Append(ctl, Command("k_wake", 0)) ELSE ctl
    /\ Goto(t, IF t \in IoThreads THEN "event" ELSE "join")
    /\ UNCHANGED <<ctlArmed, pauseVars, outer, call, notified, ran>>

(* join returns when all the io threads have ended.                        *)
Join(t) ==
    /\ pc[t] = "join"
    /\ \A u \in IoThreads : pc[u] = "gone"
    /\ Goto(t, "joined")
    /\ UNCHANGED <<running, ctl, ctlArmed, pauseVars, outer, notified, ran,
                   callVars>>
-----------------------------------------------------------------------------
(* What a thread does once it is scheduled and the mutexes it needs are    *)
(* free: everything except receiving an event and making a call.           *)
ThreadStep(t) ==
    \/ LeaveLoop(t) \/ LoopTop(t) \/ LockAtRest(t) \/ RunAtRest(t)
    \/ EndEvent(t)
    \/ HandleWake(t) \/ HandlePause(t) \/ Resume(t) \/ WaitAgain(t)
    \/ HandleOnEach(t) \/ OnEachExecuted(t) \/ OnEachResumed(t)
    \/ HandleOnOne(t)
    \/ SendPauses(t) \/ AllPaused(t) \/ EndWhilePaused(t)
    \/ EndWhilePaused2(t) \/ Resume2(t) \/ WhilePaused2Return(t)
    \/ AllExecuted(t) \/ EndOnEach(t) \/ Join(t)

MakeCall(t) ==
    \/ \E api \in Apis : Busy(t, api) \/ WhilePaused(t, api)
    \/ OnEach(t) \/ OnOne(t) \/ Stop(t)

Next ==
    \E t \in Threads :
        ThreadStep(t) \/ TakeEvent(t) \/ TakeCommand(t) \/ MakeCall(t)
          \/ SpuriousWakeup(t)

Spec == Init /\ [][Next]_vars

(* Every thread is scheduled.  Among the descriptors that are ready, epoll *)
(* serves the one that has waited longest, so that an armed control pipe   *)
(* with a command in it is not passed over for ever.                       *)
Fairness ==
    /\ \A t \in Threads : WF_vars(ThreadStep(t))
    /\ SF_vars(\E t \in IoThreads : TakeCommand(t))

FairSpec == Spec /\ Fairness
-----------------------------------------------------------------------------
Labels == {"idle", "top", "lock_rest", "at_rest", "epoll", "event", "k_wake",
           "k_pause", "k_on_each", "k_on_one", "resume_wait", "each_exec",
           "each_resume_wait", "lock_com", "pause_wait", "f", "resume2_wait",
           "paused2_return", "each_wait", "each_f", "gone", "join", "joined"}

(* The variables have their types; only waiting threads are notified, and  *)
(* what is left in the pipe are whole commands.                            *)
TypeOK ==
    /\ running \in BOOLEAN
    /\ ctl \in Seq([cmd : {"k_wake", "k_pause", "k_on_each", "k_on_one"},
                    id : 0..MaxId])
    /\ ctlArmed \in BOOLEAN
    /\ numPaused \in 0..NumThreads
    /\ numDone \in 0..NumThreads
    /\ countdown \in Int
    /\ cd \in [IoThreads -> Nat]
    /\ atRest \in Seq(1..MaxId)
    /\ outer \in Threads \cup {NoThread}
    /\ pc \in [Threads -> Labels]
    /\ call \in [Threads -> [api : Apis \cup {"none"}, id : 0..MaxId]]
    /\ notified \in SUBSET At(WaitLabels)
    /\ owed \in SUBSET (IoThreads \X (1..MaxId))
    /\ ran \in SUBSET (IoThreads \X (1..MaxId))
    /\ lastId \in 0..MaxId
    /\ left \in [Apis -> Nat]

(* While f of while_paused or while_paused2 runs, every other io thread is *)
(* waiting in the k_pause branch of io_ctl_handler::io_avail.              *)
PausedAlone ==
    \A t \in At({"f"}) :
        \A u \in IoThreads \ {t} : pc[u] = "resume_wait"

(* An at-rest function runs only after every io thread has been back at    *)
(* the top of epoll_loop since the while_paused2 that registered it.       *)
AtRestFlushed ==
    \A t \in At({"at_rest"}) :
        \A o \in owed : \A i \in DOMAIN atRest : o[2] # atRest[i]

(* The control pipe is never left unwatched: when the one-shot watch is    *)
(* disarmed, exactly one io thread is in io_avail and has yet to arm it.   *)
ControlWatched ==
    Cardinality(At({"k_wake", "k_pause", "k_on_each", "k_on_one"}))
      = IF ctlArmed THEN 0 ELSE 1

(* While the at-rest functions run no other io thread is running.          *)
AtRestAlone ==
    \A t \in At({"at_rest"}) :
        \A u \in IoThreads \ {t} : pc[u] \notin {"event", "each_exec"}

(* on_each executes its function once on each io thread: no thread is      *)
(* about to execute it again, and when the call is about to return every   *)
(* io thread but the caller's own has executed it.                         *)
OnEachExact ==
    /\ \A t \in At({"each_exec"}) : <<t, call[t].id>> \notin ran
    /\ \A t \in At({"each_f"}) :
          \A u \in IoThreads \ {t} : <<u, call[t].id>> \in ran

(* Every call of while_paused, while_paused2, on_each or join returns.     *)
CallsReturn ==
    /\ \A t \in Threads : (call[t].api # "none") ~> (call[t].api = "none")
    /\ \A t \in Outside : (pc[t] = "join") ~> (pc[t] = "joined")

(* Every io thread that is stopped by a k_pause or a k_on_each goes on.    *)
EveryoneResumes ==
    \A t \in IoThreads :
        (pc[t] \in {"resume_wait", "each_resume_wait"}) ~> (pc[t] = "top")

(* Every function given to on_one by a thread that is not an io thread is  *)
(* executed, as long as stop is not called, and every at-rest function     *)
(* that was registered is run.                                             *)
CommandsServed ==
    /\ \A i \in 1..MaxId :
          (\E k \in DOMAIN ctl : ctl[k].cmd = "k_on_one" /\ ctl[k].id = i)
            ~> (~running \/ \E t \in IoThreads : <<t, i>> \in ran)
    /\ (atRest # <<>>) ~> (atRest = <<>>)
=============================================================================
