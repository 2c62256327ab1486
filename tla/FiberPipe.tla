------------------------------ MODULE FiberPipe ------------------------------
(***************************************************************************)
(* fiber_pipe: blocking reads and writes of fibers, their time limits, and *)
(* the sweeps that end the waiting of the fibers that have exceeded theirs *)
(* (src/cpp/fiber.h, src/cpp/fiber.cpp).                                   *)
(*                                                                         *)
(* A connection is a fiber with its network pipe, as tcp_server and        *)
(* http_server make them.  A sweep runs as a timer task or, for the        *)
(* hibernating pipes, when the server is out of descriptors.  It uses      *)
(* io_dispatch::while_paused2 in two phases: with the io threads paused it *)
(* takes the pipes that are too late out of epoll, and once every io       *)
(* thread has been back at the top of its loop it wakes their fibers with  *)
(* an exception.  Of while_paused2 the module keeps what IoDispatch shows  *)
(* of it (AtRestFlushed, for calls of while_paused2 only): the first phase *)
(* is one step, taken when the other threads are in epoll_wait, and the    *)
(* second follows when all have been at the top; the threads go on during  *)
(* the second.                                                             *)
(*                                                                         *)
(* Times are abstract: a limit lies ahead, until at some point it has      *)
(* passed.                                                                 *)
(***************************************************************************)
EXTENDS FiniteSets

CONSTANTS
    Threads,    \* the io threads
    Conns,      \* connections
    HibConns,   \* those of http servers: they hibernate between requests
    NoThread,   \* no thread
    NoConn,     \* no connection
    Modes       \* sets of disturbances that are studied together

(* What may disturb the sweeps of late pipes: sweeps of the hibernating    *)
(* pipes, a pipe that hibernates in its first wait (its first request was  *)
(* there at once), other calls of while_paused or on_each that hold        *)
(* pause_outer_mutex_ (for_each_sleeping_pipe), and such calls while there *)
(* is no network pipe.                                                     *)
Disturbances == {"hib", "fresh", "pause", "idle"}

Kinds == {"sweep", "hib"}   \* sweep_timed_out_pipes(false), (true)

ASSUME FiberPipeAssumption ==
    /\ NoThread \notin Threads
    /\ NoConn \notin Conns
    /\ HibConns \subseteq Conns
    /\ Modes \subseteq SUBSET Disturbances

VARIABLES
    mode,       \* the disturbances there are
    forcedClose,\* forced_close_ of the server
    open,       \* network pipes that exist; num_net_pipes_ is their number
    listed,     \* those in the list first_
    attached,   \* those with attached_ set
    armed,      \* those whose one-shot watch in epoll is armed
    waiting,    \* those with io_fiber_ set: its fiber sleeps
    hibernating,\* those with hibernating_ set
    timeout,    \* timeout[c]: io_timeout_, as seen from now
    nextSweep,  \* next_pipe_sweep_.id_ is not 0
    tasks,      \* sweeps that are scheduled with the timer
    th,         \* th[t]: what io thread t does
    fib,        \* fib[t]: the connection whose fiber t runs
    todo,       \* todo[t]: sweeps that t has to run in its handler
    pauser,     \* <<t, k>> while t is in while_paused2 for a sweep k
    owed,       \* threads that have yet to come back to the top
    rest,       \* registered at-rest functions: their kind and the pipes
                \* whose io_timeout_ is before their ct
    resting,    \* <<t, k>> while t runs one, of kind k
    timedOut    \* the list timed_out of that function

server == <<mode, forcedClose>>
connVars == <<open, listed, attached, armed, waiting, hibernating, timeout>>
vars == <<mode, forcedClose, open, listed, attached, armed, waiting,
          hibernating, timeout, nextSweep, tasks, th, fib, todo, pauser,
          owed, rest, resting, timedOut>>

Init ==
    /\ mode \in Modes
    /\ forcedClose = FALSE
    /\ open = {} /\ listed = {} /\ attached = {} /\ armed = {}
    /\ waiting = {} /\ hibernating = {}
    /\ timeout = [c \in Conns |-> "forever"]
    /\ nextSweep = FALSE
    /\ tasks = {}
    /\ th = [t \in Threads |-> "epoll"]
    /\ fib = [t \in Threads |-> NoConn]
    /\ todo = [t \in Threads |-> {}]
    /\ pauser = <<NoThread, "none">>
    /\ owed = {}
    /\ rest = {}
    /\ resting = <<NoThread, "none">>
    /\ timedOut = {}

Goto(t, l) == th' = [th EXCEPT ![t] = l]

(* Thread t switches to the fiber of c, and back from it.                  *)
RunFiber(t, c) ==
    /\ Goto(t, "fiber")
    /\ fib' = [fib EXCEPT ![t] = c]
LeaveFiber(t) ==
    /\ Goto(t, IF resting[1] = t THEN "rest" ELSE "top")
    /\ fib' = [fib EXCEPT ![t] = NoConn]

(* io_timeout_ of c is assigned, and is not before the ct of any function. *)
SetTimeout(c, v) ==
    /\ timeout' = [timeout EXCEPT ![c] = v]
    /\ rest' = {[r EXCEPT !.past = @ \ {c}] : r \in rest}
-----------------------------------------------------------------------------
(* The fibers and their pipes                                              *)

(* A connection is accepted; the constructor of its pipe schedules the     *)
(* first sweep.                                                            *)
Open(t, c) ==
    /\ th[t] = "epoll"
    /\ c \notin open
    /\ forcedClose' = FALSE
    /\ open' = open \cup {c}
    /\ listed' = listed \cup {c}
    /\ IF open = {} /\ ~nextSweep
         THEN nextSweep' = TRUE /\ tasks' = tasks \cup {"sweep"}
         ELSE UNCHANGED <<nextSweep, tasks>>
    /\ RunFiber(t, c)
    /\ UNCHANGED <<mode, attached, armed, waiting, hibernating, timeout, todo,
                   pauser, owed, rest, resting, timedOut>>

(* A read or write that has to wait, with or without a limit, and, for a   *)
(* read between two requests, hibernating: on the fiber's stack, up to the *)
(* switch to the parent fiber.                                             *)
Sleep(t, v, hibernate) ==
    /\ th[t] = "fiber"
    /\ LET c == fib[t] IN
          /\ hibernate => c \in HibConns
          /\ hibernate /\ c \in listed \ attached => "fresh" \in mode
          /\ waiting' = waiting \cup {c}
          /\ hibernating' = IF hibernate THEN hibernating \cup {c}
                                         ELSE hibernating \ {c}
          /\ SetTimeout(c, v)
    /\ Goto(t, "arm")
    /\ UNCHANGED <<server, open, listed, attached, armed, nextSweep, tasks,
                   fib, todo, pauser, owed, resting, timedOut>>

(* wake_all, on the parent's stack once the context of the fiber is saved, *)
(* adds the pipe to epoll, or arms it again if it is attached.             *)
Arm(t) ==
    /\ th[t] = "arm"
    /\ attached' = attached \cup {fib[t]}
    /\ armed' = armed \cup {fib[t]}
    /\ LeaveFiber(t)
    /\ UNCHANGED <<server, open, listed, waiting, hibernating, timeout,
                   nextSweep, tasks, todo, pauser, owed, rest, resting,
                   timedOut>>

(* An event for the pipe: its fiber goes on, no longer hibernating.        *)
IoAvail(t, c) ==
    /\ th[t] = "epoll"
    /\ c \in armed
    /\ armed' = armed \ {c}
    /\ waiting' = waiting \ {c}
    /\ hibernating' = hibernating \ {c}
    /\ SetTimeout(c, "forever")
    /\ RunFiber(t, c)
    /\ UNCHANGED <<server, open, listed, attached, nextSweep, tasks, todo,
                   pauser, owed, resting, timedOut>>

(* The fiber ends, with or without an exception: the pipe is destroyed.    *)
Close(t) ==
    /\ th[t] = "fiber"
    /\ open' = open \ {fib[t]}
    /\ listed' = listed \ {fib[t]}
    /\ attached' = attached \ {fib[t]}
    /\ armed' = armed \ {fib[t]}
    /\ hibernating' = hibernating \ {fib[t]}
    /\ LeaveFiber(t)
    /\ UNCHANGED <<server, waiting, timeout, nextSweep, tasks, todo, pauser,
                   owed, rest, resting, timedOut>>

(* Time passes, and with it the limit of c.                                *)
Expire(c) ==
    /\ timeout[c] = "later"
    /\ timeout' = [timeout EXCEPT ![c] = "past"]
    /\ UNCHANGED <<server, open, listed, attached, armed, waiting, hibernating,
                   nextSweep, tasks, th, fib, todo, pauser, owed, rest,
                   resting, timedOut>>
-----------------------------------------------------------------------------
(* sweep_timed_out_pipes up to the end of while_paused2                    *)

(* A thread has sweeps to run: those of the tasks that are due, or one of  *)
(* the hibernating pipes because accept4 found no free descriptor: once,   *)
(* until a connection is accepted again.                                   *)
TakeTasks(t, due) ==
    /\ th[t] = "epoll"
    /\ due # {}
    /\ due \subseteq tasks
    /\ tasks' = tasks \ due
    /\ todo' = [todo EXCEPT ![t] = due]
    /\ Goto(t, "task")
    /\ UNCHANGED <<server, connVars, nextSweep, fib, pauser, owed, rest,
                   resting, timedOut>>

SweepHibernating(t) ==
    /\ "hib" \in mode
    /\ th[t] = "epoll"
    /\ ~forcedClose
    /\ forcedClose' = TRUE
    /\ todo' = [todo EXCEPT ![t] = {"hib"}]
    /\ Goto(t, "task")
    /\ UNCHANGED <<mode, connVars, nextSweep, tasks, fib, pauser, owed, rest,
                   resting, timedOut>>

Sweep(t, k) ==
    /\ th[t] = "task"
    /\ k \in todo[t]
    /\ pauser[1] = NoThread
    /\ pauser' = <<t, k>>
    /\ todo' = [todo EXCEPT ![t] = @ \ {k}]
    /\ Goto(t, "pause")
    /\ UNCHANGED <<server, connVars, nextSweep, tasks, fib, owed, rest,
                   resting, timedOut>>

(* while_paused2 finds pause_outer_mutex_ locked, by another sweep or by   *)
(* another user of it, and returns false: the sweep is scheduled again,    *)
(* but not if there is no network pipe.                                    *)
SweepBusy(t, k) ==
    /\ th[t] = "task"
    /\ k \in todo[t]
    /\ \/ pauser[1] # NoThread
       \/ "pause" \in mode /\ open # {}
       \/ "idle" \in mode
    /\ todo' = [todo EXCEPT ![t] = @ \ {k}]
    /\ IF k = "hib" \/ open # {}
         THEN /\ tasks' = tasks \cup {k}
              /\ nextSweep' = (nextSweep \/ k = "sweep")
         ELSE UNCHANGED <<tasks, nextSweep>>
    /\ UNCHANGED <<server, connVars, th, fib, pauser, owed, rest, resting,
                   timedOut>>

(* The pipes that a sweep of kind k is after.                              *)
Late(k, past) == past \cup (IF k = "hib" THEN listed \cap hibernating ELSE {})

(* The end of while_paused2: a countdown by all the threads begins, the    *)
(* others go on to the top of their loops.                                 *)
EndPause(t) ==
    /\ pauser' = <<NoThread, "none">>
    /\ owed' = Threads
    /\ th' = [u \in Threads |-> IF u = t THEN "task" ELSE "top"]

(* Mutant: the pipes are not taken out of epoll.                           *)
PausedLeft(t) ==
    /\ th[t] = "pause"
    /\ pauser[1] = t
    /\ \A u \in Threads \ {t} : th[u] = "epoll"
    /\ LET past == {c \in listed : timeout[c] = "past"}
           late == Late(pauser[2], past)
       IN /\ late \subseteq attached
          /\ attached' = attached \ late
          /\ rest' = rest \cup {[kind |-> pauser[2], past |-> past]}
    /\ EndPause(t)
    /\ UNCHANGED <<server, open, listed, armed, waiting, hibernating, timeout,
                   nextSweep, tasks, fib, todo, resting, timedOut>>

(* With all the other threads paused the late pipes are taken out of epoll *)
(* and the second phase is registered.                                     *)
Paused(t) ==
    /\ th[t] = "pause"
    /\ pauser[1] = t
    /\ \A u \in Threads \ {t} : th[u] = "epoll"
    /\ LET past == {c \in listed : timeout[c] = "past"}
           late == Late(pauser[2], past)
       IN /\ late \subseteq attached
          /\ attached' = attached \ late
          /\ armed' = armed \ late
          /\ rest' = rest \cup {[kind |-> pauser[2], past |-> past]}
    /\ EndPause(t)
    /\ UNCHANGED <<server, open, listed, waiting, hibernating, timeout,
                   nextSweep, tasks, fib, todo, resting, timedOut>>

(* epoll_ctl throws for a pipe that is not in epoll.  Some pipes before it *)
(* in the list have been taken out; while_paused2 swallows the exception   *)
(* and registers nothing.                                                  *)
PausedThrows(t) ==
    /\ th[t] = "pause"
    /\ pauser[1] = t
    /\ \A u \in Threads \ {t} : th[u] = "epoll"
    /\ LET past == {c \in listed : timeout[c] = "past"}
           late == Late(pauser[2], past)
       IN /\ ~(late \subseteq attached)
          /\ \E before \in SUBSET (late \cap attached) :
                /\ attached' = attached \ before
                /\ armed' = armed \ before
    /\ EndPause(t)
    /\ UNCHANGED <<server, open, listed, waiting, hibernating, timeout,
                   nextSweep, tasks, fib, todo, rest, resting, timedOut>>

EndTasks(t) ==
    /\ th[t] = "task"
    /\ todo[t] = {}
    /\ Goto(t, "top")
    /\ UNCHANGED <<server, connVars, nextSweep, tasks, fib, todo, pauser, owed,
                   rest, resting, timedOut>>
-----------------------------------------------------------------------------
(* The second phase                                                        *)

(* The top of epoll_loop; the last thread of the countdown goes on to the  *)
(* at-rest functions, if there are any.                                    *)
Top(t) ==
    /\ th[t] = "top"
    /\ owed' = owed \ {t}
    /\ IF t \in owed /\ owed' = {} /\ rest # {}
         THEN Goto(t, "rest") /\ resting' = <<t, "none">>
         ELSE Goto(t, "epoll") /\ resting' = resting
    /\ UNCHANGED <<server, connVars, nextSweep, tasks, fib, todo, pauser, rest,
                   timedOut>>

(* An at-rest function moves the pipes that are still late and out of      *)
(* epoll from the list to one of its own.  If another thread is still      *)
(* switching away from the fiber of one of them, both have the fiber, and  *)
(* nothing is known of the process from here on ...                        *)
Collect(t, r) ==
    /\ th[t] = "rest"
    /\ resting = <<t, "none">>
    /\ r \in rest
    /\ timedOut' = (Late(r.kind, r.past) \cap waiting \cap listed)
                      \ attached
    /\ listed' = listed \ timedOut'
    /\ rest' = rest \ {r}
    /\ resting' = <<t, r.kind>>
    /\ th' = IF \E u \in Threads : fib[u] \in timedOut'
               THEN [u \in Threads |-> "lost"] ELSE th
    /\ UNCHANGED <<server, open, attached, armed, waiting, hibernating,
                   timeout, nextSweep, tasks, fib, todo, pauser, owed>>

(* ... wakes their fibers one by one, with timeout_expired_ set ...        *)
WakeTimedOut(t, c) ==
    /\ th[t] = "rest"
    /\ c \in timedOut
    /\ timedOut' = timedOut \ {c}
    /\ waiting' = waiting \ {c}
    /\ SetTimeout(c, "forever")
    /\ RunFiber(t, c)
    /\ UNCHANGED <<server, open, listed, attached, armed, hibernating,
                   nextSweep, tasks, todo, pauser, owed, resting>>


(* Mutant: next_pipe_sweep_ is not reset when there is no pipe.            *)
EndFunctionStale(t) ==
    /\ th[t] = "rest"
    /\ resting[2] # "none"
    /\ timedOut = {}
    /\ IF resting[2] = "sweep"
         THEN /\ nextSweep' = TRUE
              /\ tasks' = IF open # {} THEN tasks \cup {"sweep"} ELSE tasks
         ELSE UNCHANGED <<nextSweep, tasks>>
    /\ IF rest = {}
         THEN Goto(t, "epoll") /\ resting' = <<NoThread, "none">>
         ELSE resting' = <<t, "none">> /\ th' = th
    /\ UNCHANGED <<server, connVars, fib, todo, pauser, owed, rest, timedOut>>

(* ... and schedules the next sweep if there are network pipes.            *)
EndFunction(t) ==
    /\ th[t] = "rest"
    /\ resting[2] # "none"
    /\ timedOut = {}
    /\ IF resting[2] = "sweep"
         THEN /\ nextSweep' = (open # {})
              /\ tasks' = IF open # {} THEN tasks \cup {"sweep"} ELSE tasks
         ELSE UNCHANGED <<nextSweep, tasks>>
    /\ IF rest = {}
         THEN Goto(t, "epoll") /\ resting' = <<NoThread, "none">>
         ELSE resting' = <<t, "none">> /\ th' = th
    /\ UNCHANGED <<server, connVars, fib, todo, pauser, owed, rest, timedOut>>
-----------------------------------------------------------------------------
(* What a thread does of itself, once it is not in epoll_wait.             *)
ThreadStep(t) ==
    \/ \E v \in {"forever", "later"}, h \in BOOLEAN : Sleep(t, v, h)
    \/ Arm(t) \/ Close(t)
    \/ \E k \in Kinds : Sweep(t, k) \/ SweepBusy(t, k)
    \/ EndTasks(t) \/ Top(t)
    \/ \E r \in rest : Collect(t, r)
    \/ \E c \in Conns : WakeTimedOut(t, c)
    \/ EndFunction(t)

TakeAnyTasks == \E t \in Threads, due \in SUBSET Kinds : TakeTasks(t, due)

Next ==
    \/ \E t \in Threads :
          \/ ThreadStep(t) \/ Paused(t) \/ PausedThrows(t)
          \/ SweepHibernating(t)
          \/ \E c \in Conns : Open(t, c) \/ IoAvail(t, c)
    \/ TakeAnyTasks
    \/ \E c \in Conns : Expire(c)

Spec == Init /\ [][Next]_vars

(* Threads run, fibers block or end, time passes, the timer fires, the     *)
(* commands of while_paused2 reach every thread however busy it is, and    *)
(* the other users of pause_outer_mutex_ do not hold it at every attempt   *)
(* of a sweep.                                                             *)
Fairness ==
    /\ \A t \in Threads : WF_vars(ThreadStep(t))
    /\ SF_vars(\E t \in Threads : Paused(t) \/ PausedThrows(t))
    /\ SF_vars(TakeAnyTasks)
    /\ SF_vars(\E t \in Threads : Sweep(t, "sweep"))
    /\ \A c \in Conns : WF_vars(Expire(c))

FairSpec == Spec /\ Fairness
-----------------------------------------------------------------------------
(* The variables have their types, and the sets of pipes are as the flags  *)
(* and lists of the code have it: what epoll watches is attached.          *)
TypeOK ==
    /\ mode \in Modes
    /\ forcedClose \in BOOLEAN
    /\ open \in SUBSET Conns
    /\ listed \subseteq open /\ attached \subseteq open
    /\ armed \subseteq attached /\ waiting \subseteq open
    /\ hibernating \subseteq open
    /\ timeout \in [Conns -> {"forever", "later", "past"}]
    /\ nextSweep \in BOOLEAN
    /\ tasks \in SUBSET Kinds
    /\ th \in [Threads -> {"top", "epoll", "fiber", "arm", "task", "pause",
                        "rest", "lost"}]
    /\ fib \in [Threads -> Conns \cup {NoConn}]
    /\ todo \in [Threads -> SUBSET Kinds]
    /\ pauser \in (Threads \cup {NoThread}) \X (Kinds \cup {"none"})
    /\ owed \in SUBSET Threads
    /\ rest \in SUBSET [kind : Kinds, past : SUBSET Conns]
    /\ resting \in (Threads \cup {NoThread}) \X (Kinds \cup {"none"})
    /\ timedOut \in SUBSET Conns

(* What an at-rest function is about to wake: a fiber that sleeps on a     *)
(* pipe that exists, that no event can wake at the same time on another    *)
(* thread, and whose context is saved, since no thread runs it or is still *)
(* switching away from it.                                                 *)
WokenAsleep ==
    \A c \in timedOut :
        /\ c \in waiting /\ c \notin armed /\ c \in open
        /\ \A t \in Threads : fib[t] # c

(* It is so whatever sweeps and other pauses there are, as long as no pipe *)
(* hibernates in its first wait: the function takes a pipe that is not     *)
(* attached for one that the first phase took out of epoll.                *)
TimedOutAsleep == "fresh" \notin mode => WokenAsleep

(* A sleeping fiber is about to be armed, has an event to be woken by, or  *)
(* an at-rest function that is certain to find its pipe.                   *)
SleeperReachable ==
    \A c \in waiting :
        \/ c \in armed
        \/ c \in timedOut
        \/ \E t \in Threads : th[t] = "arm" /\ fib[t] = c
        \/ \E r \in rest : c \in (Late(r.kind, r.past) \cap listed) \ attached

(* While there are network pipes a sweep is scheduled or under way.        *)
SweepScheduled ==
    open # {} =>
        \/ "sweep" \in tasks \/ \E t \in Threads : "sweep" \in todo[t]
        \/ pauser[2] = "sweep" \/ resting[2] = "sweep"
        \/ \E r \in rest : r.kind = "sweep"

(* As long as no sweep of hibernating pipes gets in the way, no fiber is   *)
(* left sleeping unreachable, however often other pauses keep a sweep from *)
(* its own; and the sweeps never stop unless one was kept from its pause   *)
(* when there was no pipe.                                                 *)
SweepsSound ==
    "hib" \notin mode => /\ SleeperReachable
                         /\ "idle" \notin mode => SweepScheduled

=============================================================================
