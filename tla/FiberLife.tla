----------------------------- MODULE FiberLife -----------------------------
(***************************************************************************)
(* The life of a fiber in fiber.h and fiber.cpp: run_in_fiber, the         *)
(* constructor that starts a fiber owned by another one, join, stop_fiber  *)
(* and the exit in wake_all, run_in_parallel, and wait_for_zero_fibers.    *)
(* Mutexes and conditions are taken as FiberMonitor describes them; what   *)
(* remains visible of the threads is that a fiber notified by one that is  *)
(* stopping runs on the same thread, after the other's exit.               *)
(***************************************************************************)
EXTENDS Naturals, FiniteSets

CONSTANTS FlFibers,     \* fiber objects, each used once
          FlMain        \* the thread that calls wait_for_zero_fibers

ASSUME FlAssumption == FlMain \notin FlFibers /\ IsFiniteSet(FlFibers)

VARIABLES
    flPhase,    \* fiber -> "none", "queued", "running", "joining", "woken",
                \*          "parallel", "counting", "ended", "stopped", "gone"
    flKind,     \* fiber -> "none", "auto" (auto_free_), "owned" or "child"
    flOwner,    \* fiber -> the fiber that joins it or waits for it in parallel
    flDead,     \* fibers whose object has been destroyed
    flLate,     \* fibers joined after running_ became false
    flCount,    \* num_running_fibers_
    flZero,     \* wait_for_zero_fibers: "no", "waiting", "returned"
    flHolder,   \* fiber in run_in_parallel -> child that holds its mtx, or itself
    flDone,     \* its num_completed
    flErr       \* its hit_error

flVars == <<flPhase, flKind, flOwner, flDead, flLate, flCount, flZero, flHolder,
            flDone, flErr>>
flParallel == <<flHolder, flDone, flErr>>

FlInit ==
    /\ flPhase = [f \in FlFibers |-> "none"]
    /\ flKind = [f \in FlFibers |-> "none"]
    /\ flOwner = [f \in FlFibers |-> FlMain]
    /\ flDead = {} /\ flLate = {} /\ flCount = 0 /\ flZero = "no"
    /\ flHolder = [f \in FlFibers |-> f]
    /\ flDone = [f \in FlFibers |-> 0]
    /\ flErr = [f \in FlFibers |-> FALSE]

Unused   == {f \in FlFibers : flPhase[f] = "none"}
Children(g) == {f \in FlFibers : flOwner[f] = g /\ flKind[f] = "child"}

(* Who may call: a running fiber, or the main thread before it waits.      *)
Caller(g) == \/ g = FlMain /\ flZero = "no"
             \/ g \in FlFibers /\ flPhase[g] = "running"

(* run_in_fiber counts the fiber before it sends the command that makes it.*)
RunInFiber(g, f) ==
    /\ Caller(g) /\ f \in Unused
    /\ flPhase' = [flPhase EXCEPT ![f] = "queued"]
    /\ flKind' = [flKind EXCEPT ![f] = "auto"]
    /\ flCount' = flCount + 1
    /\ UNCHANGED <<flOwner, flDead, flLate, flZero, flParallel>>

(* The command is served: the constructor starts the fiber.                *)
FiberStarts(f) ==
    /\ flPhase[f] = "queued"
    /\ flPhase' = [flPhase EXCEPT ![f] = "running"]
    /\ UNCHANGED <<flKind, flOwner, flDead, flLate, flCount, flZero, flParallel>>

(* The constructor of a fiber that is not auto_free counts it and starts   *)
(* it on top of the caller (in_fiber_start).                               *)
NewFiber(g, f) ==
    /\ g \in FlFibers /\ Caller(g) /\ f \in Unused
    /\ flPhase' = [flPhase EXCEPT ![f] = "running"]
    /\ flKind' = [flKind EXCEPT ![f] = "owned"]
    /\ flOwner' = [flOwner EXCEPT ![f] = g]
    /\ flCount' = flCount + 1
    /\ UNCHANGED <<flDead, flLate, flZero, flParallel>>

(* join, after which the owner destroys the fiber.  It sleeps while        *)
(* running_ is set, and else returns at once.                              *)
Join(g, f) ==
    /\ Caller(g) /\ flOwner[f] = g /\ flKind[f] = "owned" /\ f \notin flDead
    /\ IF flPhase[f] \in {"stopped", "gone"}
       THEN /\ flDead' = flDead \cup {f} /\ flLate' = flLate \cup {f}
            /\ UNCHANGED flPhase
       ELSE /\ flPhase' = [flPhase EXCEPT ![g] = "joining"]
            /\ UNCHANGED <<flDead, flLate>>
    /\ UNCHANGED <<flKind, flOwner, flCount, flZero, flParallel>>

Owned(g) == {f \in FlFibers : flOwner[f] = g /\ flKind[f] = "owned"} \ flDead

(* start_fiber: the function has returned or thrown, and what it owned is  *)
(* gone.                                                                   *)
FunctionReturned(f) ==
    /\ flPhase[f] = IF flKind[f] = "child" THEN "ended" ELSE "running"
    /\ Owned(f) = {}

(* Mutant: the joiner would go on while the other is on its stack.         *)
StopFiberResumes(f) ==
    /\ FunctionReturned(f)
    /\ LET joined == flKind[f] = "owned" /\ flPhase[flOwner[f]] = "joining"
       IN  /\ flPhase' = [g \in FlFibers |->
                IF g = f THEN "stopped"
                ELSE IF joined /\ g = flOwner[f] THEN "running" ELSE flPhase[g]]
           /\ flDead' = IF joined THEN flDead \cup {f} ELSE flDead
    /\ UNCHANGED <<flKind, flOwner, flLate, flCount, flZero, flParallel>>

(* running_ becomes false and a joiner is notified, onto the wake list of  *)
(* this thread.                                                            *)
StopFiber(f) ==
    /\ FunctionReturned(f)
    /\ flPhase' = [g \in FlFibers |->
         IF g = f THEN "stopped"
         ELSE IF flKind[f] = "owned" /\ g = flOwner[f] /\ flPhase[g] = "joining"
              THEN "woken" ELSE flPhase[g]]
    /\ UNCHANGED <<flKind, flOwner, flDead, flLate, flCount, flZero, flParallel>>

(* oc_exit_fiber in wake_all: deletes a fiber that is auto_free, counts    *)
(* down, and goes on with the wake list, where the joiner may be.          *)
ExitFiber(f) ==
    /\ flPhase[f] = "stopped"
    /\ LET joined == flKind[f] = "owned" /\ flPhase[flOwner[f]] = "woken"
       IN  /\ flPhase' = [g \in FlFibers |->
                IF g = f THEN "gone"
                ELSE IF joined /\ g = flOwner[f] THEN "running" ELSE flPhase[g]]
           /\ flDead' = IF joined \/ flKind[f] # "owned" THEN flDead \cup {f}
                                                         ELSE flDead
    /\ flCount' = flCount - 1
    /\ UNCHANGED <<flKind, flOwner, flLate, flZero, flParallel>>

(* run_in_parallel starts its children and waits for their count; they     *)
(* refer to the mutex, the count and the error on its stack.               *)
RunInParallel(g, S) ==
    /\ g \in FlFibers /\ Caller(g) /\ Children(g) = {} /\ S \subseteq Unused
    /\ flPhase' = [f \in FlFibers |-> IF f \in S THEN "queued"
                                      ELSE IF f = g THEN "parallel" ELSE flPhase[f]]
    /\ flKind' = [f \in FlFibers |-> IF f \in S THEN "child" ELSE flKind[f]]
    /\ flOwner' = [f \in FlFibers |-> IF f \in S THEN g ELSE flOwner[f]]
    /\ flCount' = flCount + Cardinality(S)
    /\ UNCHANGED <<flDead, flLate, flZero, flParallel>>

(* A child's function ends: it takes mtx, records the first error and      *)
(* counts; then it lets go of mtx.                                         *)
ChildCounts(f, failed) ==
    /\ flKind[f] = "child" /\ flPhase[f] = "running"
    /\ flHolder[flOwner[f]] = flOwner[f]
    /\ flHolder' = [flHolder EXCEPT ![flOwner[f]] = f]
    /\ flDone' = [flDone EXCEPT ![flOwner[f]] = @ + 1]
    /\ flErr' = [flErr EXCEPT ![flOwner[f]] = @ \/ failed]
    /\ flPhase' = [flPhase EXCEPT ![f] = "counting"]
    /\ UNCHANGED <<flKind, flOwner, flDead, flLate, flCount, flZero>>

ChildUnlocks(f) ==
    /\ flPhase[f] = "counting"
    /\ flHolder' = [flHolder EXCEPT ![flOwner[f]] = flOwner[f]]
    /\ flPhase' = [flPhase EXCEPT ![f] = "ended"]
    /\ UNCHANGED <<flKind, flOwner, flDead, flLate, flCount, flZero, flDone, flErr>>

(* It has mtx and every child has counted; with an error it throws.        *)
ParallelReturns(g) ==
    /\ flPhase[g] = "parallel"
    /\ flDone[g] = Cardinality(Children(g)) /\ flHolder[g] = g
    /\ flPhase' = [flPhase EXCEPT ![g] = "running"]
    /\ UNCHANGED <<flKind, flOwner, flDead, flLate, flCount, flZero, flParallel>>

WaitForZeroFibers ==
    /\ \/ flZero = "no" /\ flZero' = "waiting"
       \/ flZero = "waiting" /\ flCount = 0 /\ flZero' = "returned"
    /\ UNCHANGED <<flPhase, flKind, flOwner, flDead, flLate, flCount, flParallel>>

FlNext ==
    \/ \E f \in FlFibers :
         \/ \E g \in FlFibers \cup {FlMain} : RunInFiber(g, f) \/ NewFiber(g, f)
         \/ \E g \in FlFibers : Join(g, f)
         \/ FiberStarts(f) \/ StopFiber(f) \/ ExitFiber(f)
         \/ \E failed \in BOOLEAN : ChildCounts(f, failed)
         \/ ChildUnlocks(f) \/ ParallelReturns(f)
         \/ \E S \in SUBSET FlFibers : RunInParallel(f, S)
    \/ WaitForZeroFibers

FlSpec == FlInit /\ [][FlNext]_flVars

-----------------------------------------------------------------------------
Living == {f \in FlFibers : flPhase[f] \notin {"none", "gone"}}

(* num_running_fibers_ counts every fiber from the request for it to the   *)
(* end of its exit, so that when wait_for_zero_fibers has returned nothing *)
(* is left that runs or could start a fiber.                               *)
ZeroMeansNone ==
    /\ flCount = Cardinality(Living)
    /\ flZero = "returned" => Living = {}

(* A fiber is destroyed only after its exit, if its joiner was asleep in   *)
(* join before running_ became false: the exit still reads the fiber.      *)
ExitBeforeDestroyed == \A f \in flDead : flPhase[f] = "gone" \/ f \in flLate

(* The children of run_in_parallel use the mutex, the count and the error  *)
(* on its stack only while it has not returned.                            *)
ParallelFrame == \A f \in FlFibers :
    flKind[f] = "child" /\ flPhase[f] \in {"queued", "running", "counting"}
        => flPhase[flOwner[f]] = "parallel"

(* ZeroMeansNone, ExitBeforeDestroyed and ParallelFrame.                   *)
FiberLives == ZeroMeansNone /\ ExitBeforeDestroyed /\ ParallelFrame
=============================================================================
