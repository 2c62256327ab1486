---------------------------- MODULE FiberMonitor ----------------------------
(***************************************************************************)
(* What fiber_mutex and fiber_cond promise to the code that uses them: a   *)
(* monitor with Mesa semantics.  At most one fiber is inside; wait leaves  *)
(* the monitor and joins the waiters in one step, so that no notification  *)
(* can be missed in between; notify_one releases the fiber that has waited *)
(* longest and notify_all releases all of them, and a released fiber has   *)
(* to enter again like any other.                                          *)
(***************************************************************************)
EXTENDS Sequences

CONSTANT Fibers

VARIABLES
    owner,      \* the set of fibers inside, empty or a singleton
    queue       \* the waiting fibers, the longest waiting first

vars == <<owner, queue>>

Waiting == {queue[i] : i \in DOMAIN queue}

Init == owner = {} /\ queue = <<>>

(* lock returns to f *)
Enter(f) ==
    /\ owner = {}
    /\ f \notin Waiting
    /\ owner' = {f}
    /\ UNCHANGED queue

(* f calls unlock *)
Leave(f) ==
    /\ owner = {f}
    /\ owner' = {}
    /\ UNCHANGED queue

(* f calls wait *)
Wait(f) ==
    /\ owner = {f}
    /\ owner' = {}
    /\ queue' = Append(queue, f)

NotifyOne ==
    /\ owner # {}
    /\ queue # <<>>
    /\ queue' = Tail(queue)
    /\ UNCHANGED owner

NotifyAll ==
    /\ owner # {}
    /\ queue' = <<>>
    /\ UNCHANGED owner

Next ==
    \/ \E f \in Fibers : Enter(f) \/ Leave(f) \/ Wait(f)
    \/ NotifyOne
    \/ NotifyAll

Spec == Init /\ [][Next]_vars
=============================================================================
