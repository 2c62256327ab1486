---------------------------- MODULE MCFiberMutex ----------------------------
(* Instances of FiberMutex for TLC. *)
EXTENDS FiberMutex, TLC

Symmetry == Permutations(Fibers) \cup Permutations(Threads)
=============================================================================
