----------------------------- MODULE MCFiberPipe -----------------------------
(* The disturbances that the run of FiberPipe combines: other pauses, and  *)
(* those while there is no pipe, without and with the sweeps of            *)
(* hibernating pipes.                                                      *)
EXTENDS FiberPipe

Studied == {{"pause"}, {"pause", "idle"}, {"hib", "pause", "idle"}}
=============================================================================
