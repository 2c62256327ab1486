---------------------------- MODULE MCIoDispatch ----------------------------
(***************************************************************************)
(* The mixes of calls that the runs of IoDispatch make.  while_paused and  *)
(* on_each do not tolerate a second call that begins before the threads    *)
(* stopped by the first have all gone on, so that the runs meant to pass   *)
(* make one call of them; while_paused2 may be called at any time.         *)
(***************************************************************************)
EXTENDS IoDispatch, TLC

Calls(p, p2, each, one, st) ==
    [while_paused |-> p, while_paused2 |-> p2, on_each |-> each,
     on_one |-> one, stop |-> st]

(* The library's own sweeps; one on_each; one while_paused; stop and join. *)
Sound     == {Calls(0, 3, 0, 2, 0), Calls(0, 0, 1, 1, 0),
              Calls(1, 0, 0, 1, 0), Calls(0, 0, 0, 2, 2)}
SoundLive == {Calls(0, 2, 0, 1, 0), Calls(0, 0, 1, 1, 0),
              Calls(1, 0, 0, 1, 0), Calls(0, 0, 0, 1, 2)}
Pauses    == {Calls(2, 0, 0, 0, 0)}     \* two while_paused

Symmetry == Permutations(IoThreads)
=============================================================================
