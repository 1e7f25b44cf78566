------------------------- MODULE ObserverProcessMC -------------------------
EXTENDS ObserverProcess, TLC
(* The hooks are alike. *)
Interchangeable == Permutations(Hook)
=============================================================================
