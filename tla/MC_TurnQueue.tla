---------------------------- MODULE MC_TurnQueue ----------------------------
(* Instances of TurnQueue for TLC. *)
EXTENDS TurnQueue, TLC

Interchangeable == Permutations(Calls)
=============================================================================
