---------------------------- MODULE MC_TurnGate ----------------------------
(* Instances of TurnGate for TLC.  Callers and keys are interchangeable.    *)
EXTENDS TurnGate, TLC

Interchangeable == Permutations(Callers) \cup Permutations(Keys)
=============================================================================
