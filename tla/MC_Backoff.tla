---------------------------- MODULE MC_Backoff ----------------------------
(* Two requests and three conversations, one more than the threshold.  No    *)
(* symmetry: the run checks a liveness property.                             *)
EXTENDS Backoff
=============================================================================
