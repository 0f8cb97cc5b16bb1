---------------------------- MODULE MC_ChatTurn ----------------------------
(* ChatTurn on answers of up to MaxLen letters over {a, b}. *)
EXTENDS ChatTurn, TLC
CONSTANTS a, b
MCChars == {a, b}
\* The letters are interchangeable.
Letters == Permutations(MCChars)
=============================================================================
