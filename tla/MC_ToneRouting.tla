--------------------------- MODULE MC_ToneRouting ---------------------------
(* Two tones that fall back to each other, and an alias of one of them. *)
EXTENDS ToneRouting
\* Requests do not differ.
MCRequests == Permutations(Requests)
MCNames == {"sonnet", "opus", "alias"}
MCCanonical == [n \in MCNames |-> IF n = "alias" THEN "sonnet" ELSE n]
MCFallbacks == [n \in MCNames |->
  CASE n = "sonnet" -> <<"opus">>
    [] n = "opus" -> <<"sonnet">>
    [] n = "alias" -> <<>>]
=============================================================================
