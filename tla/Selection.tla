----------------------------- MODULE Selection -----------------------------
(***************************************************************************)
(* Array.prototype.filter, for a test that is membership in a set (unlike  *)
(* SelectSeq it takes no operator, so that it can be reasoned about), and  *)
(* what setting a key of an object or a Map does.                          *)
(***************************************************************************)
EXTENDS Integers, SequencesExt

\* The elements of s that are in S, in their order.
Only(s, S) ==
  LET upto[i \in 0..Len(s)] ==
        IF i = 0 THEN <<>> ELSE IF s[i] \in S THEN Append(upto[i - 1], s[i]) ELSE upto[i - 1]
  IN  upto[Len(s)]

\* A value is added under key k, or takes the place of the one there.
With(f, k, v) == [j \in DOMAIN f \cup {k} |-> IF j = k THEN v ELSE f[j]]
=============================================================================
