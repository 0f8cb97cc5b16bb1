-------------------------- MODULE MC_TurnPipeline --------------------------
EXTENDS TurnPipeline, TLC
\* Requests and conversations are interchangeable.
Interchangeable == Permutations(Requests) \cup Permutations(Keys)
=============================================================================
