-------------------------- MODULE MC_Conversation --------------------------
EXTENDS Conversation, TLC
\* Requests of one fingerprint are interchangeable.
Interchangeable == Permutations(Slots)
=============================================================================
