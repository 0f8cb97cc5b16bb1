--------------------------- MODULE MC_TurnAccess ---------------------------
EXTENDS TurnAccess, TLC
\* The requests and the shared run ask for tokens.
MCCallers == Requests \cup {First}
MCScopes == {Chat, Bap, PowerPlatform}
Symmetry == Permutations(Requests) \cup Permutations(Sessions) \cup Permutations(Bots)
=============================================================================
