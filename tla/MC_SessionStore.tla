--------------------------- MODULE MC_SessionStore ---------------------------
EXTENDS SessionStore, TLC

MCSymmetry == Permutations(Keys)
=============================================================================
