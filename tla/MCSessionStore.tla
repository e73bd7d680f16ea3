--------------------------- MODULE MCSessionStore ---------------------------
EXTENDS SessionStore, TLC

Symmetry == Permutations(Request) \cup Permutations(Token)
=============================================================================
