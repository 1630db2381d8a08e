------------------------- MODULE MCSessionManager -------------------------
EXTENDS SessionManager, TLC

\* Sessions, and requests, are told apart by nothing but their identity.
Symmetry == Permutations(Sessions) \cup Permutations(Requests)
=============================================================================
