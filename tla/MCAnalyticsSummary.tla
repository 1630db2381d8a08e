------------------------ MODULE MCAnalyticsSummary ------------------------
EXTENDS AnalyticsSummary, TLC

Symmetry == Permutations(Sessions) \cup Permutations(Chats)
=============================================================================
