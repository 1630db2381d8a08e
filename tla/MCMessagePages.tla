-------------------------- MODULE MCMessagePages --------------------------
EXTENDS MessagePages, TLC

\* Phone numbers, and lids, are told apart by nothing but their identity.
Symmetry == Permutations(Phones) \cup Permutations(Lids)
=============================================================================
