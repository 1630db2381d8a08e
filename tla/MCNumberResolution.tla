------------------------ MODULE MCNumberResolution ------------------------
EXTENDS NumberResolution, TLC

\* Digits other than the nine, lids and groups are told apart by identity only.
Symmetry ==
  Permutations(Digits \ {Nine}) \cup Permutations(Lids) \cup Permutations(Groups)
=============================================================================
