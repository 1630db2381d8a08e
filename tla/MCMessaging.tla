---------------------------- MODULE MCMessaging ----------------------------
EXTENDS Messaging, TLC

\* Sessions, requests and queue loops are told apart by their identity only.
Symmetry ==
  Permutations(Sessions) \cup Permutations(Requests) \cup Permutations(Loops)
=============================================================================
