-------------------------- MODULE MCWebhookOutbox --------------------------
(* WebhookOutbox for TLC.                                                     *)
EXTENDS WebhookOutbox, TLC

Symmetry == Permutations(Sessions) \cup Permutations(EventTypes)
=============================================================================
