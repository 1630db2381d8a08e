\* Two webhooks of any scope, two concurrent calls of Emit over two sessions,
\* batches of two, two attempts, and two faults: every interleaving of Emit and
\* the worker with kills, stops, database errors, restarts and the removal of
\* webhooks.
CONSTANTS
  Sessions = {s1, s2}
  AnySession = any
  EventTypes = {e1}
  BatchSize = 2
  MaxAttempts = 2
  MaxHooks = 2
  MaxEmits = 2
  MaxDeliveries = 2
  MaxLag = 0
  MaxFaults = 2
SPECIFICATION Spec
SYMMETRY Symmetry
INVARIANTS TypeOK AttemptBound OutcomeIsEarned StrandedBound EmitLedger
  ScopedDelivery
PROPERTIES StrandedForever NoPostAfterAck BackoffRespected KeepsPromise
