\* No faults: the worker alone against receivers that answer as they like, while
\* webhooks come and go, in batches of one with retries competing.
CONSTANTS
  Sessions = {s1}
  AnySession = any
  EventTypes = {e1}
  BatchSize = 1
  MaxAttempts = 3
  MaxHooks = 2
  MaxEmits = 1
  MaxDeliveries = 2
  MaxLag = 2
  MaxFaults = 0
SPECIFICATION FairSpec
PROPERTIES EverySettles
