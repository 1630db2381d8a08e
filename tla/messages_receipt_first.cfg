\* One request, one receipt: the receipt is handled before the request saves.
CONSTANTS
  Sessions = {s1}
  Friends = {f1}
  Requests = {q1}
  Incoming = {}
  Loops = {l1}
  Operations = {"send"}
  ReceiptTypes = {"delivered"}
  MaxQueue = 1
  MaxReceipts = 1
  MaxFaults = 0
SPECIFICATION Spec
INVARIANT ReceiptUpdatesStatus
CHECK_DEADLOCK FALSE
