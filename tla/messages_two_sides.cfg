\* Two sessions of the gateway write to each other: one loop each.
CONSTANTS
  Sessions = {s1, s2}
  Friends = {}
  Requests = {q1, q2}
  Incoming = {}
  Loops = {l1}
  Operations = {"send", "reply", "edit"}
  ReceiptTypes = {"delivered", "read"}
  MaxQueue = 1
  MaxReceipts = 1
  MaxFaults = 0
SPECIFICATION Spec
SYMMETRY Symmetry
INVARIANTS StatusIsEarned OwnSide
CHECK_DEADLOCK FALSE
