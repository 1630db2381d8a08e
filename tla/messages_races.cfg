\* One session whose two queue loops race with a request, with receipts, and
\* with two faults.
CONSTANTS
  Sessions = {s1}
  Friends = {f1}
  Requests = {q1}
  Incoming = {m1}
  Loops = {l1, l2}
  Operations = {"send", "edit"}
  ReceiptTypes = {"delivered", "read"}
  MaxQueue = 2
  MaxReceipts = 1
  MaxFaults = 2
SPECIFICATION Spec
SYMMETRY Symmetry
INVARIANTS TypeOK NoSilentLoss
PROPERTY KeepsLog
CHECK_DEADLOCK FALSE
