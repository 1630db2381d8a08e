SPECIFICATION Spec
CONSTANTS
  Sessions = {s1}
  Requests = {q1, q2}
  Ops = {"openqr"}
  MaxDevices = 1
  MaxRuntimes = 2
  MaxEvents = 1
  MaxItems = 1
  MaxKills = 0
PROPERTY OpenReturnsActiveQR
CHECK_DEADLOCK FALSE
