SPECIFICATION FairSpec
CONSTANTS
  Sessions = {s1}
  Requests = {q1}
  Ops = {"create", "openqr", "reconnect", "delete", "paircode"}
  MaxDevices = 1
  MaxRuntimes = 3
  MaxEvents = 1
  MaxItems = 1
  MaxKills = 1
PROPERTY RequestsFinish RequestAdvances
CHECK_DEADLOCK FALSE
