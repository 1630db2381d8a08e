\* Two sessions linked before or now, one request, one kill: what late events,
\* deletion, new logins, a stop and a restart make of rows and devices.
SPECIFICATION Spec
CONSTANTS
  Sessions = {s1, s2}
  Requests = {q1}
  Ops = {"reconnect", "openqr", "delete"}
  MaxDevices = 2
  MaxRuntimes = 2
  MaxEvents = 1
  MaxItems = 1
  MaxKills = 1
INVARIANTS TypeOK QRShownInQRMode GhostEventsIgnored BootSkipsDeleted
PROPERTY KeepsLife
CHECK_DEADLOCK FALSE
