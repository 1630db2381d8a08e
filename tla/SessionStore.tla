---------------------------- MODULE SessionStore ----------------------------
(* A row of the table sessions and what the statements of                     *)
(* internal/store/session_repo.go make of it.  Names, phones, timestamps and  *)
(* error texts are left out; a QR code is a Boolean, there or not.            *)
EXTENDS Naturals

CONSTANT MaxDevices   \* bound: devices ever linked

Devices == 1..MaxDevices
NoDevice == 0         \* device_jid IS NULL, or the empty string in Go

Methods == {"qr", "pair_code"}
Statuses == {"initializing", "qr_ready", "pairing", "connected", "disconnected",
             "logged_out", "deleted", "error"}

\* state: no row, deleted_at IS NULL, or deleted_at set
Row == [state: {"absent", "live", "deleted"}, method: Methods, status: Statuses,
        device: Devices \cup {NoDevice}, qr: BOOLEAN]

NoRow == [state |-> "absent", method |-> "qr", status |-> "initializing",
          device |-> NoDevice, qr |-> FALSE]

\* INSERT: its UNIQUE (session_id) is the caller's guard.
Created(method) == [NoRow EXCEPT !.state = "live", !.method = method]

\* UPDATE ... WHERE session_id = $1: an empty device_jid keeps the one stored,
\* the other columns are overwritten, and deleted_at is not looked at.
UpdateState_ForgetsDevice(row, status, device, qr) ==
  [row EXCEPT !.status = status, !.device = device, !.qr = qr]
UpdateState(row, status, device, qr) ==
  [row EXCEPT !.status = status,
              !.device = IF device = NoDevice THEN @ ELSE device,
              !.qr = qr]

ResetForQRCode(row) ==
  [row EXCEPT !.method = "qr", !.status = "initializing", !.device = NoDevice,
              !.qr = FALSE]

MarkDeleted(row) ==
  [row EXCEPT !.state = "deleted", !.status = "deleted", !.qr = FALSE]

\* List: WHERE deleted_at IS NULL
IsListed_AnyRow(row) == row.state # "absent"
IsListed(row) == row.state = "live"
=============================================================================
