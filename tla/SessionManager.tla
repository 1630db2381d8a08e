--------------------------- MODULE SessionManager ---------------------------
(* The session manager (internal/session/manager.go) over its table           *)
(* (SessionStore): API requests, the login and QR goroutines, and the event   *)
(* handlers of the WhatsApp clients, interleaved at every statement on that   *)
(* table and every use of the map of runtimes, with the process killed        *)
(* between any two of these steps.  attachExistingRuntime is one step: its    *)
(* look into the device container and its write of the map.                   *)
(*                                                                            *)
(* The WhatsApp library is modelled by what its client does to its socket,    *)
(* its device store and its QR channel, and by the events it dispatches, each *)
(* in a goroutine of its own.                                                 *)
EXTENDS SessionStore, FiniteSets, Sequences

CONSTANTS
  Sessions,     \* session ids
  Requests,     \* bound: API requests ever made
  Ops,          \* the operations they may be
  MaxRuntimes,  \* bound: runtimes attached in one life of the process
  MaxEvents,    \* bound: event handlers running at once
  MaxItems,     \* bound: items waiting in a QR channel (its buffer holds 8)
  MaxKills      \* bound: ends of the process

NoSession == "none"
Operations == {"create", "openqr", "reconnect", "delete", "paircode"}

ASSUME OpsAssumption == Ops \subseteq Operations
ASSUME BoundsAssumption ==
  /\ MaxDevices \in Nat /\ MaxRuntimes \in Nat /\ MaxEvents \in Nat
  /\ MaxItems \in Nat /\ MaxKills \in Nat
ASSUME SessionAssumption == NoSession \notin Sessions

VARIABLES
  rows,      \* the table sessions
  devices,   \* the devices in the whatsmeow container
  owner,     \* history: the session that linked each device, once linked
  process,   \* "down", "booting" (in Rehydrate), "up" or "closed"
  boot,      \* the rows Rehydrate has listed and not yet handled
  runtimes,  \* Manager.runtimes: the current runtime of each session
  rt,        \* the runtimes of this life of the process, with their clients
  req,       \* the API requests
  events,    \* the event handlers running
  kills

vars == <<rows, devices, owner, process, boot, runtimes, rt, req, events, kills>>

RuntimeIds == 1..MaxRuntimes
None == 0       \* no runtime

\* sock: Client.socket; authed once the server has accepted the device
\* login: a goroutine about to act on the client: "qr" before GetQRChannel,
\*   "connect" before Connect, "relogin" before the reconnect after pairing,
\*   "retry" in autoReconnect
\* chan: the QR channel; items: what waits in it ("failure" is its "timeout"
\*   or "error", the other last items do nothing); writing: consumeQRChannel
\*   has taken a code and not yet stored it
\* ready: readyCh is closed
Runtime == [session: Sessions \cup {NoSession}, method: Methods, ready: BOOLEAN,
            device: Devices \cup {NoDevice},
            sock: {"closed", "open", "authed"},
            login: {"none", "qr", "connect", "relogin", "retry"},
            chan: {"none", "armed", "live", "closed"},
            items: Seq({"code", "failure"}), writing: BOOLEAN]
Request == [op: Operations \cup {"none"}, session: Sessions \cup {NoSession},
            pc: {"idle", "get", "insert", "attach", "open", "drop", "erase",
                 "reset", "update", "mark", "look", "wait", "pair", "paired",
                 "refused", "done"},
            rec: Row, rt: RuntimeIds \cup {None}]
Event == [rt: RuntimeIds, kind: {"Connected", "Disconnected", "LoggedOut"},
          pc: {"check", "write", "forget"}, mapped: BOOLEAN]

NoRuntime == [session |-> NoSession, method |-> "qr", ready |-> FALSE,
              device |-> NoDevice, sock |-> "closed",
              login |-> "none", chan |-> "none", items |-> << >>,
              writing |-> FALSE]
NoRequest == [op |-> "none", session |-> NoSession, pc |-> "idle",
              rec |-> NoRow, rt |-> None]

Running(q) == req[q].pc \notin {"idle", "refused", "done"}

TypeOK ==
  /\ rows \in [Sessions -> Row]
  /\ devices \subseteq Devices
  /\ owner \in [Devices -> Sessions \cup {NoSession}]
  /\ process \in {"down", "booting", "up", "closed"}
  /\ boot \in [Sessions -> Row]
  /\ runtimes \in [Sessions -> RuntimeIds \cup {None}]
  /\ rt \in [RuntimeIds -> Runtime]
  /\ req \in [Requests -> Request]
  /\ \A q \in Requests : Running(q) =>
       req[q].op \in Operations /\ req[q].session \in Sessions
  /\ events \in SUBSET Event
  /\ kills \in 0..MaxKills

\* What an earlier life of the process may have left: for each session no row, a
\* row whose login never went through, or one linked to a device.
Linked(d) == [Created("qr") EXCEPT !.status = "connected", !.device = d]

Init ==
  /\ \E deviceOf \in [Sessions -> Devices \cup {NoDevice}],
        unlinked \in [Sessions -> {NoRow} \cup {Created(m) : m \in Methods}] :
       /\ \A s, t \in Sessions :
            s # t /\ deviceOf[s] = deviceOf[t] => deviceOf[s] = NoDevice
       /\ rows = [s \in Sessions |-> IF deviceOf[s] = NoDevice THEN unlinked[s]
                                    ELSE Linked(deviceOf[s])]
       /\ devices = {deviceOf[s] : s \in Sessions} \ {NoDevice}
       /\ owner = [d \in Devices |-> IF d \notin devices THEN NoSession
                                     ELSE CHOOSE s \in Sessions : deviceOf[s] = d]
  /\ process = "down"
  /\ boot = [s \in Sessions |-> NoRow]
  /\ runtimes = [s \in Sessions |-> None]
  /\ rt = [r \in RuntimeIds |-> NoRuntime]
  /\ req = [q \in Requests |-> NoRequest]
  /\ events = {}
  /\ kills = 0

-----------------------------------------------------------------------------
(* Steps of the whole manager, used by the actions below.                     *)

SetRow(s, new) == rows' = [rows EXCEPT ![s] = new]

\* A statement whose error is logged or ignored.
TrySetRow(s, new) == SetRow(s, new) \/ UNCHANGED rows

\* setSessionError
SetSessionError(s) ==
  TrySetRow(s, UpdateState(rows[s], "error", NoDevice, FALSE))

Unused(r) == /\ rt[r].session = NoSession
             /\ \A p \in RuntimeIds : p < r => rt[p].session # NoSession

\* newRuntime: it keeps the login method of the row its caller has read.
NewRuntime_WrongColumn(s, rec, device, login) ==
  [NoRuntime EXCEPT !.session = s, !.method = rec.status, !.device = device,
                    !.login = login]
NewRuntime(s, rec, device, login) ==
  [NoRuntime EXCEPT !.session = s, !.method = rec.method, !.device = device,
                    !.login = login]

\* attachNewRuntime, and the login goroutine its callers launch.
AttachNew(r, s, rec) ==
  /\ Unused(r)
  /\ rt' = [rt EXCEPT ![r] = NewRuntime(s, rec, NoDevice, "qr")]
  /\ runtimes' = [runtimes EXCEPT ![s] = r]

\* attachExistingRuntime, which finds the device in the container, and the
\* goroutine of connectExisting; readyCh is closed from the start.
AttachExisting(r, s, rec) ==
  /\ Unused(r)
  /\ rec.device \in devices
  /\ rt' = [rt EXCEPT ![r] = [NewRuntime(s, rec, rec.device, "connect")
                                EXCEPT !.ready = TRUE]]
  /\ runtimes' = [runtimes EXCEPT ![s] = r]

\* client.Disconnect: no event, and autoReconnect gives up; a goroutine that
\* has yet to connect is not stopped.
Disconnected(c) ==
  [c EXCEPT !.sock = "closed", !.login = IF @ = "retry" THEN "none" ELSE @]

\* disconnectRuntime, all of it under the lock.
DisconnectRuntime(s) ==
  IF runtimes[s] = None THEN UNCHANGED <<rt, runtimes>>
  ELSE /\ rt' = [rt EXCEPT ![runtimes[s]] = Disconnected(@)]
       /\ runtimes' = [runtimes EXCEPT ![s] = None]

-----------------------------------------------------------------------------
(* API requests.                                                              *)

storeVars == <<rows, devices, owner>>
clientVars == <<runtimes, rt>>
processVars == <<process, boot, kills>>

Goto(q, pc) == req' = [req EXCEPT ![q].pc = pc]
GotoWith(q, pc, rec) == req' = [req EXCEPT ![q].pc = pc, ![q].rec = rec]
Finish(q, pc) == req' = [req EXCEPT ![q] = [NoRequest EXCEPT !.pc = pc]]

\* Shutdown closes the manager before it stops the HTTP server.
Serving == process \in {"up", "closed"}

Begin(q) ==
  /\ Serving
  /\ req[q].pc = "idle"
  /\ \E op \in Ops, s \in Sessions :
       req' = [req EXCEPT ![q] =
                 [NoRequest EXCEPT !.op = op, !.session = s,
                                   !.pc = IF op = "delete" THEN "drop" ELSE "get"]]
  /\ UNCHANGED <<storeVars, clientVars, events, processVars>>

\* sessions.Get, and what each operation asks of the row.
Acceptable(op, row) ==
  CASE op = "create" -> row.state = "absent"
    [] op = "openqr" -> row.state = "live" /\ row.status # "deleted"
    [] OTHER -> row.state # "absent"

AfterGet(op) ==
  CASE op = "create" -> "insert" [] op = "openqr" -> "open"
    [] op = "reconnect" -> "drop" [] OTHER -> "look"

GetRow(q) ==
  /\ req[q].pc = "get"
  /\ LET row == rows[req[q].session]
     IN  IF Acceptable(req[q].op, row)
         THEN GotoWith(q, AfterGet(req[q].op), row)
         ELSE Finish(q, "done")
  /\ UNCHANGED <<storeVars, clientVars, events, processVars>>

\* CreateSession: sessions.Create.
InsertRow(q) ==
  /\ req[q].pc = "insert"
  /\ \E method \in Methods :
       IF rows[req[q].session].state = "absent"
       THEN /\ SetRow(req[q].session, Created(method))
            /\ GotoWith(q, "attach", Created(method))
       ELSE UNCHANGED rows /\ Finish(q, "done")
  /\ UNCHANGED <<devices, owner, clientVars, events, processVars>>

\* isSessionConnected, under the lock.
IsSessionConnected(s, rec) ==
  /\ runtimes[s] # None
  /\ rec.status = "connected" \/ rt[runtimes[s]].sock # "closed"

\* OpenQRCode: refused with ErrSessionConnected, or the code stored is returned
\* unless it has expired, or a new login is set up.
OpenQRCode(q) ==
  /\ req[q].pc = "open"
  /\ IF IsSessionConnected(req[q].session, req[q].rec) THEN Finish(q, "refused")
     ELSE \/ /\ req[q].rec.status = "qr_ready" /\ req[q].rec.qr
             /\ Finish(q, "done")
          \/ Goto(q, "drop")
  /\ UNCHANGED <<storeVars, clientVars, events, processVars>>

AfterDrop(op) ==
  CASE op = "openqr" -> "erase" [] op = "delete" -> "mark" [] OTHER -> "attach"

Drop(q) ==
  /\ req[q].pc = "drop"
  /\ DisconnectRuntime(req[q].session)
  /\ Goto(q, AfterDrop(req[q].op))
  /\ UNCHANGED <<storeVars, events, processVars>>

\* OpenQRCode: deleteStoredDevice, of the device read before.
EraseDevice(q) ==
  /\ req[q].pc = "erase"
  /\ devices' = devices \ {req[q].rec.device}
  /\ Goto(q, "reset")
  /\ UNCHANGED <<rows, owner, clientVars, events, processVars>>

ResetRow(q) ==
  /\ req[q].pc = "reset"
  /\ LET s == req[q].session
     IN  IF rows[s].state = "live"
         THEN /\ SetRow(s, ResetForQRCode(rows[s]))
              /\ GotoWith(q, "attach", ResetForQRCode(rows[s]))
         ELSE UNCHANGED rows /\ Finish(q, "done")
  /\ UNCHANGED <<devices, owner, clientVars, events, processVars>>

\* CreateSession and OpenQRCode start a login; ReconnectSession and
\* ensurePendingRuntime do if the row they read has no device.
StartsLogin(q) ==
  req[q].op \in {"create", "openqr"} \/ req[q].rec.device = NoDevice

\* CreateSession goes on to GeneratePairCode when it was given a phone.
AfterAttach_SameOp(q, r) ==
  CASE req[q].op = "create" ->
         \/ Finish(q, "done")
         \/ req[q].rec.method = "pair_code" /\ Goto(q, "get")
    [] req[q].op = "openqr" -> Finish(q, "done")
    [] req[q].op = "reconnect" -> Goto(q, "update")
    [] OTHER -> req' = [req EXCEPT ![q].pc = "wait", ![q].rt = r]
AfterAttach(q, r) ==
  CASE req[q].op = "create" ->
         \/ Finish(q, "done")
         \/ /\ req[q].rec.method = "pair_code"
            /\ req' = [req EXCEPT ![q].op = "paircode", ![q].pc = "get"]
    [] req[q].op = "openqr" -> Finish(q, "done")
    [] req[q].op = "reconnect" -> Goto(q, "update")
    [] OTHER -> req' = [req EXCEPT ![q].pc = "wait", ![q].rt = r]

Attach(q) ==
  /\ req[q].pc = "attach"
  /\ \E r \in RuntimeIds :
       /\ IF StartsLogin(q) THEN AttachNew(r, req[q].session, req[q].rec)
          ELSE AttachExisting(r, req[q].session, req[q].rec)
       /\ AfterAttach(q, r)
  /\ UNCHANGED <<storeVars, events, processVars>>

\* attachExistingRuntime: device not found.
AttachFails(q) ==
  /\ req[q].pc = "attach"
  /\ ~StartsLogin(q) /\ req[q].rec.device \notin devices
  /\ Finish(q, "done")
  /\ UNCHANGED <<storeVars, clientVars, events, processVars>>

\* ReconnectSession: the last UpdateState; an error of it is ignored.
MarkInitializing(q) ==
  /\ req[q].pc = "update"
  /\ SetRow(req[q].session,
            UpdateState(rows[req[q].session], "initializing", NoDevice, FALSE))
  /\ Finish(q, "done")
  /\ UNCHANGED <<devices, owner, clientVars, events, processVars>>

\* DeleteSession.
MarkRowDeleted(q) ==
  /\ req[q].pc = "mark"
  /\ IF rows[req[q].session].state = "absent" THEN UNCHANGED rows
     ELSE SetRow(req[q].session, MarkDeleted(rows[req[q].session]))
  /\ Finish(q, "done")
  /\ UNCHANGED <<devices, owner, clientVars, events, processVars>>

\* ensurePendingRuntime: the runtime in the map, if there is one.
Look(q) ==
  /\ req[q].pc = "look"
  /\ LET r == runtimes[req[q].session]
     IN  IF r = None THEN Goto(q, "attach")
         ELSE req' = [req EXCEPT ![q].pc = "wait", ![q].rt = r]
  /\ UNCHANGED <<storeVars, clientVars, events, processVars>>

\* GeneratePairCode waits for readyCh, for 20 s.
Ready(q) ==
  /\ req[q].pc = "wait"
  /\ rt[req[q].rt].ready
  /\ Goto(q, "pair")
  /\ UNCHANGED <<storeVars, clientVars, events, processVars>>

WaitTimeout_Never(q) == FALSE /\ q \in Requests /\ UNCHANGED vars
WaitTimeout(q) ==
  /\ req[q].pc = "wait"
  /\ Finish(q, "done")
  /\ UNCHANGED <<storeVars, clientVars, events, processVars>>

\* PairPhone, which asks the server over the socket.
PairPhone(q) ==
  /\ req[q].pc = "pair"
  /\ IF rt[req[q].rt].sock = "closed" THEN Finish(q, "done") ELSE Goto(q, "paired")
  /\ UNCHANGED <<storeVars, clientVars, events, processVars>>

MarkPairing(q) ==
  /\ req[q].pc = "paired"
  /\ SetRow(req[q].session,
            UpdateState(rows[req[q].session], "pairing", NoDevice, FALSE))
  /\ Finish(q, "done")
  /\ UNCHANGED <<devices, owner, clientVars, events, processVars>>

\* The request's context ends, or a call to the database or to WhatsApp fails.
Abort(q) ==
  /\ req[q].pc \in {"get", "insert", "erase", "reset", "update", "mark", "wait",
                    "pair", "paired"}
  /\ Finish(q, "done")
  /\ UNCHANGED <<storeVars, clientVars, events, processVars>>

-----------------------------------------------------------------------------
(* The goroutines of a login.                                                 *)

Change(r, new) == rt' = [rt EXCEPT ![r] = new]

\* startPendingLogin: GetQRChannel, which refuses a client that is connected or
\* has a device.
GetQRChannel(r) ==
  /\ rt[r].login = "qr"
  /\ IF rt[r].sock = "closed" /\ rt[r].device = NoDevice
     THEN /\ Change(r, [rt[r] EXCEPT !.chan = "armed", !.login = "connect"])
          /\ UNCHANGED rows
     ELSE /\ Change(r, [rt[r] EXCEPT !.login = "none"])
          /\ SetSessionError(rt[r].session)
  /\ UNCHANGED <<devices, owner, runtimes, req, events, processVars>>

\* Connect of startPendingLogin and connectExisting.  It knows nothing of a
\* Disconnect that came before it.
Connect(r) ==
  /\ rt[r].login = "connect"
  /\ \/ /\ Change(r, [rt[r] EXCEPT !.sock = "open", !.login = "none"])
        /\ UNCHANGED rows
     \/ /\ Change(r, [rt[r] EXCEPT !.login = "none"])
        /\ SetSessionError(rt[r].session)
  /\ UNCHANGED <<devices, owner, runtimes, req, events, processVars>>

\* consumeQRChannel takes an item.
ReceiveItem(r) ==
  /\ rt[r].items # << >> /\ ~rt[r].writing
  /\ LET c == [rt[r] EXCEPT !.items = Tail(@)]
     IN  IF Head(rt[r].items) = "code"
         THEN /\ Change(r, [c EXCEPT !.ready = TRUE, !.writing = TRUE])
              /\ UNCHANGED rows
         ELSE Change(r, c) /\ SetSessionError(rt[r].session)
  /\ UNCHANGED <<devices, owner, runtimes, req, events, processVars>>

\* consumeQRChannel stores the code, in the row only of a login by QR.
CodeRow_AnyMethod(r) == UpdateState(rows[rt[r].session], "qr_ready", NoDevice, TRUE)
CodeRow(r) ==
  LET byQR == rt[r].method = "qr"
  IN  UpdateState(rows[rt[r].session], IF byQR THEN "qr_ready" ELSE "pairing",
                  NoDevice, byQR)

StoreCode(r) ==
  /\ rt[r].writing
  /\ TrySetRow(rt[r].session, CodeRow(r))
  /\ Change(r, [rt[r] EXCEPT !.writing = FALSE])
  /\ UNCHANGED <<devices, owner, runtimes, req, events, processVars>>

-----------------------------------------------------------------------------
(* The client: the library, the server and the phone.                         *)

CloseChannel(c, item) ==
  IF c.chan \in {"armed", "live"}
  THEN [c EXCEPT !.chan = "closed", !.items = @ \o item] ELSE c

\* The first code once the server sends events.QR, a new one when one expires,
\* even after a Disconnect.  Bound: MaxItems (there are 6, the buffer holds 8).
EmitQR(r) ==
  /\ rt[r].chan = "live" \/ (rt[r].chan = "armed" /\ rt[r].sock = "open")
  /\ Len(rt[r].items) < MaxItems
  /\ Change(r, [rt[r] EXCEPT !.chan = "live", !.items = Append(@, "code")])
  /\ UNCHANGED <<storeVars, runtimes, req, events, processVars>>

QRRunsOut(r) ==
  /\ rt[r].chan = "live"
  /\ Change(r, Disconnected(CloseChannel(rt[r], <<"failure">>)))
  /\ UNCHANGED <<storeVars, runtimes, req, events, processVars>>

\* The phone scans the code or types the pairing code: a new device is stored,
\* the QR channel ends, and the client reconnects (stream error 515).
Pair(r) ==
  /\ rt[r].sock = "open" /\ rt[r].device = NoDevice /\ rt[r].chan = "live"
  /\ \E d \in Devices :
       /\ owner[d] = NoSession
       /\ \A b \in Devices : b < d => owner[b] # NoSession
       /\ owner' = [owner EXCEPT ![d] = rt[r].session]
       /\ devices' = devices \cup {d}
       /\ Change(r, CloseChannel([rt[r] EXCEPT !.device = d, !.login = "relogin"],
                                 << >>))
  /\ UNCHANGED <<rows, runtimes, req, events, processVars>>

\* The reconnect after pairing, which undoes a Disconnect made in between.
Relogin(r) ==
  /\ rt[r].login = "relogin"
  /\ \E sock \in {"open", "closed"} :
       Change(r, [rt[r] EXCEPT !.sock = sock, !.login = "none"])
  /\ UNCHANGED <<storeVars, runtimes, req, events, processVars>>

\* go dispatchEvent.  Bound: MaxEvents handlers, alike ones once.
Dispatch(r, kind) ==
  LET e == [rt |-> r, kind |-> kind, pc |-> "check",
            mapped |-> runtimes[rt[r].session] = r]
  IN  /\ e \notin events /\ Cardinality(events) < MaxEvents
      /\ events' = events \cup {e}

\* The server accepts the device.
Authenticate(r) ==
  /\ rt[r].sock = "open" /\ rt[r].device # NoDevice /\ rt[r].login = "none"
  /\ Change(r, [rt[r] EXCEPT !.sock = "authed"])
  /\ Dispatch(r, "Connected")
  /\ UNCHANGED <<storeVars, runtimes, req, processVars>>

\* The connection is lost: onDisconnect, and autoReconnect for a linked device.
Lose(r) ==
  /\ rt[r].sock # "closed" /\ rt[r].login = "none"
  /\ Change(r, [CloseChannel(rt[r], <<"failure">>) EXCEPT !.sock = "closed",
                  !.login = IF rt[r].device = NoDevice THEN "none" ELSE "retry"])
  /\ Dispatch(r, "Disconnected")
  /\ UNCHANGED <<storeVars, runtimes, req, processVars>>

AutoReconnect(r) ==
  /\ rt[r].login = "retry"
  /\ Change(r, [rt[r] EXCEPT !.sock = "open", !.login = "none"])
  /\ UNCHANGED <<storeVars, runtimes, req, events, processVars>>

\* The phone unlinks the device, or the server refuses it: it is deleted here.
LogOut(r) ==
  /\ rt[r].sock # "closed" /\ rt[r].device # NoDevice /\ rt[r].login = "none"
  /\ devices' = devices \ {rt[r].device}
  /\ Change(r, [rt[r] EXCEPT !.sock = "closed", !.device = NoDevice])
  /\ Dispatch(r, "LoggedOut")
  /\ UNCHANGED <<rows, owner, runtimes, req, processVars>>

-----------------------------------------------------------------------------
(* handleEvent: first the check, then what the event does.                    *)

IsCurrent_Always(e) == TRUE
IsCurrent(e) == runtimes[rt[e.rt].session] = e.rt

HandlerStep(e, then) == events' = (events \ {e}) \cup then

CheckEvent(e) ==
  /\ e \in events /\ e.pc = "check"
  /\ HandlerStep(e, IF IsCurrent(e) THEN {[e EXCEPT !.pc = "write"]} ELSE {})
  /\ UNCHANGED <<storeVars, clientVars, req, processVars>>

EventRow(e) ==
  LET row == rows[rt[e.rt].session]
  IN  CASE e.kind = "Connected" ->
             UpdateState(row, "connected", rt[e.rt].device, FALSE)
        [] e.kind = "Disconnected" ->
             UpdateState(row, "disconnected", NoDevice, FALSE)
        [] e.kind = "LoggedOut" -> UpdateState(row, "logged_out", NoDevice, FALSE)

WriteEvent(e) ==
  /\ e \in events /\ e.pc = "write"
  /\ TrySetRow(rt[e.rt].session, EventRow(e))
  /\ HandlerStep(e, IF e.kind = "LoggedOut" THEN {[e EXCEPT !.pc = "forget"]} ELSE {})
  /\ UNCHANGED <<devices, owner, clientVars, req, processVars>>

\* LoggedOut: delete(m.runtimes, sessionID), whichever runtime is there now.
ForgetRuntime(e) ==
  /\ e \in events /\ e.pc = "forget"
  /\ runtimes' = [runtimes EXCEPT ![rt[e.rt].session] = None]
  /\ HandlerStep(e, {})
  /\ UNCHANGED <<storeVars, rt, req, processVars>>

-----------------------------------------------------------------------------
(* The process: Rehydrate, then the API; and its end.                         *)

ToRehydrate(row) ==
  IsListed(row) /\ row.device # NoDevice /\ row.status # "deleted"

\* Rehydrate: sessions.List.
Start ==
  /\ process = "down"
  /\ process' = "booting"
  /\ boot' = [s \in Sessions |-> IF ToRehydrate(rows[s]) THEN rows[s] ELSE NoRow]
  /\ UNCHANGED <<storeVars, clientVars, req, events, kills>>

\* One record of the list; an error is logged and the next one taken.
Rehydrate(s) ==
  /\ process = "booting" /\ boot[s] # NoRow
  /\ boot' = [boot EXCEPT ![s] = NoRow]
  /\ \/ \E r \in RuntimeIds : AttachExisting(r, s, boot[s])
     \/ UNCHANGED clientVars
  /\ UNCHANGED <<storeVars, req, events, process, kills>>

Serve ==
  /\ process = "booting"
  /\ \A s \in Sessions : boot[s] = NoRow
  /\ process' = "up"
  /\ UNCHANGED <<storeVars, clientVars, req, events, boot, kills>>

\* Close, all of it under the lock; requests and logins go on until the process
\* ends, which waits for neither.
CloseManager ==
  /\ process = "up"
  /\ process' = "closed"
  /\ rt' = [r \in RuntimeIds |->
              IF \E s \in Sessions : runtimes[s] = r THEN Disconnected(rt[r])
              ELSE rt[r]]
  /\ runtimes' = [s \in Sessions |-> None]
  /\ UNCHANGED <<storeVars, req, events, boot, kills>>

\* The process ends between two steps; the tables and the devices remain.
Kill ==
  /\ process # "down"
  /\ kills < MaxKills
  /\ kills' = kills + 1
  /\ process' = "down"
  /\ boot' = [s \in Sessions |-> NoRow]
  /\ runtimes' = [s \in Sessions |-> None]
  /\ rt' = [r \in RuntimeIds |-> NoRuntime]
  /\ events' = {}
  /\ req' = [q \in Requests |-> IF req[q].pc = "idle" THEN req[q]
                                ELSE [NoRequest EXCEPT !.pc = "done"]]
  /\ UNCHANGED storeVars

-----------------------------------------------------------------------------
Handle(q) ==
  \/ GetRow(q) \/ InsertRow(q) \/ OpenQRCode(q) \/ Drop(q) \/ EraseDevice(q)
  \/ ResetRow(q) \/ Attach(q) \/ AttachFails(q) \/ MarkInitializing(q)
  \/ MarkRowDeleted(q) \/ Look(q) \/ Ready(q) \/ WaitTimeout(q) \/ PairPhone(q)
  \/ MarkPairing(q)

Login(r) == GetQRChannel(r) \/ Connect(r) \/ ReceiveItem(r) \/ StoreCode(r)

Client(r) ==
  \/ EmitQR(r) \/ QRRunsOut(r) \/ Pair(r) \/ Relogin(r) \/ Authenticate(r)
  \/ Lose(r) \/ AutoReconnect(r) \/ LogOut(r)

Handler(e) == CheckEvent(e) \/ WriteEvent(e) \/ ForgetRuntime(e)

Next ==
  \/ \E q \in Requests : Begin(q) \/ Handle(q) \/ Abort(q)
  \/ \E r \in RuntimeIds : Login(r) \/ Client(r)
  \/ \E e \in events : Handler(e)
  \/ Start \/ (\E s \in Sessions : Rehydrate(s)) \/ Serve \/ CloseManager \/ Kill

Spec == Init /\ [][Next]_vars

\* Every request runs in a goroutine of its own, its database calls return and
\* its waits are bounded; the process goes on.
FairSpec == Spec /\ \A q \in Requests : WF_vars(Handle(q))

-----------------------------------------------------------------------------
(* Properties.                                                                *)

\* The row shows a QR code exactly while it says qr_ready, and only in a session
\* that logs in by QR: although codes are stored by goroutines that nothing
\* stops, under the login method they captured (manager.go:776, 787).
QRShownInQRMode ==
  \A s \in Sessions :
    /\ rows[s].qr <=> rows[s].status = "qr_ready"
    /\ rows[s].qr => rows[s].method = "qr"

\* An event acts on the session only if its client was the current one when it
\* was dispatched: what a replaced or disconnected client reports late is
\* dropped, although the check and the write are two steps (manager.go:815).
GhostEventsIgnored == \A e \in events : e.pc # "check" => e.mapped

\* Rehydrate brings up no deleted session, although late writes of handlers and
\* logins overwrite the status 'deleted' (session_repo.go:122).
BootSkipsDeleted ==
  process = "booting" =>
    \A s \in Sessions : runtimes[s] # None => rows[s].state = "live"

\* A consequence of KeepsLife, below: the device a row names, and the one a
\* client runs with, was linked by that session: no interleaving of logins, restarts and late events gives a session
\* the WhatsApp account of another.
DeviceOwnership ==
  /\ \A s \in Sessions : rows[s].device # NoDevice => owner[rows[s].device] = s
  /\ \A r \in RuntimeIds :
       rt[r].device # NoDevice => owner[rt[r].device] = rt[r].session

\* Another one: a session id that was deleted is never used again, whichever
\* requests raced with the deletion.
DeletedIsFinal ==
  [][\A s \in Sessions :
       rows[s].state = "deleted" => rows'[s].state = "deleted"]_vars

\* The accounts in use by the clients of this life of the process.
InUse == {<<rt[r].session, rt[r].device>> :
            r \in {p \in RuntimeIds : rt[p].device # NoDevice}}

\* What the row of each session says of its life.
LifeOf == [s \in Sessions |-> rows[s].state]
ModeOf == [s \in Sessions |->
             IF rows[s].state = "absent" THEN "none" ELSE rows[s].method]
AccountOf == [s \in Sessions |-> rows[s].device]
CodeOf == [s \in Sessions |-> rows[s].qr]

\* The rows, the devices linked and the clients behave as the life of a session
\* is promised to: in particular no late UpdateState forgets the account of a
\* session (session_repo.go:117), brings a deleted one back, or gives an account
\* to one that was never created, and no client runs with the account of
\* another session.
Life == INSTANCE SessionLife WITH
  Accounts <- Devices, Nobody <- NoSession, NoAccount <- NoDevice,
  life <- LifeOf, mode <- ModeOf, account <- AccountOf, code <- CodeOf,
  linked <- owner, clients <- InUse
KeepsLife == Life!Spec

\* Every request is answered, the wait for a login that shows no code included.
Answered(q) == req[q].pc \in {"done", "refused"}
RequestsFinish ==
  \A q \in Requests : Running(q) ~> Answered(q)

\* How far a request is from its answer, at most.
Place == [idle |-> 40, get |-> 12, insert |-> 11, open |-> 11, look |-> 11,
          drop |-> 10, erase |-> 9, reset |-> 8, attach |-> 7, update |-> 6,
          mark |-> 6, wait |-> 6, pair |-> 5, paired |-> 4, refused |-> 1, done |-> 0]
Rank(q) == Place[req[q].pc] + (IF req[q].op = "create" THEN 20 ELSE 0)

\* Whatever else goes on, each step of a request brings it nearer to its answer,
\* CreateSession going on to GeneratePairCode included (manager.go:219): none
\* tries again, and none is answered twice.
RequestAdvances ==
  [][\A q \in Requests : req'[q] # req[q] => Rank(q)' < Rank(q)]_vars

\* What TestManagerOpenQRCodeReturnsExistingActiveQR (manager_test.go:215)
\* expects: a request for the QR code of a session that shows one gets it.
OpenReturnsActiveQR ==
  [][\A q \in Requests :
       req[q].pc = "open" /\ req'[q].pc = "refused"
         => ~(req[q].rec.status = "qr_ready" /\ req[q].rec.qr)]_vars

-----------------------------------------------------------------------------
(* Why these hold, as an inductive invariant.                                 *)

RuntimeInv ==
  \A r \in RuntimeIds : rt[r].session = NoSession => rt[r] = NoRuntime

\* A login by QR, and a row read on the way to one, belong to a session whose
\* method is QR, and no row goes back from that to a pairing code.
ByQR(row) == row.state # "absent" /\ row.method = "qr"

KnowsRow(q) ==
  \/ req[q].pc \in {"open", "look", "attach", "update", "wait", "pair", "paired"}
  \/ req[q].pc = "drop" /\ req[q].op # "delete"

QRMethodInv ==
  /\ \A r \in RuntimeIds :
       rt[r].session # NoSession /\ rt[r].method = "qr" => ByQR(rows[rt[r].session])
  /\ \A q \in Requests :
       /\ ByQR(req[q].rec) => /\ req[q].session \in Sessions
                              /\ ByQR(rows[req[q].session])
       /\ KnowsRow(q) => req[q].rec.state # "absent"
  /\ \A s \in Sessions : ByQR(boot[s]) => ByQR(rows[s])

\* Whoever writes a row by its id, or will, has seen it there: no UPDATE runs
\* for a session that was never created.
ExistsInv ==
  /\ \A s \in Sessions : rows[s].state = "absent" => rows[s] = NoRow
  /\ \A r \in RuntimeIds :
       rt[r].session # NoSession => rows[rt[r].session].state # "absent"
  /\ \A q \in Requests :
       req[q].rec.state # "absent" => /\ req[q].session \in Sessions
                                     /\ rows[req[q].session].state # "absent"

\* A handler's client never becomes current again.
EventInv ==
  \A e \in events :
    /\ rt[e.rt].session # NoSession
    /\ e.pc # "check" => e.mapped
    /\ runtimes[rt[e.rt].session] = e.rt => e.mapped

\* Every copy of a device names the session that linked it.
Owned(device, s) == device # NoDevice => s \in Sessions /\ owner[device] = s

OwnerInv ==
  /\ \A s \in Sessions : Owned(rows[s].device, s) /\ Owned(boot[s].device, s)
  /\ \A q \in Requests : Owned(req[q].rec.device, req[q].session)
  /\ \A r \in RuntimeIds : Owned(rt[r].device, rt[r].session)

\* Requests start when Rehydrate has ended, and only they delete.
BootInv ==
  /\ ~Serving => \A q \in Requests : ~Running(q)
  /\ process = "down" => \A s \in Sessions : runtimes[s] = None
  /\ process # "booting" => \A s \in Sessions : boot[s] = NoRow
  /\ \A s \in Sessions : boot[s] # NoRow => boot[s].state = "live"
  /\ process = "booting" =>
       \A s \in Sessions : runtimes[s] # None \/ boot[s] # NoRow
                            => rows[s].state = "live"

\* Nothing of a request is left when it has returned.
AnsweredInv ==
  \A q \in Requests : req[q].pc = "done" => req[q] = [NoRequest EXCEPT !.pc = "done"]

IInv == /\ TypeOK /\ RuntimeInv /\ QRShownInQRMode /\ QRMethodInv
        /\ ExistsInv /\ EventInv /\ OwnerInv /\ BootInv
=============================================================================
