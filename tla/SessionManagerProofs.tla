----------------------- MODULE SessionManagerProofs -----------------------
(* Theorems of SessionManager, for any number of sessions, requests, devices  *)
(* and runtimes, any set of operations and any number of kills.               *)
EXTENDS SessionManager, TLAPS

\* The statements of session_repo.go give well-typed rows.
LEMMA StoreTypes ==
  /\ NoRow \in Row
  /\ \A m \in Methods : Created(m) \in Row
  /\ \A d \in Devices : Linked(d) \in Row
  /\ \A row \in Row : /\ ResetForQRCode(row) \in Row /\ MarkDeleted(row) \in Row
                      /\ \A status \in Statuses, d \in Devices \cup {NoDevice},
                            qr \in BOOLEAN :
                           UpdateState(row, status, d, qr) \in Row
<1>1. NoRow \in Row
  BY DEF NoRow, Row, Methods, Statuses
<1>2. ASSUME NEW m \in Methods PROVE Created(m) \in Row
  BY <1>1 DEF Created, Row
<1>3. ASSUME NEW d \in Devices PROVE Linked(d) \in Row
  BY <1>2 DEF Linked, Row, Methods, Statuses
<1>4. ASSUME NEW row \in Row
      PROVE  ResetForQRCode(row) \in Row /\ MarkDeleted(row) \in Row
  BY DEF ResetForQRCode, MarkDeleted, Row, Methods, Statuses
<1>5. ASSUME NEW row \in Row, NEW status \in Statuses,
             NEW d \in Devices \cup {NoDevice}, NEW qr \in BOOLEAN
      PROVE  UpdateState(row, status, d, qr) \in Row
  BY DEF UpdateState, Row
<1> QED
  BY <1>1, <1>2, <1>3, <1>4, <1>5

\* A row, column by column.
Columns(row, state, method, status, device, qr) ==
  /\ row.state = state /\ row.method = method /\ row.status = status
  /\ row.device = device /\ row.qr = qr

\* sessions.Create: every column.
LEMMA CreatedColumns ==
  \A m \in Methods : Columns(Created(m), "live", m, "initializing", NoDevice, FALSE)
  BY DEF Columns, Created, NoRow

\* ResetForQRCode: method, status, device and code, not the state.
LEMMA ResetColumns ==
  \A row \in Row :
    Columns(ResetForQRCode(row), row.state, "qr", "initializing", NoDevice, FALSE)
  BY DEF Columns, ResetForQRCode, Row

\* MarkDeleted: state, status and code.
LEMMA DeletedColumns ==
  \A row \in Row :
    Columns(MarkDeleted(row), "deleted", row.method, "deleted", row.device, FALSE)
  BY DEF Columns, MarkDeleted, Row

\* UpdateState: status, code, and the device if there is one.
LEMMA UpdateColumns ==
  \A row \in Row, status \in Statuses, device \in Devices \cup {NoDevice} :
    LET kept == IF device = NoDevice THEN row.device ELSE device
    IN  Columns(UpdateState(row, status, device, FALSE), row.state, row.method,
                status, kept, FALSE)
  BY DEF Columns, UpdateState, Row

\* UpdateState with a code.
LEMMA CodeColumns ==
  \A row \in Row :
    Columns(UpdateState(row, "qr_ready", NoDevice, TRUE), row.state, row.method,
            "qr_ready", row.device, TRUE)
  BY DEF Columns, UpdateState, Row

\* The empty slots of the runtimes and of the requests are well typed.
LEMMA NoneTypes == NoRuntime \in Runtime /\ NoRequest \in Request
<1>1. << >> \in Seq({"code", "failure"})
  OBVIOUS
<1> QED
  BY <1>1, StoreTypes DEF NoRuntime, Runtime, NoRequest, Request, Methods, None

\* An UPDATE leaves a well-typed table.
LEMMA UpdateType ==
  ASSUME TypeOK, NEW s \in Sessions \cup {NoSession},
         NEW status \in Statuses, NEW d \in Devices \cup {NoDevice}, NEW qr \in BOOLEAN,
         TrySetRow(s, UpdateState(rows[s], status, d, qr))
  PROVE  rows' \in [Sessions -> Row]
<1>1. CASE s \in Sessions
  <2>1. UpdateState(rows[s], status, d, qr) \in Row
    BY <1>1, StoreTypes DEF TypeOK
  <2> QED
    BY <2>1 DEF TypeOK, TrySetRow, SetRow
<1>2. CASE s \notin Sessions
  BY <1>2 DEF TypeOK, TrySetRow, SetRow
<1> QED
  BY <1>1, <1>2

\* setSessionError leaves a well-typed table.
LEMMA ErrorType ==
  ASSUME TypeOK, NEW s \in Sessions \cup {NoSession}, SetSessionError(s)
  PROVE  rows' \in [Sessions -> Row]
  BY UpdateType DEF SetSessionError, Statuses

\* Whatever tables an earlier life of the process left are well typed.
LEMMA TypeInit == Init => TypeOK
<1> SUFFICES ASSUME Init PROVE TypeOK
  OBVIOUS
<1>1. /\ rows \in [Sessions -> Row]
      /\ devices \in SUBSET Devices
      /\ owner \in [Devices -> Sessions \cup {NoSession}]
  <2> PICK deviceOf \in [Sessions -> Devices \cup {NoDevice}],
           unlinked \in [Sessions -> {NoRow} \cup {Created(m) : m \in Methods}] :
        /\ rows = [s \in Sessions |-> IF deviceOf[s] = NoDevice THEN unlinked[s]
                                      ELSE Linked(deviceOf[s])]
        /\ devices = {deviceOf[s] : s \in Sessions} \ {NoDevice}
        /\ owner = [d \in Devices |-> IF d \notin devices THEN NoSession
                                       ELSE CHOOSE s \in Sessions : deviceOf[s] = d]
    BY DEF Init
  <2>1. ASSUME NEW s \in Sessions
        PROVE  unlinked[s] \in Row /\ (deviceOf[s] # NoDevice => Linked(deviceOf[s]) \in Row)
    BY StoreTypes
  <2>2. ASSUME NEW d \in Devices PROVE owner[d] \in Sessions \cup {NoSession}
    OBVIOUS
  <2> QED
    BY <2>1, <2>2
<1>2. 0 \in 0..MaxKills
  BY BoundsAssumption
<1>3. {} \subseteq Event
  OBVIOUS
<1> QED
  BY <1>1, <1>2, <1>3, StoreTypes, NoneTypes DEF Init, TypeOK, Running, NoRequest

\* The part of TypeOK that speaks of the requests.
RequestsOK ==
  /\ req \in [Requests -> Request]
  /\ \A q \in Requests : Running(q) =>
       req[q].op \in Operations /\ req[q].session \in Sessions

\* Replacing one request, by one that has returned or that has an operation and
\* a session.
LEMMA PutRequest ==
  ASSUME TypeOK, NEW q \in Requests, NEW new \in Request,
         req' = [req EXCEPT ![q] = new],
         new.pc \in {"refused", "done"}
           \/ (new.op \in Operations /\ new.session \in Sessions)
  PROVE  RequestsOK'
  BY DEF TypeOK, RequestsOK, Running

\* ensurePendingRuntime: the request waits for a runtime from here on.
LEMMA WaitType ==
  ASSUME TypeOK, NEW q \in Requests, Running(q),
         NEW r \in RuntimeIds \cup {None},
         req' = [req EXCEPT ![q].pc = "wait", ![q].rt = r]
  PROVE  RequestsOK'
<1>1. req[q] \in Request /\ req[q].op \in Operations /\ req[q].session \in Sessions
  BY DEF TypeOK
<1> DEFINE new == [req[q] EXCEPT !.pc = "wait", !.rt = r]
<1>2. new \in Request /\ new.op = req[q].op /\ new.session = req[q].session
  BY <1>1 DEF Request
<1>3. req' = [req EXCEPT ![q] = new]
  BY <1>1 DEF TypeOK, Request
<1> HIDE DEF new
<1> QED
  BY <1>1, <1>2, <1>3, PutRequest

\* CreateSession goes on to GeneratePairCode.
LEMMA PairCodeType ==
  ASSUME TypeOK, NEW q \in Requests, Running(q),
         req' = [req EXCEPT ![q].op = "paircode", ![q].pc = "get"]
  PROVE  RequestsOK'
<1>1. req[q] \in Request /\ req[q].session \in Sessions
  BY DEF TypeOK
<1> DEFINE new == [req[q] EXCEPT !.op = "paircode", !.pc = "get"]
<1>2. new \in Request /\ new.op = "paircode" /\ new.session = req[q].session
  BY <1>1 DEF Request, Operations
<1>3. req' = [req EXCEPT ![q] = new]
  BY <1>1 DEF TypeOK, Request
<1> HIDE DEF new
<1> QED
  BY <1>1, <1>2, <1>3, PutRequest DEF Operations

\* A running request that goes on or returns stays well typed.
LEMMA RequestType ==
  ASSUME TypeOK, NEW q \in Requests, Running(q)
  PROVE  /\ req[q] \in Request
         /\ req[q].op \in Operations
         /\ req[q].session \in Sessions /\ req[q].rec \in Row
         /\ \A pc \in {"get", "insert", "attach", "open", "drop", "erase", "reset",
                       "update", "mark", "look", "wait", "pair", "paired"} :
              /\ Goto(q, pc) => RequestsOK'
              /\ \A rec \in Row : GotoWith(q, pc, rec) => RequestsOK'
         /\ \A pc \in {"refused", "done"} : Finish(q, pc) => RequestsOK'
<1>1. req[q] \in Request
  BY DEF TypeOK
<1>2. /\ req[q].op \in Operations /\ req[q].session \in Sessions
      /\ req[q].rec \in Row
  BY <1>1 DEF TypeOK, Request
<1>4. ASSUME NEW pc \in {"get", "insert", "attach", "open", "drop", "erase", "reset",
                         "update", "mark", "look", "wait", "pair", "paired"},
             NEW rec \in Row
      PROVE  /\ Goto(q, pc) => RequestsOK'
             /\ GotoWith(q, pc, rec) => RequestsOK'
  <2>1. /\ [req[q] EXCEPT !.pc = pc] \in Request
        /\ [req[q] EXCEPT !.pc = pc, !.rec = rec] \in Request
    BY <1>1 DEF Request
  <2>2. /\ [req[q] EXCEPT !.pc = pc].op = req[q].op
        /\ [req[q] EXCEPT !.pc = pc].session = req[q].session
        /\ [req[q] EXCEPT !.pc = pc, !.rec = rec].op = req[q].op
        /\ [req[q] EXCEPT !.pc = pc, !.rec = rec].session = req[q].session
    BY <1>1 DEF Request
  <2>3. Goto(q, pc) => req' = [req EXCEPT ![q] = [req[q] EXCEPT !.pc = pc]]
    BY DEF Goto, TypeOK
  <2>4. GotoWith(q, pc, rec) =>
          req' = [req EXCEPT ![q] = [req[q] EXCEPT !.pc = pc, !.rec = rec]]
    BY <1>1 DEF GotoWith, TypeOK, Request
  <2> QED
    BY <1>2, PutRequest, <2>1, <2>2, <2>3, <2>4
<1>5. ASSUME NEW pc \in {"refused", "done"}
      PROVE  Finish(q, pc) => RequestsOK'
  <2>1. /\ [NoRequest EXCEPT !.pc = pc] \in Request
        /\ [NoRequest EXCEPT !.pc = pc].pc = pc
    BY NoneTypes DEF Request
  <2> QED
    BY PutRequest, <2>1 DEF Finish
<1>6. \E rec \in Row : TRUE
  BY StoreTypes
<1> QED
  BY <1>1, <1>2, <1>4, <1>5, <1>6

\* attachNewRuntime and attachExistingRuntime put a well-typed runtime in place.
LEMMA AttachType ==
  ASSUME TypeOK, NEW r \in RuntimeIds, NEW s \in Sessions, NEW rec \in Row,
         AttachNew(r, s, rec) \/ AttachExisting(r, s, rec)
  PROVE  /\ rt' \in [RuntimeIds -> Runtime]
         /\ runtimes' \in [Sessions -> RuntimeIds \cup {None}]
<1>1. rec.method \in Methods /\ rec.device \in Devices \cup {NoDevice}
  BY DEF Row
<1>2. NewRuntime(s, rec, NoDevice, "qr") \in Runtime
  BY <1>1, NoneTypes DEF NewRuntime, Runtime
<1>3. [NewRuntime(s, rec, rec.device, "connect") EXCEPT !.ready = TRUE] \in Runtime
  BY <1>1, NoneTypes DEF NewRuntime, Runtime
<1> QED
  BY <1>2, <1>3 DEF TypeOK, AttachNew, AttachExisting

\* What a client becomes when it is disconnected or its QR channel ends.
LEMMA ClientType ==
  ASSUME TypeOK, NEW r \in RuntimeIds
  PROVE  /\ rt[r] \in Runtime
         /\ \A c \in Runtime : /\ Disconnected(c) \in Runtime
                               /\ CloseChannel(c, << >>) \in Runtime
                               /\ CloseChannel(c, <<"failure">>) \in Runtime
                               /\ Change(r, c) => rt' \in [RuntimeIds -> Runtime]
<1>1. rt[r] \in Runtime
  BY DEF TypeOK
<1>2. ASSUME NEW c \in Runtime
      PROVE  /\ Disconnected(c) \in Runtime
             /\ Change(r, c) => rt' \in [RuntimeIds -> Runtime]
  <2> DEFINE login == IF c.login = "retry" THEN "none" ELSE c.login
  <2>1. Disconnected(c) = [c EXCEPT !.sock = "closed", !.login = login]
    BY DEF Disconnected
  <2>2. login \in {"none", "qr", "connect", "relogin", "retry"}
    BY DEF Runtime
  <2> HIDE DEF login
  <2>3. Disconnected(c) \in Runtime
    BY <2>1, <2>2 DEF Runtime
  <2>4. Change(r, c) => rt' \in [RuntimeIds -> Runtime]
    BY DEF TypeOK, Change
  <2> QED
    BY <2>3, <2>4
<1>3. ASSUME NEW c \in Runtime, NEW item \in Seq({"code", "failure"})
      PROVE  CloseChannel(c, item) \in Runtime
  <2>1. c.items \o item \in Seq({"code", "failure"})
    BY DEF Runtime
  <2> QED
    BY <2>1 DEF CloseChannel, Runtime
<1>4. << >> \in Seq({"code", "failure"}) /\ <<"failure">> \in Seq({"code", "failure"})
  OBVIOUS
<1> QED
  BY <1>1, <1>2, <1>3, <1>4

\* The requests keep the type invariant.
LEMMA TypeRequest ==
  ASSUME TypeOK, NEW q \in Requests, Begin(q) \/ Handle(q) \/ Abort(q)
  PROVE  TypeOK'
<1> USE DEF storeVars, clientVars, processVars
<1>0. ASSUME Running(q)
      PROVE  req[q].session \in Sessions /\ req[q].rec \in Row
  BY <1>0, RequestType
<1>1. ASSUME Begin(q) PROVE TypeOK'
  <2> PICK op \in Ops, s \in Sessions :
        req' = [req EXCEPT ![q] =
                 [NoRequest EXCEPT !.op = op, !.session = s,
                                   !.pc = IF op = "delete" THEN "drop" ELSE "get"]]
    BY <1>1 DEF Begin
  <2> DEFINE new == [NoRequest EXCEPT !.op = op, !.session = s,
                                   !.pc = IF op = "delete" THEN "drop" ELSE "get"]
  <2>1. op \in Operations
    BY OpsAssumption
  <2>2. new \in Request /\ new.op = op /\ new.session = s
    BY <2>1, NoneTypes DEF Request
  <2>3. RequestsOK'
    BY <2>1, <2>2 DEF RequestsOK, TypeOK, Running
  <2> QED
    BY <1>1, <2>3 DEF Begin, TypeOK, RequestsOK, Running
<1> USE DEF RequestsOK
<1>2. ASSUME GetRow(q) PROVE TypeOK'
  BY <1>2, RequestType DEF GetRow, TypeOK, AfterGet, Running
<1>3. ASSUME InsertRow(q) PROVE TypeOK'
  BY <1>3, RequestType, StoreTypes DEF InsertRow, SetRow, TypeOK, Running
<1>4. ASSUME OpenQRCode(q) PROVE TypeOK'
  BY <1>4, RequestType DEF OpenQRCode, TypeOK, Running
<1>5. ASSUME Drop(q) PROVE TypeOK'
  <2>1. RequestsOK'
    BY <1>5, RequestType DEF Drop, AfterDrop, Running
  <2>2. /\ rt' \in [RuntimeIds -> Runtime]
        /\ runtimes' \in [Sessions -> RuntimeIds \cup {None}]
    BY <1>5, <1>0, ClientType DEF Drop, DisconnectRuntime, TypeOK, Running
  <2> QED
    BY <1>5, <2>1, <2>2 DEF Drop, TypeOK
<1>6. ASSUME EraseDevice(q) PROVE TypeOK'
  BY <1>6, RequestType DEF EraseDevice, TypeOK, Running
<1>7. ASSUME ResetRow(q) PROVE TypeOK'
  BY <1>7, RequestType, StoreTypes DEF ResetRow, SetRow, TypeOK, Running
<1>8. ASSUME Attach(q) PROVE TypeOK'
  <2> PICK r \in RuntimeIds :
        /\ \/ AttachNew(r, req[q].session, req[q].rec)
           \/ AttachExisting(r, req[q].session, req[q].rec)
        /\ AfterAttach(q, r)
    BY <1>8 DEF Attach
  <2>0. Running(q) /\ req[q] \in Request
    BY <1>8 DEF Attach, Running, TypeOK
  <2>1. /\ rt' \in [RuntimeIds -> Runtime]
        /\ runtimes' \in [Sessions -> RuntimeIds \cup {None}]
    BY <2>0, <1>0, AttachType
  <2>2. \/ Finish(q, "done") \/ Goto(q, "update")
        \/ req' = [req EXCEPT ![q].op = "paircode", ![q].pc = "get"]
        \/ req' = [req EXCEPT ![q].pc = "wait", ![q].rt = r]
    BY DEF AfterAttach
  <2>3. RequestsOK'
    <3> HIDE DEF RequestsOK
    <3>1. /\ Finish(q, "done") => RequestsOK'
          /\ Goto(q, "update") => RequestsOK'
      BY <2>0, RequestType
    <3> QED BY <2>0, <2>2, <3>1, PairCodeType, WaitType
  <2> QED
    BY <1>8, <2>1, <2>3 DEF Attach, TypeOK
<1>9. ASSUME AttachFails(q) PROVE TypeOK'
  BY <1>9, RequestType DEF AttachFails, TypeOK, Running
<1>10. ASSUME MarkInitializing(q) PROVE TypeOK'
  BY <1>10, RequestType, UpdateType DEF MarkInitializing, TrySetRow, TypeOK, Statuses, Running
<1>11. ASSUME MarkRowDeleted(q) PROVE TypeOK'
  BY <1>11, RequestType, StoreTypes DEF MarkRowDeleted, SetRow, TypeOK, Running
<1>12. ASSUME Look(q) PROVE TypeOK'
  <2>0. Running(q) /\ req[q] \in Request
    BY <1>12 DEF Look, Running, TypeOK
  <2>1. runtimes[req[q].session] \in RuntimeIds \cup {None}
    BY <2>0, <1>0 DEF TypeOK
  <2>2. RequestsOK'
    <3> HIDE DEF RequestsOK
    <3>1. Goto(q, "attach") => RequestsOK'
      BY <2>0, RequestType
    <3> QED BY <1>12, <2>0, <2>1, <3>1, WaitType DEF Look
  <2> QED
    BY <1>12, <2>2 DEF Look, TypeOK
<1>13. ASSUME Ready(q) PROVE TypeOK'
  BY <1>13, RequestType DEF Ready, TypeOK, Running
<1>14. ASSUME WaitTimeout(q) \/ Abort(q) PROVE TypeOK'
  BY <1>14, RequestType DEF WaitTimeout, Abort, TypeOK, Running
<1>15. ASSUME PairPhone(q) PROVE TypeOK'
  BY <1>15, RequestType DEF PairPhone, TypeOK, Running
<1>16. ASSUME MarkPairing(q) PROVE TypeOK'
  BY <1>16, RequestType, UpdateType DEF MarkPairing, TrySetRow, TypeOK, Statuses, Running
<1> QED
  BY <1>1, <1>2, <1>3, <1>4, <1>5, <1>6, <1>7, <1>8, <1>9, <1>10, <1>11, <1>12,
     <1>13, <1>14, <1>15, <1>16 DEF Handle

\* So do the goroutines of a login and the client.
LEMMA TypeLogin ==
  ASSUME TypeOK, NEW r \in RuntimeIds, Login(r) \/ Client(r)
  PROVE  TypeOK'
<1> USE DEF storeVars, processVars, Running
<1>0. /\ rt[r] \in Runtime /\ rt[r].session \in Sessions \cup {NoSession}
      /\ rt[r].items \in Seq({"code", "failure"})
  BY ClientType DEF Runtime
<1>1. ASSUME GetQRChannel(r) PROVE TypeOK'
  <2>1. /\ [rt[r] EXCEPT !.chan = "armed", !.login = "connect"] \in Runtime
        /\ [rt[r] EXCEPT !.login = "none"] \in Runtime
    BY <1>0 DEF Runtime
  <2> QED
    BY <1>1, <1>0, <2>1, ClientType, ErrorType DEF GetQRChannel, TypeOK
<1>2. ASSUME Connect(r) PROVE TypeOK'
  <2>1. /\ [rt[r] EXCEPT !.sock = "open", !.login = "none"] \in Runtime
        /\ [rt[r] EXCEPT !.login = "none"] \in Runtime
    BY <1>0 DEF Runtime
  <2> QED
    BY <1>2, <1>0, <2>1, ClientType, ErrorType DEF Connect, TypeOK
<1>3. ASSUME ReceiveItem(r) PROVE TypeOK'
  <2> DEFINE c == [rt[r] EXCEPT !.items = Tail(@)]
  <2>1. Tail(rt[r].items) \in Seq({"code", "failure"})
    BY <1>3, <1>0 DEF ReceiveItem
  <2>2. c \in Runtime /\ [c EXCEPT !.ready = TRUE, !.writing = TRUE] \in Runtime
    BY <1>0, <2>1 DEF Runtime
  <2> HIDE DEF c
  <2>3. /\ Change(r, c) \/ Change(r, [c EXCEPT !.ready = TRUE, !.writing = TRUE])
        /\ UNCHANGED rows \/ SetSessionError(rt[r].session)
    BY <1>3 DEF ReceiveItem, c
  <2> QED
    BY <1>3, <1>0, <2>2, <2>3, ClientType, ErrorType DEF ReceiveItem, TypeOK
<1>4. ASSUME StoreCode(r) PROVE TypeOK'
  BY <1>4, <1>0, UpdateType DEF StoreCode, CodeRow, Change, TypeOK, Runtime, Statuses
<1>5. ASSUME EmitQR(r) PROVE TypeOK'
  <2>1. Append(rt[r].items, "code") \in Seq({"code", "failure"})
    BY <1>0
  <2>2. [rt[r] EXCEPT !.chan = "live", !.items = Append(@, "code")] \in Runtime
    BY <1>0, <2>1 DEF Runtime
  <2> QED
    BY <1>5, <2>2, ClientType DEF EmitQR, TypeOK
<1>6. ASSUME QRRunsOut(r) PROVE TypeOK'
  BY <1>6, ClientType DEF QRRunsOut, TypeOK
<1>7. ASSUME Pair(r) PROVE TypeOK'
  <2> PICK d \in Devices :
        /\ owner' = [owner EXCEPT ![d] = rt[r].session]
        /\ devices' = devices \cup {d}
        /\ Change(r, CloseChannel([rt[r] EXCEPT !.device = d, !.login = "relogin"],
                                  << >>))
    BY <1>7 DEF Pair
  <2>1. [rt[r] EXCEPT !.device = d, !.login = "relogin"] \in Runtime
    BY <1>0 DEF Runtime
  <2> QED
    BY <1>7, <1>0, <2>1, ClientType DEF Pair, TypeOK
<1>8. ASSUME Relogin(r) PROVE TypeOK'
  <2>1. ASSUME NEW sock \in {"open", "closed"}
        PROVE  [rt[r] EXCEPT !.sock = sock, !.login = "none"] \in Runtime
    BY <1>0 DEF Runtime
  <2> QED
    BY <1>8, <2>1, ClientType DEF Relogin, TypeOK
<1>9. ASSUME NEW kind \in {"Connected", "Disconnected", "LoggedOut"}, Dispatch(r, kind)
      PROVE  events' \in SUBSET Event
  <2> DEFINE e == [rt |-> r, kind |-> kind, pc |-> "check",
                   mapped |-> runtimes[rt[r].session] = r]
  <2>1. (runtimes[rt[r].session] = r) \in BOOLEAN
    OBVIOUS
  <2>2. e \in Event
    BY <2>1 DEF Event
  <2> HIDE DEF e
  <2>3. events' = events \cup {e}
    BY <1>9 DEF Dispatch, e
  <2> QED
    BY <2>2, <2>3 DEF TypeOK
<1>10. ASSUME Authenticate(r) PROVE TypeOK'
  BY <1>10, <1>0, <1>9 DEF Authenticate, Change, TypeOK, Runtime
<1>11. ASSUME Lose(r) PROVE TypeOK'
  <2>1. CloseChannel(rt[r], <<"failure">>) \in Runtime
    BY <1>0, ClientType
  <2>2. rt' \in [RuntimeIds -> Runtime]
    BY <1>11, <2>1 DEF Lose, Change, TypeOK, Runtime
  <2> QED
    BY <1>11, <1>9, <2>2 DEF Lose, TypeOK
<1>12. ASSUME AutoReconnect(r) PROVE TypeOK'
  BY <1>12, <1>0 DEF AutoReconnect, Change, TypeOK, Runtime
<1>13. ASSUME LogOut(r) PROVE TypeOK'
  BY <1>13, <1>0, <1>9 DEF LogOut, Change, TypeOK, Runtime
<1> QED
  BY <1>1, <1>2, <1>3, <1>4, <1>5, <1>6, <1>7, <1>8, <1>10, <1>11, <1>12, <1>13
  DEF Login, Client

\* So does handleEvent.
LEMMA TypeHandler ==
  ASSUME TypeOK, NEW e \in events, Handler(e)
  PROVE  TypeOK'
<1> USE DEF storeVars, clientVars, processVars, Running
<1>0. e \in Event /\ rt[e.rt] \in Runtime
  BY DEF TypeOK, Event
<1>1. ASSUME CheckEvent(e) PROVE TypeOK'
  BY <1>1, <1>0 DEF CheckEvent, HandlerStep, TypeOK, Event
<1>2. ASSUME WriteEvent(e) PROVE TypeOK'
  <2>1. /\ rt[e.rt].session \in Sessions \cup {NoSession}
        /\ rt[e.rt].device \in Devices \cup {NoDevice}
    BY <1>0 DEF Runtime
  <2>2. rows' \in [Sessions -> Row]
    BY <1>2, <1>0, <2>1, UpdateType DEF WriteEvent, EventRow, Event, Statuses
  <2> QED
    BY <1>2, <1>0, <2>2 DEF WriteEvent, HandlerStep, TypeOK, Event
<1>3. ASSUME ForgetRuntime(e) PROVE TypeOK'
  BY <1>3, <1>0 DEF ForgetRuntime, HandlerStep, TypeOK, Event
<1> QED
  BY <1>1, <1>2, <1>3 DEF Handler

\* So do Rehydrate and the end of the process.
LEMMA TypeProcess ==
  ASSUME TypeOK,
         Start \/ (\E s \in Sessions : Rehydrate(s)) \/ Serve \/ CloseManager \/ Kill
  PROVE  TypeOK'
<1> USE DEF storeVars, clientVars, processVars, Running
<1>1. ASSUME Start PROVE TypeOK'
  BY <1>1, StoreTypes DEF Start, TypeOK
<1>2. ASSUME NEW s \in Sessions, Rehydrate(s) PROVE TypeOK'
  BY <1>2, StoreTypes, AttachType DEF Rehydrate, TypeOK
<1>3. ASSUME Serve PROVE TypeOK'
  BY <1>3 DEF Serve, TypeOK
<1>4. ASSUME Kill PROVE TypeOK'
  BY <1>4, BoundsAssumption, StoreTypes, NoneTypes DEF Kill, TypeOK, Request, NoRequest
<1>5. ASSUME CloseManager PROVE TypeOK'
  <2>1. ASSUME NEW r \in RuntimeIds
        PROVE  rt[r] \in Runtime /\ Disconnected(rt[r]) \in Runtime
    BY ClientType
  <2>2. rt' \in [RuntimeIds -> Runtime]
    BY <1>5, <2>1 DEF CloseManager, TypeOK
  <2> QED
    BY <1>5, <2>2 DEF CloseManager, TypeOK
<1> QED
  BY <1>1, <1>2, <1>3, <1>4, <1>5

\* Every step keeps the type invariant.
LEMMA TypeStep == TypeOK /\ [Next]_vars => TypeOK'
<1> SUFFICES ASSUME TypeOK, [Next]_vars PROVE TypeOK'
  OBVIOUS
<1>1. CASE UNCHANGED vars
  BY <1>1 DEF vars, TypeOK, Running
<1> QED
  BY <1>1, TypeRequest, TypeLogin, TypeHandler, TypeProcess DEF Next

\* Every state of the session manager is well typed: the rows, the runtimes of
\* this life of the process and the requests.
THEOREM TypeCorrect == Spec => []TypeOK
<1> QED
  BY TypeInit, TypeStep, PTL DEF Spec

-----------------------------------------------------------------------------
\* Somebody who has seen the row of a session.
Writes(s) ==
  \/ \E q \in Requests : KnowsRow(q) /\ req[q].session = s
  \/ \E r \in RuntimeIds : rt[r].session = s

\* A step changes a row only as a statement of session_repo.go does, and what
\* it says of codes and deletion comes from where the code takes it.
LEMMA RowStep ==
  ASSUME TypeOK, [Next]_vars, NEW s \in Sessions
  PROVE  \/ rows'[s] = rows[s]
         \/ \E q \in Requests, m \in Methods :
              Running(q) /\ rows[s].state = "absent" /\ rows'[s] = Created(m)
         \/ \E q \in Requests :
              Running(q) /\ rows[s].state = "live" /\ rows'[s] = ResetForQRCode(rows[s])
         \/ \E q \in Requests :
              Running(q) /\ rows[s].state # "absent" /\ rows'[s] = MarkDeleted(rows[s])
         \/ /\ Writes(s)
            /\ \E status \in Statuses \ {"qr_ready"} :
                 rows'[s] = UpdateState(rows[s], status, NoDevice, FALSE)
         \/ \E r \in RuntimeIds :
              /\ rt[r].session = s
              /\ rows'[s] = UpdateState(rows[s], "connected", rt[r].device, FALSE)
         \/ \E r \in RuntimeIds :
              /\ rt[r].session = s /\ rt[r].method = "qr"
              /\ rows'[s] = UpdateState(rows[s], "qr_ready", NoDevice, TRUE)
<1> USE DEF TypeOK, SetRow
<1>1. ASSUME NEW q \in Requests, Begin(q) \/ Handle(q) \/ Abort(q),
             rows'[s] # rows[s]
      PROVE  /\ Running(q)
             /\ \/ \E m \in Methods : rows[s].state = "absent" /\ rows'[s] = Created(m)
                \/ rows[s].state = "live" /\ rows'[s] = ResetForQRCode(rows[s])
                \/ rows[s].state # "absent" /\ rows'[s] = MarkDeleted(rows[s])
                \/ /\ KnowsRow(q) /\ req[q].session = s
                   /\ \E status \in {"initializing", "pairing"} :
                        rows'[s] = UpdateState(rows[s], status, NoDevice, FALSE)
  <2>1. CASE InsertRow(q)
    BY <1>1, <2>1 DEF InsertRow, Running
  <2>2. CASE ResetRow(q)
    BY <1>1, <2>2 DEF ResetRow, Running
  <2>3. CASE MarkInitializing(q) \/ MarkPairing(q)
    BY <1>1, <2>3 DEF MarkInitializing, MarkPairing, Running, KnowsRow
  <2>4. CASE MarkRowDeleted(q)
    BY <1>1, <2>4 DEF MarkRowDeleted, Running
  <2> QED
    BY <1>1, <2>1, <2>2, <2>3, <2>4 DEF Handle, Begin, Abort, GetRow, OpenQRCode,
       Drop, EraseDevice, Attach, AttachFails, Look, Ready, WaitTimeout, PairPhone,
       storeVars
<1>2. ASSUME NEW r \in RuntimeIds, Login(r) \/ Client(r), rows'[s] # rows[s]
      PROVE  /\ rt[r].session = s
             /\ \/ \E status \in {"error", "pairing"} :
                     rows'[s] = UpdateState(rows[s], status, NoDevice, FALSE)
                \/ /\ rt[r].method = "qr"
                   /\ rows'[s] = UpdateState(rows[s], "qr_ready", NoDevice, TRUE)
  <2>1. CASE SetSessionError(rt[r].session)
    BY <1>2, <2>1 DEF SetSessionError, TrySetRow
  <2>2. CASE StoreCode(r)
    <3>1. /\ rt[r].session = s
          /\ rows'[s] = CodeRow(r)
      BY <1>2, <2>2 DEF StoreCode, TrySetRow
    <3> QED
      BY <3>1 DEF CodeRow
  <2> QED
    BY <1>2, <2>1, <2>2 DEF Login, Client, GetQRChannel, Connect, ReceiveItem,
       EmitQR, QRRunsOut, Pair, Relogin, Authenticate, Lose, AutoReconnect, LogOut,
       storeVars
<1>3. ASSUME NEW e \in events, Handler(e), rows'[s] # rows[s]
      PROVE  /\ rt[e.rt].session = s
             /\ \/ \E status \in {"disconnected", "logged_out"} :
                     rows'[s] = UpdateState(rows[s], status, NoDevice, FALSE)
                \/ rows'[s] = UpdateState(rows[s], "connected", rt[e.rt].device, FALSE)
  <2>1. e.kind \in {"Connected", "Disconnected", "LoggedOut"}
    BY DEF Event
  <2>2. WriteEvent(e) /\ rt[e.rt].session = s
    BY <1>3 DEF Handler, CheckEvent, WriteEvent, ForgetRuntime, TrySetRow, storeVars
  <2> QED
    BY <1>3, <2>1, <2>2 DEF WriteEvent, TrySetRow, EventRow
<1>4. CASE Start \/ (\E t \in Sessions : Rehydrate(t)) \/ Serve \/ CloseManager \/ Kill
          \/ UNCHANGED vars
  BY <1>4 DEF Start, Rehydrate, Serve, CloseManager, Kill, vars, storeVars
<1>5. \A e \in events : e.rt \in RuntimeIds
  BY DEF Event
<1>6. {"initializing", "pairing", "error", "disconnected", "logged_out"}
        \subseteq Statuses \ {"qr_ready"}
  BY DEF Statuses
<1> HIDE DEF TypeOK, SetRow
<1> QED
  BY <1>1, <1>2, <1>3, <1>4, <1>5, <1>6 DEF Next, Writes

\* What a step may do to the columns of a row.
LEMMA ColumnStep ==
  ASSUME TypeOK, [Next]_vars, NEW s \in Sessions
  PROVE  /\ rows'[s].state = rows[s].state
              \/ /\ \E q \in Requests : Running(q)
                 /\ \/ rows[s].state = "absent" /\ rows'[s].state = "live"
                    \/ rows[s].state # "absent" /\ rows'[s].state = "deleted"
         /\ rows'[s].method = rows[s].method
              \/ rows[s].state = "absent" \/ rows'[s].method = "qr"
         /\ rows'[s].device \in {rows[s].device, NoDevice}
              \/ \E r \in RuntimeIds :
                   rt[r].session = s /\ rows'[s].device = rt[r].device
         /\ \/ rows'[s].qr = rows[s].qr /\ rows'[s].status = rows[s].status
                 /\ rows'[s].method = rows[s].method
            \/ rows'[s].qr = FALSE /\ rows'[s].status # "qr_ready"
            \/ /\ rows'[s].qr = TRUE /\ rows'[s].status = "qr_ready"
               /\ rows'[s].method = rows[s].method
               /\ \E r \in RuntimeIds : rt[r].session = s /\ rt[r].method = "qr"
<1>0. rows[s] \in Row
  BY DEF TypeOK
<1>1. CASE rows'[s] = rows[s]
  BY <1>1
<1>2. ASSUME NEW q \in Requests, NEW m \in Methods, Running(q),
             rows[s].state = "absent", rows'[s] = Created(m)
      PROVE  /\ rows'[s].state = "live" /\ rows'[s].device = NoDevice
             /\ rows'[s].qr = FALSE /\ rows'[s].status # "qr_ready"
  BY <1>2, <1>0, CreatedColumns DEF Columns
<1>3. ASSUME NEW q \in Requests, Running(q), rows'[s] = ResetForQRCode(rows[s])
      PROVE  /\ rows'[s].state = rows[s].state /\ rows'[s].method = "qr"
             /\ rows'[s].device = NoDevice
             /\ rows'[s].qr = FALSE /\ rows'[s].status # "qr_ready"
  BY <1>3, <1>0, ResetColumns DEF Columns
<1>4. ASSUME NEW q \in Requests, Running(q), rows'[s] = MarkDeleted(rows[s])
      PROVE  /\ rows'[s].state = "deleted" /\ rows'[s].method = rows[s].method
             /\ rows'[s].device = rows[s].device
             /\ rows'[s].qr = FALSE /\ rows'[s].status # "qr_ready"
  BY <1>4, <1>0, DeletedColumns DEF Columns
<1>5. ASSUME NEW status \in Statuses, NEW device \in Devices \cup {NoDevice},
             rows'[s] = UpdateState(rows[s], status, device, FALSE)
      PROVE  /\ rows'[s].state = rows[s].state /\ rows'[s].method = rows[s].method
             /\ rows'[s].status = status /\ rows'[s].qr = FALSE
             /\ rows'[s].device \in {rows[s].device, device}
  <2>1. Columns(rows'[s], rows[s].state, rows[s].method, status,
                IF device = NoDevice THEN rows[s].device ELSE device, FALSE)
    BY <1>5, <1>0, UpdateColumns
  <2> QED
    BY <2>1 DEF Columns
<1>6. CASE \E status \in Statuses \ {"qr_ready"} :
             rows'[s] = UpdateState(rows[s], status, NoDevice, FALSE)
  <2> PICK status \in Statuses \ {"qr_ready"} :
             rows'[s] = UpdateState(rows[s], status, NoDevice, FALSE)
    BY <1>6
  <2> QED
    BY <1>5
<1>7. CASE \E r \in RuntimeIds :
             /\ rt[r].session = s
             /\ rows'[s] = UpdateState(rows[s], "connected", rt[r].device, FALSE)
  <2> PICK r \in RuntimeIds :
             /\ rt[r].session = s
             /\ rows'[s] = UpdateState(rows[s], "connected", rt[r].device, FALSE)
    BY <1>7
  <2>1. rt[r].device \in Devices \cup {NoDevice} /\ "connected" \in Statuses
    BY DEF TypeOK, Runtime, Statuses
  <2> QED
    BY <1>5, <2>1
<1>8. CASE \E r \in RuntimeIds :
             /\ rt[r].session = s /\ rt[r].method = "qr"
             /\ rows'[s] = UpdateState(rows[s], "qr_ready", NoDevice, TRUE)
  <2> PICK r \in RuntimeIds :
             /\ rt[r].session = s /\ rt[r].method = "qr"
             /\ rows'[s] = UpdateState(rows[s], "qr_ready", NoDevice, TRUE)
    BY <1>8
  <2> QED
    BY <1>0, CodeColumns DEF Columns
<1>9. CASE \E q \in Requests, m \in Methods :
             Running(q) /\ rows[s].state = "absent" /\ rows'[s] = Created(m)
  BY <1>2, <1>9
<1>10. CASE \E q \in Requests :
              Running(q) /\ rows[s].state = "live" /\ rows'[s] = ResetForQRCode(rows[s])
  BY <1>3, <1>10
<1>11. CASE \E q \in Requests :
              Running(q) /\ rows[s].state # "absent" /\ rows'[s] = MarkDeleted(rows[s])
  BY <1>4, <1>11
<1> QED
  BY <1>1, <1>6, <1>7, <1>8, <1>9, <1>10, <1>11, RowStep

\* A session id once deleted is never used again: no statement but INSERT, which
\* wants the id to be absent, writes the state of a row.
THEOREM DeletedStays == Spec => DeletedIsFinal
<1>1. TypeOK /\ [Next]_vars
        => [\A s \in Sessions :
              rows[s].state = "deleted" => rows'[s].state = "deleted"]_vars
  <2> SUFFICES ASSUME TypeOK, [Next]_vars, NEW s \in Sessions,
                      rows[s].state = "deleted"
               PROVE  rows'[s].state = "deleted"
    OBVIOUS
  <2> QED
    BY ColumnStep
<1> QED
  BY <1>1, TypeCorrect, PTL DEF Spec, DeletedIsFinal

-----------------------------------------------------------------------------
\* Where newRuntime takes the session and its row from: a request that has read
\* it, or the list of Rehydrate.
Source(s, rec) ==
  \/ \E q \in Requests : KnowsRow(q) /\ s = req[q].session /\ rec = req[q].rec
  \/ process = "booting" /\ boot[s] # NoRow /\ rec = boot[s]

\* What a step may do to a runtime: forget it with the process, leave what the
\* invariant speaks of, link a device, or attach it.
Reset(r) == rt'[r] = NoRuntime /\ process' = "down" /\ events' = {}
SameLogin(r) ==
  /\ rt'[r].session = rt[r].session /\ rt'[r].method = rt[r].method
  /\ rt[r].session = NoSession => rt'[r] = NoRuntime
Kept(r) == SameLogin(r) /\ rt'[r].device \in {rt[r].device, NoDevice}
Paired(r) ==
  /\ SameLogin(r) /\ rt[r].session # NoSession
  /\ rt'[r].device \in Devices /\ owner'[rt'[r].device] = rt[r].session
Attached(r) ==
  /\ rt[r].session = NoSession
  /\ rt'[r].session \in Sessions
  /\ \E rec \in Row : /\ Source(rt'[r].session, rec)
                      /\ rt'[r].method = rec.method
                      /\ rt'[r].device \in {rec.device, NoDevice}

\* A client of a runtime in use, changed as the library and the logins do.
LEMMA ChangeStep ==
  ASSUME TypeOK, RuntimeInv, NEW r \in RuntimeIds, Login(r) \/ Client(r)
  PROVE  /\ rt[r].session # NoSession
         /\ Kept(r) \/ (Pair(r) /\ Paired(r))
         /\ \A p \in RuntimeIds : p # r => rt'[p] = rt[p]
<1>0. rt[r] \in Runtime /\ (rt[r].session = NoSession => rt[r] = NoRuntime)
  BY DEF TypeOK, RuntimeInv
<1>1. \E c : Change(r, c)
  BY DEF Login, Client, GetQRChannel, Connect, ReceiveItem, StoreCode, EmitQR,
     QRRunsOut, Pair, Relogin, Authenticate, Lose, AutoReconnect, LogOut
<1>2. \A p \in RuntimeIds : p # r => rt'[p] = rt[p]
  BY <1>1 DEF Change, TypeOK
<1>3. \A c : Change(r, c) => rt'[r] = c
  BY DEF Change, TypeOK
<1>4. rt[r].session # NoSession
  <2>1. CASE rt[r] # NoRuntime
    BY <1>0, <2>1
  <2>2. CASE rt[r] = NoRuntime
    BY <2>2 DEF NoRuntime, Login, Client, GetQRChannel, Connect, ReceiveItem,
       StoreCode, EmitQR, QRRunsOut, Pair, Relogin, Authenticate, Lose,
       AutoReconnect, LogOut
  <2> QED BY <2>1, <2>2
<1>5. ASSUME GetQRChannel(r) PROVE Kept(r)
  <2>1. \/ rt'[r] = [rt[r] EXCEPT !.chan = "armed", !.login = "connect"]
        \/ rt'[r] = [rt[r] EXCEPT !.login = "none"]
    BY <1>3, <1>5 DEF GetQRChannel
  <2> QED
    BY <1>0, <1>4, <2>1 DEF Kept, SameLogin, Runtime
<1>6. ASSUME Connect(r) PROVE Kept(r)
  <2>1. \/ rt'[r] = [rt[r] EXCEPT !.sock = "open", !.login = "none"]
        \/ rt'[r] = [rt[r] EXCEPT !.login = "none"]
    BY <1>3, <1>6 DEF Connect
  <2> QED
    BY <1>0, <1>4, <2>1 DEF Kept, SameLogin, Runtime
<1>7. ASSUME ReceiveItem(r) PROVE Kept(r)
  <2>1. \/ rt'[r] = [rt[r] EXCEPT !.items = Tail(@)]
        \/ rt'[r] = [[rt[r] EXCEPT !.items = Tail(@)]
                      EXCEPT !.ready = TRUE, !.writing = TRUE]
    BY <1>3, <1>7 DEF ReceiveItem
  <2> QED
    BY <1>0, <1>4, <2>1 DEF Kept, SameLogin, Runtime
<1>8. ASSUME StoreCode(r) PROVE Kept(r)
  <2>1. \/ rt'[r] = [rt[r] EXCEPT !.writing = FALSE]
    BY <1>3, <1>8 DEF StoreCode
  <2> QED
    BY <1>0, <1>4, <2>1 DEF Kept, SameLogin, Runtime
<1>9. ASSUME EmitQR(r) PROVE Kept(r)
  <2>1. \/ rt'[r] = [rt[r] EXCEPT !.chan = "live", !.items = Append(@, "code")]
    BY <1>3, <1>9 DEF EmitQR
  <2> QED
    BY <1>0, <1>4, <2>1 DEF Kept, SameLogin, Runtime
<1>11. ASSUME QRRunsOut(r) PROVE Kept(r)
  <2>1. \/ rt'[r] = Disconnected(CloseChannel(rt[r], <<"failure">>))
    BY <1>3, <1>11 DEF QRRunsOut
  <2> QED
    BY <1>0, <1>4, <2>1 DEF Kept, SameLogin, Runtime,
       Disconnected, CloseChannel
<1>12. ASSUME Relogin(r) PROVE Kept(r)
  <2> PICK sock \in {"open", "closed"} :
        Change(r, [rt[r] EXCEPT !.sock = sock, !.login = "none"])
    BY <1>12 DEF Relogin
  <2>1. rt'[r] = [rt[r] EXCEPT !.sock = sock, !.login = "none"]
    BY <1>3
  <2> QED
    BY <1>0, <1>4, <2>1 DEF Kept, SameLogin, Runtime
<1>13. ASSUME Authenticate(r) PROVE Kept(r)
  <2>1. \/ rt'[r] = [rt[r] EXCEPT !.sock = "authed"]
    BY <1>3, <1>13 DEF Authenticate
  <2> QED
    BY <1>0, <1>4, <2>1 DEF Kept, SameLogin, Runtime
<1>14. ASSUME Lose(r) PROVE Kept(r)
  <2>1. \/ rt'[r] = [CloseChannel(rt[r], <<"failure">>) EXCEPT !.sock = "closed",
                    !.login = IF rt[r].device = NoDevice THEN "none" ELSE "retry"]
    BY <1>3, <1>14 DEF Lose
  <2> QED
    BY <1>0, <1>4, <2>1 DEF Kept, SameLogin, Runtime, CloseChannel
<1>15. ASSUME AutoReconnect(r) PROVE Kept(r)
  <2>1. \/ rt'[r] = [rt[r] EXCEPT !.sock = "open", !.login = "none"]
    BY <1>3, <1>15 DEF AutoReconnect
  <2> QED
    BY <1>0, <1>4, <2>1 DEF Kept, SameLogin, Runtime
<1>16. ASSUME LogOut(r) PROVE Kept(r)
  <2>1. \/ rt'[r] = [rt[r] EXCEPT !.sock = "closed", !.device = NoDevice]
    BY <1>3, <1>16 DEF LogOut
  <2> QED
    BY <1>0, <1>4, <2>1 DEF Kept, SameLogin, Runtime
<1>10. ASSUME Pair(r) PROVE Paired(r)
  <2> PICK d \in Devices :
        /\ owner' = [owner EXCEPT ![d] = rt[r].session]
        /\ Change(r, CloseChannel([rt[r] EXCEPT !.device = d, !.login = "relogin"],
                                  << >>))
    BY <1>10 DEF Pair
  <2>2. /\ rt'[r].session = rt[r].session /\ rt'[r].method = rt[r].method
        /\ rt'[r].device = d
    BY <1>0, <1>3 DEF CloseChannel, Runtime
  <2>3. owner'[d] = rt[r].session
    BY DEF TypeOK
  <2> QED
    BY <1>4, <2>2, <2>3 DEF Paired, SameLogin
<1> QED
  BY <1>2, <1>4, <1>5, <1>6, <1>7, <1>8, <1>9, <1>10, <1>11, <1>12, <1>13, <1>14,
     <1>15, <1>16 DEF Login, Client

\* disconnectRuntime closes the client of the runtime it takes out of the map,
\* and Close those of all of them.
LEMMA DropStep ==
  ASSUME TypeOK, RuntimeInv, NEW r \in RuntimeIds,
         (\E s \in Sessions : DisconnectRuntime(s)) \/ CloseManager
  PROVE  rt'[r] = rt[r] \/ Kept(r)
<1>1. rt[r] \in Runtime /\ (rt[r].session = NoSession => rt[r] = NoRuntime)
  BY DEF TypeOK, RuntimeInv
<1>2. rt'[r] = rt[r] \/ rt'[r] = Disconnected(rt[r])
  BY DEF DisconnectRuntime, CloseManager, TypeOK
<1>3. Disconnected(NoRuntime) = NoRuntime
  <2>1. \A c \in Runtime : c.sock = "closed" /\ c.login = "none" => Disconnected(c) = c
    BY DEF Disconnected, Runtime
  <2>2. NoRuntime.sock = "closed" /\ NoRuntime.login = "none"
    BY DEF NoRuntime
  <2> QED BY <2>1, <2>2, NoneTypes
<1>4. LET c == Disconnected(rt[r])
      IN  c.session = rt[r].session /\ c.method = rt[r].method
          /\ c.device = rt[r].device
  BY <1>1 DEF Disconnected, Runtime
<1> QED
  BY <1>1, <1>2, <1>3, <1>4 DEF Kept, SameLogin

\* A new runtime carries the session, the method and perhaps the device it was
\* given.
LEMMA AttachStep ==
  ASSUME TypeOK, NEW s \in Sessions, NEW rec \in Row, NEW r \in RuntimeIds,
         AttachNew(r, s, rec) \/ AttachExisting(r, s, rec)
  PROVE  /\ rt[r].session = NoSession
         /\ rt'[r].session = s /\ rt'[r].method = rec.method
         /\ rt'[r].device \in {rec.device, NoDevice}
         /\ \A p \in RuntimeIds : p # r => rt'[p] = rt[p]
         /\ runtimes' = [runtimes EXCEPT ![s] = r]
<1>1. LET c == NewRuntime(s, rec, NoDevice, "qr")
          d == [NewRuntime(s, rec, rec.device, "connect") EXCEPT !.ready = TRUE]
      IN  /\ c.session = s /\ c.method = rec.method /\ c.device = NoDevice
          /\ d.session = s /\ d.method = rec.method /\ d.device = rec.device
  BY DEF NewRuntime, NoRuntime
<1> QED
  BY <1>1 DEF TypeOK, AttachNew, AttachExisting, Unused

\* Every step does to a runtime one of the four things above, or none.
LEMMA RuntimeStep ==
  ASSUME TypeOK, RuntimeInv, [Next]_vars, NEW r \in RuntimeIds
  PROVE  rt'[r] = rt[r] \/ Reset(r) \/ Kept(r) \/ Paired(r) \/ Attached(r)
<1>1. ASSUME NEW q \in Requests, Attach(q) PROVE rt'[r] = rt[r] \/ Attached(r)
  <2>1. PICK p \in RuntimeIds :
          \/ AttachNew(p, req[q].session, req[q].rec)
          \/ AttachExisting(p, req[q].session, req[q].rec)
    BY <1>1 DEF Attach
  <2>2. req[q].session \in Sessions /\ req[q].rec \in Row /\ KnowsRow(q)
    BY <1>1 DEF Attach, TypeOK, Running, Request, KnowsRow
  <2> QED
    BY <2>1, <2>2, AttachStep DEF Attached, Source
<1>2. ASSUME NEW q \in Requests, Drop(q) PROVE rt'[r] = rt[r] \/ Kept(r)
  <2>1. req[q].session \in Sessions
    BY <1>2 DEF Drop, TypeOK, Running
  <2> QED
    BY <1>2, <2>1, DropStep DEF Drop
<1>3. ASSUME NEW q \in Requests, Begin(q) \/ Handle(q) \/ Abort(q), ~Attach(q), ~Drop(q)
      PROVE  rt'[r] = rt[r]
  BY <1>3 DEF Handle, Begin, Abort, GetRow, InsertRow, OpenQRCode, EraseDevice,
     ResetRow, AttachFails, MarkInitializing, MarkRowDeleted, Look, Ready,
     WaitTimeout, PairPhone, MarkPairing, clientVars
<1>4. ASSUME NEW p \in RuntimeIds, Login(p) \/ Client(p)
      PROVE  rt'[r] = rt[r] \/ Kept(r) \/ Paired(r)
  BY <1>4, ChangeStep
<1>5. ASSUME NEW e \in events, Handler(e) PROVE rt'[r] = rt[r]
  BY <1>5 DEF Handler, CheckEvent, WriteEvent, ForgetRuntime, clientVars
<1>6. ASSUME NEW s \in Sessions, Rehydrate(s) PROVE rt'[r] = rt[r] \/ Attached(r)
  <2>1. CASE UNCHANGED clientVars
    BY <2>1 DEF clientVars
  <2>2. ASSUME NEW p \in RuntimeIds, AttachExisting(p, s, boot[s])
        PROVE  rt'[r] = rt[r] \/ Attached(r)
    <3>1. boot[s] \in Row /\ Source(s, boot[s])
      BY <1>6 DEF TypeOK, Rehydrate, Source
    <3> QED
      BY <2>2, <3>1, AttachStep DEF Attached
  <2> QED
    BY <1>6, <2>1, <2>2 DEF Rehydrate
<1>7. CASE Kill
  BY <1>7 DEF Kill, Reset
<1>8. CASE Start \/ Serve \/ UNCHANGED vars
  BY <1>8 DEF Start, Serve, vars, clientVars
<1>9. CASE CloseManager
  BY <1>9, DropStep
<1> QED
  BY <1>1, <1>2, <1>3, <1>4, <1>5, <1>6, <1>7, <1>8, <1>9 DEF Next

\* A runtime in use keeps its session and its method while the process lives.
LEMMA RuntimeInvStep ==
  ASSUME TypeOK, RuntimeInv, [Next]_vars
  PROVE  RuntimeInv'
<1> SUFFICES ASSUME NEW r \in RuntimeIds, rt'[r].session = NoSession
             PROVE  rt'[r] = NoRuntime
  BY DEF RuntimeInv
<1> QED
  BY RuntimeStep, SessionAssumption
  DEF RuntimeInv, Reset, Kept, SameLogin, Paired, Attached

-----------------------------------------------------------------------------
\* What a step may do to the row a request has read: forget it, keep it, or read
\* it from the table.
Forgets(q) == req'[q].rec = NoRow /\ ~KnowsRow(q)'
Keeps(q) ==
  /\ req'[q].session = req[q].session /\ req'[q].rec = req[q].rec
  /\ KnowsRow(q)' => KnowsRow(q)
Reads(q) ==
  /\ req[q].session \in Sessions
  /\ req'[q].session = req[q].session /\ req'[q].rec = rows'[req[q].session]
  /\ KnowsRow(q)' => req'[q].rec.state # "absent"

\* The three ways a handler ends a step.
LEMMA GotoStep ==
  ASSUME TypeOK, NEW q \in Requests, Running(q)
  PROVE  /\ \A pc : Goto(q, pc) => /\ req'[q].session = req[q].session
                                  /\ req'[q].rec = req[q].rec
                                  /\ req'[q].op = req[q].op /\ req'[q].pc = pc
         /\ \A pc, rec : GotoWith(q, pc, rec) => /\ req'[q].session = req[q].session
                                                 /\ req'[q].rec = rec
                                                 /\ req'[q].op = req[q].op
                                                 /\ req'[q].pc = pc
         /\ \A pc \in {"refused", "done"} : Finish(q, pc) => Forgets(q)
         /\ \A p \in Requests \ {q} :
              \A pc, rec : Goto(q, pc) \/ GotoWith(q, pc, rec) \/ Finish(q, pc)
                             => req'[p] = req[p]
<1>1. req[q] \in Request /\ req \in [Requests -> Request]
  BY DEF TypeOK
<1>2. ASSUME NEW pc, Goto(q, pc)
      PROVE  /\ req'[q].session = req[q].session /\ req'[q].rec = req[q].rec
             /\ req'[q].op = req[q].op /\ req'[q].pc = pc
  BY <1>1, <1>2 DEF Goto, Request
<1>3. ASSUME NEW pc, NEW rec, GotoWith(q, pc, rec)
      PROVE  /\ req'[q].session = req[q].session /\ req'[q].rec = rec
             /\ req'[q].op = req[q].op /\ req'[q].pc = pc
  BY <1>1, <1>3 DEF GotoWith, Request
<1>4. ASSUME NEW pc \in {"refused", "done"}, Finish(q, pc) PROVE Forgets(q)
  <2>1. req'[q].pc = pc /\ req'[q].rec = NoRow
    BY <1>1, <1>4 DEF Finish, NoRequest
  <2> QED
    BY <2>1 DEF Forgets, KnowsRow
<1>5. ASSUME NEW p \in Requests \ {q}, NEW pc, NEW rec,
             Goto(q, pc) \/ GotoWith(q, pc, rec) \/ Finish(q, pc)
      PROVE  req'[p] = req[p]
  BY <1>1, <1>5 DEF Goto, GotoWith, Finish
<1> QED
  BY <1>2, <1>3, <1>4, <1>5

\* Every step of a request does one of the three to the row it has read.
LEMMA HandleStep ==
  ASSUME TypeOK, NEW q \in Requests, Begin(q) \/ Handle(q) \/ Abort(q)
  PROVE  Forgets(q) \/ Keeps(q) \/ Reads(q)
<1> USE DEF Running
<1>0. req[q] \in Request /\ req \in [Requests -> Request]
  BY DEF TypeOK
<1>1. ASSUME Begin(q) PROVE Forgets(q)
  <2> PICK op \in Ops, s \in Sessions :
        req' = [req EXCEPT ![q] =
                 [NoRequest EXCEPT !.op = op, !.session = s,
                                   !.pc = IF op = "delete" THEN "drop" ELSE "get"]]
    BY <1>1 DEF Begin
  <2>1. /\ req'[q].rec = NoRow /\ req'[q].op = op
        /\ req'[q].pc = IF op = "delete" THEN "drop" ELSE "get"
    BY <1>0 DEF NoRequest
  <2> QED
    BY <2>1 DEF Forgets, KnowsRow
<1>2. ASSUME GetRow(q) PROVE Forgets(q) \/ Reads(q)
  <2>1. CASE Finish(q, "done")
    BY <1>2, <2>1, GotoStep DEF GetRow
  <2>2. CASE /\ Acceptable(req[q].op, rows[req[q].session])
             /\ GotoWith(q, AfterGet(req[q].op), rows[req[q].session])
    <3>1. /\ req'[q].session = req[q].session
          /\ req'[q].rec = rows[req[q].session] /\ req'[q].op = req[q].op
          /\ req'[q].pc = AfterGet(req[q].op)
      BY <1>2, <2>2, GotoStep DEF GetRow
    <3>2. rows' = rows /\ req[q].session \in Sessions
      BY <1>2 DEF GetRow, storeVars, TypeOK
    <3>3. KnowsRow(q)' => rows[req[q].session].state # "absent"
      <4>1. CASE req[q].op = "create"
        BY <3>1, <4>1 DEF AfterGet, KnowsRow
      <4>2. CASE req[q].op # "create"
        BY <2>2, <4>2 DEF Acceptable
      <4> QED BY <4>1, <4>2
    <3> QED
      BY <3>1, <3>2, <3>3 DEF Reads
  <2> QED
    BY <1>2, <2>1, <2>2 DEF GetRow
<1>3. ASSUME InsertRow(q) PROVE Forgets(q) \/ Reads(q)
  <2>1. CASE Finish(q, "done")
    BY <1>3, <2>1, GotoStep DEF InsertRow
  <2>2. ASSUME NEW m \in Methods, SetRow(req[q].session, Created(m)),
               GotoWith(q, "attach", Created(m))
        PROVE  Reads(q)
    <3>1. req'[q].session = req[q].session /\ req'[q].rec = Created(m)
      BY <1>3, <2>2, GotoStep DEF InsertRow
    <3>2. req[q].session \in Sessions /\ rows'[req[q].session] = Created(m)
      BY <1>3, <2>2 DEF InsertRow, SetRow, TypeOK
    <3> QED
      BY <3>1, <3>2, CreatedColumns DEF Reads, Columns
  <2> QED
    BY <1>3, <2>1, <2>2 DEF InsertRow
<1>4. ASSUME ResetRow(q) PROVE Forgets(q) \/ Reads(q)
  <2>1. CASE Finish(q, "done")
    BY <1>4, <2>1, GotoStep DEF ResetRow
  <2> DEFINE s == req[q].session
  <2>2. CASE /\ rows[s].state = "live" /\ SetRow(s, ResetForQRCode(rows[s]))
             /\ GotoWith(q, "attach", ResetForQRCode(rows[s]))
    <3>1. req'[q].session = s /\ req'[q].rec = ResetForQRCode(rows[s])
      BY <1>4, <2>2, GotoStep DEF ResetRow
    <3>2. /\ s \in Sessions /\ rows[s] \in Row
          /\ rows'[s] = ResetForQRCode(rows[s])
      BY <1>4, <2>2 DEF ResetRow, SetRow, TypeOK
    <3>3. req'[q].rec.state # "absent"
      BY <2>2, <3>1, <3>2, ResetColumns DEF Columns
    <3> QED
      BY <3>1, <3>2, <3>3 DEF Reads
  <2> QED
    BY <1>4, <2>1, <2>2 DEF ResetRow
<1>5. ASSUME OpenQRCode(q) PROVE Forgets(q) \/ Keeps(q)
  BY <1>5, GotoStep DEF OpenQRCode, Keeps, KnowsRow
<1>6. ASSUME Drop(q) PROVE Keeps(q)
  BY <1>6, GotoStep DEF Drop, Keeps, KnowsRow, AfterDrop
<1>7. ASSUME EraseDevice(q) \/ Ready(q) \/ PairPhone(q) PROVE Forgets(q) \/ Keeps(q)
  BY <1>7, GotoStep DEF EraseDevice, Ready, PairPhone, Keeps, KnowsRow
<1>8. ASSUME AttachFails(q) \/ MarkInitializing(q) \/ MarkRowDeleted(q)
             \/ WaitTimeout(q) \/ MarkPairing(q) \/ Abort(q)
      PROVE  Forgets(q)
  BY <1>8, GotoStep DEF AttachFails, MarkInitializing, MarkRowDeleted,
     WaitTimeout, MarkPairing, Abort
<1>9. ASSUME NEW r, req' = [req EXCEPT ![q].pc = "wait", ![q].rt = r], KnowsRow(q)
      PROVE  Keeps(q)
  BY <1>0, <1>9 DEF Keeps, KnowsRow, Request
<1>10. ASSUME req' = [req EXCEPT ![q].op = "paircode", ![q].pc = "get"] PROVE Keeps(q)
  BY <1>0, <1>10 DEF Keeps, KnowsRow, Request
<1>11. ASSUME Attach(q) PROVE Forgets(q) \/ Keeps(q)
  <2>1. \/ Finish(q, "done") \/ Goto(q, "update")
        \/ req' = [req EXCEPT ![q].op = "paircode", ![q].pc = "get"]
        \/ \E r : req' = [req EXCEPT ![q].pc = "wait", ![q].rt = r]
    BY <1>11 DEF Attach, AfterAttach
  <2>2. Goto(q, "update") => Keeps(q)
    BY <1>11, GotoStep DEF Attach, Keeps, KnowsRow
  <2>3. Finish(q, "done") => Forgets(q)
    BY <1>11, GotoStep DEF Attach
  <2>4. KnowsRow(q)
    BY <1>11 DEF Attach, KnowsRow
  <2> QED
    BY <1>9, <1>10, <2>1, <2>2, <2>3, <2>4
<1>12. ASSUME Look(q) PROVE Keeps(q)
  <2>1. Goto(q, "attach") => Keeps(q)
    BY <1>12, GotoStep DEF Look, Keeps, KnowsRow
  <2>2. KnowsRow(q)
    BY <1>12 DEF Look, KnowsRow
  <2> QED
    BY <1>9, <1>12, <2>1, <2>2 DEF Look
<1> QED
  BY <1>1, <1>2, <1>3, <1>4, <1>5, <1>6, <1>7, <1>8, <1>11, <1>12 DEF Handle

\* A step of one request leaves the others alone.
LEMMA OtherRequest ==
  ASSUME TypeOK, NEW q \in Requests, NEW p \in Requests \ {q},
         Begin(p) \/ Handle(p) \/ Abort(p)
  PROVE  req'[q] = req[q]
<1>1. CASE Begin(p)
  BY <1>1 DEF Begin, TypeOK
<1>2. CASE Attach(p) \/ Look(p)
  BY <1>2 DEF Attach, AfterAttach, Look, Goto, Finish, TypeOK
<1>3. CASE ~Begin(p) /\ ~Attach(p) /\ ~Look(p)
  BY <1>3 DEF Handle, Abort, GetRow, InsertRow, OpenQRCode, Drop,
     EraseDevice, ResetRow, AttachFails, MarkInitializing, MarkRowDeleted, Ready,
     WaitTimeout, PairPhone, MarkPairing, Goto, GotoWith, Finish, TypeOK
<1> QED
  BY <1>1, <1>2, <1>3

\* The other steps leave all of them alone, except for the end of the process.
LEMMA NoRequestStep ==
  ASSUME \/ \E r \in RuntimeIds : Login(r) \/ Client(r)
         \/ \E e \in events : Handler(e)
         \/ Start \/ (\E s \in Sessions : Rehydrate(s)) \/ Serve \/ CloseManager
         \/ UNCHANGED vars
  PROVE  req' = req
<1>1. ASSUME NEW r \in RuntimeIds, Login(r) \/ Client(r) PROVE req' = req
  BY <1>1 DEF Login, Client, GetQRChannel, Connect, ReceiveItem, StoreCode, EmitQR,
     QRRunsOut, Pair, Relogin, Authenticate, Lose, AutoReconnect, LogOut
<1>2. ASSUME NEW e \in events, Handler(e) PROVE req' = req
  BY <1>2 DEF Handler, CheckEvent, WriteEvent, ForgetRuntime
<1>3. CASE Start \/ (\E s \in Sessions : Rehydrate(s)) \/ Serve \/ CloseManager
          \/ UNCHANGED vars
  BY <1>3 DEF Start, Rehydrate, Serve, CloseManager, vars
<1> QED
  BY <1>1, <1>2, <1>3

\* Every step does one of the three to every request, or leaves it alone.
LEMMA RequestStep ==
  ASSUME TypeOK, [Next]_vars, NEW q \in Requests
  PROVE  req'[q] = req[q] \/ Forgets(q) \/ Keeps(q) \/ Reads(q)
<1>1. ASSUME NEW p \in Requests, Begin(p) \/ Handle(p) \/ Abort(p)
      PROVE  req'[q] = req[q] \/ Forgets(q) \/ Keeps(q) \/ Reads(q)
  BY <1>1, OtherRequest, HandleStep
<1>2. CASE Kill
  <2>1. req'[q] = req[q] \/ req'[q] = [NoRequest EXCEPT !.pc = "done"]
    BY <1>2 DEF Kill
  <2>2. LET done == [NoRequest EXCEPT !.pc = "done"]
        IN  done.rec = NoRow /\ done.pc = "done"
    BY DEF NoRequest
  <2> QED
    BY <2>1, <2>2 DEF Forgets, KnowsRow
<1> QED
  BY <1>1, <1>2, NoRequestStep DEF Next

\* The list of Rehydrate is read from the table.
LEMMA BootStep ==
  ASSUME TypeOK, [Next]_vars, NEW s \in Sessions
  PROVE  \/ boot'[s] = boot[s] \/ boot'[s] = NoRow
         \/ /\ boot'[s] = rows[s] /\ rows[s].state = "live" /\ rows' = rows
            /\ process' = "booting"
<1>1. CASE Start
  BY <1>1 DEF Start, ToRehydrate, IsListed, storeVars
<1>2. CASE Kill
  BY <1>2 DEF Kill
<1>3. ASSUME NEW t \in Sessions, Rehydrate(t)
      PROVE  boot'[s] = boot[s] \/ boot'[s] = NoRow
  BY <1>3 DEF Rehydrate, TypeOK
<1>4. ASSUME NEW q \in Requests, Begin(q) \/ Handle(q) \/ Abort(q) PROVE boot' = boot
  BY <1>4 DEF Begin, Handle, Abort, GetRow, InsertRow, OpenQRCode, Drop,
     EraseDevice, ResetRow, Attach, AttachFails, MarkInitializing, MarkRowDeleted,
     Look, Ready, WaitTimeout, PairPhone, MarkPairing, processVars
<1>5. ASSUME NEW r \in RuntimeIds, Login(r) \/ Client(r) PROVE boot' = boot
  BY <1>5 DEF Login, Client, GetQRChannel, Connect, ReceiveItem, StoreCode, EmitQR,
     QRRunsOut, Pair, Relogin, Authenticate, Lose, AutoReconnect, LogOut, processVars
<1>6. ASSUME NEW e \in events, Handler(e) PROVE boot' = boot
  BY <1>6 DEF Handler, CheckEvent, WriteEvent, ForgetRuntime, processVars
<1>7. CASE Serve \/ CloseManager \/ UNCHANGED vars
  BY <1>7 DEF Serve, CloseManager, vars
<1> QED
  BY <1>1, <1>2, <1>3, <1>4, <1>5, <1>6, <1>7 DEF Next

-----------------------------------------------------------------------------
\* A row that is in a login by QR stays in one.
LEMMA ByQRStep ==
  ASSUME TypeOK, [Next]_vars, NEW s \in Sessions, ByQR(rows[s])
  PROVE  ByQR(rows'[s])
  BY ColumnStep DEF ByQR

\* The invariants of the login method keep each other.
LEMMA QRMethodStep ==
  ASSUME TypeOK, RuntimeInv, QRMethodInv, BootInv, [Next]_vars
  PROVE  QRMethodInv'
<1>0. ~ByQR(NoRow)
  BY DEF ByQR, NoRow
<1>1. ASSUME NEW r \in RuntimeIds, rt'[r].session # NoSession, rt'[r].method = "qr"
      PROVE  ByQR(rows'[rt'[r].session])
  <2>1. CASE Attached(r)
    <3> DEFINE s == rt'[r].session
    <3>1. PICK rec \in Row : Source(s, rec) /\ rt'[r].method = rec.method
      BY <2>1 DEF Attached
    <3>2. rec.state # "absent"
      <4>1. s \in Sessions
        BY <2>1 DEF Attached
      <4>2. boot[s] # NoRow => boot[s].state = "live"
        BY <4>1 DEF BootInv
      <4>3. \A q \in Requests : KnowsRow(q) => req[q].rec.state # "absent"
        BY DEF QRMethodInv
      <4> QED BY <3>1, <4>2, <4>3 DEF Source
    <3>3. ByQR(rec)
      BY <1>1, <3>1, <3>2 DEF ByQR
    <3>4. ByQR(rows[s])
      BY <2>1, <3>1, <3>3 DEF Source, QRMethodInv, Attached
    <3> QED
      BY <2>1, <3>4, ByQRStep DEF Attached
  <2>2. CASE rt'[r] = rt[r] \/ SameLogin(r)
    <3>1. /\ rt[r].session # NoSession /\ rt'[r].session = rt[r].session
          /\ rt[r].method = "qr" /\ rt[r].session \in Sessions
      BY <1>1, <2>2 DEF SameLogin, TypeOK, Runtime
    <3> QED
      BY <3>1, ByQRStep DEF QRMethodInv
  <2>3. rt'[r] # NoRuntime
    BY <1>1 DEF NoRuntime
  <2> QED
    BY <2>1, <2>2, <2>3, RuntimeStep DEF Reset, Kept, Paired
<1>2. ASSUME NEW q \in Requests
      PROVE  /\ ByQR(req'[q].rec) => /\ req'[q].session \in Sessions
                                     /\ ByQR(rows'[req'[q].session])
             /\ KnowsRow(q)' => req'[q].rec.state # "absent"
  <2>1. CASE Forgets(q)
    BY <1>0, <2>1 DEF Forgets
  <2>2. CASE Reads(q)
    BY <2>2 DEF Reads
  <2>3. CASE req'[q] = req[q] \/ Keeps(q)
    <3>1. /\ req'[q].session = req[q].session /\ req'[q].rec = req[q].rec
          /\ KnowsRow(q)' => KnowsRow(q)
      BY <2>3 DEF Keeps, KnowsRow
    <3>2. ByQR(req[q].rec) => /\ req[q].session \in Sessions
                              /\ ByQR(rows[req[q].session])
      BY DEF QRMethodInv
    <3> QED
      BY <3>1, <3>2, ByQRStep DEF QRMethodInv
  <2> QED
    BY <2>1, <2>2, <2>3, RequestStep
<1>3. ASSUME NEW s \in Sessions, ByQR(boot'[s]) PROVE ByQR(rows'[s])
  BY <1>0, <1>3, BootStep, ByQRStep DEF QRMethodInv
<1> QED
  BY <1>1, <1>2, <1>3 DEF QRMethodInv

\* A row once inserted is never removed.
LEMMA RowStays ==
  ASSUME TypeOK, [Next]_vars, NEW s \in Sessions, rows[s].state # "absent"
  PROVE  rows'[s].state # "absent"
  BY ColumnStep

\* The row newRuntime is given was read from the table.
LEMMA SourceExists ==
  ASSUME QRMethodInv, ExistsInv, BootInv, NEW s \in Sessions, NEW rec, Source(s, rec)
  PROVE  rows[s].state # "absent"
<1>1. CASE \E q \in Requests : KnowsRow(q) /\ s = req[q].session /\ rec = req[q].rec
  <2> PICK q \in Requests : KnowsRow(q) /\ s = req[q].session
    BY <1>1
  <2>1. req[q].rec.state # "absent"
    BY DEF QRMethodInv
  <2> QED
    BY <2>1 DEF ExistsInv
<1>2. CASE process = "booting" /\ boot[s] # NoRow
  BY <1>2 DEF BootInv
<1> QED
  BY <1>1, <1>2 DEF Source

\* Only INSERT writes the row of a session that has none.
LEMMA AbsentStep ==
  ASSUME TypeOK, QRMethodInv, ExistsInv, [Next]_vars, NEW s \in Sessions,
         rows[s].state = "absent"
  PROVE  rows'[s] = rows[s] \/ \E m \in Methods : rows'[s] = Created(m)
<1>1. ASSUME NEW r \in RuntimeIds PROVE rt[r].session # s
  BY SessionAssumption DEF ExistsInv
<1>2. ASSUME NEW q \in Requests, KnowsRow(q) PROVE req[q].session # s
  BY <1>2 DEF ExistsInv, QRMethodInv
<1> QED
  BY <1>1, <1>2, RowStep DEF Writes

\* The sessions of the runtimes, and of the requests that know a row, go on
\* having one.
LEMMA ExistsStep ==
  ASSUME TypeOK, RuntimeInv, QRMethodInv, ExistsInv, BootInv, [Next]_vars
  PROVE  ExistsInv'
<1>1. ASSUME NEW r \in RuntimeIds, rt'[r].session # NoSession
      PROVE  rows'[rt'[r].session].state # "absent"
  <2>1. CASE Attached(r)
    <3>1. rt'[r].session \in Sessions /\ \E rec \in Row : Source(rt'[r].session, rec)
      BY <2>1 DEF Attached
    <3>2. rows[rt'[r].session].state # "absent"
      BY <3>1, SourceExists
    <3> QED
      BY <3>1, <3>2, RowStays
  <2>2. CASE rt'[r] = rt[r] \/ SameLogin(r)
    <3>1. rt'[r].session = rt[r].session
      BY <2>2 DEF SameLogin
    <3>2. rt[r].session \in Sessions
      BY <1>1, <3>1 DEF TypeOK, Runtime
    <3> QED
      BY <1>1, <3>1, <3>2, RowStays DEF ExistsInv
  <2>3. rt'[r] # NoRuntime
    BY <1>1 DEF NoRuntime
  <2> QED
    BY <2>1, <2>2, <2>3, RuntimeStep DEF Reset, Kept, Paired
<1>2. ASSUME NEW q \in Requests, req'[q].rec.state # "absent"
      PROVE  /\ req'[q].session \in Sessions
             /\ rows'[req'[q].session].state # "absent"
  <2>1. ~Forgets(q)
    BY <1>2 DEF Forgets, NoRow
  <2>2. CASE Reads(q)
    BY <1>2, <2>2 DEF Reads
  <2>3. CASE req'[q] = req[q] \/ Keeps(q)
    <3>1. req'[q].session = req[q].session /\ req'[q].rec = req[q].rec
      BY <2>3 DEF Keeps
    <3>2. req[q].session \in Sessions /\ rows[req[q].session].state # "absent"
      BY <1>2, <3>1 DEF ExistsInv
    <3> QED
      BY <3>1, <3>2, RowStays
  <2> QED
    BY <2>1, <2>2, <2>3, RequestStep
<1>3. ASSUME NEW s \in Sessions, rows'[s].state = "absent" PROVE rows'[s] = NoRow
  <2>1. rows[s].state = "absent"
    BY <1>3, RowStays
  <2>2. rows'[s] = rows[s]
    BY <1>3, <2>1, AbsentStep, CreatedColumns DEF Columns
  <2> QED
    BY <2>1, <2>2 DEF ExistsInv
<1> QED
  BY <1>1, <1>2, <1>3 DEF ExistsInv

\* A code is shown only by a login by QR, whose session is in QR mode.
LEMMA QRShownStep ==
  ASSUME TypeOK, QRShownInQRMode, QRMethodInv, [Next]_vars
  PROVE  QRShownInQRMode'
<1> SUFFICES ASSUME NEW s \in Sessions
             PROVE  /\ rows'[s].qr <=> rows'[s].status = "qr_ready"
                    /\ rows'[s].qr => rows'[s].method = "qr"
  BY DEF QRShownInQRMode
<1>1. \A r \in RuntimeIds :
        rt[r].session = s /\ rt[r].method = "qr" => rows[s].method = "qr"
  BY SessionAssumption DEF QRMethodInv, ByQR
<1>2. /\ rows[s].qr <=> rows[s].status = "qr_ready"
      /\ rows[s].qr => rows[s].method = "qr"
  BY DEF QRShownInQRMode
<1>3. CASE /\ rows'[s].qr = rows[s].qr /\ rows'[s].status = rows[s].status
           /\ rows'[s].method = rows[s].method
  BY <1>2, <1>3
<1>4. CASE rows'[s].qr = FALSE /\ rows'[s].status # "qr_ready"
  BY <1>4
<1>5. CASE /\ rows'[s].qr = TRUE /\ rows'[s].status = "qr_ready"
           /\ rows'[s].method = rows[s].method
           /\ \E r \in RuntimeIds : rt[r].session = s /\ rt[r].method = "qr"
  BY <1>1, <1>5
<1> QED
  BY <1>3, <1>4, <1>5, ColumnStep

-----------------------------------------------------------------------------
\* The map of runtimes changes to None, or to a runtime just attached, by a
\* request or by Rehydrate.
LEMMA MapStep ==
  ASSUME TypeOK, [Next]_vars, NEW s \in Sessions
  PROVE  \/ runtimes'[s] \in {runtimes[s], None}
         \/ /\ runtimes'[s] \in RuntimeIds /\ rt[runtimes'[s]].session = NoSession
            /\ (\E q \in Requests : Running(q)) \/ boot[s] # NoRow
<1>1. ASSUME NEW r \in RuntimeIds, NEW t \in Sessions, NEW rec \in Row,
             AttachNew(r, t, rec) \/ AttachExisting(r, t, rec)
      PROVE  \/ runtimes'[s] = runtimes[s]
             \/ t = s /\ runtimes'[s] \in RuntimeIds
                      /\ rt[runtimes'[s]].session = NoSession
  BY <1>1, AttachStep DEF TypeOK
<1>2. ASSUME NEW q \in Requests, Attach(q)
      PROVE  \/ runtimes'[s] = runtimes[s]
             \/ /\ runtimes'[s] \in RuntimeIds /\ rt[runtimes'[s]].session = NoSession
                /\ Running(q)
  <2>1. Running(q) /\ req[q].session \in Sessions /\ req[q].rec \in Row
    BY <1>2 DEF Attach, Running, TypeOK, Request
  <2>2. \E r \in RuntimeIds : \/ AttachNew(r, req[q].session, req[q].rec)
                              \/ AttachExisting(r, req[q].session, req[q].rec)
    BY <1>2 DEF Attach
  <2> QED
    BY <1>1, <2>1, <2>2
<1>3. ASSUME NEW t \in Sessions, Rehydrate(t)
      PROVE  \/ runtimes'[s] = runtimes[s]
             \/ /\ runtimes'[s] \in RuntimeIds /\ rt[runtimes'[s]].session = NoSession
                /\ boot[s] # NoRow
  <2>1. boot[t] \in Row /\ boot[t] # NoRow
    BY <1>3 DEF Rehydrate, TypeOK
  <2>2. runtimes' = runtimes \/ \E r \in RuntimeIds : AttachExisting(r, t, boot[t])
    BY <1>3 DEF Rehydrate, clientVars
  <2> QED
    BY <1>1, <2>1, <2>2
<1>4. ASSUME NEW q \in Requests, Begin(q) \/ Handle(q) \/ Abort(q), ~Attach(q)
      PROVE  runtimes'[s] \in {runtimes[s], None}
  <2>1. CASE Drop(q)
    BY <2>1 DEF Drop, DisconnectRuntime, TypeOK
  <2> QED
    BY <1>4, <2>1 DEF Begin, Handle, Abort, GetRow, InsertRow, OpenQRCode,
       EraseDevice, ResetRow, AttachFails, MarkInitializing, MarkRowDeleted,
       Look, Ready, WaitTimeout, PairPhone, MarkPairing, clientVars
<1>5. ASSUME NEW r \in RuntimeIds, Login(r) \/ Client(r) PROVE runtimes' = runtimes
  BY <1>5 DEF Login, Client, GetQRChannel, Connect, ReceiveItem, StoreCode, EmitQR,
     QRRunsOut, Pair, Relogin, Authenticate, Lose, AutoReconnect, LogOut
<1>6. ASSUME NEW e \in events, Handler(e) PROVE runtimes'[s] \in {runtimes[s], None}
  <2>1. CASE ForgetRuntime(e)
    BY <2>1 DEF ForgetRuntime, TypeOK
  <2> QED
    BY <1>6, <2>1 DEF Handler, CheckEvent, WriteEvent, clientVars
<1>7. CASE Start \/ Serve \/ CloseManager \/ Kill \/ UNCHANGED vars
  BY <1>7 DEF Start, Serve, CloseManager, Kill, vars, clientVars
<1> QED
  BY <1>2, <1>3, <1>4, <1>5, <1>6, <1>7 DEF Next

\* A handler that is running was there before, or has just been dispatched by a
\* client in use.
Went(e, d) ==
  /\ e.rt = d.rt /\ e.mapped = d.mapped
  /\ e.pc # "check" => d.pc # "check" \/ IsCurrent(d)
Dispatched(e) ==
  /\ e.rt \in RuntimeIds /\ rt[e.rt].session # NoSession
  /\ e.pc = "check" /\ runtimes' = runtimes
  /\ runtimes[rt[e.rt].session] = e.rt => e.mapped

\* Every step adds, advances or ends handlers that way.
LEMMA EventStep ==
  ASSUME TypeOK, RuntimeInv, [Next]_vars, NEW e \in events'
  PROVE  Dispatched(e) \/ \E d \in events : Went(e, d)
<1>1. ASSUME e \in events PROVE Went(e, e)
  BY DEF Went
<1>2. ASSUME NEW d \in events, Handler(d), e \notin events PROVE Went(e, d)
  <2>1. d \in Event
    BY DEF TypeOK
  <2>2. \/ IsCurrent(d) /\ e = [d EXCEPT !.pc = "write"]
        \/ d.pc = "write" /\ e = [d EXCEPT !.pc = "forget"]
    BY <1>2 DEF Handler, CheckEvent, WriteEvent, ForgetRuntime, HandlerStep
  <2> QED
    BY <2>1, <2>2 DEF Went, Event
<1>3. ASSUME NEW r \in RuntimeIds, NEW kind \in {"Connected", "Disconnected", "LoggedOut"},
             Dispatch(r, kind), rt[r].session # NoSession, runtimes' = runtimes,
             e \notin events
      PROVE  Dispatched(e)
  <2> DEFINE current == runtimes[rt[r].session] = r
  <2>1. e = [rt |-> r, kind |-> kind, pc |-> "check", mapped |-> current]
    BY <1>3 DEF Dispatch
  <2> HIDE DEF current
  <2>2. e.rt = r /\ e.pc = "check" /\ e.mapped = current
    BY <2>1
  <2>3. runtimes[rt[e.rt].session] = e.rt => e.mapped
    BY <2>2 DEF current
  <2> QED
    BY <1>3, <2>2, <2>3 DEF Dispatched
<1>4. ASSUME NEW r \in RuntimeIds, Login(r) \/ Client(r), e \notin events
      PROVE  Dispatched(e)
  <2>1. rt[r].session # NoSession
    BY <1>4, ChangeStep
  <2>2. /\ runtimes' = runtimes
        /\ Dispatch(r, "Connected") \/ Dispatch(r, "Disconnected")
             \/ Dispatch(r, "LoggedOut")
    BY <1>4 DEF Login, Client, GetQRChannel, Connect, ReceiveItem, StoreCode, EmitQR,
       QRRunsOut, Pair, Relogin, Authenticate, Lose, AutoReconnect, LogOut
  <2> QED
    BY <1>3, <1>4, <2>1, <2>2
<1>5. ASSUME NEW q \in Requests, Begin(q) \/ Handle(q) \/ Abort(q) PROVE events' = events
  BY <1>5 DEF Begin, Handle, Abort, GetRow, InsertRow, OpenQRCode, Drop,
     EraseDevice, ResetRow, Attach, AttachFails, MarkInitializing, MarkRowDeleted,
     Look, Ready, WaitTimeout, PairPhone, MarkPairing
<1>6. CASE Start \/ (\E s \in Sessions : Rehydrate(s)) \/ Serve \/ CloseManager
          \/ UNCHANGED vars
  BY <1>1, <1>6 DEF Start, Rehydrate, Serve, CloseManager, vars
<1>7. CASE Kill
  BY <1>7 DEF Kill
<1> QED
  BY <1>1, <1>2, <1>4, <1>5, <1>6, <1>7 DEF Next

\* A handler whose client was not current when it was dispatched never acts.
LEMMA EventInvStep ==
  ASSUME TypeOK, RuntimeInv, EventInv, [Next]_vars
  PROVE  EventInv'
<1> SUFFICES ASSUME NEW e \in events'
             PROVE  /\ rt'[e.rt].session # NoSession
                    /\ e.pc # "check" => e.mapped
                    /\ runtimes'[rt'[e.rt].session] = e.rt => e.mapped
  BY DEF EventInv
<1>1. /\ e.rt \in RuntimeIds /\ rt[e.rt].session # NoSession
      /\ e.pc # "check" => e.mapped
      /\ runtimes[rt[e.rt].session] = e.rt => e.mapped
  <2>1. CASE Dispatched(e)
    BY <2>1 DEF Dispatched
  <2>2. ASSUME NEW d \in events, Went(e, d)
        PROVE  /\ e.rt \in RuntimeIds /\ rt[e.rt].session # NoSession
               /\ e.pc # "check" => e.mapped
               /\ runtimes[rt[e.rt].session] = e.rt => e.mapped
    BY <2>2 DEF Went, EventInv, IsCurrent, TypeOK, Event
  <2> QED
    BY <2>1, <2>2, EventStep
<1>2. rt'[e.rt].session = rt[e.rt].session
  BY <1>1, RuntimeStep DEF Reset, Kept, Paired, SameLogin, Attached
<1>3. rt[e.rt].session \in Sessions /\ None \notin RuntimeIds
  BY <1>1 DEF TypeOK, Runtime, None, RuntimeIds
<1> QED
  BY <1>1, <1>2, <1>3, MapStep

-----------------------------------------------------------------------------
\* A device is linked once, by a session.
LEMMA OwnerStep ==
  ASSUME TypeOK, [Next]_vars, NEW d \in Devices, owner[d] # NoSession
  PROVE  owner'[d] = owner[d]
<1>1. ASSUME NEW q \in Requests, Begin(q) \/ Handle(q) \/ Abort(q) PROVE owner' = owner
  BY <1>1 DEF Begin, Handle, Abort, GetRow, InsertRow, OpenQRCode, Drop,
     EraseDevice, ResetRow, Attach, AttachFails, MarkInitializing, MarkRowDeleted,
     Look, Ready, WaitTimeout, PairPhone, MarkPairing, storeVars
<1>2. ASSUME NEW r \in RuntimeIds, Login(r) \/ Client(r) PROVE owner'[d] = owner[d]
  <2>1. CASE Pair(r)
    BY <2>1 DEF Pair, TypeOK
  <2> QED
    BY <1>2, <2>1 DEF Login, Client, GetQRChannel, Connect, ReceiveItem, StoreCode,
       EmitQR, QRRunsOut, Relogin, Authenticate, Lose, AutoReconnect, LogOut, storeVars
<1>3. ASSUME NEW e \in events, Handler(e) PROVE owner' = owner
  BY <1>3 DEF Handler, CheckEvent, WriteEvent, ForgetRuntime, storeVars
<1>4. CASE Start \/ (\E s \in Sessions : Rehydrate(s)) \/ Serve \/ CloseManager \/ Kill
          \/ UNCHANGED vars
  BY <1>4 DEF Start, Rehydrate, Serve, CloseManager, Kill, vars, storeVars
<1> QED
  BY <1>1, <1>2, <1>3, <1>4 DEF Next

\* Every copy of a device goes on naming the session that linked it.
LEMMA OwnerInvStep ==
  ASSUME TypeOK, RuntimeInv, OwnerInv, [Next]_vars
  PROVE  OwnerInv'
<1>1. ASSUME NEW d \in Devices \cup {NoDevice}, NEW s, Owned(d, s)
      PROVE  Owned(d, s)'
  BY <1>1, OwnerStep, SessionAssumption DEF Owned
<1>2. NoRow.device = NoDevice /\ NoRuntime.device = NoDevice
      /\ \A s : Owned(NoDevice, s)'
  BY DEF NoRow, NoRuntime, Owned
<1>3. /\ \A s \in Sessions : /\ rows[s].device \in Devices \cup {NoDevice}
                             /\ boot[s].device \in Devices \cup {NoDevice}
      /\ \A q \in Requests : req[q].rec.device \in Devices \cup {NoDevice}
      /\ \A r \in RuntimeIds : rt[r].device \in Devices \cup {NoDevice}
  BY DEF TypeOK, Row, Request, Runtime
<1>4. ASSUME NEW s \in Sessions PROVE Owned(rows[s].device, s)'
  <2>2. Owned(rows[s].device, s)
    BY DEF OwnerInv
  <2>3. CASE rows'[s].device \in {rows[s].device, NoDevice}
    BY <1>1, <1>2, <1>3, <2>2, <2>3 DEF Owned
  <2>4. CASE \E r \in RuntimeIds : rt[r].session = s /\ rows'[s].device = rt[r].device
    <3>1. PICK r \in RuntimeIds : rt[r].session = s /\ rows'[s].device = rt[r].device
      BY <2>4
    <3>2. PICK d \in Devices \cup {NoDevice} : d = rt[r].device
      BY <1>3
    <3>3. Owned(d, s)
      BY <3>1, <3>2 DEF OwnerInv
    <3>4. Owned(d, s)'
      BY <1>1, <3>3
    <3> QED
      BY <3>1, <3>2, <3>4 DEF Owned
  <2> QED
    BY <2>3, <2>4, ColumnStep
<1>5. ASSUME NEW s \in Sessions PROVE Owned(boot[s].device, s)'
  BY <1>1, <1>2, <1>3, <1>4, BootStep DEF OwnerInv, Owned
<1>6. ASSUME NEW q \in Requests PROVE Owned(req[q].rec.device, req[q].session)'
  <2>1. CASE Forgets(q)
    BY <1>2, <2>1 DEF Forgets, Owned
  <2>2. CASE Reads(q)
    BY <1>4, <2>2 DEF Reads, Owned
  <2>3. CASE req'[q] = req[q] \/ Keeps(q)
    <3>1. Owned(req[q].rec.device, req[q].session)
      BY DEF OwnerInv
    <3> QED
      BY <1>1, <1>3, <2>3, <3>1 DEF Keeps, Owned
  <2> QED
    BY <2>1, <2>2, <2>3, RequestStep
<1>7. ASSUME NEW r \in RuntimeIds PROVE Owned(rt[r].device, rt[r].session)'
  <2>0. Owned(rt[r].device, rt[r].session)
    BY DEF OwnerInv
  <2>1. CASE Reset(r)
    BY <1>2, <2>1 DEF Reset, Owned
  <2>2. CASE rt'[r] = rt[r] \/ Kept(r)
    BY <1>1, <1>2, <1>3, <2>0, <2>2 DEF Kept, SameLogin, Owned
  <2>3. CASE Paired(r)
    BY <2>3 DEF Paired, SameLogin, Owned, TypeOK, Runtime
  <2>4. CASE Attached(r)
    <3>1. PICK s \in Sessions : s = rt'[r].session
      BY <2>4 DEF Attached
    <3>2. PICK rec \in Row : Source(s, rec) /\ rt'[r].device \in {rec.device, NoDevice}
      BY <2>4, <3>1 DEF Attached
    <3>3. PICK d \in Devices \cup {NoDevice} : d = rec.device
      BY DEF Row
    <3>4. Owned(d, s)
      BY <3>1, <3>2, <3>3 DEF Source, OwnerInv
    <3>5. Owned(d, s)'
      BY <1>1, <3>4
    <3> QED
      BY <3>1, <3>2, <3>3, <3>5, <1>2 DEF Owned
  <2> QED
    BY <2>1, <2>2, <2>3, <2>4, RuntimeStep
<1> QED
  BY <1>4, <1>5, <1>6, <1>7 DEF OwnerInv

\* How the process goes through its life.
LEMMA ProcessStep ==
  ASSUME TypeOK, [Next]_vars
  PROVE  \/ process' = process
         \/ process = "down" /\ process' = "booting"
         \/ process = "booting" /\ process' = "up" /\ \A s \in Sessions : boot'[s] = NoRow
         \/ process = "up" /\ process' = "closed"
         \/ Kill
<1>1. ASSUME NEW q \in Requests, Begin(q) \/ Handle(q) \/ Abort(q) PROVE process' = process
  BY <1>1 DEF Begin, Handle, Abort, GetRow, InsertRow, OpenQRCode, Drop,
     EraseDevice, ResetRow, Attach, AttachFails, MarkInitializing, MarkRowDeleted,
     Look, Ready, WaitTimeout, PairPhone, MarkPairing, processVars
<1>2. ASSUME NEW r \in RuntimeIds, Login(r) \/ Client(r) PROVE process' = process
  BY <1>2 DEF Login, Client, GetQRChannel, Connect, ReceiveItem, StoreCode,
     EmitQR, QRRunsOut, Pair, Relogin, Authenticate, Lose, AutoReconnect, LogOut,
     processVars
<1>3. ASSUME NEW e \in events, Handler(e) PROVE process' = process
  BY <1>3 DEF Handler, CheckEvent, WriteEvent, ForgetRuntime, processVars
<1>4. CASE Start \/ (\E s \in Sessions : Rehydrate(s)) \/ Serve \/ CloseManager
          \/ UNCHANGED vars
  BY <1>4 DEF Start, Rehydrate, Serve, CloseManager, vars
<1> QED
  BY <1>1, <1>2, <1>3, <1>4 DEF Next

\* No request runs before the API is served.
LEMMA QuietStep ==
  ASSUME TypeOK, BootInv, [Next]_vars, ~Serving', NEW q \in Requests
  PROVE  ~Running(q)'
<1>1. CASE Kill
  <2>1. [NoRequest EXCEPT !.pc = "done"].pc = "done"
    BY DEF NoRequest
  <2> QED
    BY <1>1, <2>1 DEF Kill, Running
<1>2. CASE ~Kill
  <2>1. ~Serving /\ \A p \in Requests : ~Running(p)
    BY <1>2, ProcessStep DEF BootInv, Serving
  <2>2. ASSUME NEW p \in Requests, Begin(p) \/ Handle(p) \/ Abort(p) PROVE FALSE
    BY <2>1, <2>2 DEF Running, Begin, Handle, Abort, GetRow, InsertRow, OpenQRCode,
       Drop, EraseDevice, ResetRow, Attach, AttachFails, MarkInitializing,
       MarkRowDeleted, Look, Ready, WaitTimeout, PairPhone, MarkPairing
  <2>3. ASSUME NEW r \in RuntimeIds, Login(r) \/ Client(r) PROVE req' = req
    BY <2>3 DEF Login, Client, GetQRChannel, Connect, ReceiveItem, StoreCode,
       EmitQR, QRRunsOut, Pair, Relogin, Authenticate, Lose, AutoReconnect, LogOut
  <2>4. ASSUME NEW e \in events, Handler(e) PROVE req' = req
    BY <2>4 DEF Handler, CheckEvent, WriteEvent, ForgetRuntime
  <2>5. CASE Start \/ (\E s \in Sessions : Rehydrate(s)) \/ Serve \/ CloseManager
            \/ UNCHANGED vars
    BY <2>1, <2>5 DEF Start, Rehydrate, Serve, CloseManager, vars, Running
  <2> QED
    BY <1>2, <2>1, <2>2, <2>3, <2>4, <2>5 DEF Next, Running
<1> QED
  BY <1>1, <1>2

\* What Rehydrate has brought up, or is about to, is a live session.
LEMMA BootInvStep ==
  ASSUME TypeOK, BootInv, [Next]_vars
  PROVE  BootInv'
<1>1. ~Serving' => \A q \in Requests : ~Running(q)'
  BY QuietStep
<1>2. ASSUME process' = "down", NEW s \in Sessions PROVE runtimes'[s] = None
  <2>1. CASE Kill
    BY <2>1 DEF Kill
  <2>2. CASE process = "down"
    BY <2>2, MapStep DEF BootInv, Serving
  <2> QED
    BY <1>2, <2>1, <2>2, ProcessStep
<1>3. ASSUME process' # "booting", NEW s \in Sessions PROVE boot'[s] = NoRow
  <2>1. CASE Kill
    BY <2>1 DEF Kill
  <2> QED
    BY <1>3, <2>1, BootStep, ProcessStep DEF BootInv
<1>4. ASSUME NEW s \in Sessions, boot'[s] # NoRow PROVE boot'[s].state = "live"
  BY <1>4, BootStep DEF BootInv
<1>5. ASSUME process' = "booting", NEW s \in Sessions,
             runtimes'[s] # None \/ boot'[s] # NoRow
      PROVE  rows'[s].state = "live"
  <2>0. process \in {"booting", "down"} /\ \A q \in Requests : ~Running(q)
    BY <1>5, ProcessStep DEF BootInv, Kill, Serving
  <2>1. CASE boot'[s] = rows[s] /\ rows[s].state = "live" /\ rows' = rows
    BY <2>1
  <2>2. CASE boot'[s] = boot[s] \/ boot'[s] = NoRow
    <3>1. runtimes[s] # None \/ boot[s] # NoRow
      BY <1>5, <2>0, <2>2, MapStep
    <3>2. rows[s].state = "live"
      BY <2>0, <3>1 DEF BootInv
    <3> QED
      BY <2>0, <3>2, ColumnStep
  <2> QED
    BY <2>1, <2>2, BootStep
<1> QED
  BY <1>1, <1>2, <1>3, <1>4, <1>5 DEF BootInv

-----------------------------------------------------------------------------
\* What an earlier life of the process left satisfies the inductive invariant.
LEMMA InvInit == Init => IInv
<1> SUFFICES ASSUME Init PROVE IInv
  OBVIOUS
<1>1. TypeOK
  BY TypeInit
<1>2. PICK deviceOf \in [Sessions -> Devices \cup {NoDevice}],
           unlinked \in [Sessions -> {NoRow} \cup {Created(m) : m \in Methods}] :
        /\ \A s, t \in Sessions :
             s # t /\ deviceOf[s] = deviceOf[t] => deviceOf[s] = NoDevice
        /\ rows = [s \in Sessions |-> IF deviceOf[s] = NoDevice THEN unlinked[s]
                                     ELSE Linked(deviceOf[s])]
        /\ devices = {deviceOf[s] : s \in Sessions} \ {NoDevice}
        /\ owner = [d \in Devices |-> IF d \notin devices THEN NoSession
                                      ELSE CHOOSE s \in Sessions : deviceOf[s] = d]
  BY DEF Init
<1>3. /\ \A r \in RuntimeIds : rt[r] = NoRuntime
      /\ \A q \in Requests : req[q] = NoRequest
      /\ \A s \in Sessions : boot[s] = NoRow /\ runtimes[s] = None
      /\ events = {} /\ process = "down"
  BY DEF Init
<1>4. /\ NoRuntime.session = NoSession /\ NoRuntime.device = NoDevice
      /\ NoRequest.rec = NoRow /\ NoRequest.pc = "idle"
      /\ NoRow.state = "absent" /\ NoRow.device = NoDevice
      /\ NoRow.qr = FALSE /\ NoRow.status = "initializing"
  BY DEF NoRuntime, NoRequest, NoRow
<1>5. ASSUME NEW s \in Sessions
      PROVE  /\ rows[s].qr = FALSE /\ rows[s].status # "qr_ready"
             /\ rows[s].device = deviceOf[s]
             /\ rows[s].state = "absent" => rows[s] = NoRow
  <2>1. CASE deviceOf[s] = NoDevice
    BY <1>2, <1>4, <2>1, CreatedColumns DEF Columns
  <2>2. CASE deviceOf[s] # NoDevice
    <3>1. \A d \in Devices : /\ Linked(d).qr = FALSE /\ Linked(d).status = "connected"
                             /\ Linked(d).device = d /\ Linked(d).state = "live"
      <4>1. /\ Created("qr") \in Row /\ Created("qr").qr = FALSE
            /\ Created("qr").state = "live"
        BY StoreTypes, CreatedColumns DEF Columns, Methods
      <4> QED BY <4>1 DEF Linked, Row
    <3> QED
      BY <1>2, <2>2, <3>1
  <2> QED
    BY <2>1, <2>2
<1>6. ASSUME NEW s \in Sessions PROVE Owned(rows[s].device, s)
  <2>1. CASE deviceOf[s] # NoDevice
    <3>1. deviceOf[s] \in Devices /\ deviceOf[s] \in devices
      BY <1>2, <2>1
    <3>2. \A t \in Sessions : deviceOf[t] = deviceOf[s] => t = s
      BY <1>2, <2>1
    <3>3. rows[s].device = deviceOf[s]
      BY <1>5
    <3>4. owner[deviceOf[s]] = CHOOSE t \in Sessions : deviceOf[t] = deviceOf[s]
      BY <1>2, <3>1
    <3>5. owner[deviceOf[s]] = s
      BY <3>2, <3>4
    <3> QED
      BY <3>3, <3>5 DEF Owned
  <2> QED
    BY <1>5, <2>1 DEF Owned
<1> QED
  BY <1>1, <1>3, <1>4, <1>5, <1>6
  DEF IInv, RuntimeInv, QRShownInQRMode, QRMethodInv, KnowsRow, ByQR, ExistsInv,
      EventInv, OwnerInv, Owned, BootInv, Serving, Running

\* Every reachable state satisfies the inductive invariant.
LEMMA Invariance == Spec => []IInv
<1>1. IInv /\ [Next]_vars => IInv'
  BY TypeStep, RuntimeInvStep, QRShownStep, QRMethodStep, ExistsStep, EventInvStep,
     OwnerInvStep, BootInvStep DEF IInv
<1> QED
  BY <1>1, InvInit, PTL DEF Spec

\* A QR code is stored only in a session that logs in by QR, and only with the
\* status qr_ready, however late the goroutine of a replaced login writes it.
THEOREM QRMode == Spec => []QRShownInQRMode
<1>1. IInv => QRShownInQRMode
  BY DEF IInv
<1> QED
  BY <1>1, Invariance, PTL

\* handleEvent never acts on what a replaced or disconnected client reports.
THEOREM GhostsIgnored == Spec => []GhostEventsIgnored
<1>1. IInv => GhostEventsIgnored
  BY DEF IInv, EventInv, GhostEventsIgnored
<1> QED
  BY <1>1, Invariance, PTL

\* Rehydrate brings up live sessions only.
THEOREM BootIsLive == Spec => []BootSkipsDeleted
<1>1. IInv => BootSkipsDeleted
  BY DEF IInv, BootInv, BootSkipsDeleted
<1> QED
  BY <1>1, Invariance, PTL

\* No session gets the device that another one linked.
THEOREM DevicesKeepOwner == Spec => []DeviceOwnership
<1>1. IInv => DeviceOwnership
  BY DEF IInv, OwnerInv, Owned, DeviceOwnership
<1> QED
  BY <1>1, Invariance, PTL

-----------------------------------------------------------------------------
(* SessionManager implements SessionLife.                                     *)

\* The initial tables are ones the life of sessions may start with.
LEMMA LifeInit == Init => Life!Init
<1> SUFFICES ASSUME Init PROVE Life!Init
  OBVIOUS
<1>1. IInv
  BY InvInit
<1>2. ASSUME NEW s \in Sessions
      PROVE  /\ rows[s].state \in {"absent", "live"} /\ rows[s].method \in Methods
             /\ rows[s].device \in Devices \cup {NoDevice}
             /\ rows[s].device # NoDevice
                  => rows[s].state = "live" /\ owner[rows[s].device] = s
             /\ rows[s].qr = FALSE
  <2>1. PICK deviceOf \in [Sessions -> Devices \cup {NoDevice}],
             unlinked \in [Sessions -> {NoRow} \cup {Created(m) : m \in Methods}] :
          rows = [t \in Sessions |-> IF deviceOf[t] = NoDevice THEN unlinked[t]
                                     ELSE Linked(deviceOf[t])]
    BY DEF Init
  <2>2. \/ rows[s] = NoRow \/ (\E m \in Methods : rows[s] = Created(m))
        \/ \E d \in Devices : rows[s] = Linked(d)
    BY <2>1
  <2>3. /\ NoRow.state = "absent" /\ NoRow.device = NoDevice /\ NoRow.qr = FALSE
        /\ \A d \in Devices : Linked(d).state = "live" /\ Linked(d).qr = FALSE
    <3>1. Created("qr") \in Row /\ Created("qr").state = "live" /\ Created("qr").qr = FALSE
      BY StoreTypes, CreatedColumns DEF Columns, Methods
    <3> QED BY <3>1 DEF NoRow, Linked, Row
  <2>4. /\ rows[s].state \in {"absent", "live"} /\ rows[s].qr = FALSE
        /\ rows[s].device # NoDevice => rows[s].state = "live"
    BY <2>2, <2>3, CreatedColumns DEF Columns
  <2>5. rows[s].device # NoDevice => owner[rows[s].device] = s
    BY <1>1 DEF IInv, OwnerInv, Owned
  <2>6. rows[s] \in Row
    BY <1>1 DEF IInv, TypeOK
  <2> QED
    BY <2>4, <2>5, <2>6 DEF Row
<1>3. InUse = {}
  BY DEF Init, InUse, NoRuntime
<1>4. owner \in [Devices -> Sessions \cup {NoSession}]
  BY <1>1 DEF IInv, TypeOK
<1>5. "none" \notin Methods
  BY DEF Methods
<1> QED
  BY <1>2, <1>3, <1>4, <1>5 DEF Life!Init, LifeOf, ModeOf, AccountOf, CodeOf

\* A step that changes a row changes no other, links no device, and leaves every
\* runtime its session and its device.
LEMMA OneRow ==
  ASSUME TypeOK, [Next]_vars, NEW s \in Sessions, rows'[s] # rows[s]
  PROVE  /\ owner' = owner
         /\ \A t \in Sessions : t # s => rows'[t] = rows[t]
         /\ \A r \in RuntimeIds : rt'[r].session = rt[r].session
                                /\ rt'[r].device = rt[r].device
<1> DEFINE One == /\ owner' = owner
                  /\ \A t \in Sessions : t # s => rows'[t] = rows[t]
                  /\ \A r \in RuntimeIds : rt'[r].session = rt[r].session
                                         /\ rt'[r].device = rt[r].device
<1>0. ASSUME NEW t, NEW row, SetRow(t, row) \/ TrySetRow(t, row)
      PROVE  \A u \in Sessions : u # s => rows'[u] = rows[u]
  BY <1>0 DEF SetRow, TrySetRow, TypeOK
<1>1. ASSUME NEW q \in Requests, Begin(q) \/ Handle(q) \/ Abort(q) PROVE One
  <2>1. \/ InsertRow(q) \/ ResetRow(q) \/ MarkInitializing(q) \/ MarkPairing(q)
        \/ MarkRowDeleted(q)
    BY <1>1 DEF Begin, Handle, Abort, GetRow, OpenQRCode, Drop, EraseDevice, Attach,
       AttachFails, Look, Ready, WaitTimeout, PairPhone, storeVars
  <2>2. rt' = rt /\ owner' = owner
    BY <2>1 DEF InsertRow, ResetRow, MarkInitializing, MarkPairing, MarkRowDeleted,
       clientVars
  <2>3. \E t, row : SetRow(t, row)
    BY <2>1 DEF InsertRow, ResetRow, MarkInitializing, MarkPairing, MarkRowDeleted
  <2> QED
    BY <1>0, <2>2, <2>3
<1>2. ASSUME NEW p \in RuntimeIds, Login(p) \/ Client(p) PROVE One
  <2>1. GetQRChannel(p) \/ Connect(p) \/ ReceiveItem(p) \/ StoreCode(p)
    BY <1>2 DEF Login, Client, EmitQR, QRRunsOut, Pair, Relogin, Authenticate, Lose,
       AutoReconnect, LogOut, storeVars
  <2>2. owner' = owner /\ \E t, row : TrySetRow(t, row)
    BY <2>1 DEF GetQRChannel, Connect, ReceiveItem, StoreCode, SetSessionError
  <2>3. ASSUME NEW r \in RuntimeIds
        PROVE  rt'[r].session = rt[r].session /\ rt'[r].device = rt[r].device
    <3>0. rt[p] \in Runtime /\ rt \in [RuntimeIds -> Runtime]
      BY DEF TypeOK
    <3>1. \A c : Change(p, c) => rt'[p] = c /\ \A u \in RuntimeIds \ {p} : rt'[u] = rt[u]
      BY DEF Change, TypeOK
    <3>2. \E c : Change(p, c)
      BY <2>1 DEF GetQRChannel, Connect, ReceiveItem, StoreCode
    <3>3. \/ rt'[p] = [rt[p] EXCEPT !.chan = "armed", !.login = "connect"]
          \/ rt'[p] = [rt[p] EXCEPT !.login = "none"]
          \/ rt'[p] = [rt[p] EXCEPT !.sock = "open", !.login = "none"]
          \/ rt'[p] = [rt[p] EXCEPT !.items = Tail(@)]
          \/ rt'[p] = [[rt[p] EXCEPT !.items = Tail(@)]
                         EXCEPT !.ready = TRUE, !.writing = TRUE]
          \/ rt'[p] = [rt[p] EXCEPT !.writing = FALSE]
      <4>1. CASE GetQRChannel(p)
        BY <3>1, <4>1 DEF GetQRChannel
      <4>2. CASE Connect(p)
        BY <3>1, <4>2 DEF Connect
      <4>3. CASE ReceiveItem(p)
        BY <3>1, <4>3 DEF ReceiveItem
      <4>4. CASE StoreCode(p)
        BY <3>1, <4>4 DEF StoreCode
      <4> QED
        BY <2>1, <4>1, <4>2, <4>3, <4>4
    <3>4. rt'[p].session = rt[p].session /\ rt'[p].device = rt[p].device
      BY <3>0, <3>3 DEF Runtime
    <3> QED
      BY <3>1, <3>2, <3>4
  <2> QED
    BY <1>0, <2>2, <2>3
<1>3. ASSUME NEW e \in events, Handler(e) PROVE One
  <2>1. WriteEvent(e)
    BY <1>3 DEF Handler, CheckEvent, ForgetRuntime, storeVars
  <2> QED
    BY <1>0, <2>1 DEF WriteEvent, clientVars
<1>4. CASE Start \/ (\E t \in Sessions : Rehydrate(t)) \/ Serve \/ CloseManager \/ Kill
          \/ UNCHANGED vars
  BY <1>4 DEF Start, Rehydrate, Serve, CloseManager, Kill, vars, storeVars
<1> QED
  BY <1>1, <1>2, <1>3, <1>4 DEF Next

\* What a step that changes one row does to the four columns of the life of
\* sessions.
LEMMA LifeColumns ==
  ASSUME NEW s \in Sessions, \A t \in Sessions : t # s => rows'[t] = rows[t]
  PROVE  /\ LifeOf' = [LifeOf EXCEPT ![s] = rows'[s].state]
         /\ ModeOf' = [ModeOf EXCEPT ![s] = IF rows'[s].state = "absent" THEN "none"
                                           ELSE rows'[s].method]
         /\ AccountOf' = [AccountOf EXCEPT ![s] = rows'[s].device]
         /\ CodeOf' = [CodeOf EXCEPT ![s] = rows'[s].qr]
         /\ rows'[s].state = rows[s].state => LifeOf' = LifeOf
         /\ rows'[s].state = rows[s].state /\ rows'[s].method = rows[s].method
              => ModeOf' = ModeOf
         /\ rows'[s].device = rows[s].device => AccountOf' = AccountOf
         /\ rows'[s].qr = rows[s].qr => CodeOf' = CodeOf
         /\ LifeOf[s] = rows[s].state /\ AccountOf[s] = rows[s].device
         /\ rows[s].state # "absent" => ModeOf[s] = rows[s].method
<1>1. /\ LifeOf' = [LifeOf EXCEPT ![s] = rows'[s].state]
      /\ rows'[s].state = rows[s].state => LifeOf' = LifeOf
      /\ LifeOf[s] = rows[s].state
  BY DEF LifeOf
<1>2. /\ ModeOf' = [ModeOf EXCEPT ![s] = IF rows'[s].state = "absent" THEN "none"
                                        ELSE rows'[s].method]
      /\ rows'[s].state = rows[s].state /\ rows'[s].method = rows[s].method
              => ModeOf' = ModeOf
      /\ rows[s].state # "absent" => ModeOf[s] = rows[s].method
  BY DEF ModeOf
<1>3. /\ AccountOf' = [AccountOf EXCEPT ![s] = rows'[s].device]
      /\ rows'[s].device = rows[s].device => AccountOf' = AccountOf
      /\ AccountOf[s] = rows[s].device
  BY DEF AccountOf
<1>4. /\ CodeOf' = [CodeOf EXCEPT ![s] = rows'[s].qr]
      /\ rows'[s].qr = rows[s].qr => CodeOf' = CodeOf
  BY DEF CodeOf
<1> QED
  BY <1>1, <1>2, <1>3, <1>4

\* A runtime in use belongs to a session that has a row, and its device was
\* linked by it.
LEMMA RuntimeExists ==
  ASSUME IInv, NEW r \in RuntimeIds, rt[r].session # NoSession
  PROVE  /\ rt[r].session \in Sessions /\ rows[rt[r].session].state # "absent"
         /\ rt[r].device \in Devices \cup {NoDevice}
         /\ rt[r].device # NoDevice => owner[rt[r].device] = rt[r].session
         /\ rt[r].method = "qr" => rows[rt[r].session].method = "qr"
  BY DEF IInv, ExistsInv, OwnerInv, Owned, QRMethodInv, ByQR, TypeOK, Runtime

\* A step that changes a row creates, shows, hides, resets or deletes the session,
\* or has it adopt an account.
LEMMA RowLife ==
  ASSUME IInv, [Next]_vars, NEW s \in Sessions, rows'[s] # rows[s]
  PROVE  Life!Next
<1>0. TypeOK /\ rows[s] \in Row
  BY DEF IInv, TypeOK
<1>1. owner' = owner /\ \A t \in Sessions : t # s => rows'[t] = rows[t]
  BY <1>0, OneRow
<1>2. InUse' = InUse
  <2>1. \A r \in RuntimeIds : /\ rt'[r].session = rt[r].session
                              /\ rt'[r].device = rt[r].device
    BY <1>0, OneRow
  <2> QED
    BY <2>1 DEF InUse
<1>3. ASSUME NEW m \in Methods, rows[s].state = "absent", rows'[s] = Created(m)
      PROVE  Life!Create(s)
  <2>1. Columns(rows'[s], "live", m, "initializing", NoDevice, FALSE)
    BY <1>3, CreatedColumns
  <2>2. rows[s].device = NoDevice /\ rows[s].qr = FALSE
    BY <1>3 DEF IInv, ExistsInv, NoRow
  <2>3. /\ LifeOf[s] = "absent" /\ LifeOf' = [LifeOf EXCEPT ![s] = "live"]
        /\ ModeOf' = [ModeOf EXCEPT ![s] = m]
        /\ AccountOf' = AccountOf /\ CodeOf' = CodeOf
    BY <1>1, <1>3, <2>1, <2>2, LifeColumns DEF Columns
  <2> QED
    BY <1>1, <1>2, <2>3 DEF Life!Create
<1>4. ASSUME rows[s].state = "live", rows'[s] = ResetForQRCode(rows[s])
      PROVE  Life!Reset(s)
  <2>1. Columns(rows'[s], "live", "qr", "initializing", NoDevice, FALSE)
    BY <1>0, <1>4, ResetColumns
  <2>2. /\ LifeOf[s] = "live" /\ LifeOf' = LifeOf
        /\ ModeOf' = [ModeOf EXCEPT ![s] = "qr"]
        /\ AccountOf' = [AccountOf EXCEPT ![s] = NoDevice]
        /\ CodeOf' = [CodeOf EXCEPT ![s] = FALSE]
    BY <1>1, <1>4, <2>1, LifeColumns DEF Columns
  <2> QED
    BY <1>1, <1>2, <2>2 DEF Life!Reset
<1>5. ASSUME rows[s].state # "absent", rows'[s] = MarkDeleted(rows[s])
      PROVE  Life!Delete(s)
  <2>1. Columns(rows'[s], "deleted", rows[s].method, "deleted", rows[s].device, FALSE)
    BY <1>0, <1>5, DeletedColumns
  <2>2. /\ LifeOf[s] # "absent" /\ LifeOf' = [LifeOf EXCEPT ![s] = "deleted"]
        /\ AccountOf' = AccountOf /\ CodeOf' = [CodeOf EXCEPT ![s] = FALSE]
    BY <1>1, <1>5, <2>1, LifeColumns DEF Columns
  <2>3. ModeOf' = ModeOf
    BY <1>1, <1>5, <2>1 DEF Columns, ModeOf
  <2> QED
    BY <1>1, <1>2, <2>2, <2>3 DEF Life!Delete, Life!Exists
<1>6. ASSUME NEW status \in Statuses, NEW device \in Devices \cup {NoDevice},
             rows'[s] = UpdateState(rows[s], status, device, FALSE),
             device # NoDevice => owner[device] = s /\ rows[s].state # "absent"
      PROVE  Life!Hide(s) \/ \E a \in Devices : Life!Adopt(s, a)
  <2>1. Columns(rows'[s], rows[s].state, rows[s].method, status,
                IF device = NoDevice THEN rows[s].device ELSE device, FALSE)
    BY <1>0, <1>6, UpdateColumns
  <2>2. CASE device = NoDevice
    BY <1>1, <1>2, <2>1, <2>2, LifeColumns DEF Columns, Life!Hide
  <2>3. CASE device # NoDevice
    <3>0. /\ LifeOf[s] # "absent" /\ LifeOf' = LifeOf /\ ModeOf' = ModeOf
          /\ AccountOf' = [AccountOf EXCEPT ![s] = device]
          /\ CodeOf' = [CodeOf EXCEPT ![s] = FALSE]
      BY <1>1, <1>6, <2>1, <2>3, LifeColumns DEF Columns
    <3>1. Life!Adopt(s, device)
      BY <1>1, <1>2, <1>6, <2>3, <3>0 DEF Life!Adopt, Life!Exists
    <3> QED
      BY <2>3, <3>1
  <2> QED
    BY <2>2, <2>3
<1>7. ASSUME NEW r \in RuntimeIds, rt[r].session = s,
             rows'[s] = UpdateState(rows[s], "connected", rt[r].device, FALSE)
      PROVE  Life!Hide(s) \/ \E a \in Devices : Life!Adopt(s, a)
  <2>1. rt[r].session # NoSession
    BY <1>7, SessionAssumption
  <2> QED
    BY <1>6, <1>7, <2>1, RuntimeExists DEF Statuses
<1>8. ASSUME NEW r \in RuntimeIds, rt[r].session = s, rt[r].method = "qr",
             rows'[s] = UpdateState(rows[s], "qr_ready", NoDevice, TRUE)
      PROVE  Life!Show(s)
  <2>1. rt[r].session # NoSession
    BY <1>8, SessionAssumption
  <2>2. Columns(rows'[s], rows[s].state, rows[s].method, "qr_ready", rows[s].device, TRUE)
    BY <1>0, <1>8, CodeColumns
  <2>3. rows[s].state # "absent" /\ rows[s].method = "qr"
    BY <1>8, <2>1, RuntimeExists
  <2> QED
    BY <1>1, <1>2, <2>2, <2>3, LifeColumns DEF Columns, Life!Show, Life!Exists
<1>9. ASSUME NEW status \in Statuses \ {"qr_ready"},
             rows'[s] = UpdateState(rows[s], status, NoDevice, FALSE)
      PROVE  Life!Hide(s)
  <2>1. Columns(rows'[s], rows[s].state, rows[s].method, status, rows[s].device, FALSE)
    BY <1>0, <1>9, UpdateColumns
  <2> QED
    BY <1>1, <1>2, <2>1, LifeColumns DEF Columns, Life!Hide
<1> QED
  BY <1>0, <1>3, <1>4, <1>5, <1>7, <1>8, <1>9, RowStep DEF Life!Next

\* Runtimes that keep or lose what they have, lose accounts at most.
LEMMA LosesUse ==
  ASSUME TypeOK, \A r \in RuntimeIds : rt'[r] = rt[r] \/ Kept(r) \/ Reset(r)
  PROVE  InUse' \subseteq InUse
<1> SUFFICES ASSUME NEW r \in RuntimeIds, rt'[r].device # NoDevice
             PROVE  /\ rt[r].session = rt'[r].session /\ rt[r].device = rt'[r].device
                    /\ rt[r].device # NoDevice
  BY DEF InUse
<1>1. ~Reset(r)
  BY DEF Reset, NoRuntime
<1> QED
  BY <1>1 DEF Kept, SameLogin

\* A runtime attached for a session brings at most the device it was given.
LEMMA GainsUse ==
  ASSUME TypeOK, RuntimeInv, NEW s \in Sessions, NEW rec \in Row, NEW r \in RuntimeIds,
         AttachNew(r, s, rec) \/ AttachExisting(r, s, rec)
  PROVE  InUse' = InUse \/ (rec.device # NoDevice /\ InUse' = InUse \cup {<<s, rec.device>>})
<1>1. /\ rt[r].device = NoDevice
      /\ rt'[r].session = s /\ rt'[r].device \in {rec.device, NoDevice}
      /\ \A p \in RuntimeIds : p # r => rt'[p] = rt[p]
  BY AttachStep DEF RuntimeInv, NoRuntime
<1>2. CASE rt'[r].device = NoDevice
  <2>1. \A p \in RuntimeIds : rt[p].device # NoDevice \/ rt'[p].device # NoDevice
                               => rt'[p] = rt[p]
    BY <1>1, <1>2
  <2>2. InUse' = InUse
    BY <2>1 DEF InUse
  <2> QED
    BY <2>2
<1>3. CASE rt'[r].device # NoDevice
  <2>1. /\ rt'[r].device = rec.device /\ rec.device # NoDevice
    BY <1>1, <1>3
  <2>2. InUse' = InUse \cup {<<s, rec.device>>}
    <3>1. ASSUME NEW u \in InUse' PROVE u \in InUse \cup {<<s, rec.device>>}
      BY <1>1, <2>1 DEF InUse
    <3>2. ASSUME NEW u \in InUse PROVE u \in InUse'
      BY <1>1 DEF InUse
    <3>3. <<s, rec.device>> \in InUse'
      BY <1>1, <2>1 DEF InUse
    <3> QED
      BY <3>1, <3>2, <3>3
  <2> QED
    BY <2>1, <2>2
<1> QED
  BY <1>2, <1>3

\* The phone links a device to a client that had none.
LEMMA LinksUse ==
  ASSUME TypeOK, RuntimeInv, NEW r \in RuntimeIds, Pair(r)
  PROVE  /\ rt[r].session # NoSession
         /\ \E d \in Devices : /\ owner[d] = NoSession
                               /\ owner' = [owner EXCEPT ![d] = rt[r].session]
                               /\ InUse' = InUse \cup {<<rt[r].session, d>>}
<1>0. rt[r] \in Runtime /\ rt \in [RuntimeIds -> Runtime]
  BY DEF TypeOK
<1>1. PICK d \in Devices :
        /\ owner[d] = NoSession
        /\ owner' = [owner EXCEPT ![d] = rt[r].session]
        /\ Change(r, CloseChannel([rt[r] EXCEPT !.device = d, !.login = "relogin"],
                                  << >>))
  BY DEF Pair
<1>2. /\ rt'[r].session = rt[r].session /\ rt'[r].device = d
      /\ \A p \in RuntimeIds : p # r => rt'[p] = rt[p]
  BY <1>0, <1>1 DEF Change, CloseChannel, Runtime
<1>3. rt[r].device = NoDevice /\ d # NoDevice
  BY DEF Pair, Devices, NoDevice
<1>4. InUse' = InUse \cup {<<rt[r].session, d>>}
  <2>1. ASSUME NEW u \in InUse' PROVE u \in InUse \cup {<<rt[r].session, d>>}
    BY <1>2 DEF InUse
  <2>2. ASSUME NEW u \in InUse PROVE u \in InUse'
    BY <1>2, <1>3 DEF InUse
  <2>3. <<rt[r].session, d>> \in InUse'
    BY <1>2, <1>3 DEF InUse
  <2> QED
    BY <2>1, <2>2, <2>3
<1>5. rt[r].session # NoSession
  BY ChangeStep DEF Client
<1> QED
  BY <1>1, <1>4, <1>5

\* A step that changes no row links, connects or disconnects.
LEMMA ClientLife ==
  ASSUME IInv, [Next]_vars, \A s \in Sessions : rows'[s] = rows[s]
  PROVE  [Life!Next]_(Life!vars)
<1>0. TypeOK /\ RuntimeInv /\ QRMethodInv /\ ExistsInv /\ BootInv /\ OwnerInv
  BY DEF IInv
<1>1. LifeOf' = LifeOf /\ ModeOf' = ModeOf /\ AccountOf' = AccountOf /\ CodeOf' = CodeOf
  BY DEF LifeOf, ModeOf, AccountOf, CodeOf
<1>2. ASSUME owner' = owner, InUse' \subseteq InUse PROVE Life!Next
  BY <1>1, <1>2 DEF Life!Next, Life!Disconnect, Life!rowVars
<1>3. ASSUME NEW s \in Sessions, NEW rec \in Row, NEW r \in RuntimeIds,
             AttachNew(r, s, rec) \/ AttachExisting(r, s, rec), Source(s, rec),
             owner' = owner
      PROVE  Life!Next
  <2>1. CASE InUse' = InUse
    BY <1>2, <1>3, <2>1
  <2>2. CASE rec.device # NoDevice /\ InUse' = InUse \cup {<<s, rec.device>>}
    <3>1. rec.device \in Devices
      BY <2>2 DEF Row
    <3>2. owner[rec.device] = s
      BY <1>0, <1>3, <2>2 DEF Source, OwnerInv, Owned
    <3>3. LifeOf[s] # "absent"
      BY <1>0, <1>3, SourceExists DEF LifeOf
    <3>4. Life!Connect(s, rec.device)
      BY <1>1, <1>3, <2>2, <3>2, <3>3 DEF Life!Connect, Life!Exists, Life!rowVars
    <3> QED
      BY <3>1, <3>4 DEF Life!Next
  <2> QED
    BY <1>0, <1>3, <2>1, <2>2, GainsUse
<1>4. ASSUME NEW q \in Requests, Begin(q) \/ Handle(q) \/ Abort(q) PROVE Life!Next
  <2>0. owner' = owner
    BY <1>4 DEF Begin, Handle, Abort, GetRow, InsertRow, OpenQRCode, Drop,
       EraseDevice, ResetRow, Attach, AttachFails, MarkInitializing, MarkRowDeleted,
       Look, Ready, WaitTimeout, PairPhone, MarkPairing, storeVars
  <2>1. CASE Attach(q)
    <3>1. req[q].session \in Sessions /\ req[q].rec \in Row /\ KnowsRow(q)
      BY <1>0, <2>1 DEF Attach, TypeOK, Running, Request, KnowsRow
    <3>2. PICK r \in RuntimeIds : \/ AttachNew(r, req[q].session, req[q].rec)
                                  \/ AttachExisting(r, req[q].session, req[q].rec)
      BY <2>1 DEF Attach
    <3> QED
      BY <1>3, <2>0, <3>1, <3>2 DEF Source
  <2>2. CASE Drop(q)
    <3>1. req[q].session \in Sessions
      BY <1>0, <2>2 DEF Drop, TypeOK, Running
    <3>2. \A r \in RuntimeIds : rt'[r] = rt[r] \/ Kept(r)
      BY <1>0, <2>2, <3>1, DropStep DEF Drop
    <3> QED
      BY <1>0, <1>2, <2>0, <3>2, LosesUse
  <2>3. CASE ~Attach(q) /\ ~Drop(q)
    <3>1. rt' = rt
      BY <1>4, <2>3 DEF Handle, Begin, Abort, GetRow, InsertRow, OpenQRCode, EraseDevice,
         ResetRow, AttachFails, MarkInitializing, MarkRowDeleted, Look, Ready,
         WaitTimeout, PairPhone, MarkPairing, clientVars
    <3> QED
      BY <1>0, <1>2, <2>0, <3>1, LosesUse
  <2> QED
    BY <2>1, <2>2, <2>3
<1>5. ASSUME NEW r \in RuntimeIds, Login(r) \/ Client(r) PROVE Life!Next
  <2>1. CASE Pair(r)
    <3>1. PICK d \in Devices : /\ owner[d] = NoSession
                               /\ owner' = [owner EXCEPT ![d] = rt[r].session]
                               /\ InUse' = InUse \cup {<<rt[r].session, d>>}
      BY <1>0, <2>1, LinksUse
    <3>2. rt[r].session \in Sessions /\ LifeOf[rt[r].session] # "absent"
      BY <1>0, <2>1, LinksUse, RuntimeExists DEF LifeOf
    <3>3. Life!Link(rt[r].session, d)
      BY <1>1, <3>1, <3>2 DEF Life!Link, Life!Exists, Life!rowVars
    <3> QED
      BY <3>2, <3>3 DEF Life!Next
  <2>2. CASE ~Pair(r)
    <3>1. owner' = owner
      BY <1>5, <2>2 DEF Login, Client, GetQRChannel, Connect, ReceiveItem, StoreCode,
         EmitQR, QRRunsOut, Relogin, Authenticate, Lose, AutoReconnect, LogOut, storeVars
    <3>2. ASSUME NEW p \in RuntimeIds PROVE rt'[p] = rt[p] \/ Kept(p)
      <4>1. p # r => rt'[p] = rt[p]
        BY <1>0, <1>5, ChangeStep
      <4>2. Kept(r)
        BY <1>0, <1>5, <2>2, ChangeStep
      <4> QED
        BY <4>1, <4>2
    <3> QED
      BY <1>0, <1>2, <3>1, <3>2, LosesUse
  <2> QED
    BY <2>1, <2>2
<1>6. ASSUME NEW e \in events, Handler(e) PROVE Life!Next
  <2>1. owner' = owner /\ rt' = rt
    BY <1>6 DEF Handler, CheckEvent, WriteEvent, ForgetRuntime, storeVars, clientVars
  <2> QED
    BY <1>0, <1>2, <2>1, LosesUse
<1>7. ASSUME NEW s \in Sessions, Rehydrate(s) PROVE Life!Next
  <2>0. owner' = owner
    BY <1>7 DEF Rehydrate, storeVars
  <2>1. CASE UNCHANGED clientVars
    BY <1>0, <1>2, <2>0, <2>1, LosesUse DEF clientVars
  <2>2. ASSUME NEW r \in RuntimeIds, AttachExisting(r, s, boot[s]) PROVE Life!Next
    <3>1. boot[s] \in Row /\ Source(s, boot[s])
      BY <1>0, <1>7 DEF TypeOK, Rehydrate, Source
    <3> QED
      BY <1>3, <2>0, <2>2, <3>1
  <2> QED
    BY <1>7, <2>1, <2>2 DEF Rehydrate
<1>8. CASE CloseManager
  <2>1. owner' = owner /\ \A r \in RuntimeIds : rt'[r] = rt[r] \/ Kept(r)
    BY <1>0, <1>8, DropStep DEF CloseManager, storeVars
  <2> QED
    BY <1>0, <1>2, <2>1, LosesUse
<1>9. CASE Kill
  <2>1. owner' = owner /\ \A r \in RuntimeIds : Reset(r)
    BY <1>9 DEF Kill, Reset, storeVars
  <2> QED
    BY <1>0, <1>2, <2>1, LosesUse
<1>10. CASE Start \/ Serve \/ UNCHANGED vars
  <2>1. owner' = owner /\ rt' = rt
    BY <1>10 DEF Start, Serve, vars, storeVars, clientVars
  <2> QED
    BY <1>0, <1>2, <2>1, LosesUse
<1> QED
  BY <1>4, <1>5, <1>6, <1>7, <1>8, <1>9, <1>10 DEF Next

\* The session manager implements the life of sessions: created once, deleted
\* for good, each account named and used only by the session that linked it and
\* given up only for a login by QR code, and a code shown only in such a login.
THEOREM Implements == Spec => KeepsLife
<1>1. IInv /\ [Next]_vars => [Life!Next]_(Life!vars)
  <2> SUFFICES ASSUME IInv, [Next]_vars PROVE [Life!Next]_(Life!vars)
    OBVIOUS
  <2> QED
    BY RowLife, ClientLife
<1> QED
  BY <1>1, LifeInit, Invariance, PTL DEF Spec, KeepsLife, Life!Spec

-----------------------------------------------------------------------------
\* What is left of a request that a handler finishes, and how near the others
\* steps bring it to its answer.
LEMMA PlaceValues ==
  /\ Place["idle"] = 40 /\ Place["get"] = 12 /\ Place["insert"] = 11
  /\ Place["open"] = 11 /\ Place["look"] = 11 /\ Place["drop"] = 10
  /\ Place["erase"] = 9 /\ Place["reset"] = 8 /\ Place["attach"] = 7
  /\ Place["update"] = 6 /\ Place["mark"] = 6 /\ Place["wait"] = 6
  /\ Place["pair"] = 5 /\ Place["paired"] = 4 /\ Place["refused"] = 1
  /\ Place["done"] = 0
  BY DEF Place

\* A request that goes on, is nearer to its answer.
Nearer(q) == /\ Rank(q)' < Rank(q)
             /\ req'[q].pc = "done" => req'[q] = [NoRequest EXCEPT !.pc = "done"]

\* To finish is to be nearer, from wherever the request runs; so is to go to a
\* place nearer to the end.
LEMMA GoesNearer ==
  ASSUME TypeOK, NEW q \in Requests, req[q].pc # "done"
  PROVE  /\ Finish(q, "done") => Nearer(q)
         /\ Finish(q, "refused") /\ req[q].pc # "refused" => Nearer(q)
         /\ \A pc \in {"get", "insert", "attach", "open", "drop", "erase", "reset",
                        "update", "mark", "look", "wait", "pair", "paired"} :
              req'[q].pc = pc /\ req'[q].op = req[q].op
                /\ Place[pc] < Place[req[q].pc] => Nearer(q)
<1>1. /\ req \in [Requests -> Request]
      /\ req[q].pc \in {"idle", "get", "insert", "attach", "open", "drop", "erase",
                        "reset", "update", "mark", "look", "wait", "pair", "paired",
                        "refused", "done"}
  BY DEF TypeOK, Request
<1>2. Place[req[q].pc] \in Nat /\ Place[req[q].pc] > 0
      /\ (req[q].pc # "refused" => Place[req[q].pc] > 1)
  BY <1>1, PlaceValues
<1> DEFINE new(pc) == [NoRequest EXCEPT !.pc = pc]
<1>3. \A pc : new(pc).pc = pc /\ new(pc).op = "none"
  BY DEF NoRequest
<1>4. ASSUME NEW pc \in {"done", "refused"}, Finish(q, pc)
      PROVE  req'[q] = new(pc) /\ Rank(q)' = Place[pc]
  <2>1. req'[q] = new(pc)
    BY <1>1, <1>4 DEF Finish
  <2>2. req'[q].pc = pc /\ req'[q].op = "none"
    BY <1>3, <2>1
  <2>3. Place[pc] \in Nat
    BY PlaceValues
  <2> QED
    BY <2>1, <2>2, <2>3 DEF Rank
<1>5. Rank(q) \in Nat /\ Rank(q) >= Place[req[q].pc]
  BY <1>2 DEF Rank
<1>6. ASSUME Finish(q, "done") PROVE Nearer(q)
  BY <1>2, <1>4, <1>5, <1>6, PlaceValues DEF Nearer
<1>7. ASSUME Finish(q, "refused"), req[q].pc # "refused" PROVE Nearer(q)
  <2>1. req'[q].pc = "refused"
    BY <1>3, <1>4, <1>7
  <2> QED
    BY <1>2, <1>4, <1>5, <1>7, <2>1, PlaceValues DEF Nearer
<1>8. ASSUME NEW pc \in {"get", "insert", "attach", "open", "drop", "erase", "reset",
                         "update", "mark", "look", "wait", "pair", "paired"},
             req'[q].pc = pc, req'[q].op = req[q].op, Place[pc] < Place[req[q].pc]
      PROVE  Nearer(q)
  <2>1. Place[pc] \in Nat
    BY PlaceValues
  <2> QED
    BY <1>2, <1>8, <2>1 DEF Nearer, Rank
<1> HIDE DEF new
<1> QED
  BY <1>6, <1>7, <1>8

\* A step of a request is nearer to its answer.
LEMMA AdvanceStep ==
  ASSUME TypeOK, NEW q \in Requests, Begin(q) \/ Handle(q) \/ Abort(q)
  PROVE  Nearer(q)
<1>0. /\ req \in [Requests -> Request] /\ req[q] \in Request
      /\ req[q].op \in Operations \cup {"none"}
  BY DEF TypeOK, Request
<1>1. ASSUME Begin(q) PROVE Nearer(q)
  <2> PICK op \in Ops, s \in Sessions :
        req' = [req EXCEPT ![q] =
                 [NoRequest EXCEPT !.op = op, !.session = s,
                                   !.pc = IF op = "delete" THEN "drop" ELSE "get"]]
    BY <1>1 DEF Begin
  <2>1. req'[q].op = op /\ req'[q].pc = IF op = "delete" THEN "drop" ELSE "get"
    BY <1>0 DEF NoRequest
  <2>2. req[q].pc = "idle"
    BY <1>1 DEF Begin
  <2> QED
    BY <2>1, <2>2, PlaceValues DEF Nearer, Rank
<1>2. ASSUME GetRow(q) PROVE Nearer(q)
  <2>1. req[q].pc = "get"
    BY <1>2 DEF GetRow
  <2>2. CASE Finish(q, "done")
    BY <2>1, <2>2, GoesNearer
  <2>3. CASE GotoWith(q, AfterGet(req[q].op), rows[req[q].session])
    <3>1. req'[q].op = req[q].op /\ req'[q].pc = AfterGet(req[q].op)
      BY <2>1, <2>3, GotoStep DEF Running
    <3>2. AfterGet(req[q].op) \in {"insert", "open", "drop", "look"}
      BY DEF AfterGet
    <3> QED
      BY <2>1, <3>1, <3>2, GoesNearer, PlaceValues
  <2> QED
    BY <1>2, <2>2, <2>3 DEF GetRow
<1>3. ASSUME NEW pc \in {"erase", "reset", "attach", "update", "mark", "drop", "wait",
                         "pair", "paired"},
             Goto(q, pc) \/ \E rec : GotoWith(q, pc, rec),
             Running(q), Place[pc] < Place[req[q].pc]
      PROVE  Nearer(q)
  <2>1. req'[q].op = req[q].op /\ req'[q].pc = pc /\ req[q].pc # "done"
    BY <1>3, GotoStep DEF Running
  <2> QED
    BY <1>3, <2>1, GoesNearer
<1>4. ASSUME Running(q), Finish(q, "done") \/ Finish(q, "refused") PROVE Nearer(q)
  BY <1>4, GoesNearer DEF Running
<1>5. ASSUME InsertRow(q) PROVE Nearer(q)
  BY <1>3, <1>4, <1>5, PlaceValues DEF InsertRow, Running
<1>6. ASSUME OpenQRCode(q) PROVE Nearer(q)
  BY <1>3, <1>4, <1>6, PlaceValues DEF OpenQRCode, Running
<1>7. ASSUME Drop(q) PROVE Nearer(q)
  BY <1>3, <1>7, PlaceValues DEF Drop, AfterDrop, Running
<1>8. ASSUME EraseDevice(q) PROVE Nearer(q)
  BY <1>3, <1>8, PlaceValues DEF EraseDevice, Running
<1>9. ASSUME ResetRow(q) PROVE Nearer(q)
  BY <1>3, <1>4, <1>9, PlaceValues DEF ResetRow, Running
<1>10. ASSUME NEW r, req' = [req EXCEPT ![q].pc = "wait", ![q].rt = r],
              req[q].pc \in {"attach", "look"}
       PROVE  Nearer(q)
  <2>1. req'[q].pc = "wait" /\ req'[q].op = req[q].op
    BY <1>0, <1>10 DEF Request
  <2>2. req[q].pc # "done" /\ Place["wait"] < Place[req[q].pc]
    BY <1>10, PlaceValues
  <2> QED
    BY <2>1, <2>2, GoesNearer
<1>11. ASSUME req' = [req EXCEPT ![q].op = "paircode", ![q].pc = "get"],
              req[q].pc = "attach", req[q].op = "create"
       PROVE  Nearer(q)
  <2>1. req'[q].pc = "get" /\ req'[q].op = "paircode"
    BY <1>0, <1>11 DEF Request
  <2> QED
    BY <1>11, <2>1, PlaceValues DEF Nearer, Rank
<1>12. ASSUME Attach(q) PROVE Nearer(q)
  <2>1. req[q].pc = "attach" /\ Running(q)
    BY <1>12 DEF Attach, Running
  <2>2. \/ Finish(q, "done") \/ Goto(q, "update")
        \/ /\ req[q].op = "create"
           /\ req' = [req EXCEPT ![q].op = "paircode", ![q].pc = "get"]
        \/ \E r : req' = [req EXCEPT ![q].pc = "wait", ![q].rt = r]
    BY <1>12 DEF Attach, AfterAttach
  <2> QED
    BY <1>3, <1>4, <1>10, <1>11, <2>1, <2>2, PlaceValues
<1>13. ASSUME Look(q) PROVE Nearer(q)
  BY <1>3, <1>10, <1>13, PlaceValues DEF Look, Running
<1>14. ASSUME Ready(q) PROVE Nearer(q)
  BY <1>3, <1>14, PlaceValues DEF Ready, Running
<1>15. ASSUME PairPhone(q) PROVE Nearer(q)
  BY <1>3, <1>4, <1>15, PlaceValues DEF PairPhone, Running
<1>16. ASSUME \/ AttachFails(q) \/ MarkInitializing(q) \/ MarkRowDeleted(q)
              \/ WaitTimeout(q) \/ MarkPairing(q) \/ Abort(q)
       PROVE  Nearer(q)
  BY <1>4, <1>16 DEF AttachFails, MarkInitializing, MarkRowDeleted, WaitTimeout,
     MarkPairing, Abort, Running
<1> QED
  BY <1>1, <1>2, <1>5, <1>6, <1>7, <1>8, <1>9, <1>12, <1>13, <1>14, <1>15, <1>16
  DEF Handle

\* Every step brings a request nearer to its answer, or leaves it alone.
LEMMA NearerStep ==
  ASSUME TypeOK, AnsweredInv, [Next]_vars, NEW q \in Requests
  PROVE  req'[q] = req[q] \/ Nearer(q)
<1>1. CASE Kill
  <2>1. req'[q] = req[q] \/ req'[q] = [NoRequest EXCEPT !.pc = "done"]
    BY <1>1 DEF Kill
  <2>2. req[q].pc = "done" => req[q] = [NoRequest EXCEPT !.pc = "done"]
    BY DEF AnsweredInv
  <2>3. ASSUME req[q].pc # "done", req'[q] = [NoRequest EXCEPT !.pc = "done"]
        PROVE  Nearer(q)
    <3>1. req'[q].pc = "done" /\ req'[q].op = "none"
      BY <2>3 DEF NoRequest
    <3>2. Rank(q)' = 0
      BY <3>1, PlaceValues DEF Rank
    <3>3. req[q].pc \in {"idle", "get", "insert", "attach", "open", "drop", "erase",
                         "reset", "update", "mark", "look", "wait", "pair", "paired",
                         "refused"}
      BY <2>3 DEF TypeOK, Request
    <3>4. Rank(q) > 0
      BY <3>3, PlaceValues DEF Rank
    <3> QED
      BY <2>3, <3>2, <3>4 DEF Nearer
  <2> QED
    BY <2>1, <2>2, <2>3
<1>2. CASE \E p \in Requests : Begin(p) \/ Handle(p) \/ Abort(p)
  BY <1>2, AdvanceStep, OtherRequest
<1>3. CASE (\E r \in RuntimeIds : Login(r) \/ Client(r)) \/ (\E e \in events : Handler(e))
           \/ Start \/ (\E s \in Sessions : Rehydrate(s)) \/ Serve \/ CloseManager
           \/ UNCHANGED vars
  BY <1>3, NoRequestStep
<1> QED
  BY <1>1, <1>2, <1>3 DEF Next

\* Every step of a request brings it nearer to its answer: it returns after a
\* bounded number of steps, provided it takes them.
THEOREM Advances == Spec => RequestAdvances
<1>1. Init => AnsweredInv
  BY DEF Init, AnsweredInv, NoRequest
<1>2. TypeOK /\ AnsweredInv /\ [Next]_vars => AnsweredInv'
  <2> SUFFICES ASSUME TypeOK, AnsweredInv, [Next]_vars, NEW q \in Requests,
                      req'[q].pc = "done"
               PROVE  req'[q] = [NoRequest EXCEPT !.pc = "done"]
    BY DEF AnsweredInv
  <2> QED
    BY NearerStep DEF Nearer, AnsweredInv
<1>3. TypeOK /\ AnsweredInv /\ [Next]_vars
        => [\A q \in Requests : req'[q] # req[q] => Rank(q)' < Rank(q)]_vars
  BY NearerStep DEF Nearer
<1> QED
  BY <1>1, <1>2, <1>3, TypeCorrect, PTL DEF Spec, RequestAdvances
=============================================================================
