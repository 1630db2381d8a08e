------------------------ MODULE WebhookOutboxProofs ------------------------
(* Theorems of WebhookOutbox, for any number of webhooks, calls, deliveries   *)
(* and faults, any batch size and any WEBHOOK_MAX_ATTEMPTS.                   *)
EXTENDS WebhookOutbox, FiniteSetTheorems, TLAPS

\* WEBHOOK_MAX_ATTEMPTS, with 0 read as 1, is a positive number.
LEMMA LimitType == Limit \in Nat \ {0} /\ MaxAttempts <= Limit
  BY AttemptsAssumption DEF Limit

\* backoffForAttempt: between 10 s and 160 s, whatever the attempt.
LEMMA BackoffRange ==
  ASSUME NEW n \in Int
  PROVE  BackoffForAttempt(n) \in 1..16
  BY DEF BackoffForAttempt, backoffUnits

\* What ListDueDeliveries returns: rows waiting and due, each once, as they are.
LEMMA ListedRows ==
  ASSUME TypeOK, NEW x \in ListDueDeliveries
  PROVE  /\ x \in Snapshot
         /\ x.id \in Due
         /\ x = Listed(x.id)
  BY DEF TypeOK, ListDueDeliveries, Due, Listed, Snapshot, Row

\* The initial state satisfies the type invariant.
LEMMA TypeInit == Init => TypeOK
<1> SUFFICES ASSUME Init PROVE TypeOK
  OBVIOUS
<1>1. NoRow \in Row
  BY BoundsAssumption DEF NoRow, Row, Statuses
<1>2. [state |-> "unused", session |-> AnySession, events |-> {}] \in Hook
  BY DEF Hook
<1>3. [pc |-> "idle", session |-> AnySession, event |-> NoEvent,
       listed |-> {}, todo |-> {}] \in Call
  BY DEF Call
<1>4. 1 \in 1..(MaxDeliveries + 1) /\ 0 \in 0..MaxFaults
  BY BoundsAssumption
<1> QED
  BY <1>1, <1>2, <1>3, <1>4 DEF Init, TypeOK

\* Recording an outcome writes a well-typed row.
LEMMA RecordType ==
  ASSUME TypeOK, NEW d \in DeliveryIds, NEW n \in Int, Record(d, n)
  PROVE  row' \in [DeliveryIds -> Row]
<1>1. BackoffForAttempt(n) \in Int
  BY BackoffRange
<1>2. /\ [row[d] EXCEPT !.status = "delivered"] \in Row
      /\ [row[d] EXCEPT !.status = "failed"] \in Row
      /\ [row[d] EXCEPT !.status = "retry", !.wait = BackoffForAttempt(n)] \in Row
  BY <1>1 DEF TypeOK, Row, Statuses
<1> QED
  BY <1>2 DEF TypeOK, Record, MarkDelivered, MarkFailed, MarkRetry, Update

\* Every step keeps the type invariant: an UPDATE writes only row fields of the
\* right type, and the worker holds a snapshot whenever it needs one.
LEMMA TypeStep == TypeOK /\ [Next]_vars => TypeOK'
<1> SUFFICES ASSUME TypeOK, [Next]_vars PROVE TypeOK'
  OBVIOUS
<1> USE BoundsAssumption DEF TypeOK
<1>1. ASSUME NEW h \in HookIds, CreateWebhook(h) PROVE TypeOK'
  <2>1. hook' \in [HookIds -> Hook]
    BY <1>1 DEF CreateWebhook, Hook
  <2> QED BY <1>1, <2>1 DEF CreateWebhook, workerVars, history
<1>2. ASSUME NEW h \in HookIds, DeleteWebhook(h) PROVE TypeOK'
  <2>1. hook' \in [HookIds -> Hook]
    BY <1>2 DEF DeleteWebhook, Hook
  <2>2. \A x \in Row : [x EXCEPT !.status = "gone"] \in Row
    BY DEF Row, Statuses
  <2>3. row' \in [DeliveryIds -> Row]
    BY <1>2, <2>2 DEF DeleteWebhook
  <2> QED BY <1>2, <2>1, <2>3 DEF DeleteWebhook, workerVars, history
<1>3. ASSUME NEW c \in EmitIds, EmitCall(c) PROVE TypeOK'
  <2>1. PICK s \in Sessions, e \in EventTypes :
          call' = [call EXCEPT ![c] = [@ EXCEPT !.pc = "list",
                                         !.session = s, !.event = e]]
    BY <1>3 DEF EmitCall
  <2>2. [call[c] EXCEPT !.pc = "list", !.session = s, !.event = e] \in Call
    BY DEF Call
  <2>3. call' \in [EmitIds -> Call]
    BY <2>1, <2>2
  <2> QED BY <1>3, <2>3 DEF EmitCall, workerVars, history
<1>4. ASSUME NEW c \in EmitIds, EmitList(c) PROVE TypeOK'
  <2> DEFINE found == ListMatching(call[c].session, call[c].event)
             pc == IF found = {} THEN "done" ELSE "enqueue"
  <2>1. call' = [call EXCEPT ![c] =
                   [@ EXCEPT !.pc = pc, !.listed = found, !.todo = found]]
    BY <1>4 DEF EmitList
  <2>2. found \in SUBSET HookIds /\ pc \in {"done", "enqueue"}
    BY DEF ListMatching
  <2> HIDE DEF found, pc
  <2>0. call[c] \in Call
    OBVIOUS
  <2>3. [call[c] EXCEPT !.pc = pc, !.listed = found, !.todo = found] \in Call
    BY ONLY <2>0, <2>2 DEF Call
  <2>4. call' \in [EmitIds -> Call]
    BY <2>1, <2>3
  <2> QED BY <1>4, <2>4 DEF EmitList, workerVars, history
<1>5. ASSUME NEW c \in EmitIds, EmitEnqueue(c) PROVE TypeOK'
  <2>1. PICK h \in HookIds :
          /\ row' = [row EXCEPT ![nextId] =
                      [hook |-> h, emit |-> c, status |-> "pending",
                       attempts |-> 0, wait |-> 0]]
          /\ call' = [call EXCEPT ![c] =
                       [@ EXCEPT !.todo = call[c].todo \ {h},
                          !.pc = IF call[c].todo \ {h} = {} THEN "done"
                                 ELSE "enqueue"]]
    BY <1>5 DEF EmitEnqueue
  <2>2. [hook |-> h, emit |-> c, status |-> "pending", attempts |-> 0,
         wait |-> 0] \in Row
    BY DEF Row, Statuses, HookIds, EmitIds
  <2>3. row' \in [DeliveryIds -> Row]
    BY <2>1, <2>2
  <2>4. [call[c] EXCEPT !.todo = call[c].todo \ {h},
           !.pc = IF call[c].todo \ {h} = {} THEN "done" ELSE "enqueue"] \in Call
    BY DEF Call
  <2>5. call' \in [EmitIds -> Call]
    BY <2>1, <2>4
  <2>6. nextId' \in 1..(MaxDeliveries + 1)
    BY <1>5 DEF EmitEnqueue
  <2> QED BY <1>5, <2>3, <2>5, <2>6 DEF EmitEnqueue, workerVars, history
<1>6. ASSUME NEW c \in EmitIds, EmitBreaks(c) \/ EmitDbError(c) PROVE TypeOK'
  <2>1. [call[c] EXCEPT !.pc = "failed"] \in Call
    BY DEF Call
  <2>2. call' \in [EmitIds -> Call]
    BY <1>6, <2>1 DEF EmitBreaks, EmitDbError
  <2> QED BY <1>6, <2>2 DEF EmitBreaks, EmitDbError, workerVars, history
<1>7. CASE WorkerList
  <2>1. batch' \in SUBSET Snapshot
    BY <1>7, ListedRows DEF WorkerList
  <2> QED BY <1>7, <2>1 DEF WorkerList, history
<1>8. CASE WorkerStart
  <2>1. PICK x \in batch : /\ StartAttempt(x.id, x.attempts + 1)
                           /\ cur' = x
                           /\ batch' = batch \ {x}
    BY <1>8 DEF WorkerStart
  <2>2. x \in Snapshot /\ x.id \in DeliveryIds /\ x.attempts + 1 \in Nat
    BY DEF Snapshot
  <2>3. [row[x.id] EXCEPT !.status = "processing", !.attempts = x.attempts + 1]
          \in Row
    <3>1. row[x.id] \in Row
      BY <2>2
    <3> HIDE DEF TypeOK
    <3> QED BY <2>2, <3>1 DEF Row, Statuses
  <2>4. row' \in [DeliveryIds -> Row]
    BY <2>1, <2>3 DEF StartAttempt, Update
  <2>5. batch' \in SUBSET Snapshot /\ cur' \in Snapshot
    BY <2>1, <2>2
  <2> QED BY <1>8, <2>4, <2>5 DEF WorkerStart, history
<1>9. CASE WorkerPost
  <2>1. cur.id \in DeliveryIds
    BY <1>9 DEF WorkerPost, Snapshot
  <2>2. acked' \in [DeliveryIds -> BOOLEAN] /\ answer' \in BOOLEAN
    BY <1>9 DEF WorkerPost
  <2>3. posts' \in [DeliveryIds -> Nat]
    BY <1>9, <2>1 DEF WorkerPost
  <2> QED BY <1>9, <2>2, <2>3 DEF WorkerPost
<1>10. CASE WorkerRecord
  <2>1. cur.id \in DeliveryIds /\ cur.attempts + 1 \in Int
    BY <1>10 DEF WorkerRecord, Snapshot
  <2>2. row' \in [DeliveryIds -> Row]
    BY <1>10, <2>1, RecordType DEF WorkerRecord
  <2> QED BY <1>10, <2>2 DEF WorkerRecord, history
<1>11. CASE WorkerDbError \/ WorkerTick \/ WorkerReturn
  BY <1>11 DEF WorkerDbError, WorkerTick, WorkerReturn, history
<1>12. CASE Start \/ Stop
  BY <1>12 DEF Start, Stop, workerVars, history
<1>13. CASE Exit
  <2>1. \A c \in EmitIds : [call[c] EXCEPT !.pc = "lost"] \in Call
    BY DEF Call
  <2>2. call' \in [EmitIds -> Call]
    BY <1>13, <2>1 DEF Exit
  <2>3. faults' \in 0..MaxFaults
    BY <1>13 DEF Exit
  <2>4. /\ process' = "down" /\ at' = "off" /\ batch' = {}
        /\ cur' = NoSnapshot /\ answer' = FALSE
        /\ UNCHANGED <<hook, row, nextId, posts, acked>>
    BY <1>13 DEF Exit, history
  <2> QED BY <2>2, <2>3, <2>4
<1>14. CASE Tick
  <2>1. \A d \in DeliveryIds : [row[d] EXCEPT !.wait = @ - 1] \in Row
    BY DEF Row
  <2>2. row' \in [DeliveryIds -> Row]
    BY <1>14, <2>1 DEF Tick
  <2> QED BY <1>14, <2>2 DEF Tick, workerVars, history
<1>15. CASE UNCHANGED vars
  BY <1>15 DEF vars
<1> QED
  BY <1>1, <1>2, <1>3, <1>4, <1>5, <1>6, <1>7, <1>8, <1>9, <1>10, <1>11, <1>12,
     <1>13, <1>14, <1>15 DEF Next, Api, Emit, Worker

\* Every state of the outbox is well typed (webhook_deliveries, the calls of
\* Emit, and the worker's batch).
THEOREM TypeCorrect == Spec => []TypeOK
<1>1. Init => TypeOK
  BY TypeInit
<1>2. TypeOK /\ [Next]_vars => TypeOK'
  BY TypeStep
<1> QED
  BY <1>1, <1>2, PTL DEF Spec

-----------------------------------------------------------------------------
\* The initial state satisfies the inductive invariant.
LEMMA InvInit == Init => IInv
<1> SUFFICES ASSUME Init PROVE IInv
  OBVIOUS
<1>1. TypeOK
  BY TypeInit
<1>2. RowInv
  BY LimitType, BoundsAssumption DEF Init, RowInv, RowOK, NoRow, Fresh, DeliveryIds
<1>3. BatchInv /\ CurInv
  BY DEF Init, BatchInv, CurInv
<1> QED
  BY <1>1, <1>2, <1>3 DEF IInv

\* A step that touches neither the deliveries nor the worker.
LEMMA InvElsewhere ==
  ASSUME IInv, TypeOK', UNCHANGED <<row, nextId, workerVars, history>>
  PROVE  IInv'
  BY DEF IInv, RowInv, RowOK, BatchInv, ListedOK, CurInv, Fresh, workerVars, history

\* Deleting a webhook turns some rows "gone", in the table and in the batch.
LEMMA InvDelete ==
  ASSUME IInv, TypeOK', NEW h \in HookIds, DeleteWebhook(h)
  PROVE  IInv'
<1> USE DEF IInv
<1>1. /\ \A d \in DeliveryIds :
            \/ row'[d] = row[d]
            \/ row[d].hook = h /\ row'[d] = [row[d] EXCEPT !.status = "gone"]
      /\ UNCHANGED <<nextId, at, batch, cur, answer, posts, acked>>
  BY DEF DeleteWebhook, workerVars, history
<1>2. \A d \in DeliveryIds :
        \/ row'[d] = row[d]
        \/ /\ row[d].status # "none" /\ row'[d].status = "gone"
           /\ row'[d].attempts = row[d].attempts
  <2> TAKE d \in DeliveryIds
  <2>1. row[d].hook = h => row[d].status # "none"
    BY DEF RowInv, RowOK, NoRow, HookIds
  <2>2. [row[d] EXCEPT !.status = "gone"].status = "gone"
        /\ [row[d] EXCEPT !.status = "gone"].attempts = row[d].attempts
    BY DEF TypeOK, Row
  <2> QED BY <1>1, <2>1, <2>2
<1>3. ASSUME NEW d \in DeliveryIds PROVE RowOK(d)'
  BY <1>1, <1>2 DEF RowInv, RowOK, Fresh
<1>4. ASSUME NEW x \in batch' PROVE ListedOK(x)'
  <2>1. ListedOK(x) /\ x.id \in DeliveryIds
    BY <1>1 DEF BatchInv, TypeOK, Snapshot
  <2> QED BY <1>1, <1>2, <2>1 DEF ListedOK, Fresh
<1>5. CurInv'
  <2>1. at \in {"post", "record"} => cur.id \in DeliveryIds
    BY DEF TypeOK, Snapshot
  <2> QED BY <1>1, <1>2, <2>1 DEF CurInv, Fresh
<1> QED
  BY <1>1, <1>3, <1>4, <1>5 DEF RowInv, BatchInv

\* EnqueueDelivery inserts a row nobody has seen yet.
LEMMA InvEnqueue ==
  ASSUME IInv, TypeOK', NEW c \in EmitIds, EmitEnqueue(c)
  PROVE  IInv'
<1> USE DEF IInv
<1>1. PICK h \in HookIds :
        row' = [row EXCEPT ![nextId] = [hook |-> h, emit |-> c,
                  status |-> "pending", attempts |-> 0, wait |-> 0]]
  BY DEF EmitEnqueue
<1>2. /\ UNCHANGED <<at, batch, cur, answer, posts, acked>>
      /\ nextId' = nextId + 1 /\ nextId \in DeliveryIds
  BY DEF EmitEnqueue, workerVars, history, TypeOK, DeliveryIds
<1>3. /\ \A d \in DeliveryIds : d # nextId => row'[d] = row[d]
      /\ row'[nextId].status = "pending" /\ row'[nextId].attempts = 0
      /\ row[nextId].status = "none"
  BY <1>1, <1>2 DEF TypeOK, RowInv, RowOK, DeliveryIds
<1>4. ASSUME NEW d \in DeliveryIds PROVE RowOK(d)'
  <2>1. RowOK(d) /\ d \in Int /\ nextId \in Int
    BY DEF RowInv, DeliveryIds, TypeOK
  <2> QED BY <1>2, <1>3, <2>1, LimitType DEF RowOK, Fresh
<1>5. ASSUME NEW x \in batch' PROVE ListedOK(x)'
  <2>1. ListedOK(x) /\ x.id \in DeliveryIds
    BY <1>2 DEF BatchInv, TypeOK, Snapshot
  <2> QED BY <1>2, <1>3, <2>1 DEF ListedOK, Fresh
<1>6. CurInv'
  <2>1. at \in {"post", "record"} => cur.id \in DeliveryIds
    BY DEF TypeOK, Snapshot
  <2> QED BY <1>2, <1>3, <2>1 DEF CurInv, Fresh
<1> QED
  BY <1>2, <1>4, <1>5, <1>6 DEF RowInv, BatchInv

\* ListDueDeliveries puts in the batch rows as RowInv describes them.
LEMMA InvList ==
  ASSUME IInv, TypeOK', WorkerList
  PROVE  IInv'
<1> USE DEF IInv
<1>1. /\ batch' = ListDueDeliveries
      /\ at' \in {"wait", "start"} /\ (at' = "wait" => batch' = {})
      /\ UNCHANGED <<row, nextId, cur, answer, posts, acked>>
  BY DEF WorkerList, history
<1>2. ASSUME NEW x \in batch' PROVE ListedOK(x)'
  <2>1. x.id \in Due /\ x = Listed(x.id)
    BY <1>1, ListedRows
  <2>2. x.attempts = row[x.id].attempts /\ x.id \in DeliveryIds /\ RowOK(x.id)
    BY <2>1 DEF Listed, Due, RowInv
  <2> QED BY <1>1, <2>1, <2>2 DEF ListedOK, RowOK, Fresh, Due
<1>3. \A x, y \in batch' : x.id = y.id => x = y
  BY <1>1, ListedRows
<1> QED
  BY <1>1, <1>2, <1>3 DEF RowInv, RowOK, BatchInv, CurInv, Fresh

\* What an UPDATE of one row leaves in the table.
LEMMA UpdateRow ==
  ASSUME TypeOK, NEW d \in DeliveryIds, NEW new, Update(d, new)
  PROVE  /\ \A e \in DeliveryIds : e # d => row'[e] = row[e]
         /\ row[d].status \in {"none", "gone"} => row'[d] = row[d]
         /\ row[d].status \notin {"none", "gone"} => row'[d] = new
  BY DEF TypeOK, Update

\* StartAttempt takes one delivery out of the batch and into hand.
LEMMA InvStart ==
  ASSUME IInv, TypeOK', WorkerStart
  PROVE  IInv'
<1> USE DEF IInv
<1>1. PICK x \in batch : /\ StartAttempt(x.id, x.attempts + 1)
                         /\ cur' = x /\ batch' = batch \ {x}
  BY DEF WorkerStart
<1>2. at' = "post" /\ UNCHANGED <<nextId, answer, posts, acked>>
  BY DEF WorkerStart, history
<1>3. /\ x.id \in DeliveryIds /\ x.attempts \in Nat /\ ListedOK(x)
      /\ row[x.id] \in Row
  BY DEF TypeOK, Snapshot, BatchInv
<1>4. /\ \A e \in DeliveryIds : e # x.id => row'[e] = row[e]
      /\ row[x.id].status = "gone" => row'[x.id] = row[x.id]
      /\ row[x.id].status # "gone" => /\ row'[x.id].status = "processing"
                                     /\ row'[x.id].attempts = x.attempts + 1
  <2>1. LET new == [row[x.id] EXCEPT !.status = "processing",
                                     !.attempts = x.attempts + 1]
        IN  new.status = "processing" /\ new.attempts = x.attempts + 1
    BY <1>3 DEF Row
  <2> QED BY <1>1, <1>3, <2>1, UpdateRow DEF StartAttempt, ListedOK
<1>5. ASSUME NEW d \in DeliveryIds PROVE RowOK(d)'
  <2>1. RowOK(d) /\ d \in Int /\ nextId \in Int
    BY DEF RowInv, DeliveryIds, TypeOK
  <2>2. CASE d # x.id
    BY <1>2, <1>4, <2>1, <2>2 DEF RowOK, Fresh
  <2>3. CASE d = x.id
    BY <1>2, <1>3, <1>4, <2>1, <2>3, LimitType DEF RowOK, Fresh, ListedOK
  <2> QED BY <2>2, <2>3
<1>6. \A y \in batch' : y \in batch /\ y.id # x.id /\ y.id \in DeliveryIds
  BY <1>1 DEF BatchInv, TypeOK, Snapshot
<1>7. BatchInv'
  BY <1>2, <1>4, <1>6 DEF BatchInv, ListedOK, Fresh
<1>8. CurInv'
  BY <1>1, <1>2, <1>3, <1>4, <1>6 DEF CurInv, ListedOK, Fresh
<1> QED
  BY <1>5, <1>7, <1>8 DEF RowInv

\* deliver: the delivery in hand has been POSTed once more.
LEMMA InvPost ==
  ASSUME IInv, TypeOK', WorkerPost
  PROVE  IInv'
<1> USE DEF IInv
<1>1. PICK ok \in BOOLEAN : /\ answer' = ok
                            /\ acked' = [acked EXCEPT ![cur.id] = @ \/ ok]
  BY DEF WorkerPost
<1>2. /\ at = "post" /\ at' = "record"
      /\ posts' = [posts EXCEPT ![cur.id] = @ + 1]
      /\ UNCHANGED <<row, nextId, batch, cur>>
  BY DEF WorkerPost
<1>3. cur.id \in DeliveryIds /\ cur.attempts \in Nat
  BY <1>2 DEF TypeOK, Snapshot
<1>4. /\ row[cur.id].status \in {"processing", "gone"}
      /\ row[cur.id].status # "gone" => row[cur.id].attempts = cur.attempts + 1
      /\ posts[cur.id] = cur.attempts /\ cur.attempts < Limit /\ ~acked[cur.id]
      /\ \A x \in batch : x.id # cur.id /\ x.id \in DeliveryIds
  BY <1>2 DEF CurInv, Fresh, TypeOK, Snapshot
<1>5. /\ posts'[cur.id] = cur.attempts + 1 /\ acked'[cur.id] = answer'
      /\ \A d \in DeliveryIds :
           d # cur.id => posts'[d] = posts[d] /\ acked'[d] = acked[d]
  <2>1. posts'[cur.id] = cur.attempts + 1
    BY <1>2, <1>3, <1>4 DEF TypeOK
  <2>2. acked'[cur.id] = answer'
    BY <1>1, <1>3, <1>4 DEF TypeOK
  <2> QED BY <1>1, <1>2, <2>1, <2>2 DEF TypeOK
<1>6. ASSUME NEW d \in DeliveryIds PROVE RowOK(d)'
  <2>1. RowOK(d)
    BY DEF RowInv
  <2>2. CASE d = cur.id
    BY <1>2, <1>3, <1>4, <1>5, <2>1, <2>2, LimitType DEF RowOK
  <2>3. CASE d # cur.id
    BY <1>2, <1>5, <2>1, <2>3 DEF RowOK, Fresh
  <2> QED BY <2>2, <2>3
<1>7. BatchInv'
  BY <1>2, <1>4, <1>5 DEF BatchInv, ListedOK, Fresh
<1>8. CurInv'
  BY <1>2, <1>4, <1>5 DEF CurInv
<1> QED
  BY <1>6, <1>7, <1>8 DEF RowInv

\* What recording an outcome does to the row in hand.
LEMMA RecordRow ==
  ASSUME TypeOK, NEW d \in DeliveryIds, NEW n \in Int, Record(d, n),
         row[d].status \notin {"none", "gone"}
  PROVE  /\ row'[d].attempts = row[d].attempts
         /\ row'[d].hook = row[d].hook /\ row'[d].emit = row[d].emit
         /\ row'[d].status = IF answer THEN "delivered"
                             ELSE IF n >= MaxAttempts THEN "failed" ELSE "retry"
<1>1. row[d] \in Row
  BY DEF TypeOK
<1>2. CASE answer
  <2>1. row'[d] = [row[d] EXCEPT !.status = "delivered"]
    BY <1>2, UpdateRow DEF Record, MarkDelivered
  <2> QED BY <1>1, <1>2, <2>1 DEF Row
<1>3. CASE ~answer /\ n >= MaxAttempts
  <2>1. row'[d] = [row[d] EXCEPT !.status = "failed"]
    BY <1>3, UpdateRow DEF Record, Exhausted, MarkFailed
  <2> QED BY <1>1, <1>3, <2>1 DEF Row
<1>4. CASE ~answer /\ ~(n >= MaxAttempts)
  <2>1. row'[d] = [row[d] EXCEPT !.status = "retry", !.wait = BackoffForAttempt(n)]
    BY <1>4, UpdateRow DEF Record, Exhausted, MarkRetry
  <2> QED BY <1>1, <1>4, <2>1 DEF Row
<1> QED
  BY <1>2, <1>3, <1>4

\* Recording an outcome changes the row in hand and no other.
LEMMA RecordElsewhere ==
  ASSUME TypeOK, NEW d \in DeliveryIds, NEW n \in Int, Record(d, n)
  PROVE  /\ \A e \in DeliveryIds : e # d => row'[e] = row[e]
         /\ row[d].status = "gone" => row'[d] = row[d]
  BY UpdateRow DEF Record, MarkDelivered, MarkFailed, MarkRetry

\* MarkDelivered, MarkFailed or MarkRetry releases the delivery in hand.
LEMMA InvRecord ==
  ASSUME IInv, TypeOK', WorkerRecord
  PROVE  IInv'
<1> USE DEF IInv
<1>1. /\ at = "record" /\ at' \in {"wait", "start"} /\ (at' = "wait" => batch = {})
      /\ Record(cur.id, cur.attempts + 1)
      /\ UNCHANGED <<nextId, batch, cur, answer, posts, acked>>
  BY DEF WorkerRecord, history
<1>2. cur.id \in DeliveryIds /\ cur.attempts \in Nat
  BY <1>1 DEF TypeOK, Snapshot
<1>3. /\ row[cur.id].status \in {"processing", "gone"}
      /\ row[cur.id].status # "gone" => row[cur.id].attempts = cur.attempts + 1
      /\ posts[cur.id] = cur.attempts + 1 /\ cur.attempts < Limit
      /\ acked[cur.id] = answer
      /\ \A x \in batch : x.id # cur.id /\ x.id \in DeliveryIds
  BY <1>1 DEF CurInv, TypeOK, Snapshot
<1>4. \A e \in DeliveryIds : e # cur.id => row'[e] = row[e]
  BY <1>1, <1>2, RecordElsewhere
<1>5. RowOK(cur.id)'
  <2>1. RowOK(cur.id)
    BY <1>2 DEF RowInv
  <2>2. CASE row[cur.id].status = "gone"
    <3>1. row'[cur.id] = row[cur.id]
      BY <1>1, <1>2, <2>2, RecordElsewhere
    <3> QED BY <1>1, <2>1, <3>1 DEF RowOK, Fresh
  <2>3. CASE row[cur.id].status = "processing"
    <3>1. /\ row'[cur.id].attempts = cur.attempts + 1
          /\ row'[cur.id].status = IF answer THEN "delivered"
               ELSE IF cur.attempts + 1 >= MaxAttempts THEN "failed" ELSE "retry"
      BY <1>1, <1>2, <1>3, <2>3, RecordRow
    <3>2. cur.id >= nextId => FALSE
      BY <2>1, <2>3 DEF RowOK
    <3>3. cur.attempts + 1 >= MaxAttempts => cur.attempts + 1 = Limit
      BY <1>2, <1>3, AttemptsAssumption DEF Limit
    <3>4. cur.attempts + 1 < MaxAttempts => cur.attempts + 1 < Limit
      BY <1>2, LimitType, AttemptsAssumption
    <3> QED BY <1>1, <1>2, <1>3, <3>1, <3>2, <3>3, <3>4, LimitType,
               AttemptsAssumption DEF RowOK, Fresh
  <2> QED BY <1>3, <2>2, <2>3
<1>6. ASSUME NEW d \in DeliveryIds PROVE RowOK(d)'
  BY <1>1, <1>4, <1>5 DEF RowInv, RowOK, Fresh
<1>7. BatchInv'
  BY <1>1, <1>3, <1>4 DEF BatchInv, ListedOK, Fresh
<1>8. CurInv'
  BY <1>1 DEF CurInv
<1> QED
  BY <1>6, <1>7, <1>8 DEF RowInv

\* Time only lowers the wait of rows.
LEMMA InvTick ==
  ASSUME IInv, TypeOK', Tick
  PROVE  IInv'
<1> USE DEF IInv
<1>1. UNCHANGED <<nextId, at, batch, cur, answer, posts, acked>>
  BY DEF Tick, workerVars, history
<1>2. \A d \in DeliveryIds :
        /\ row'[d].status = row[d].status /\ row'[d].attempts = row[d].attempts
        /\ row[d].status = "none" => row'[d] = row[d]
        /\ row[d].wait <= 0 => row'[d].wait <= 0
  BY DEF Tick, Waiting, TypeOK, Row
<1>3. ASSUME NEW d \in DeliveryIds PROVE RowOK(d)'
  BY <1>1, <1>2 DEF RowInv, RowOK, Fresh
<1>4. ASSUME NEW x \in batch' PROVE ListedOK(x)'
  <2>1. ListedOK(x) /\ x.id \in DeliveryIds
    BY <1>1 DEF BatchInv, TypeOK, Snapshot
  <2> QED BY <1>1, <1>2, <2>1 DEF ListedOK, Fresh
<1>5. CurInv'
  <2>1. at \in {"post", "record"} => cur.id \in DeliveryIds
    BY DEF TypeOK, Snapshot
  <2> QED BY <1>1, <1>2, <2>1 DEF CurInv, Fresh
<1> QED
  BY <1>1, <1>3, <1>4, <1>5 DEF RowInv, BatchInv

\* The worker gives up its batch or goes on, or the process changes state.
LEMMA InvControl ==
  ASSUME IInv, TypeOK', WorkerDbError \/ WorkerTick \/ WorkerReturn \/ Start
                        \/ Stop \/ Exit
  PROVE  IInv'
<1> USE DEF IInv
<1>1. UNCHANGED <<row, nextId, posts, acked>>
  BY DEF WorkerDbError, WorkerTick, WorkerReturn, Start, Stop, Exit, history
<1>2. RowInv'
  BY <1>1 DEF RowInv, RowOK, Fresh
<1>3. CASE Stop
  BY <1>1, <1>2, <1>3 DEF Stop, workerVars, BatchInv, ListedOK, CurInv, Fresh
<1>4. CASE WorkerDbError \/ WorkerTick \/ WorkerReturn \/ Exit
  <2>1. batch' = {} /\ at' \in {"wait", "list", "off"}
    BY <1>4 DEF WorkerDbError, WorkerTick, WorkerReturn, Exit, BatchInv
  <2> QED BY <1>2, <2>1 DEF BatchInv, CurInv
<1>5. CASE Start
  BY <1>2, <1>5 DEF Start, BatchInv, CurInv
<1> QED
  BY <1>3, <1>4, <1>5

\* Every step keeps the inductive invariant.
LEMMA InvStep == IInv /\ [Next]_vars => IInv'
<1> SUFFICES ASSUME IInv, [Next]_vars PROVE IInv'
  OBVIOUS
<1>1. TypeOK'
  BY TypeStep DEF IInv
<1>2. ASSUME NEW h \in HookIds, CreateWebhook(h) PROVE IInv'
  BY <1>1, <1>2, InvElsewhere DEF CreateWebhook
<1>3. ASSUME NEW h \in HookIds, DeleteWebhook(h) PROVE IInv'
  BY <1>1, <1>3, InvDelete
<1>4. ASSUME NEW c \in EmitIds,
             EmitCall(c) \/ EmitList(c) \/ EmitBreaks(c) \/ EmitDbError(c)
      PROVE  IInv'
  BY <1>1, <1>4, InvElsewhere DEF EmitCall, EmitList, EmitBreaks, EmitDbError
<1>5. ASSUME NEW c \in EmitIds, EmitEnqueue(c) PROVE IInv'
  BY <1>1, <1>5, InvEnqueue
<1>6. CASE Worker
  <2>1. CASE WorkerTick
    BY <1>1, <2>1, InvControl
  <2> QED BY <1>1, <1>6, <2>1, InvList, InvStart, InvPost, InvRecord DEF Worker
<1>7. CASE WorkerDbError \/ WorkerReturn \/ Start \/ Stop \/ Exit
  BY <1>1, <1>7, InvControl
<1>8. CASE Tick
  BY <1>1, <1>8, InvTick
<1>9. CASE UNCHANGED vars
  BY <1>1, <1>9, InvElsewhere DEF vars, workerVars, history
<1> QED
  BY <1>2, <1>3, <1>4, <1>5, <1>6, <1>7, <1>8, <1>9 DEF Next, Api, Emit

\* The inductive invariant holds in every reachable state.
THEOREM Invariance == Spec => []IInv
<1>1. Init => IInv
  BY InvInit
<1>2. IInv /\ [Next]_vars => IInv'
  BY InvStep
<1> QED
  BY <1>1, <1>2, PTL DEF Spec

\* No receiver sees more than WEBHOOK_MAX_ATTEMPTS POSTs of one delivery,
\* whatever crashes, restarts, database errors and deletions come between.
THEOREM AttemptsBounded == Spec => []AttemptBound
<1>1. IInv => AttemptBound
  <2> SUFFICES ASSUME IInv, NEW d \in DeliveryIds
               PROVE  /\ posts[d] <= Limit /\ row[d].attempts <= Limit
                      /\ row[d].status # "gone" => posts[d] <= row[d].attempts
    BY DEF AttemptBound
  <2>1. RowOK(d) /\ row[d].status \in Statuses /\ row[d].attempts \in Nat
    BY DEF IInv, RowInv, TypeOK, Row
  <2> QED BY <2>1, LimitType DEF RowOK, Fresh, Statuses, NoRow
<1> QED
  BY <1>1, Invariance, PTL

\* 'delivered' and 'failed' in the table say what the receiver saw.
THEOREM OutcomesEarned == Spec => []OutcomeIsEarned
<1>1. IInv => OutcomeIsEarned
  BY DEF IInv, RowInv, RowOK, OutcomeIsEarned
<1> QED
  BY <1>1, Invariance, PTL

-----------------------------------------------------------------------------
\* Only the worker's POST adds to the history.
LEMMA HistoryStep == [Next]_vars => WorkerPost \/ UNCHANGED history
  BY DEF Next, Api, Emit, Worker, CreateWebhook, DeleteWebhook, EmitCall,
     EmitList, EmitEnqueue, EmitBreaks, EmitDbError, WorkerList, WorkerStart,
     WorkerRecord, WorkerDbError, WorkerTick, WorkerReturn, Start, Stop, Exit,
     Tick, vars, history

\* A delivery the receiver has accepted is never POSTed again.
THEOREM AckedIsFinal == Spec => NoPostAfterAck
<1>1. IInv /\ [Next]_vars
        => [\A d \in DeliveryIds : acked[d] => posts'[d] = posts[d]]_vars
  <2> SUFFICES ASSUME IInv, [Next]_vars, NEW d \in DeliveryIds, acked[d]
               PROVE  posts'[d] = posts[d]
    OBVIOUS
  <2>1. CASE UNCHANGED history
    BY <2>1 DEF history
  <2>2. CASE WorkerPost
    <3>1. cur.id # d
      BY <2>2 DEF WorkerPost, IInv, CurInv, Fresh
    <3> QED BY <2>2, <3>1 DEF WorkerPost, IInv, TypeOK
  <2> QED BY <2>1, <2>2, HistoryStep
<1> QED
  BY <1>1, Invariance, PTL DEF Spec, NoPostAfterAck

\* Only these steps write the table of deliveries.
LEMMA RowStep ==
  [Next]_vars => \/ \E h \in HookIds : DeleteWebhook(h)
                 \/ \E c \in EmitIds : EmitEnqueue(c)
                 \/ WorkerStart \/ WorkerRecord \/ Tick \/ UNCHANGED row
  BY DEF Next, Api, Emit, Worker, CreateWebhook, EmitCall, EmitList,
     EmitBreaks, EmitDbError, WorkerList, WorkerPost, WorkerDbError,
     WorkerTick, WorkerReturn, Start, Stop, Exit, vars

\* A deleted webhook's deliveries are gone, and no other row changes.
LEMMA DeleteRows ==
  ASSUME IInv, NEW h \in HookIds, DeleteWebhook(h), NEW d \in DeliveryIds
  PROVE  \/ row'[d] = row[d]
         \/ row[d].status # "none" /\ row'[d].status = "gone"
<1>1. row[d].hook = h => row[d].status # "none"
  BY DEF IInv, RowInv, RowOK, NoRow, HookIds
<1>2. row[d].hook = h => row'[d] = [row[d] EXCEPT !.status = "gone"]
  BY DEF DeleteWebhook
<1>3. [row[d] EXCEPT !.status = "gone"].status = "gone"
  BY DEF IInv, TypeOK, Row
<1>4. row[d].hook # h => row'[d] = row[d]
  BY DEF DeleteWebhook
<1> QED
  BY <1>1, <1>2, <1>3, <1>4

\* The row in hand is the only one that changes when its outcome is recorded.
LEMMA RecordRows ==
  ASSUME IInv, WorkerRecord, NEW d \in DeliveryIds
  PROVE  \/ row'[d] = row[d]
         \/ /\ d = cur.id /\ row[d].status = "processing"
            /\ acked[d] = answer /\ posts[d] = cur.attempts + 1
            /\ row'[d].status = IF answer THEN "delivered"
                 ELSE IF cur.attempts + 1 >= MaxAttempts THEN "failed"
                 ELSE "retry"
<1>1. at = "record" /\ Record(cur.id, cur.attempts + 1)
  BY DEF WorkerRecord
<1>2. cur.id \in DeliveryIds /\ cur.attempts + 1 \in Int /\ TypeOK
  BY <1>1 DEF IInv, TypeOK, Snapshot
<1>3. /\ row[cur.id].status \in {"processing", "gone"}
      /\ posts[cur.id] = cur.attempts + 1 /\ acked[cur.id] = answer
  BY <1>1 DEF IInv, CurInv
<1>4. CASE d # cur.id \/ row[cur.id].status = "gone"
  BY <1>1, <1>2, <1>4, RecordElsewhere
<1>5. CASE d = cur.id /\ row[cur.id].status = "processing"
  BY <1>1, <1>2, <1>3, <1>5, RecordRow
<1> QED
  BY <1>3, <1>4, <1>5

\* StartAttempt writes the row it takes from the batch: due, and in no other
\* hand.
LEMMA StartRows ==
  ASSUME IInv, WorkerStart, NEW d \in DeliveryIds
  PROVE  \/ row'[d] = row[d]
         \/ /\ row[d].status \in {"pending", "retry"} /\ row[d].wait <= 0
            /\ row'[d].status = "processing" /\ cur'.id = d
<1>1. PICK x \in batch : StartAttempt(x.id, x.attempts + 1) /\ cur' = x
  BY DEF WorkerStart
<1>2. x.id \in DeliveryIds /\ ListedOK(x) /\ TypeOK /\ row[x.id] \in Row
  BY DEF IInv, TypeOK, Snapshot, BatchInv
<1>3. [row[x.id] EXCEPT !.status = "processing",
                        !.attempts = x.attempts + 1].status = "processing"
  BY <1>2 DEF Row
<1>4. CASE d # x.id \/ row[x.id].status = "gone"
  BY <1>1, <1>2, <1>4, UpdateRow DEF StartAttempt
<1>5. CASE d = x.id /\ row[x.id].status # "gone"
  <2>1. row[x.id].status \in {"pending", "retry"} /\ row[x.id].wait <= 0
    BY <1>2, <1>5 DEF ListedOK
  <2>2. row'[x.id] = [row[x.id] EXCEPT !.status = "processing",
                                       !.attempts = x.attempts + 1]
    BY <1>1, <1>2, <2>1, UpdateRow DEF StartAttempt
  <2> QED BY <1>1, <1>3, <1>5, <2>1, <2>2
<1> QED
  BY <1>4, <1>5

\* A retry is not attempted before its backoff has passed, however long ago the
\* batch it is in was listed.
THEOREM BackoffKept == Spec => BackoffRespected
<1>1. IInv /\ [Next]_vars
        => [\A d \in DeliveryIds :
              (row[d].status # "processing" /\ row'[d].status = "processing")
                => row[d].wait <= 0]_vars
  <2> SUFFICES ASSUME IInv, [Next]_vars, NEW d \in DeliveryIds,
                      row[d].status # "processing", row'[d].status = "processing"
               PROVE  row[d].wait <= 0
    OBVIOUS
  <2>1. ASSUME NEW h \in HookIds, DeleteWebhook(h) PROVE FALSE
    BY <2>1, DeleteRows
  <2>2. ASSUME NEW c \in EmitIds, EmitEnqueue(c) PROVE FALSE
    BY <2>2 DEF EmitEnqueue, IInv, TypeOK
  <2>3. CASE WorkerStart
    BY <2>3, StartRows
  <2>4. CASE WorkerRecord
    BY <2>4, RecordRows
  <2>5. CASE Tick
    BY <2>5 DEF Tick, IInv, TypeOK, Row
  <2>6. CASE UNCHANGED row
    BY <2>6
  <2> QED BY <2>1, <2>2, <2>3, <2>4, <2>5, <2>6, RowStep
<1> QED
  BY <1>1, Invariance, PTL DEF Spec, BackoffRespected

\* A delivery left in 'processing' is beyond every later step but the deletion
\* of its webhook.
THEOREM StrandedStays == Spec => StrandedForever
<1>1. IInv /\ [Next]_vars
        => [\A d \in DeliveryIds :
              Stranded(d) => /\ row'[d].status \in {"processing", "gone"}
                             /\ posts'[d] = posts[d]
                             /\ ~InHand(d)']_vars
  <2> SUFFICES ASSUME IInv, [Next]_vars, NEW d \in DeliveryIds, Stranded(d)
               PROVE  /\ row'[d].status \in {"processing", "gone"}
                      /\ posts'[d] = posts[d]
                      /\ ~InHand(d)'
    OBVIOUS
  <2>1. posts'[d] = posts[d]
    <3>1. CASE WorkerPost
      <4>1. cur.id # d
        BY <3>1 DEF WorkerPost, Stranded, InHand
      <4> QED BY <3>1, <4>1 DEF WorkerPost, IInv, TypeOK
    <3> QED BY <3>1, HistoryStep DEF history
  <2>2. row'[d].status \in {"processing", "gone"}
    <3>1. ASSUME NEW h \in HookIds, DeleteWebhook(h)
          PROVE  row'[d].status \in {"processing", "gone"}
      BY <3>1, DeleteRows DEF Stranded
    <3>2. ASSUME NEW c \in EmitIds, EmitEnqueue(c)
          PROVE  row'[d].status = "processing"
      BY <3>2 DEF EmitEnqueue, Stranded, IInv, TypeOK, RowInv, RowOK
    <3>3. CASE WorkerStart
      BY <3>3, StartRows DEF Stranded
    <3>4. CASE WorkerRecord
      BY <3>4, RecordRows DEF WorkerRecord, Stranded, InHand
    <3>5. CASE Tick
      BY <3>5 DEF Tick, Waiting, Stranded
    <3>6. CASE UNCHANGED row
      BY <3>6 DEF Stranded
    <3> QED BY <3>1, <3>2, <3>3, <3>4, <3>5, <3>6, RowStep
  <2>3. ~InHand(d)'
    <3>1. CASE WorkerStart
      <4>1. PICK x \in batch : cur' = x
        BY <3>1 DEF WorkerStart
      <4>2. row[x.id].status # "processing"
        BY DEF IInv, BatchInv, ListedOK
      <4> QED BY <4>1, <4>2 DEF InHand, Stranded
    <3>2. CASE WorkerPost
      BY <3>2 DEF WorkerPost, InHand, Stranded
    <3>3. CASE WorkerList \/ WorkerRecord \/ WorkerDbError \/ WorkerTick
               \/ WorkerReturn \/ Start \/ Exit
      BY <3>3 DEF WorkerList, WorkerRecord, WorkerDbError, WorkerTick,
         WorkerReturn, Start, Exit, InHand
    <3>4. CASE UNCHANGED <<at, cur>>
      BY <3>4 DEF InHand, Stranded
    <3>5. ASSUME NEW c \in EmitIds, Emit(c) \/ EmitDbError(c)
          PROVE  UNCHANGED <<at, cur>>
      BY <3>5 DEF Emit, EmitCall, EmitList, EmitEnqueue, EmitBreaks,
         EmitDbError, workerVars
    <3>6. CASE Api \/ Stop \/ Tick \/ UNCHANGED vars
      BY <3>6, <3>4 DEF Api, CreateWebhook, DeleteWebhook, Stop, Tick, vars,
         workerVars
    <3> QED BY <3>1, <3>2, <3>3, <3>4, <3>5, <3>6 DEF Next, Worker
  <2> QED BY <2>1, <2>2, <2>3
<1> QED
  BY <1>1, Invariance, PTL DEF Spec, StrandedForever

-----------------------------------------------------------------------------
\* The table is finite, and so is any part of it.
LEMMA HeldFinite == IsFiniteSet(Held) /\ IsFiniteSet(Held)'
<1>1. IsFiniteSet(DeliveryIds)
  BY FS_Interval, BoundsAssumption DEF DeliveryIds
<1>2. Held \subseteq DeliveryIds /\ Held' \subseteq DeliveryIds
  BY DEF Held
<1> QED
  BY <1>1, <1>2, FS_Subset

\* Held changes only where the worker starts or records a delivery.
LEMMA HeldStep ==
  ASSUME IInv, [Next]_vars
  PROVE  \/ Held' \subseteq Held
         \/ WorkerStart /\ Held' \subseteq Held \cup {cur'.id}
<1>1. ASSUME NEW h \in HookIds, DeleteWebhook(h) PROVE Held' \subseteq Held
  BY <1>1, DeleteRows DEF Held
<1>2. ASSUME NEW c \in EmitIds, EmitEnqueue(c) PROVE Held' \subseteq Held
  BY <1>2 DEF EmitEnqueue, Held, IInv, TypeOK
<1>3. CASE WorkerStart
  BY <1>3, StartRows DEF Held
<1>4. CASE WorkerRecord
  BY <1>4, RecordRows DEF Held
<1>5. CASE Tick
  BY <1>5 DEF Tick, Held, IInv, TypeOK, Row
<1>6. CASE UNCHANGED row
  BY <1>6 DEF Held
<1> QED
  BY <1>1, <1>2, <1>3, <1>4, <1>5, <1>6, RowStep

\* A step either adds nothing to the stranded rows or is a fault, and a fault
\* adds at most the row in hand.
LEMMA StrandedStep ==
  ASSUME IInv, [Next]_vars
  PROVE  \/ Held' \ Safe' \subseteq Held \ Safe /\ faults' >= faults
         \/ Held' \ Safe' \subseteq (Held \ Safe) \cup {cur.id} /\ faults' = faults + 1
<1>0. faults \in Nat /\ (UNCHANGED faults => faults' >= faults)
  BY BoundsAssumption DEF IInv, TypeOK
<1>1. CASE WorkerStart
  BY <1>0, <1>1, HeldStep DEF WorkerStart, Safe
<1>2. CASE WorkerRecord
  <2>1. cur.id \in DeliveryIds /\ at = "record"
    BY <1>2 DEF WorkerRecord, IInv, TypeOK, Snapshot
  <2>2. cur.id \notin Held'
    <3>1. row[cur.id].status \in {"processing", "gone"}
      BY <2>1 DEF IInv, CurInv
    <3>2. CASE row[cur.id].status = "gone"
      BY <1>2, <2>1, <3>2, RecordElsewhere
         DEF WorkerRecord, Held, IInv, TypeOK, Snapshot
    <3>3. CASE row[cur.id].status = "processing"
      <4>1. cur.attempts + 1 \in Int
        BY <2>1 DEF IInv, TypeOK, Snapshot
      <4>2. row'[cur.id].status # "processing"
        BY <1>2, <2>1, <3>3, <4>1, RecordRow DEF WorkerRecord, IInv
      <4> QED BY <4>2 DEF Held
    <3> QED BY <3>1, <3>2, <3>3
  <2> QED BY <1>0, <1>2, <2>2, HeldStep DEF WorkerRecord, WorkerStart, Safe
<1>3. CASE WorkerDbError \/ Stop \/ Exit
  <2>1. Held' = Held /\ Safe' = {}
    BY <1>3 DEF WorkerDbError, Stop, Exit, Held, Safe
  <2>2. CASE process = "up"
    BY <1>3, <2>1, <2>2 DEF WorkerDbError, Stop, Exit, Safe
  <2>3. CASE process # "up"
    BY <1>0, <1>3, <2>1, <2>3 DEF WorkerDbError, Stop, Exit, Safe
  <2> QED BY <2>2, <2>3
<1>4. CASE WorkerList \/ WorkerTick \/ WorkerReturn \/ Start
  <2>1. Held' = Held /\ Safe' = {} /\ Safe = {}
    BY <1>4 DEF WorkerList, WorkerTick, WorkerReturn, Start, Held, Safe
  <2> QED BY <1>0, <1>4, <2>1 DEF WorkerList, WorkerTick, WorkerReturn, Start
<1>5. CASE WorkerPost
  BY <1>0, <1>5 DEF WorkerPost, Held, Safe
<1>6. ASSUME UNCHANGED <<process, workerVars>>, Held' \subseteq Held,
             faults' >= faults
      PROVE  Held' \ Safe' \subseteq Held \ Safe
  BY <1>6 DEF workerVars, Safe
<1>7. CASE Tick \/ UNCHANGED vars \/ \E h \in HookIds : CreateWebhook(h) \/ DeleteWebhook(h)
  BY <1>0, <1>6, <1>7, HeldStep DEF Tick, vars, workerVars, CreateWebhook,
     DeleteWebhook, WorkerStart
<1>8. ASSUME NEW c \in EmitIds, Emit(c) \/ EmitDbError(c)
      PROVE  Held' \ Safe' \subseteq Held \ Safe /\ faults' >= faults
  <2>1. UNCHANGED <<process, at, batch, cur, answer>>
    BY <1>8 DEF Emit, EmitCall, EmitList, EmitEnqueue, EmitBreaks, EmitDbError,
       workerVars
  <2>2. faults' = faults \/ faults' = faults + 1
    BY <1>8 DEF Emit, EmitCall, EmitList, EmitEnqueue, EmitBreaks, EmitDbError
  <2>3. faults' >= faults
    BY <1>0, <2>2
  <2>4. Held' \subseteq Held
    BY <2>1, HeldStep DEF WorkerStart
  <2> QED BY <1>6, <2>1, <2>3, <2>4 DEF workerVars
<1> QED
  BY <1>1, <1>2, <1>3, <1>4, <1>5, <1>7, <1>8 DEF Next, Api, Worker

\* A row stays in 'processing' behind the worker's back only by a kill, a stop
\* or a database error, at most one by each.
THEOREM StrandedByFaults == Spec => []StrandedBound
<1>1. Init => StrandedCount
  <2> SUFFICES ASSUME Init PROVE StrandedCount
    OBVIOUS
  <2>1. Held \ Safe = {}
    BY DEF Init, Held, NoRow
  <2>2. faults = 0
    BY DEF Init
  <2>3. Cardinality(Held \ Safe) = 0
    BY <2>1, FS_EmptySet
  <2> QED BY <2>2, <2>3 DEF StrandedCount
<1>2. IInv /\ StrandedCount /\ [Next]_vars => StrandedCount'
  <2> SUFFICES ASSUME IInv, StrandedCount, [Next]_vars PROVE StrandedCount'
    OBVIOUS
  <2> DEFINE Lost == Held \ Safe
  <2>1. /\ IsFiniteSet(Lost) /\ IsFiniteSet(Lost')
        /\ Cardinality(Lost) \in Nat /\ Cardinality(Lost') \in Nat
    <3>1. Lost \in SUBSET Held /\ Lost' \in SUBSET Held'
      OBVIOUS
    <3>2. IsFiniteSet(Lost) /\ IsFiniteSet(Lost')
      BY <3>1, HeldFinite, FS_Subset
    <3> QED BY <3>2, FS_CardinalityType
  <2>2. faults \in Int /\ faults' \in Int /\ Cardinality(Lost) <= faults
    BY TypeStep DEF IInv, TypeOK, StrandedCount
  <2> HIDE DEF Lost
  <2> DEFINE more == Lost \cup {cur.id}
  <2>3. CASE Lost' \subseteq Lost /\ faults' >= faults
    <3>1. Cardinality(Lost') <= Cardinality(Lost)
      BY <2>1, <2>3, FS_Subset
    <3> QED BY <2>1, <2>2, <2>3, <3>1 DEF StrandedCount, Lost
  <2>4. CASE Lost' \subseteq Lost \cup {cur.id} /\ faults' = faults + 1
    <3>1. /\ IsFiniteSet(more)
          /\ Cardinality(more) = IF cur.id \in Lost THEN Cardinality(Lost)
                                ELSE Cardinality(Lost) + 1
      BY <2>1, FS_AddElement
    <3> HIDE DEF more
    <3>2. Cardinality(more) <= Cardinality(Lost) + 1
      BY <2>1, <3>1
    <3>3. Cardinality(Lost') <= Cardinality(more) /\ Cardinality(more) \in Nat
      BY <2>4, <3>1, FS_Subset, FS_CardinalityType DEF more
    <3> QED BY <2>1, <2>2, <2>4, <3>2, <3>3 DEF StrandedCount, Lost
  <2> QED BY <2>3, <2>4, StrandedStep DEF Lost
<1>3. IInv /\ StrandedCount => StrandedBound
  <2> SUFFICES ASSUME IInv, StrandedCount PROVE StrandedBound
    OBVIOUS
  <2>1. faults \in Int /\ IsFiniteSet(Held) /\ IsFiniteSet(Held \ Safe)
    BY HeldFinite, FS_Subset DEF IInv, TypeOK
  <2>2. Cardinality(Held) \in Nat /\ Cardinality(Held \ Safe) \in Nat
    BY <2>1, FS_CardinalityType
  <2>3. CASE process = "up" /\ at \in {"post", "record"}
    <3>1. Held \ Safe = Held \ {cur.id}
      BY <2>3 DEF Safe
    <3>2. Cardinality(Held) <= Cardinality(Held \ Safe) + 1
      BY <2>1, <2>2, <3>1, FS_RemoveElement
    <3> QED BY <2>1, <2>2, <2>3, <3>2 DEF StrandedCount, StrandedBound
  <2>4. CASE ~(process = "up" /\ at \in {"post", "record"})
    <3>1. Held \ Safe = Held
      BY <2>4 DEF Safe
    <3> QED BY <2>1, <2>2, <2>4, <3>1 DEF StrandedCount, StrandedBound
  <2> QED BY <2>3, <2>4
<1> QED
  BY <1>1, <1>2, <1>3, Invariance, PTL DEF Spec

-----------------------------------------------------------------------------
(* Emit.  What EmitLedger and ScopedDelivery rest on: a call has nothing      *)
(* listed before its query; what it lists stays registered for its event,     *)
(* deleted or not; and every row is of a webhook its call has listed.         *)

\* A webhook registered for the event of a call, whether or not deleted since.
Serves(c, h) ==
  /\ hook[h].state # "unused"
  /\ call[c].event \in hook[h].events
  /\ hook[h].session \in {AnySession, call[c].session}

CallOK(c) ==
  /\ call[c].pc \in {"idle", "list"} => call[c].listed = {} /\ call[c].todo = {}
  /\ call[c].todo \subseteq call[c].listed
  /\ \A h \in call[c].listed : Serves(c, h)

OriginOK(d) ==
  row[d].status # "none" => /\ row[d].emit \in EmitIds
                            /\ row[d].hook \in call[row[d].emit].listed

EmitInv ==
  /\ \A c \in EmitIds : CallOK(c)
  /\ \A d \in DeliveryIds : OriginOK(d)
  /\ EmitLedger

\* Only EmitEnqueue gives a row its webhook and its call, and makes a row of
\* what was none.
LEMMA OriginStep ==
  ASSUME IInv, [Next]_vars, NEW d \in DeliveryIds,
         ~\E c \in EmitIds : EmitEnqueue(c)
  PROVE  /\ row'[d].hook = row[d].hook /\ row'[d].emit = row[d].emit
         /\ row'[d].status = "none" <=> row[d].status = "none"
<1> USE DEF IInv, TypeOK
<1>1. row[d] \in Row /\ (row[d].status = "none" => row[d] = NoRow)
  BY DEF RowInv, RowOK
<1>2. ASSUME NEW h \in HookIds, DeleteWebhook(h)
      PROVE  row'[d].hook = row[d].hook /\ row'[d].emit = row[d].emit
  BY <1>1, <1>2 DEF DeleteWebhook, Row
<1>3. CASE WorkerStart
  <2>1. PICK x \in batch : StartAttempt(x.id, x.attempts + 1)
    BY <1>3 DEF WorkerStart
  <2> QED BY <1>1, <2>1 DEF StartAttempt, Update, Row
<1>4. CASE WorkerRecord
  <2>1. /\ cur.id \in DeliveryIds /\ cur.attempts + 1 \in Int
        /\ Record(cur.id, cur.attempts + 1)
    BY <1>4 DEF WorkerRecord, Snapshot
  <2>2. CASE row'[d] = row[d]
    BY <2>2
  <2>3. CASE row'[d] # row[d]
    <3>1. /\ d = cur.id /\ row[d].status = "processing"
          /\ row'[d].status # "none"
      BY <1>4, <2>3, RecordRows
    <3> QED BY <2>1, <3>1, RecordRow
  <2> QED BY <2>2, <2>3
<1>5. CASE Tick
  BY <1>1, <1>5 DEF Tick, Row
<1>6. CASE UNCHANGED row
  BY <1>6
<1> QED
  BY <1>2, <1>3, <1>4, <1>5, <1>6, RowStep, DeleteRows, StartRows

\* The initial tables satisfy EmitInv: there is no call and no row.
LEMMA EmitInit == Init => EmitInv
  BY DEF Init, EmitInv, CallOK, OriginOK, EmitLedger, Rows, NoRow, HookIds, EmitIds

\* Inserting the row of the next webhook moves one webhook of the call from
\* those to come to those done, and adds to no other call.
LEMMA EmitInsert ==
  ASSUME IInv, EmitInv, NEW c \in EmitIds, EmitEnqueue(c)
  PROVE  EmitInv'
<1> USE DEF IInv, TypeOK
<1>1. PICK h \in HookIds :
        /\ NextHook(c, h)
        /\ row' = [row EXCEPT ![nextId] =
                    [hook |-> h, emit |-> c, status |-> "pending",
                     attempts |-> 0, wait |-> 0]]
        /\ call' = [call EXCEPT ![c] =
                     [@ EXCEPT !.todo = call[c].todo \ {h},
                        !.pc = IF call[c].todo \ {h} = {} THEN "done"
                               ELSE "enqueue"]]
  BY DEF EmitEnqueue
<1>2. /\ nextId \in DeliveryIds /\ row[nextId] = NoRow
      /\ UNCHANGED hook /\ call[c].pc = "enqueue" /\ call[c] \in Call
  BY DEF EmitEnqueue, DeliveryIds, RowInv, RowOK
<1>3. /\ call'[c].todo = call[c].todo \ {h} /\ call'[c].listed = call[c].listed
      /\ call'[c].pc \in {"done", "enqueue"}
      /\ call'[c].event = call[c].event /\ call'[c].session = call[c].session
      /\ \A b \in EmitIds : b # c => call'[b] = call[b]
  BY <1>1, <1>2 DEF Call
<1>4. /\ row'[nextId].hook = h /\ row'[nextId].emit = c
      /\ \A d \in DeliveryIds : d # nextId => row'[d] = row[d]
  BY <1>1, <1>2
<1>5. h \in call[c].todo /\ call[c].todo \subseteq call[c].listed
  BY <1>1 DEF NextHook, EmitInv, CallOK
<1>6. ASSUME NEW b \in EmitIds PROVE CallOK(b)'
  <2>1. CallOK(b)
    BY DEF EmitInv
  <2> QED BY <1>2, <1>3, <2>1 DEF CallOK, Serves
<1>7. ASSUME NEW d \in DeliveryIds PROVE OriginOK(d)'
  <2>1. OriginOK(d)
    BY DEF EmitInv
  <2> QED BY <1>3, <1>4, <1>5, <2>1 DEF OriginOK
<1>8. ASSUME NEW b \in EmitIds, NEW g \in HookIds
      PROVE  Rows(b, g)' = IF b = c /\ g = h THEN Rows(b, g) \cup {nextId}
                           ELSE Rows(b, g)
  <2>1. \A d \in DeliveryIds :
          (row'[d].emit = b /\ row'[d].hook = g)
            <=> \/ row[d].emit = b /\ row[d].hook = g
                \/ d = nextId /\ b = c /\ g = h
    BY <1>2, <1>4 DEF NoRow, EmitIds
  <2> QED BY <1>2, <2>1 DEF Rows
<1>9. EmitLedger'
  <2> SUFFICES ASSUME NEW b \in EmitIds, NEW g \in HookIds
      PROVE  /\ g \in call'[b].listed \ call'[b].todo =>
                  /\ \E d \in DeliveryIds : Rows(b, g)' = {d}
                  /\ \A f \in call'[b].todo : g < f
             /\ g \notin call'[b].listed \ call'[b].todo => Rows(b, g)' = {}
    BY DEF EmitLedger
  <2>1. /\ g \in call[b].listed \ call[b].todo =>
             /\ \E d \in DeliveryIds : Rows(b, g) = {d}
             /\ \A f \in call[b].todo : g < f
        /\ g \notin call[b].listed \ call[b].todo => Rows(b, g) = {}
    BY DEF EmitInv, EmitLedger
  <2>2. CASE b = c /\ g = h
    <3>1. Rows(b, g)' = {nextId}
      BY <1>5, <1>8, <2>1, <2>2
    <3>2. \A f \in call'[b].todo : g < f
      BY <1>1, <1>2, <1>3, <2>2 DEF NextHook, Call, HookIds
    <3> QED BY <1>2, <1>3, <1>5, <2>2, <3>1, <3>2
  <2>3. CASE ~(b = c /\ g = h)
    BY <1>3, <1>8, <2>1, <2>3
  <2> QED BY <2>2, <2>3
<1> QED
  BY <1>6, <1>7, <1>9 DEF EmitInv

\* A step that keeps the lists of all calls, and every row and webhook where it
\* is, keeps EmitInv.
LEMMA EmitKept ==
  ASSUME EmitInv,
         \A c \in EmitIds :
           /\ call'[c].listed = call[c].listed /\ call'[c].todo = call[c].todo
           /\ call'[c].pc \in {"idle", "list"} => call[c].pc \in {"idle", "list"}
           /\ call[c].listed # {} => /\ call'[c].event = call[c].event
                                     /\ call'[c].session = call[c].session,
         \A d \in DeliveryIds :
           /\ row'[d].hook = row[d].hook /\ row'[d].emit = row[d].emit
           /\ row'[d].status = "none" <=> row[d].status = "none",
         \A h \in HookIds : hook[h].state # "unused" =>
           /\ hook'[h].state # "unused" /\ hook'[h].events = hook[h].events
           /\ hook'[h].session = hook[h].session,
         \A c \in EmitIds : call[c].listed \subseteq HookIds
  PROVE  EmitInv'
<1>1. ASSUME NEW c \in EmitIds PROVE CallOK(c)'
  <2>1. CallOK(c)
    BY DEF EmitInv
  <2>2. \A h \in call[c].listed : Serves(c, h) => Serves(c, h)'
    BY DEF Serves
  <2> QED BY <2>1, <2>2 DEF CallOK
<1>2. \A d \in DeliveryIds : OriginOK(d)'
  BY DEF EmitInv, OriginOK
<1>3. \A c \in EmitIds, h \in HookIds : Rows(c, h)' = Rows(c, h)
  BY DEF Rows
<1>4. EmitLedger'
  BY <1>3 DEF EmitInv, EmitLedger
<1> QED
  BY <1>1, <1>2, <1>4 DEF EmitInv

\* Every step keeps EmitInv.
LEMMA EmitStep == IInv /\ EmitInv /\ [Next]_vars => EmitInv'
<1> SUFFICES ASSUME IInv, EmitInv, [Next]_vars PROVE EmitInv'
  OBVIOUS
<1> USE DEF IInv, TypeOK
<1>1. CASE \E c \in EmitIds : EmitEnqueue(c)
  BY <1>1, EmitInsert
<1>2. CASE ~\E c \in EmitIds : EmitEnqueue(c)
  <2> DEFINE Lists ==
        \A c \in EmitIds :
          /\ call'[c].listed = call[c].listed /\ call'[c].todo = call[c].todo
          /\ call'[c].pc \in {"idle", "list"} => call[c].pc \in {"idle", "list"}
          /\ call[c].listed # {} => /\ call'[c].event = call[c].event
                                    /\ call'[c].session = call[c].session
      Hooks ==
        \A h \in HookIds : hook[h].state # "unused" =>
          /\ hook'[h].state # "unused" /\ hook'[h].events = hook[h].events
          /\ hook'[h].session = hook[h].session
  <2>1. \A d \in DeliveryIds :
          /\ row'[d].hook = row[d].hook /\ row'[d].emit = row[d].emit
          /\ row'[d].status = "none" <=> row[d].status = "none"
    BY <1>2, OriginStep
  <2>2. \A c \in EmitIds : call[c] \in Call /\ call[c].listed \subseteq HookIds
    BY DEF Call
  <2>3. Lists /\ Hooks => EmitInv'
    BY <2>1, <2>2, EmitKept
  <2>4. ASSUME NEW h \in HookIds, CreateWebhook(h) \/ DeleteWebhook(h)
        PROVE  Lists /\ Hooks
    BY <2>4 DEF CreateWebhook, DeleteWebhook, Hook
  <2>5. ASSUME NEW c \in EmitIds, EmitCall(c) PROVE Lists /\ Hooks
    <3>1. call[c].pc = "idle" /\ call[c].listed = {} /\ UNCHANGED hook
      BY <2>5 DEF EmitCall, EmitInv, CallOK
    <3>2. /\ call'[c].listed = call[c].listed /\ call'[c].todo = call[c].todo
          /\ \A b \in EmitIds : b # c => call'[b] = call[b]
      BY <2>2, <2>5 DEF EmitCall, Call
    <3> QED BY <3>1, <3>2
  <2>6. ASSUME NEW c \in EmitIds, EmitBreaks(c) \/ EmitDbError(c)
        PROVE  Lists /\ Hooks
    <3>1. call' = [call EXCEPT ![c].pc = "failed"] /\ hook' = hook
          /\ call[c].pc \in {"list", "enqueue"}
      BY <2>6 DEF EmitBreaks, EmitDbError
    <3> QED BY <2>2, <3>1 DEF Call
  <2>7. CASE Exit
    <3>1. \A c \in EmitIds :
            call'[c] = call[c] \/ call'[c] = [call[c] EXCEPT !.pc = "lost"]
      BY <2>7 DEF Exit
    <3>2. ASSUME NEW x \in Call, NEW y, y = [x EXCEPT !.pc = "lost"]
          PROVE  /\ y.listed = x.listed /\ y.todo = x.todo /\ y.pc = "lost"
                 /\ y.event = x.event /\ y.session = x.session
      BY <3>2 DEF Call
    <3>3. ASSUME NEW c \in EmitIds
          PROVE  /\ call'[c].listed = call[c].listed /\ call'[c].todo = call[c].todo
                 /\ call'[c].event = call[c].event /\ call'[c].session = call[c].session
                 /\ call'[c].pc \in {call[c].pc, "lost"}
      <4>1. CASE call'[c] = call[c]
        BY <4>1
      <4>2. CASE call'[c] = [call[c] EXCEPT !.pc = "lost"]
        <5>1. call[c] \in Call
          BY <2>2
        <5> QED BY <3>2, <4>2, <5>1
      <4> QED BY <3>1, <4>1, <4>2
    <3>4. Lists
      BY <3>3
    <3> QED BY <2>3, <2>7, <3>4 DEF Exit
  <2>8. CASE UNCHANGED <<hook, call>>
    BY <2>3, <2>8
  <2>9. ASSUME NEW c \in EmitIds, EmitList(c) PROVE EmitInv'
    <3> DEFINE found == ListMatching(call[c].session, call[c].event)
    <3>1. /\ call'[c].listed = found /\ call'[c].todo = found
          /\ call'[c].pc \in {"done", "enqueue"}
          /\ call'[c].event = call[c].event /\ call'[c].session = call[c].session
          /\ \A b \in EmitIds : b # c => call'[b] = call[b]
      BY <2>2, <2>9 DEF EmitList, Call
    <3>2. UNCHANGED <<hook, row>>
      BY <2>9 DEF EmitList
    <3>3. \A h \in found : Serves(c, h)'
      BY <3>1, <3>2 DEF ListMatching, Matches, Serves
    <3>4. call[c].listed = {} /\ call[c].todo = {}
      BY <2>9 DEF EmitList, EmitInv, CallOK
    <3>5. ASSUME NEW b \in EmitIds PROVE CallOK(b)'
      <4>1. CallOK(b)
        BY DEF EmitInv
      <4> QED BY <3>1, <3>2, <3>3, <4>1 DEF CallOK, Serves
    <3>6. \A d \in DeliveryIds : OriginOK(d)'
      BY <3>1, <3>2, <3>4 DEF EmitInv, OriginOK
    <3>7. \A b \in EmitIds, h \in HookIds : Rows(b, h)' = Rows(b, h)
      BY <3>2 DEF Rows
    <3>8. EmitLedger'
      BY <3>1, <3>4, <3>7 DEF EmitInv, EmitLedger
    <3> QED BY <3>5, <3>6, <3>8 DEF EmitInv
  <2>10. CASE Worker \/ WorkerDbError \/ WorkerReturn \/ Start \/ Stop \/ Tick
              \/ UNCHANGED vars
    BY <2>8, <2>10 DEF Worker, WorkerList, WorkerStart, WorkerPost, WorkerRecord,
         WorkerDbError, WorkerTick, WorkerReturn, Start, Stop, Tick, vars
  <2> HIDE DEF Lists, Hooks
  <2> QED
    BY <1>2, <2>3, <2>4, <2>5, <2>6, <2>7, <2>8, <2>9, <2>10 DEF Next, Api, Emit
<1> QED
  BY <1>1, <1>2

\* EmitInv holds in every reachable state.
LEMMA EmitInvariance == Spec => []EmitInv
<1>1. Init => EmitInv
  BY EmitInit
<1>2. IInv /\ EmitInv /\ [Next]_vars => EmitInv'
  BY EmitStep
<1> QED
  BY <1>1, <1>2, Invariance, PTL DEF Spec

\* However a call of Emit ends, the webhooks it listed have one row each up to
\* some age, and none beyond: nothing is enqueued twice, nothing out of order.
THEOREM LedgerKept == Spec => []EmitLedger
<1>1. EmitInv => EmitLedger
  BY DEF EmitInv
<1> QED
  BY <1>1, EmitInvariance, PTL

\* No webhook is sent an event it did not ask for, or of a session outside its
\* scope, also when webhooks come and go between the query and the INSERTs.
THEOREM DeliveriesScoped == Spec => []ScopedDelivery
<1>1. EmitInv => ScopedDelivery
  BY DEF EmitInv, OriginOK, CallOK, Serves, ScopedDelivery
<1> QED
  BY <1>1, EmitInvariance, PTL

-----------------------------------------------------------------------------
\* The initial tables owe nothing.
LEMMA PromiseInit == Init => Promise!Init
  BY DEF Init, Promise!Init, Fate, NoRow

\* A step that changes no fate and no history is a stutter of the promise.
LEMMA SameFates ==
  ASSUME UNCHANGED history,
         \A d \in DeliveryIds : Fate(d)' = Fate(d)
  PROVE  UNCHANGED Promise!vars
  BY DEF Promise!vars, history

\* A POST accepts the delivery in hand or refuses it.
LEMMA PromisePost ==
  ASSUME IInv, WorkerPost
  PROVE  Promise!Accept(cur.id) \/ Promise!Refuse(cur.id)
<1>1. PICK ok \in BOOLEAN : acked' = [acked EXCEPT ![cur.id] = @ \/ ok]
  BY DEF WorkerPost
<1>2. /\ cur.id \in DeliveryIds /\ UNCHANGED row
      /\ posts' = [posts EXCEPT ![cur.id] = @ + 1]
  BY DEF WorkerPost, IInv, TypeOK, Snapshot
<1>3. /\ row[cur.id].status \in {"processing", "gone"}
      /\ ~acked[cur.id] /\ posts[cur.id] < Limit
  BY DEF WorkerPost, IInv, CurInv, Fresh
<1>4. Fate(cur.id) \in {"open", "withdrawn"}
  BY <1>3 DEF Fate
<1>5. CASE ok
  <2>1. acked' = [acked EXCEPT ![cur.id] = TRUE]
    BY <1>1, <1>5
  <2>2. \A d \in DeliveryIds :
          Fate(d)' = IF d = cur.id THEN "accepted" ELSE Fate(d)
    BY <1>2, <1>3, <2>1 DEF Fate, IInv, TypeOK
  <2> QED BY <1>2, <1>3, <1>4, <2>2 DEF Promise!Accept
<1>6. CASE ~ok
  <2>1. \A d \in DeliveryIds : acked'[d] = acked[d]
    BY <1>1, <1>2, <1>3, <1>6 DEF IInv, TypeOK
  <2>2. \A d \in DeliveryIds : Fate(d)' = Fate(d)
    BY <1>2, <2>1 DEF Fate
  <2> QED BY <1>2, <1>3, <1>4, <2>2 DEF Promise!Refuse
<1> QED
  BY <1>5, <1>6

\* Every step of the outbox is a step of the promise, or none.
LEMMA PromiseStep ==
  ASSUME IInv, IInv', [Next]_vars
  PROVE  [Promise!Next]_Promise!vars
<1>1. CASE WorkerPost
  <2>1. cur.id \in DeliveryIds
    BY <1>1 DEF WorkerPost, IInv, TypeOK, Snapshot
  <2> QED BY <1>1, <2>1, PromisePost DEF Promise!Next
<1>2. CASE UNCHANGED history
  <2> USE <1>2
  <2>1. ASSUME NEW h \in HookIds, DeleteWebhook(h)
        PROVE  Promise!Withdraw
    <3> DEFINE gone == {d \in DeliveryIds : row'[d] # row[d] /\ ~acked[d]
                                             /\ row[d].status # "gone"}
    <3>1. ASSUME NEW d \in DeliveryIds
          PROVE  /\ Fate(d)' = IF d \in gone THEN "withdrawn" ELSE Fate(d)
                 /\ d \in gone => Fate(d) \in {"open", "abandoned"}
      <4>1. row'[d] = row[d] \/ (row[d].status # "none" /\ row'[d].status = "gone")
        BY <2>1, DeleteRows
      <4>2. acked'[d] = acked[d] /\ acked[d] \in BOOLEAN
        BY DEF history, IInv, TypeOK
      <4>3. row[d].status = "delivered" => acked[d]
        BY DEF IInv, RowInv, RowOK
      <4> QED BY <4>1, <4>2, <4>3 DEF Fate
    <3> HIDE DEF gone
    <3>2. gone \in SUBSET {d \in DeliveryIds : Fate(d) \in {"open", "abandoned"}}
      BY <3>1 DEF gone
    <3> QED BY <3>1, <3>2 DEF Promise!Withdraw, history
  <2>2. ASSUME NEW c \in EmitIds, EmitEnqueue(c)
        PROVE  \E d \in DeliveryIds : Promise!Owe(d)
    <3>1. nextId \in DeliveryIds /\ row[nextId].status = "none" /\ ~acked[nextId]
      BY <2>2 DEF EmitEnqueue, IInv, TypeOK, RowInv, RowOK, DeliveryIds
    <3>2. /\ row'[nextId].status = "pending"
          /\ \A d \in DeliveryIds : d # nextId => row'[d] = row[d]
      BY <2>2, <3>1 DEF EmitEnqueue, IInv, TypeOK
    <3>3. /\ Fate(nextId) = "unknown"
          /\ \A d \in DeliveryIds :
               Fate(d)' = IF d = nextId THEN "open" ELSE Fate(d)
      BY <3>1, <3>2 DEF Fate, history
    <3> QED BY <3>1, <3>3 DEF Promise!Owe, history
  <2>3. CASE WorkerStart
    <3>1. \A d \in DeliveryIds : Fate(d)' = Fate(d)
      BY <2>3, StartRows DEF Fate, history
    <3> QED BY <3>1, SameFates
  <2>4. CASE WorkerRecord
    <3>1. cur.id \in DeliveryIds /\ cur.attempts \in Nat
      BY <2>4 DEF WorkerRecord, IInv, TypeOK, Snapshot
    <3>2. CASE row'[cur.id].status = "failed" /\ row[cur.id].status = "processing"
      <4>1. /\ ~acked[cur.id] /\ posts[cur.id] = Limit
        BY <3>1, <3>2 DEF IInv, RowInv, RowOK, history
      <4>2. \A d \in DeliveryIds :
              Fate(d)' = IF d = cur.id THEN "abandoned" ELSE Fate(d)
        BY <2>4, <3>2, <4>1, RecordRows DEF Fate, history
      <4>3. Fate(cur.id) = "open"
        BY <3>2, <4>1 DEF Fate
      <4>4. Promise!GiveUp(cur.id)
        BY <3>1, <4>1, <4>2, <4>3 DEF Promise!GiveUp, history
      <4> QED BY <3>1, <4>4 DEF Promise!Next
    <3>3. CASE ~(row'[cur.id].status = "failed" /\ row[cur.id].status = "processing")
      <4>1. ASSUME NEW d \in DeliveryIds PROVE Fate(d)' = Fate(d)
        <5>1. CASE row'[d] = row[d]
          BY <5>1 DEF Fate, history
        <5>2. CASE row'[d] # row[d]
          <6>1. /\ d = cur.id /\ row[d].status = "processing" /\ acked[d] = answer
                /\ row'[d].status = IF answer THEN "delivered"
                     ELSE IF cur.attempts + 1 >= MaxAttempts THEN "failed"
                     ELSE "retry"
            BY <2>4, <5>2, RecordRows
          <6> QED BY <3>3, <6>1 DEF Fate, history
        <5> QED BY <5>1, <5>2
      <4> QED BY <4>1, SameFates
    <3> QED BY <3>2, <3>3
  <2>5. CASE Tick
    <3>1. \A d \in DeliveryIds : row'[d].status = row[d].status
      BY <2>5 DEF Tick, IInv, TypeOK, Row
    <3>2. \A d \in DeliveryIds : Fate(d)' = Fate(d)
      BY <3>1 DEF Fate, history
    <3> QED BY <3>2, SameFates
  <2>6. CASE UNCHANGED row
    <3>1. \A d \in DeliveryIds : Fate(d)' = Fate(d)
      BY <2>6 DEF Fate, history
    <3> QED BY <3>1, SameFates
  <2> QED BY <2>1, <2>2, <2>3, <2>4, <2>5, <2>6, RowStep DEF Promise!Next
<1> QED
  BY <1>1, <1>2, HistoryStep

\* The outbox, with every fault it meets, implements DeliveryPromise: at most
\* Limit POSTs, none after a 2xx, and no giving up before the last one.
THEOREM Implements == Spec => KeepsPromise
<1>1. Init => Promise!Init
  BY PromiseInit
<1>2. IInv /\ IInv' /\ [Next]_vars => [Promise!Next]_Promise!vars
  BY PromiseStep
<1> QED
  BY <1>1, <1>2, Invariance, PTL DEF Spec, KeepsPromise, Promise!Spec
=============================================================================
