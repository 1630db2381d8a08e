--------------------------- MODULE WebhookOutbox ---------------------------
(* The webhook outbox: the tables webhooks and webhook_deliveries             *)
(* (internal/store/webhook_repo.go), the Emit calls that fill them, and the   *)
(* one worker goroutine that empties them (internal/webhooks/service.go),     *)
(* with the process that runs both, which may be stopped or killed between    *)
(* any two of their steps.  The tables survive it.                            *)
(*                                                                            *)
(* Time is in units of 10 s and relative: a row's wait is next_attempt_at     *)
(* minus now.  URL, payload, HTTP status, response body and error text are    *)
(* left out; no decision reads them.                                          *)
EXTENDS Integers, FiniteSets

CONSTANTS
  Sessions,       \* session ids
  AnySession,     \* the session_id of a webhook registered for all of them
  EventTypes,     \* event names
  BatchSize,      \* WEBHOOK_BATCH_SIZE
  MaxAttempts,    \* WEBHOOK_MAX_ATTEMPTS
  MaxHooks,       \* bound: webhooks ever created
  MaxEmits,       \* bound: calls of Emit
  MaxDeliveries,  \* bound: rows ever inserted in webhook_deliveries
  MaxLag,         \* bound: how overdue a row may get before time must wait
  MaxFaults       \* bound: kills, stops and database errors

ASSUME BatchAssumption == BatchSize \in Nat \ {0}
ASSUME AttemptsAssumption == MaxAttempts \in Nat
ASSUME BoundsAssumption ==
  /\ MaxHooks \in Nat /\ MaxEmits \in Nat /\ MaxDeliveries \in Nat
  /\ MaxLag \in Nat /\ MaxFaults \in Nat
ASSUME SessionAssumption == AnySession \notin Sessions

VARIABLES
  hook,      \* webhooks, by id: created_at grows with the id
  row,       \* webhook_deliveries, by id; a deleted row is kept as "gone"
  nextId,    \* BIGSERIAL of webhook_deliveries
  call,      \* the calls of Emit
  process,   \* "down", "up", or "stopping": the root context is cancelled
  at,        \* where the worker is in run and processDue
  batch,     \* the deliveries listed and not yet handled, as they were then
  cur,       \* the delivery being handled, as listed
  answer,    \* whether the POST just made was answered 2xx
  faults,    \* kills, stops and database errors so far
  posts,     \* history: how often each delivery was POSTed
  acked      \* history: whether one of these POSTs was answered 2xx

vars == <<hook, row, nextId, call, process, at, batch, cur, answer, faults,
          posts, acked>>
workerVars == <<at, batch, cur, answer>>
history == <<posts, acked>>

HookIds == 1..MaxHooks
EmitIds == 1..MaxEmits
DeliveryIds == 1..MaxDeliveries

Statuses == {"none", "pending", "processing", "retry", "delivered", "failed",
             "gone"}
NoEvent == "none"
Hook == [state: {"unused", "active", "deleted"},
         session: Sessions \cup {AnySession}, events: SUBSET EventTypes]
Row == [hook: 0..MaxHooks, emit: 0..MaxEmits, status: Statuses,
        attempts: Nat, wait: Int]
Call == [pc: {"idle", "list", "enqueue", "done", "failed", "lost"},
         session: Sessions \cup {AnySession}, event: EventTypes \cup {NoEvent},
         listed: SUBSET HookIds, todo: SUBSET HookIds]
Snapshot == [id: DeliveryIds, attempts: Nat, wait: Int]

NoRow == [hook |-> 0, emit |-> 0, status |-> "none", attempts |-> 0, wait |-> 0]
NoSnapshot == [id |-> 0, attempts |-> 0, wait |-> 0]

TypeOK ==
  /\ hook \in [HookIds -> Hook]
  /\ row \in [DeliveryIds -> Row]
  /\ nextId \in 1..(MaxDeliveries + 1)
  /\ call \in [EmitIds -> Call]
  /\ process \in {"down", "up", "stopping"}
  /\ at \in {"off", "list", "start", "post", "record", "wait"}
  /\ batch \in SUBSET Snapshot
  /\ cur \in Snapshot \cup {NoSnapshot}
  /\ at \in {"post", "record"} => cur \in Snapshot
  /\ answer \in BOOLEAN
  /\ faults \in 0..MaxFaults
  /\ posts \in [DeliveryIds -> Nat]
  /\ acked \in [DeliveryIds -> BOOLEAN]

Init ==
  /\ hook = [h \in HookIds |->
               [state |-> "unused", session |-> AnySession, events |-> {}]]
  /\ call = [c \in EmitIds |->
               [pc |-> "idle", session |-> AnySession, event |-> NoEvent,
                listed |-> {}, todo |-> {}]]
  /\ row = [d \in DeliveryIds |-> NoRow]
  /\ nextId = 1
  /\ process = "down"
  /\ at = "off" /\ batch = {} /\ cur = NoSnapshot /\ answer = FALSE
  /\ faults = 0
  /\ posts = [d \in DeliveryIds |-> 0]
  /\ acked = [d \in DeliveryIds |-> FALSE]

-----------------------------------------------------------------------------
(* The repository.  No UPDATE looks at the status it overwrites, and one that *)
(* finds no row succeeds.                                                     *)

\* UPDATE ... WHERE id = d.
Update(d, new) ==
  row' = [row EXCEPT ![d] = IF @.status \in {"none", "gone"} THEN @ ELSE new]

StartAttempt(d, attemptCount) ==
  Update(d, [row[d] EXCEPT !.status = "processing", !.attempts = attemptCount])

MarkDelivered(d) == Update(d, [row[d] EXCEPT !.status = "delivered"])

MarkFailed(d) == Update(d, [row[d] EXCEPT !.status = "failed"])

MarkRetry_Stuck(d, next) == Update(d, [row[d] EXCEPT !.wait = next])
MarkRetry(d, next) ==
  Update(d, [row[d] EXCEPT !.status = "retry", !.wait = next])

Matches_AnyScope(h, session, event) ==
  hook[h].state = "active" /\ event \in hook[h].events
Matches(h, session, event) ==
  /\ hook[h].state = "active"
  /\ event \in hook[h].events
  /\ hook[h].session \in {AnySession, session}

ListMatching(session, event) ==
  {h \in HookIds : Matches(h, session, event)}

Due_Early == {d \in DeliveryIds : row[d].status \in {"pending", "retry"}}
Due_Held ==
  {d \in DeliveryIds : row[d].status \in {"pending", "retry", "processing"}
                         /\ row[d].wait <= 0}
Due ==
  {d \in DeliveryIds : row[d].status \in {"pending", "retry"}
                         /\ row[d].wait <= 0}

\* ORDER BY next_attempt_at, id
Before(x, y) == x.wait < y.wait \/ (x.wait = y.wait /\ x.id < y.id)

Listed_FromZero(d) ==
  [id |-> d, attempts |-> row[d].attempts - 1, wait |-> row[d].wait]
Listed(d) == [id |-> d, attempts |-> row[d].attempts, wait |-> row[d].wait]

\* The first BatchSize of the rows due.
ListDueDeliveries ==
  LET rows == {Listed(d) : d \in Due}
  IN  {x \in rows : Cardinality({y \in rows : Before(y, x)}) < BatchSize}

-----------------------------------------------------------------------------
(* The API: POST /webhooks and DELETE /webhooks/:id.                          *)

CreateWebhook(h) ==
  /\ process # "down"
  /\ hook[h].state = "unused"
  /\ \A g \in HookIds : g < h => hook[g].state # "unused"
  /\ \E session \in Sessions \cup {AnySession},
        events \in SUBSET EventTypes \ {{}} :
       hook' = [hook EXCEPT ![h] = [state |-> "active", session |-> session,
                                    events |-> events]]
  /\ UNCHANGED <<row, nextId, call, process, workerVars, faults, history>>

\* DELETE cascades to the deliveries, whatever the worker is doing with them.
DeleteWebhook(h) ==
  /\ process # "down"
  /\ hook[h].state = "active"
  /\ hook' = [hook EXCEPT ![h].state = "deleted"]
  /\ row' = [d \in DeliveryIds |->
               IF row[d].hook = h THEN [row[d] EXCEPT !.status = "gone"]
               ELSE row[d]]
  /\ UNCHANGED <<nextId, call, process, workerVars, faults, history>>

-----------------------------------------------------------------------------
(* Emit, called from any goroutine with a context that is never cancelled.    *)

EmitCall(c) ==
  /\ process # "down"
  /\ call[c].pc = "idle"
  /\ \E session \in Sessions, event \in EventTypes :
       call' = [call EXCEPT ![c] = [@ EXCEPT !.pc = "list",
                                      !.session = session, !.event = event]]
  /\ UNCHANGED <<hook, row, nextId, process, workerVars, faults, history>>

EmitList(c) ==
  /\ call[c].pc = "list"
  /\ LET found == ListMatching(call[c].session, call[c].event)
     IN  call' = [call EXCEPT ![c] =
                    [@ EXCEPT !.pc = IF found = {} THEN "done" ELSE "enqueue",
                              !.listed = found, !.todo = found]]
  /\ UNCHANGED <<hook, row, nextId, process, workerVars, faults, history>>

\* The INSERT for the next webhook of the list, ORDER BY created_at.
NextHook_NotAdvanced(c, h) ==
  h \in call[c].listed /\ \A g \in call[c].listed : h <= g
NextHook(c, h) == h \in call[c].todo /\ \A g \in call[c].todo : h <= g

EmitEnqueue(c) ==
  /\ call[c].pc = "enqueue"
  /\ nextId <= MaxDeliveries
  /\ \E h \in HookIds :
       /\ NextHook(c, h)
       /\ hook[h].state = "active"
       /\ row' = [row EXCEPT ![nextId] =
                    [hook |-> h, emit |-> c, status |-> "pending",
                     attempts |-> 0, wait |-> 0]]
       /\ LET rest == call[c].todo \ {h}
          IN  call' = [call EXCEPT ![c] =
                [@ EXCEPT !.todo = rest,
                          !.pc = IF rest = {} THEN "done" ELSE "enqueue"]]
  /\ nextId' = nextId + 1
  /\ UNCHANGED <<hook, process, workerVars, faults, history>>

\* The INSERT breaks the foreign key when that webhook was deleted since it
\* was listed; Emit returns at the first error, and the rest get no row.
EmitBreaks(c) ==
  /\ call[c].pc = "enqueue"
  /\ \E h \in HookIds : NextHook(c, h) /\ hook[h].state = "deleted"
  /\ call' = [call EXCEPT ![c].pc = "failed"]
  /\ UNCHANGED <<hook, row, nextId, process, workerVars, faults, history>>

EmitDbError(c) ==
  /\ call[c].pc \in {"list", "enqueue"}
  /\ faults < MaxFaults
  /\ faults' = faults + 1
  /\ call' = [call EXCEPT ![c].pc = "failed"]
  /\ UNCHANGED <<hook, row, nextId, process, workerVars, history>>

-----------------------------------------------------------------------------
(* The worker: run and processDue.                                            *)

\* ListDueDeliveries answered; every query fails once the context is cancelled.
WorkerList ==
  /\ at = "list" /\ process = "up"
  /\ batch' = ListDueDeliveries
  /\ at' = IF batch' = {} THEN "wait" ELSE "start"
  /\ UNCHANGED <<hook, row, nextId, call, process, cur, answer, faults, history>>

\* StartAttempt for the next delivery of the list.
WorkerStart ==
  /\ at = "start" /\ process = "up"
  /\ \E x \in batch :
       /\ \A y \in batch : ~Before(y, x)
       /\ StartAttempt(x.id, x.attempts + 1)
       /\ cur' = x
       /\ batch' = batch \ {x}
  /\ at' = "post"
  /\ UNCHANGED <<hook, nextId, call, process, answer, faults, history>>

\* deliver: no 2xx comes back over a cancelled context.
WorkerPost ==
  /\ at = "post"
  /\ \E ok \in BOOLEAN :
       /\ ok => process = "up"
       /\ answer' = ok
       /\ acked' = [acked EXCEPT ![cur.id] = @ \/ ok]
  /\ posts' = [posts EXCEPT ![cur.id] = @ + 1]
  /\ at' = "record"
  /\ UNCHANGED <<hook, row, nextId, call, process, batch, cur, faults>>

backoffUnits == <<1, 2, 4, 8, 16>>
BackoffForAttempt(n) ==
  backoffUnits[IF n < 1 THEN 1 ELSE IF n > 5 THEN 5 ELSE n]

\* attemptCount >= maxAttempts
Exhausted_OffByOne(n) == n > MaxAttempts
Exhausted_Early(n) == n + 1 >= MaxAttempts
Exhausted(n) == n >= MaxAttempts

Record_IgnoreAnswer(d, n) ==
  IF Exhausted(n) THEN MarkFailed(d) ELSE MarkRetry(d, BackoffForAttempt(n))
Record_DeliveredWhenExhausted(d, n) ==
  IF answer \/ Exhausted(n) THEN MarkDelivered(d)
  ELSE MarkRetry(d, BackoffForAttempt(n))
Record(d, n) ==
  IF answer THEN MarkDelivered(d)
  ELSE IF Exhausted(n) THEN MarkFailed(d)
  ELSE MarkRetry(d, BackoffForAttempt(n))

WorkerRecord ==
  /\ at = "record" /\ process = "up"
  /\ Record(cur.id, cur.attempts + 1)
  /\ at' = IF batch = {} THEN "wait" ELSE "start"
  /\ UNCHANGED <<hook, nextId, call, process, batch, cur, answer, faults, history>>

\* Any repository error ends the iteration: what was listed is forgotten, and
\* the row being handled stays as it is.
WorkerDbError ==
  /\ at \in {"list", "start", "record"}
  /\ \/ process = "stopping" /\ faults' = faults
     \/ process = "up" /\ faults < MaxFaults /\ faults' = faults + 1
  /\ at' = "wait"
  /\ batch' = {}
  /\ UNCHANGED <<hook, row, nextId, call, process, cur, answer, history>>

\* select: the ticker, or the cancelled context (either, when both are ready).
WorkerTick ==
  /\ at = "wait"
  /\ at' = "list"
  /\ UNCHANGED <<hook, row, nextId, call, process, batch, cur, answer, faults,
                 history>>

WorkerReturn ==
  /\ at = "wait" /\ process = "stopping"
  /\ at' = "off"
  /\ UNCHANGED <<hook, row, nextId, call, process, batch, cur, answer, faults,
                 history>>

-----------------------------------------------------------------------------
(* The process and the clock.                                                 *)

Start ==
  /\ process = "down"
  /\ process' = "up"
  /\ at' = "list" /\ batch' = {}
  /\ UNCHANGED <<hook, row, nextId, call, cur, answer, faults, history>>

\* SIGINT or SIGTERM cancels the worker's context.
Stop ==
  /\ process = "up"
  /\ faults < MaxFaults
  /\ process' = "stopping"
  /\ faults' = faults + 1
  /\ UNCHANGED <<hook, row, nextId, call, workerVars, history>>

\* The process ends: main returns without waiting for the worker or for calls
\* of Emit, or it is killed.  Only the tables remain.
Exit ==
  /\ \/ process = "stopping" /\ faults' = faults
     \/ process = "up" /\ faults < MaxFaults /\ faults' = faults + 1
  /\ process' = "down"
  /\ at' = "off" /\ batch' = {} /\ cur' = NoSnapshot /\ answer' = FALSE
  /\ call' = [c \in EmitIds |-> IF call[c].pc \in {"list", "enqueue"}
                                THEN [call[c] EXCEPT !.pc = "lost"] ELSE call[c]]
  /\ UNCHANGED <<hook, row, nextId, history>>

Waiting(d) == row[d].status \in {"pending", "retry"}

\* 10 s pass.
Tick ==
  /\ \A d \in DeliveryIds : Waiting(d) => row[d].wait > -MaxLag
  /\ \E d \in DeliveryIds : Waiting(d)
  /\ row' = [d \in DeliveryIds |->
               IF Waiting(d) THEN [row[d] EXCEPT !.wait = @ - 1] ELSE row[d]]
  /\ UNCHANGED <<hook, nextId, call, process, workerVars, faults, history>>

-----------------------------------------------------------------------------
Api == \E h \in HookIds : CreateWebhook(h) \/ DeleteWebhook(h)

Emit(c) == EmitCall(c) \/ EmitList(c) \/ EmitEnqueue(c) \/ EmitBreaks(c)

\* processDue and run, as long as the database answers.
Worker == WorkerList \/ WorkerStart \/ WorkerPost \/ WorkerRecord \/ WorkerTick

Next ==
  \/ Api
  \/ \E c \in EmitIds : Emit(c) \/ EmitDbError(c)
  \/ Worker \/ WorkerDbError \/ WorkerReturn
  \/ Start \/ Stop \/ Exit \/ Tick

Spec == Init /\ [][Next]_vars

\* The goroutine is scheduled and its http.Client has a timeout, so the worker
\* keeps taking its steps; time passes; the service is started.
FairSpec == Spec /\ WF_vars(Worker) /\ WF_vars(Tick) /\ WF_vars(Start)

-----------------------------------------------------------------------------
(* Properties.                                                                *)

\* An attempt is made before its number is compared, so 0 allows one.
Limit == IF MaxAttempts = 0 THEN 1 ELSE MaxAttempts

\* A receiver never sees more POSTs of a delivery than the row has counted, and
\* the row never counts more than WEBHOOK_MAX_ATTEMPTS, across restarts and
\* although the count written is the one read when the batch was listed.  (A
\* row deleted while in hand is still POSTed, and counts no more.)
AttemptBound ==
  \A d \in DeliveryIds :
    /\ posts[d] <= Limit /\ row[d].attempts <= Limit
    /\ row[d].status # "gone" => posts[d] <= row[d].attempts

\* What the row says of the outcome is true: delivered only after a 2xx, failed
\* only after every attempt was made and none was answered 2xx.
OutcomeIsEarned ==
  \A d \in DeliveryIds :
    /\ row[d].status = "delivered" => acked[d]
    /\ row[d].status = "failed" => ~acked[d] /\ posts[d] = Limit

\* The row processDue has taken up and not yet released.
InHand(d) == at \in {"post", "record"} /\ cur.id = d

Held == {d \in DeliveryIds : row[d].status = "processing"}
Stranded(d) == row[d].status = "processing" /\ ~InHand(d)

\* A row is left in 'processing' by a kill, a stop or a database error and by
\* nothing else, at most one by each (service.go:137-158).
StrandedBound ==
  Cardinality(Held)
    <= faults + (IF process = "up" /\ at \in {"post", "record"} THEN 1 ELSE 0)

\* A stranded delivery is out of the worker's reach for good: no restart takes
\* it up or posts it again, and its row changes only by the removal of its
\* webhook.
StrandedForever ==
  [][\A d \in DeliveryIds :
       Stranded(d) => /\ row'[d].status \in {"processing", "gone"}
                      /\ posts'[d] = posts[d]
                      /\ ~InHand(d)']_vars

\* Once a receiver has answered 2xx the delivery is never POSTed again, even if
\* that answer could not be recorded.
NoPostAfterAck ==
  [][\A d \in DeliveryIds : acked[d] => posts'[d] = posts[d]]_vars

\* No attempt starts before the backoff of the one before it has passed.
BackoffRespected ==
  [][\A d \in DeliveryIds :
       (row[d].status # "processing" /\ row'[d].status = "processing")
         => row[d].wait <= 0]_vars

\* Why these hold, as an inductive invariant: a delivery waiting in the table or
\* in the batch has been POSTed as often as its count says, never with a 2xx,
\* and is the worker's alone from the moment it is listed.
Fresh(d, n) == posts[d] = n /\ n < Limit /\ ~acked[d]

RowOK(d) ==
  /\ d >= nextId <=> row[d].status = "none"
  /\ row[d].status = "none" => posts[d] = 0 /\ ~acked[d] /\ row[d] = NoRow
  /\ row[d].status \in {"pending", "retry"} => Fresh(d, row[d].attempts)
  /\ row[d].status \in {"processing", "delivered"} => posts[d] <= row[d].attempts
  /\ row[d].status = "delivered" => acked[d]
  /\ row[d].status = "failed" =>
       ~acked[d] /\ posts[d] = Limit /\ row[d].attempts = Limit
  /\ posts[d] <= Limit /\ row[d].attempts <= Limit

RowInv == \A d \in DeliveryIds : RowOK(d)

ListedOK(x) ==
  /\ Fresh(x.id, x.attempts)
  /\ row[x.id].status \in {"pending", "retry", "gone"}
  /\ row[x.id].status # "gone" => /\ row[x.id].attempts = x.attempts
                                 /\ row[x.id].wait <= 0

BatchInv ==
  /\ at \in {"off", "list", "wait"} => batch = {}
  /\ \A x, y \in batch : x.id = y.id => x = y
  /\ \A x \in batch : ListedOK(x)

CurInv ==
  at \in {"post", "record"} =>
    /\ row[cur.id].status \in {"processing", "gone"}
    /\ row[cur.id].status # "gone" => row[cur.id].attempts = cur.attempts + 1
    /\ cur.attempts < Limit
    /\ at = "post" => Fresh(cur.id, cur.attempts)
    /\ at = "record" => posts[cur.id] = cur.attempts + 1 /\ acked[cur.id] = answer
    /\ \A x \in batch : x.id # cur.id

\* The rows left in 'processing' behind the worker's back, counted.
Safe == IF process = "up" /\ at \in {"post", "record"} THEN {cur.id} ELSE {}
StrandedCount == Cardinality(Held \ Safe) <= faults

IInv == TypeOK /\ RowInv /\ BatchInv /\ CurInv

Rows(c, h) == {d \in DeliveryIds : row[d].emit = c /\ row[d].hook = h}

\* Whatever interrupts a call of Emit, the webhooks it listed split in two:
\* the older ones have exactly one row each, the younger ones have none.
EmitLedger ==
  \A c \in EmitIds : \A h \in HookIds :
    /\ h \in call[c].listed \ call[c].todo =>
         /\ \E d \in DeliveryIds : Rows(c, h) = {d}
         /\ \A g \in call[c].todo : h < g
    /\ h \notin call[c].listed \ call[c].todo => Rows(c, h) = {}

\* A delivery carries an event its webhook asked for, of a session it is
\* registered for.
ScopedDelivery ==
  \A d \in DeliveryIds : row[d].status # "none" =>
    LET h == hook[row[d].hook]
        c == call[row[d].emit]
    IN  c.event \in h.events /\ h.session \in {AnySession, c.session}

\* Without a kill, a stop or a database error every delivery is delivered,
\* given up, or removed with its webhook.
EverySettles ==
  \A d \in DeliveryIds :
    row[d].status = "pending"
      ~> row[d].status \in {"delivered", "failed", "gone"}

\* The outbox keeps the promise of DeliveryPromise: a 2xx settles a delivery
\* whether or not its row says so, and a stranded one stays owed.
Fate(d) ==
  CASE row[d].status = "none" -> "unknown"
    [] row[d].status # "none" /\ acked[d] -> "accepted"
    [] row[d].status = "gone" /\ ~acked[d] -> "withdrawn"
    [] row[d].status = "failed" /\ ~acked[d] -> "abandoned"
    [] OTHER -> "open"

Promise == INSTANCE DeliveryPromise WITH
  Ids <- DeliveryIds,
  fate <- [d \in DeliveryIds |-> Fate(d)],
  tries <- posts

KeepsPromise == Promise!Spec
=============================================================================
