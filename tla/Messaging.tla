----------------------------- MODULE Messaging -----------------------------
(* The table messages (internal/store/message_repo.go) and those who write    *)
(* it: requests that send, reply and edit, and the handlers of the client     *)
(* library's Message and Receipt events (internal/session/manager.go).  The   *)
(* WhatsApp server keeps, for each session, the nodes it has yet to deliver.  *)
(*                                                                            *)
(* A message's id is all that is kept of it: a request stands for the id the  *)
(* library generates for what it sends.  Text, media, chats and timestamps    *)
(* are left out; the type of a message says whether its row has the content.  *)
EXTENDS Naturals, Sequences, FiniteSets

CONSTANTS
  Sessions,      \* session ids, each a WhatsApp account
  Friends,       \* accounts elsewhere
  Requests,      \* requests, and the ids of the messages they send
  Incoming,      \* ids of messages written on phones
  Loops,         \* handlerQueueLoop goroutines of a session at once
  Operations,    \* the operations requested
  ReceiptTypes,  \* the types of receipts the server sends
  MaxQueue,      \* bound: nodes waiting for a session
  MaxReceipts,   \* bound: receipts ever sent
  MaxFaults      \* bound: database errors, lost answers and kills

ASSUME MessagesAssumption == Requests \cap Incoming = {}
ASSUME AccountsAssumption == Sessions \cap Friends = {}
ASSUME ReceiptsAssumption == "message" \notin ReceiptTypes
ASSUME OperationsAssumption == Operations \subseteq {"send", "reply", "edit"}
ASSUME LimitsAssumption ==
  MaxQueue \in Nat /\ MaxReceipts \in Nat /\ MaxFaults \in Nat

VARIABLES
  rows,      \* table messages, by (session_id, external_message_id)
  req,       \* the requests
  loop,      \* what each queue loop has in hand
  queue,     \* nodes the server has for each session, in its order
  owed,      \* messages of which a part could not be decrypted: to be resent
  author,    \* who wrote each incoming message
  receipts,  \* receipts sent so far
  faults,    \* database errors, lost answers and kills so far
  known,     \* history: messages the server has of, or for, a session
  cause,     \* history: the receipts and edits a status may come from
  told,      \* history: what was passed to Emit
  lost       \* history: messages a fault or a replaced client has dropped

vars == <<rows, req, loop, queue, owed, author, receipts, faults, known, cause,
          told, lost>>
server == <<owed, author, receipts>>

Ids == Requests \cup Incoming
Accounts == Sessions \cup Friends
Keys == Sessions \X Ids
Statuses == {"received", "sent", "delivered", "read", "edited"}
MessageEvents == {"message.sent", "message.received"}

\* type: "unknown", or the type of a message whose content is there
Row == [direction: {"inbound", "outbound"}, type: {"unknown", "content"},
        status: Statuses]
NoRow == [type |-> "none"]
Stored(s, m) == rows[s][m] # NoRow

\* The enc children of a message node that can be decrypted: in a group the
\* sender's keys may come first, and the content alone may fail.
Parts == {<<"content">>, <<"keys", "content">>, <<"keys">>}
Message(m, mine, parts) ==
  [kind |-> "message", ids |-> {m}, mine |-> mine, parts |-> parts]
Receipt(ids, type) ==
  [kind |-> type, ids |-> ids, mine |-> FALSE, parts |-> <<"receipt">>]
Node ==
  [kind: {"message"} \cup ReceiptTypes, ids: SUBSET Ids, mine: BOOLEAN,
   parts: Parts \cup {<<"receipt">>}]

Idle == [stage |-> "idle"]
Hand == [stage: {"check", "write", "emit"}, node: Node, current: BOOLEAN]
InHand(s, m) ==
  \E l \in Loops : /\ loop[s][l] # Idle
                   /\ loop[s][l].node.kind = "message"
                   /\ m \in loop[s][l].node.ids
HasKeysInHand(s, m) ==
  \E l \in Loops : /\ loop[s][l] # Idle
                   /\ m \in loop[s][l].node.ids
                   /\ Head(loop[s][l].node.parts) = "keys"
Queued(s, m) ==
  \E i \in DOMAIN queue[s] : /\ queue[s][i].kind = "message"
                             /\ m \in queue[s][i].ids

Unused == [pc |-> "idle"]
Request ==
  [pc: {"find", "send", "mark", "save", "emit", "done", "failed"},
   op: Operations, session: Sessions, to: Accounts, ref: Ids]
Begun(q) == req[q] # Unused
Sending(s, m) ==
  /\ m \in Requests
  /\ Begun(m) /\ req[m].session = s /\ req[m].pc \in {"mark", "save"}

TypeOK ==
  /\ rows \in [Sessions -> [Ids -> Row \cup {NoRow}]]
  /\ req \in [Requests -> Request \cup {Unused}]
  /\ loop \in [Sessions -> [Loops -> Hand \cup {Idle}]]
  /\ queue \in [Sessions -> Seq(Node)]
  /\ owed \in SUBSET Keys
  /\ author \in [Incoming -> Accounts]
  /\ receipts \in 0..MaxReceipts
  /\ faults \in 0..MaxFaults
  /\ known \in SUBSET Keys /\ lost \in SUBSET Keys
  /\ cause \in SUBSET (Sessions \X Ids \X (ReceiptTypes \cup {"edited"}))
  /\ told \in SUBSET ((MessageEvents \cup {"message.status_updated"})
                         \X Sessions \X Ids)

Init ==
  /\ rows = [s \in Sessions |-> [m \in Ids |-> NoRow]]
  /\ req = [q \in Requests |-> Unused]
  /\ loop = [s \in Sessions |-> [l \in Loops |-> Idle]]
  /\ queue = [s \in Sessions |-> <<>>]
  /\ author \in [Incoming -> Accounts]
  /\ owed = {} /\ receipts = 0 /\ faults = 0
  /\ known = {} /\ cause = {} /\ told = {} /\ lost = {}

Fault == faults < MaxFaults /\ faults' = faults + 1

-----------------------------------------------------------------------------
(* The repository.                                                            *)

\* INSERT ... ON CONFLICT (session_id, external_message_id) DO UPDATE SET every
\* column: what was stored of the message before is not looked at.
Upsert_AnySession(s, m, new) ==
  [t \in Sessions |-> IF t = s \/ Stored(t, m) THEN [rows[t] EXCEPT ![m] = new]
                      ELSE rows[t]]
Upsert(s, m, new) == [rows EXCEPT ![s][m] = new]

\* UPDATE ... WHERE session_id = s AND external_message_id = ANY(ids)
UpdateStatus_AnySession(s, ids, status) ==
  [t \in Sessions |->
     [m \in Ids |-> IF m \in ids /\ Stored(t, m)
                    THEN [rows[t][m] EXCEPT !.status = status]
                    ELSE rows[t][m]]]
UpdateStatus(s, ids, status) ==
  [rows EXCEPT ![s] =
     [m \in Ids |-> IF m \in ids /\ Stored(s, m)
                    THEN [@[m] EXCEPT !.status = status] ELSE @[m]]]

\* SELECT ... WHERE session_id = s AND external_message_id = m
GetByExternalID(s, m) == Stored(s, m)

\* Types that are not listed, like "sender", "retry" or "played-self", all
\* give "sent".
ResolveReceiptStatus(type) ==
  CASE type = "delivered" -> "delivered"
    [] type \in {"read", "read-self", "played"} -> "read"
    [] OTHER -> "sent"

-----------------------------------------------------------------------------
(* The server.  It keeps a session's nodes in order until they are handled.   *)

Room(s) == Len(queue[s]) < MaxQueue

\* A message written on a phone reaches a session, for which it is its own or
\* somebody else's.
Deliver(s, m) ==
  /\ <<s, m>> \notin known
  /\ Room(s)
  /\ \E parts \in Parts :
       queue' = [queue EXCEPT ![s] = Append(@, Message(m, author[m] = s, parts))]
  /\ known' = known \cup {<<s, m>>}
  /\ UNCHANGED <<rows, req, loop, server, faults, cause, told, lost>>

\* The sender answers the retry receipt for a part that failed.
Resend(s, m) ==
  /\ <<s, m>> \in owed
  /\ Room(s)
  /\ LET mine == m \in Incoming /\ author[m] = s
     IN  queue' = [queue EXCEPT ![s] =
                     Append(@, Message(m, mine, <<"content">>))]
  /\ owed' = owed \ {<<s, m>>}
  /\ UNCHANGED <<rows, req, loop, author, receipts, faults, known, cause, told, lost>>

\* A receipt for messages of a session, of any type, repeated or out of order.
SendReceipt(s, ids, type) ==
  /\ ids # {} /\ \A m \in ids : <<s, m>> \in known
  /\ Room(s)
  /\ receipts < MaxReceipts
  /\ receipts' = receipts + 1
  /\ queue' = [queue EXCEPT ![s] = Append(@, Receipt(ids, type))]
  /\ cause' = cause \cup {<<s, m, type>> : m \in ids}
  /\ UNCHANGED <<rows, req, loop, owed, author, faults, known, told, lost>>

-----------------------------------------------------------------------------
(* handleEvent, called by a queue loop for one node at a time.  A second loop *)
(* runs beside the first when the client has reconnected while a node was in  *)
(* hand, or when a node takes more than five minutes.                         *)

Hold(s, l, hand) == loop' = [loop EXCEPT ![s][l] = hand]

Take(s, l) ==
  /\ loop[s][l] = Idle
  /\ queue[s] # <<>>
  /\ Hold(s, l, [stage |-> "check", node |-> Head(queue[s]), current |-> TRUE])
  /\ queue' = [queue EXCEPT ![s] = Tail(@)]
  /\ UNCHANGED <<rows, req, server, faults, known, cause, told, lost>>

\* What is left of the node after the part just handled.
Rest_NoEnd(hand) == [hand EXCEPT !.stage = "check", !.node.parts = Tail(@)]
Rest(hand) ==
  IF Len(hand.node.parts) = 1 THEN Idle
  ELSE [hand EXCEPT !.stage = "check", !.node.parts = Tail(@)]

\* A node whose content failed is answered with a retry receipt.
Retried(s, hand) ==
  IF hand.node.parts = <<"keys">> THEN owed \cup ({s} \X hand.node.ids) ELSE owed

\* The part in hand is done with; a message dropped on the way is lost.
Leave(s, l, dropped) ==
  LET hand == loop[s][l]
  IN  /\ Hold(s, l, Rest(hand))
      /\ owed' = Retried(s, hand)
      /\ lost' = IF dropped /\ hand.node.kind = "message"
                 THEN lost \cup ({s} \X hand.node.ids) ELSE lost

\* isCurrentRuntime
Check(s, l) ==
  /\ loop[s][l].stage = "check"
  /\ IF loop[s][l].current
     THEN Hold(s, l, [loop[s][l] EXCEPT !.stage = "write"])
          /\ UNCHANGED <<owed, lost>>
     ELSE Leave(s, l, TRUE)
  /\ UNCHANGED <<rows, req, queue, author, receipts, faults, known, cause, told>>

\* persistIncomingEvent: the row of a message that is the session's own, or not.
IncomingRow(hand) ==
  [direction |-> IF hand.node.mine THEN "outbound" ELSE "inbound",
   status |-> IF hand.node.mine THEN "sent" ELSE "received",
   type |-> IF Head(hand.node.parts) = "content" THEN "content" ELSE "unknown"]

SaveIncoming_NotOwn(s, l) ==
  LET hand == loop[s][l]
  IN  /\ hand.stage = "write" /\ hand.node.kind = "message"
      /\ rows' = IF hand.node.mine THEN rows
                 ELSE Upsert(s, CHOOSE m \in hand.node.ids : TRUE,
                             IncomingRow(hand))
      /\ Hold(s, l, [hand EXCEPT !.stage = "emit"])
      /\ UNCHANGED <<req, queue, server, faults, known, cause, told, lost>>
SaveIncoming(s, l) ==
  LET hand == loop[s][l]
  IN  /\ hand.stage = "write" /\ hand.node.kind = "message"
      /\ \E m \in hand.node.ids :
           rows' = Upsert(s, m, IncomingRow(hand))
      /\ Hold(s, l, [hand EXCEPT !.stage = "emit"])
      /\ UNCHANGED <<req, queue, server, faults, known, cause, told, lost>>

ApplyReceipt(s, l) ==
  LET hand == loop[s][l]
  IN  /\ hand.stage = "write" /\ hand.node.kind # "message"
      /\ rows' = UpdateStatus(s, hand.node.ids,
                              ResolveReceiptStatus(hand.node.kind))
      /\ Hold(s, l, [hand EXCEPT !.stage = "emit"])
      /\ UNCHANGED <<req, queue, server, faults, known, cause, told, lost>>

\* A failed statement is logged: no Emit, and the next part is handled.
WriteFails(s, l) ==
  /\ Fault
  /\ loop[s][l].stage = "write"
  /\ Leave(s, l, TRUE)
  /\ UNCHANGED <<rows, req, queue, author, receipts, known, cause, told>>

EventOf(node) ==
  CASE node.kind # "message" -> "message.status_updated"
    [] node.kind = "message" /\ node.mine -> "message.sent"
    [] OTHER -> "message.received"

EmitNode(s, l) ==
  LET node == loop[s][l].node
  IN  /\ loop[s][l].stage = "emit"
      /\ told' = told \cup {<<EventOf(node), s, m>> : m \in node.ids}
      /\ Leave(s, l, FALSE)
      /\ UNCHANGED <<rows, req, queue, author, receipts, faults, known, cause>>

\* A request replaces the session's client: nodes still at the server go to the
\* new one, those in hand are handled for the old one.
ReplaceClient(s) ==
  /\ \E l \in Loops : loop[s][l] # Idle /\ loop[s][l].current
  /\ loop' = [loop EXCEPT ![s] =
                [l \in Loops |-> IF @[l] = Idle THEN Idle
                                 ELSE [@[l] EXCEPT !.current = FALSE]]]
  /\ UNCHANGED <<rows, req, queue, server, faults, known, cause, told, lost>>

-----------------------------------------------------------------------------
(* The requests of internal/messages/service.go.                              *)

Goto(q, pc) == req' = [req EXCEPT ![q].pc = pc]

\* requireConnected has found the client connected.  Reply and edit name a
\* message by an id that nothing has checked.
Begin(q, op, s, to, ref) ==
  /\ req[q] = Unused
  /\ to # s
  /\ req' = [req EXCEPT ![q] =
               [pc |-> IF op = "reply" THEN "find" ELSE "send", op |-> op,
                session |-> s, to |-> to, ref |-> ref]]
  /\ UNCHANGED <<rows, loop, queue, server, faults, known, cause, told, lost>>

\* Reply: messages.GetByExternalID
Find(q) ==
  /\ req[q].pc = "find"
  /\ Goto(q, IF GetByExternalID(req[q].session, req[q].ref) THEN "send"
             ELSE "failed")
  /\ UNCHANGED <<rows, loop, queue, server, faults, known, cause, told, lost>>

\* The target is unknown, the upload or the sending fails: nothing was sent.
Refuse(q) ==
  /\ req[q].pc \in {"find", "send"}
  /\ Goto(q, "failed")
  /\ UNCHANGED <<rows, loop, queue, server, faults, known, cause, told, lost>>

\* The server takes the message, and passes it on when the target is a session.
Accepted(q) ==
  LET s == req[q].session  to == req[q].to
  IN  /\ req[q].pc = "send"
      /\ IF to \in Sessions
         THEN /\ Room(to)
              /\ queue' = [queue EXCEPT ![to] =
                             Append(@, Message(q, FALSE, <<"content">>))]
              /\ known' = known \cup {<<s, q>>, <<to, q>>}
         ELSE known' = known \cup {<<s, q>>} /\ UNCHANGED queue
      /\ cause' = IF req[q].op = "edit"
                  THEN cause \cup {<<s, req[q].ref, "edited">>} ELSE cause

Send(q) ==
  /\ Accepted(q)
  /\ Goto(q, IF req[q].op = "edit" THEN "mark" ELSE "save")
  /\ UNCHANGED <<rows, loop, server, faults, told, lost>>

\* The server's answer is late, or the caller has gone: the message was sent,
\* and the request fails.
SendUnanswered(q) ==
  /\ Fault
  /\ Accepted(q)
  /\ Goto(q, "failed")
  /\ lost' = lost \cup {<<req[q].session, q>>}
  /\ UNCHANGED <<rows, loop, server, told>>

\* Edit marks the original; that this fails is only logged.
Mark(q) ==
  /\ req[q].pc = "mark"
  /\ \/ /\ rows' = UpdateStatus(req[q].session, {req[q].ref}, "edited")
        /\ UNCHANGED faults
     \/ Fault /\ UNCHANGED rows
  /\ Goto(q, "save")
  /\ UNCHANGED <<loop, queue, server, known, cause, told, lost>>

\* persistOutboundMessage.  What an edit sends is a message of its own, with an
\* id of its own, in which no type and no text is found.
OutboundRow(q) ==
  [direction |-> "outbound", status |-> "sent",
   type |-> IF req[q].op = "edit" THEN "unknown" ELSE "content"]

Save(q) ==
  /\ req[q].pc = "save"
  /\ rows' = Upsert(req[q].session, q, OutboundRow(q))
  /\ Goto(q, "emit")
  /\ UNCHANGED <<loop, queue, server, faults, known, cause, told, lost>>

SaveFails_Unnoticed(q) ==
  /\ Fault
  /\ req[q].pc = "save"
  /\ Goto(q, "emit")
  /\ lost' = lost \cup {<<req[q].session, q>>}
  /\ UNCHANGED <<rows, loop, queue, server, known, cause, told>>
SaveFails(q) ==
  /\ Fault
  /\ req[q].pc = "save"
  /\ Goto(q, "failed")
  /\ lost' = lost \cup {<<req[q].session, q>>}
  /\ UNCHANGED <<rows, loop, queue, server, known, cause, told>>

EmitSent(q) ==
  /\ req[q].pc = "emit"
  /\ told' = told \cup {<<"message.sent", req[q].session, q>>}
  /\ Goto(q, "done")
  /\ UNCHANGED <<rows, loop, queue, server, faults, known, cause, lost>>

\* The process is killed and started again.  What was in hand had been decrypted,
\* which succeeds only once; the server still has the rest of the node, and the
\* nodes not taken yet.
Restart ==
  /\ Fault
  /\ lost' = lost \cup {x \in Keys : InHand(x[1], x[2]) \/ Sending(x[1], x[2])}
  /\ loop' = [s \in Sessions |-> [l \in Loops |-> Idle]]
  /\ req' = [q \in Requests |->
               IF Begun(q) /\ req[q].pc # "done"
               THEN [req[q] EXCEPT !.pc = "failed"] ELSE req[q]]
  /\ owed' = owed \cup {x \in Keys : HasKeysInHand(x[1], x[2])}
  /\ UNCHANGED <<rows, queue, author, receipts, known, cause, told>>

ServerStep ==
  \E s \in Sessions :
    \/ \E m \in Incoming : Deliver(s, m)
    \/ \E m \in Ids : Resend(s, m)
    \/ \E ids \in SUBSET Ids, type \in ReceiptTypes : SendReceipt(s, ids, type)

LoopStep(s, l) ==
  \/ Take(s, l) \/ Check(s, l) \/ SaveIncoming(s, l) \/ ApplyReceipt(s, l)
  \/ WriteFails(s, l) \/ EmitNode(s, l)

RequestStep(q) ==
  \/ \E op \in Operations, s \in Sessions, to \in Accounts, ref \in Ids :
       Begin(q, op, s, to, ref)
  \/ Find(q) \/ Refuse(q) \/ Send(q) \/ SendUnanswered(q) \/ Mark(q)
  \/ Save(q) \/ SaveFails(q) \/ EmitSent(q)

Next ==
  \/ ServerStep
  \/ \E s \in Sessions : ReplaceClient(s)
  \/ \E s \in Sessions, l \in Loops : LoopStep(s, l)
  \/ \E q \in Requests : RequestStep(q)
  \/ Restart

Spec == Init /\ [][Next]_vars

-----------------------------------------------------------------------------
(* Properties.                                                                *)

\* A status says what happened, to this session's message: "delivered" and
\* "read" come from a receipt that means it, for this session and id, and
\* "edited" from an edit the server took.  Ids are shared by both ends of a
\* conversation, and receipts, edits and saves of one message race.
Means(s, m, status) ==
  CASE status = "delivered" -> <<s, m, "delivered">> \in cause
    [] status = "read" ->
         \E type \in {"read", "read-self", "played"} : <<s, m, type>> \in cause
    [] status = "edited" -> <<s, m, "edited">> \in cause
    [] OTHER -> TRUE
StatusIsEarned ==
  \A s \in Sessions, m \in Ids : Stored(s, m) => Means(s, m, rows[s][m].status)

\* A row is outbound in the session whose account wrote the message and inbound
\* in every other, also when both ends are sessions of this gateway, and
\* whoever saves it last.
OwnSide ==
  \A s \in Sessions, m \in Ids :
    Stored(s, m) =>
      (rows[s][m].direction = "outbound" <=>
         IF m \in Requests THEN Begun(m) /\ req[m].session = s
         ELSE author[m] = s)

\* No message disappears unnoticed: one that the server took from, or has given
\* to, a session is stored, on its way, to be resent, or one of those a fault
\* or a replaced client has dropped.
NoSilentLoss ==
  \A s \in Sessions, m \in Ids :
    <<s, m>> \in known =>
      \/ Stored(s, m) \/ Queued(s, m) \/ InHand(s, m) \/ Sending(s, m)
      \/ <<s, m>> \in owed \/ <<s, m>> \in lost

\* The table and what is announced keep the promise of MessageLog, however
\* parts of nodes, resent nodes, receipts, edits, faults, replaced clients and
\* restarts interleave: a row stays on its side and keeps its content, only
\* what is stored is announced, and success is answered only after that.
Fate(s, m) ==
  CASE Stored(s, m) -> "stored"
    [] ~Stored(s, m) /\ <<s, m>> \in lost -> "lost"
    [] ~Stored(s, m) /\ <<s, m>> \in known \ lost -> "due"
    [] OTHER -> "unknown"
Side(s, m) == IF Stored(s, m) THEN rows[s][m].direction ELSE "none"
Heard(event, d) == {<<d, k>> : k \in {x \in Keys : <<event, x[1], x[2]>> \in told}}
Log == INSTANCE MessageLog WITH
  fate <- [k \in Keys |-> Fate(k[1], k[2])],
  side <- [k \in Keys |-> Side(k[1], k[2])],
  content <- {k \in Keys : rows[k[1]][k[2]].type = "content"},
  heard <- Heard("message.sent", "outbound")
             \cup Heard("message.received", "inbound"),
  answered <- {<<req[q].session, q>> :
                 q \in {r \in Requests : Begun(r) /\ req[r].pc = "done"}}
KeepsLog == Log!Spec

\* TestManagerHandleReceiptUpdatesStatus (manager_test.go:390): a receipt updates
\* the status of its message.  So a message whose only receipt, "delivered",
\* has been handled without an error does not end as "sent".
Quiet ==
  /\ \A s \in Sessions : queue[s] = <<>> /\ \A l \in Loops : loop[s][l] = Idle
  /\ \A q \in Requests : Begun(q) => req[q].pc \in {"done", "failed"}
ReceiptUpdatesStatus ==
  \A s \in Sessions, m \in Ids :
    /\ Quiet /\ faults = 0 /\ Stored(s, m)
    /\ {c \in cause : c[1] = s /\ c[2] = m} = {<<s, m, "delivered">>}
    /\ <<"message.status_updated", s, m>> \in told
    => rows[s][m].status # "sent"
=============================================================================
