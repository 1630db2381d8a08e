-------------------------- MODULE MessagingProofs --------------------------
(* Theorems of Messaging, for any number of sessions, friends, requests,      *)
(* messages and queue loops, any receipt types, and any bounds.               *)
EXTENDS Messaging, SequenceTheorems, TLAPS

-----------------------------------------------------------------------------
(* Values.                                                                    *)

\* What a queue loop has in hand is nothing, or a node at one of three stages.
LEMMA HandType ==
  ASSUME TypeOK, NEW s \in Sessions, NEW l \in Loops
  PROVE  /\ loop[s][l] = Idle => loop[s][l].stage = "idle"
         /\ loop[s][l] # Idle => /\ loop[s][l] \in Hand
                                 /\ loop[s][l].stage \in {"check", "write", "emit"}
  BY DEF TypeOK, Hand, Idle

\* A request that has begun is a record with an operation and its arguments.
LEMMA RequestType ==
  ASSUME TypeOK, NEW q \in Requests
  PROVE  /\ Begun(q) <=> req[q].pc # "idle"
         /\ Begun(q) => req[q] \in Request
  BY DEF TypeOK, Request, Unused, Begun

\* A row is stored when it is not NoRow; only a stored one has a direction and
\* a status.
LEMMA RowType ==
  ASSUME TypeOK, NEW s \in Sessions, NEW m \in Ids
  PROVE  /\ Stored(s, m) <=> rows[s][m].type # "none"
         /\ Stored(s, m) <=> rows[s][m] \in Row
  BY DEF TypeOK, Row, NoRow, Stored

\* The nodes the server makes.
LEMMA MessageType ==
  ASSUME NEW m \in Ids, NEW mine \in BOOLEAN, NEW parts \in Parts
  PROVE  Message(m, mine, parts) \in Node
  BY DEF Message, Node

\* Receipts are nodes too.
LEMMA ReceiptType ==
  ASSUME NEW ids \in SUBSET Ids, NEW type \in ReceiptTypes
  PROVE  Receipt(ids, type) \in Node
  BY DEF Receipt, Node

\* What is left of a node: nothing, or the content that came after the keys.
LEMMA RestIs ==
  ASSUME NEW hand \in Hand
  PROVE  \/ hand.node.parts # <<"keys", "content">> /\ Rest(hand) = Idle
         \/ /\ hand.node.parts = <<"keys", "content">>
            /\ Rest(hand) \in Hand
            /\ Rest(hand).stage = "check" /\ Rest(hand).current = hand.current
            /\ Rest(hand).node \in Node
            /\ Rest(hand).node.kind = hand.node.kind
            /\ Rest(hand).node.ids = hand.node.ids
            /\ Rest(hand).node.mine = hand.node.mine
            /\ Rest(hand).node.parts = <<"content">>
<1>1. /\ hand.node \in Node /\ hand.node.parts \in Parts \cup {<<"receipt">>}
      /\ hand.current \in BOOLEAN
  BY DEF Hand, Node
<1>2. CASE hand.node.parts = <<"keys", "content">>
  <2>1. Len(hand.node.parts) = 2 /\ Tail(hand.node.parts) = <<"content">>
    BY <1>2
  <2> DEFINE old == [hand EXCEPT !.stage = "check"]
             new == [old EXCEPT !.node = [old.node EXCEPT
                                            !.parts = Tail(hand.node.parts)]]
  <2>2. Rest(hand) = new
    BY <2>1 DEF Rest
  <2>3. /\ old \in Hand /\ old.node = hand.node /\ old.stage = "check"
        /\ old.current = hand.current
    BY <1>1 DEF Hand
  <2>4. Tail(hand.node.parts) = <<"content">>
    BY <2>1
  <2> HIDE DEF old
  <2>5. new = [old EXCEPT !.node = [hand.node EXCEPT !.parts = <<"content">>]]
    BY <2>3, <2>4
  <2>6. [hand.node EXCEPT !.parts = <<"content">>] \in Node
    BY <1>1 DEF Node, Parts
  <2>7. /\ new \in Hand /\ new.stage = "check" /\ new.current = hand.current
        /\ new.node = [hand.node EXCEPT !.parts = <<"content">>]
    BY <2>3, <2>5, <2>6 DEF Hand
  <2>8. /\ new.node \in Node /\ new.node.kind = hand.node.kind
        /\ new.node.ids = hand.node.ids /\ new.node.mine = hand.node.mine
        /\ new.node.parts = <<"content">>
    BY <1>1, <2>6, <2>7 DEF Node
  <2> QED BY <1>2, <2>2, <2>7, <2>8
<1>3. CASE hand.node.parts # <<"keys", "content">>
  <2>1. hand.node.parts \in {<<"content">>, <<"keys">>, <<"receipt">>}
    BY <1>1, <1>3 DEF Parts
  <2>2. Len(hand.node.parts) = 1
    BY <2>1
  <2> QED BY <1>3, <2>2 DEF Rest
<1> QED
  BY <1>2, <1>3

\* A node appended to the queue of a session.
LEMMA QueueAppend ==
  ASSUME TypeOK, NEW s \in Sessions, NEW n \in Node,
         queue' = [queue EXCEPT ![s] = Append(@, n)]
  PROVE  /\ queue' \in [Sessions -> Seq(Node)]
         /\ \A t \in Sessions : t # s => queue'[t] = queue[t]
         /\ Len(queue[s]) + 1 \notin DOMAIN queue[s]
         /\ DOMAIN queue'[s] = DOMAIN queue[s] \cup {Len(queue[s]) + 1}
         /\ \A i \in DOMAIN queue[s] : queue'[s][i] = queue[s][i]
         /\ queue'[s][Len(queue[s]) + 1] = n
<1>1. queue[s] \in Seq(Node) /\ queue'[s] = Append(queue[s], n)
  BY DEF TypeOK
<1> QED
  BY <1>1, AppendProperties, LenProperties DEF TypeOK

\* The first node taken from the queue of a session.
LEMMA QueueTail ==
  ASSUME TypeOK, NEW s \in Sessions, queue[s] # <<>>,
         queue' = [queue EXCEPT ![s] = Tail(@)]
  PROVE  /\ queue' \in [Sessions -> Seq(Node)]
         /\ \A t \in Sessions : t # s => queue'[t] = queue[t]
         /\ 1 \in DOMAIN queue[s] /\ Head(queue[s]) = queue[s][1]
         /\ Head(queue[s]) \in Node
         /\ \A i \in DOMAIN queue'[s] :
              /\ i \in Nat /\ i + 1 \in DOMAIN queue[s] /\ i + 1 # 1
              /\ queue'[s][i] = queue[s][i + 1]
         /\ \A i \in DOMAIN queue[s] :
              i # 1 => /\ i \in Nat /\ i - 1 \in DOMAIN queue'[s]
                       /\ queue'[s][i - 1] = queue[s][i]
<1>1. queue[s] \in Seq(Node) /\ queue'[s] = Tail(queue[s])
  BY DEF TypeOK
<1>2. /\ Head(queue[s]) \in Node
      /\ queue'[s] \in Seq(Node) /\ Len(queue'[s]) = Len(queue[s]) - 1
      /\ \A i \in 1..Len(queue'[s]) : queue'[s][i] = queue[s][i + 1]
  BY <1>1, HeadTailProperties
<1>4. Head(queue[s]) = queue[s][1]
  BY <1>1
<1>3. /\ DOMAIN queue[s] = 1..Len(queue[s]) /\ Len(queue[s]) \in Nat \ {0}
      /\ DOMAIN queue'[s] = 1..Len(queue'[s])
  BY <1>1, <1>2, LenProperties, EmptySeq
<1> QED
  BY <1>1, <1>2, <1>3, <1>4 DEF TypeOK

\* What a loop has in hand is replaced, and no other loop is touched.
LEMMA HoldEffect ==
  ASSUME TypeOK, NEW s \in Sessions, NEW l \in Loops,
         NEW hand \in Hand \cup {Idle}, Hold(s, l, hand)
  PROVE  /\ loop' \in [Sessions -> [Loops -> Hand \cup {Idle}]]
         /\ loop'[s][l] = hand
         /\ \A t \in Sessions, k \in Loops :
              t # s \/ k # l => loop'[t][k] = loop[t][k]
  BY DEF TypeOK, Hold

\* The effect of leaving the part in hand, dropped or not.
LEMMA LeaveEffect ==
  ASSUME TypeOK, NEW s \in Sessions, NEW l \in Loops, loop[s][l] # Idle,
         NEW dropped \in BOOLEAN, Leave(s, l, dropped)
  PROVE  /\ Hold(s, l, Rest(loop[s][l])) /\ Rest(loop[s][l]) \in Hand \cup {Idle}
         /\ owed' = IF loop[s][l].node.parts = <<"keys">>
                    THEN owed \cup ({s} \X loop[s][l].node.ids) ELSE owed
         /\ lost' = IF dropped /\ loop[s][l].node.kind = "message"
                    THEN lost \cup ({s} \X loop[s][l].node.ids) ELSE lost
         /\ owed' \in SUBSET Keys /\ lost' \in SUBSET Keys
<1>1. loop[s][l] \in Hand
  BY HandType
<1>2. Rest(loop[s][l]) \in Hand \cup {Idle}
  BY <1>1, RestIs
<1>3. {s} \X loop[s][l].node.ids \in SUBSET Keys
  BY <1>1 DEF Hand, Node, Keys
<1> QED
  BY <1>2, <1>3 DEF Leave, Retried, TypeOK

\* The initial state satisfies the type invariant.
LEMMA TypeInit == Init => TypeOK
<1> SUFFICES ASSUME Init PROVE TypeOK
  OBVIOUS
<1>1. 0 \in 0..MaxReceipts /\ 0 \in 0..MaxFaults
  BY LimitsAssumption
<1>2. queue \in [Sessions -> Seq(Node)]
  BY EmptySeq DEF Init
<1> QED
  BY <1>1, <1>2 DEF Init, TypeOK, NoRow, Unused, Idle

\* Rows written by a queue loop or by a request are well typed.
LEMMA UpsertType ==
  ASSUME TypeOK, NEW s \in Sessions, NEW m \in Ids, NEW new \in Row,
         rows' = Upsert(s, m, new)
  PROVE  /\ rows' \in [Sessions -> [Ids -> Row \cup {NoRow}]]
         /\ rows'[s][m] = new
         /\ \A t \in Sessions, i \in Ids :
              t # s \/ i # m => rows'[t][i] = rows[t][i]
  BY DEF TypeOK, Upsert

\* An update of the status writes rows that are stored, and leaves the rest of
\* them.
LEMMA UpdateType ==
  ASSUME TypeOK, NEW s \in Sessions, NEW ids, NEW status \in Statuses,
         rows' = UpdateStatus(s, ids, status)
  PROVE  /\ rows' \in [Sessions -> [Ids -> Row \cup {NoRow}]]
         /\ \A t \in Sessions, m \in Ids :
              \/ rows'[t][m] = rows[t][m]
              \/ /\ t = s /\ m \in ids /\ Stored(t, m)
                 /\ rows'[t][m] \in Row
                 /\ rows'[t][m].direction = rows[t][m].direction
                 /\ rows'[t][m].type = rows[t][m].type
                 /\ rows'[t][m].status = status
<1>1. ASSUME NEW m \in Ids, Stored(s, m)
      PROVE  /\ [rows[s][m] EXCEPT !.status = status] \in Row
             /\ [rows[s][m] EXCEPT !.status = status].direction
                  = rows[s][m].direction
             /\ [rows[s][m] EXCEPT !.status = status].type = rows[s][m].type
             /\ [rows[s][m] EXCEPT !.status = status].status = status
  BY <1>1, RowType DEF Row
<1>2. rows' = [rows EXCEPT ![s] =
        [m \in Ids |-> IF m \in ids /\ Stored(s, m)
                       THEN [rows[s][m] EXCEPT !.status = status]
                       ELSE rows[s][m]]]
  BY DEF UpdateStatus
<1>3. /\ \A t \in Sessions : t # s => rows'[t] = rows[t]
      /\ rows'[s] = [m \in Ids |-> IF m \in ids /\ Stored(s, m)
                                   THEN [rows[s][m] EXCEPT !.status = status]
                                   ELSE rows[s][m]]
      /\ rows' \in [Sessions -> [Ids -> Row \cup {NoRow}]]
  BY <1>1, <1>2 DEF TypeOK
<1>4. ASSUME NEW m \in Ids
      PROVE  rows'[s][m] = IF m \in ids /\ Stored(s, m)
                           THEN [rows[s][m] EXCEPT !.status = status]
                           ELSE rows[s][m]
  BY <1>3
<1>5. ASSUME NEW t \in Sessions, NEW m \in Ids, rows'[t][m] # rows[t][m]
      PROVE  t = s /\ m \in ids /\ Stored(s, m)
  BY <1>3, <1>4, <1>5
<1>6. ASSUME NEW m \in Ids, m \in ids, Stored(s, m)
      PROVE  /\ rows'[s][m] \in Row /\ rows'[s][m].status = status
             /\ rows'[s][m].direction = rows[s][m].direction
             /\ rows'[s][m].type = rows[s][m].type
  BY <1>1, <1>4, <1>6
<1> QED
  BY <1>3, <1>5, <1>6

\* What handlers and requests store.
LEMMA IncomingRowType ==
  ASSUME NEW hand \in Hand
  PROVE  IncomingRow(hand) \in Row
  BY DEF IncomingRow, Row, Statuses

\* What a request stores of a message it sent is a row.
LEMMA OutboundRowType ==
  ASSUME NEW q \in Requests
  PROVE  OutboundRow(q) \in Row
  BY DEF OutboundRow, Row, Statuses

\* Every type of receipt gives a status.
LEMMA ReceiptStatusType ==
  ASSUME NEW type
  PROVE  ResolveReceiptStatus(type) \in Statuses
  BY DEF ResolveReceiptStatus, Statuses

\* A request moves to another place of its code.
LEMMA GotoEffect ==
  ASSUME TypeOK, NEW q \in Requests, Begun(q),
         NEW pc \in {"send", "mark", "save", "emit", "done", "failed"},
         Goto(q, pc)
  PROVE  /\ req' \in [Requests -> Request \cup {Unused}]
         /\ req'[q] = [req[q] EXCEPT !.pc = pc]
         /\ req'[q].pc = pc /\ req'[q].op = req[q].op /\ req'[q].to = req[q].to
         /\ req'[q].session = req[q].session /\ req'[q].ref = req[q].ref
         /\ Begun(q)'
         /\ \A r \in Requests : r # q => req'[r] = req[r]
<1>1. req[q] \in Request
  BY RequestType
<1>2. [req[q] EXCEPT !.pc = pc] \in Request
  BY <1>1 DEF Request
<1>3. req' = [req EXCEPT ![q] = [req[q] EXCEPT !.pc = pc]]
  BY DEF Goto
<1>4. /\ req' \in [Requests -> Request \cup {Unused}]
      /\ req'[q] = [req[q] EXCEPT !.pc = pc]
      /\ \A r \in Requests : r # q => req'[r] = req[r]
  BY <1>2, <1>3 DEF TypeOK
<1>5. req'[q].pc = pc /\ req'[q] # Unused
  BY <1>1, <1>4 DEF Request, Unused
<1> QED
  BY <1>1, <1>4, <1>5 DEF Request, Begun

\* Every step keeps the type invariant.
LEMMA TypeStep == TypeOK /\ [Next]_vars => TypeOK'
<1> SUFFICES ASSUME TypeOK, [Next]_vars PROVE TypeOK'
  OBVIOUS
<1> USE LimitsAssumption
<1>1. ASSUME NEW s \in Sessions, NEW m \in Incoming, Deliver(s, m) PROVE TypeOK'
  <2>1. PICK parts \in Parts :
          queue' = [queue EXCEPT ![s] = Append(@, Message(m, author[m] = s, parts))]
    BY <1>1 DEF Deliver
  <2>2. queue' \in [Sessions -> Seq(Node)]
    BY <2>1, MessageType, QueueAppend DEF Ids
  <2>3. known' \in SUBSET Keys
    BY <1>1 DEF Deliver, TypeOK, Keys, Ids
  <2> QED BY <1>1, <2>2, <2>3 DEF Deliver, TypeOK, server
<1>2. ASSUME NEW s \in Sessions, NEW m \in Ids, Resend(s, m) PROVE TypeOK'
  <2>1. <<"content">> \in Parts
    BY DEF Parts
  <2>2. queue' \in [Sessions -> Seq(Node)]
    BY <1>2, <2>1, MessageType, QueueAppend DEF Resend
  <2> QED BY <1>2, <2>2 DEF Resend, TypeOK
<1>3. ASSUME NEW s \in Sessions, NEW ids \in SUBSET Ids, NEW type \in ReceiptTypes,
             SendReceipt(s, ids, type)
      PROVE  TypeOK'
  <2>1. queue' \in [Sessions -> Seq(Node)]
    BY <1>3, ReceiptType, QueueAppend DEF SendReceipt
  <2>2. {<<s, m, type>> : m \in ids}
          \in SUBSET (Sessions \X Ids \X (ReceiptTypes \cup {"edited"}))
    OBVIOUS
  <2>3. receipts' \in 0..MaxReceipts
    BY <1>3 DEF SendReceipt, TypeOK
  <2> QED BY <1>3, <2>1, <2>2, <2>3 DEF SendReceipt, TypeOK
<1>4. ASSUME NEW s \in Sessions, ReplaceClient(s) PROVE TypeOK'
  <2>1. \A l \in Loops :
          loop[s][l] # Idle => [loop[s][l] EXCEPT !.current = FALSE] \in Hand
    BY HandType DEF Hand
  <2>2. [l \in Loops |-> IF loop[s][l] = Idle THEN Idle
                         ELSE [loop[s][l] EXCEPT !.current = FALSE]]
          \in [Loops -> Hand \cup {Idle}]
    BY <2>1
  <2>3. loop' \in [Sessions -> [Loops -> Hand \cup {Idle}]]
    BY <1>4, <2>2 DEF ReplaceClient, TypeOK
  <2> QED BY <1>4, <2>3 DEF ReplaceClient, TypeOK, server
<1>5. ASSUME NEW s \in Sessions, NEW l \in Loops, LoopStep(s, l) PROVE TypeOK'
  <2> DEFINE hand == loop[s][l]
  <2>1. CASE Take(s, l)
    <3>1. /\ queue' \in [Sessions -> Seq(Node)] /\ Head(queue[s]) \in Node
      BY <2>1, QueueTail DEF Take
    <3>2. [stage |-> "check", node |-> Head(queue[s]), current |-> TRUE] \in Hand
      BY <3>1 DEF Hand
    <3>3. loop' \in [Sessions -> [Loops -> Hand \cup {Idle}]]
      BY <2>1, <3>2, HoldEffect DEF Take
    <3> QED BY <2>1, <3>1, <3>3 DEF Take, TypeOK, server
  <2>2. CASE Check(s, l)
    <3>1. hand \in Hand /\ hand # Idle
      BY <2>2, HandType DEF Check, Idle
    <3>2. CASE hand.current
      <4>1. [hand EXCEPT !.stage = "write"] \in Hand
        BY <3>1 DEF Hand
      <4>2. loop' \in [Sessions -> [Loops -> Hand \cup {Idle}]]
        BY <2>2, <3>2, <4>1, HoldEffect DEF Check
      <4> QED BY <2>2, <3>2, <4>2 DEF Check, TypeOK
    <3>3. CASE ~hand.current
      <4>1. Leave(s, l, TRUE)
        BY <2>2, <3>3 DEF Check
      <4>2. /\ loop' \in [Sessions -> [Loops -> Hand \cup {Idle}]]
            /\ owed' \in SUBSET Keys /\ lost' \in SUBSET Keys
        BY <3>1, <4>1, LeaveEffect, HoldEffect
      <4> QED BY <2>2, <4>2 DEF Check, TypeOK
    <3> QED BY <3>2, <3>3
  <2>3. CASE SaveIncoming(s, l) \/ ApplyReceipt(s, l)
    <3>1. hand \in Hand /\ hand.node \in Node
      BY <2>3, HandType DEF SaveIncoming, ApplyReceipt, Idle, Hand
    <3>2. [hand EXCEPT !.stage = "emit"] \in Hand
      BY <3>1 DEF Hand
    <3>3. loop' \in [Sessions -> [Loops -> Hand \cup {Idle}]]
      BY <2>3, <3>2, HoldEffect DEF SaveIncoming, ApplyReceipt
    <3>4. rows' \in [Sessions -> [Ids -> Row \cup {NoRow}]]
      <4>1. CASE SaveIncoming(s, l)
        <5>1. PICK m \in hand.node.ids : rows' = Upsert(s, m, IncomingRow(hand))
          BY <4>1 DEF SaveIncoming
        <5>2. m \in Ids
          BY <3>1 DEF Node
        <5> QED BY <3>1, <5>1, <5>2, IncomingRowType, UpsertType
      <4>2. CASE ApplyReceipt(s, l)
        <5>1. rows' = UpdateStatus(s, hand.node.ids,
                                   ResolveReceiptStatus(hand.node.kind))
          BY <4>2 DEF ApplyReceipt
        <5> QED BY <5>1, ReceiptStatusType, UpdateType
      <4> QED BY <2>3, <4>1, <4>2
    <3> QED BY <2>3, <3>3, <3>4 DEF SaveIncoming, ApplyReceipt, TypeOK, server
  <2>4. CASE WriteFails(s, l)
    <3>1. hand # Idle /\ Leave(s, l, TRUE)
      BY <2>4, HandType DEF WriteFails
    <3>2. /\ loop' \in [Sessions -> [Loops -> Hand \cup {Idle}]]
          /\ owed' \in SUBSET Keys /\ lost' \in SUBSET Keys
      BY <3>1, LeaveEffect, HoldEffect
    <3> QED BY <2>4, <3>2 DEF WriteFails, Fault, TypeOK
  <2>5. CASE EmitNode(s, l)
    <3>1. hand # Idle /\ hand \in Hand /\ Leave(s, l, FALSE)
      BY <2>5, HandType DEF EmitNode, Idle
    <3>2. /\ loop' \in [Sessions -> [Loops -> Hand \cup {Idle}]]
          /\ owed' \in SUBSET Keys /\ lost' \in SUBSET Keys
      BY <3>1, LeaveEffect, HoldEffect
    <3>3. EventOf(hand.node) \in MessageEvents \cup {"message.status_updated"}
      BY DEF EventOf, MessageEvents
    <3>4. hand.node.ids \in SUBSET Ids
      BY <3>1 DEF Hand, Node
    <3>5. {<<EventOf(hand.node), s, m>> : m \in hand.node.ids}
            \in SUBSET ((MessageEvents \cup {"message.status_updated"})
                           \X Sessions \X Ids)
      BY <3>3, <3>4
    <3> QED BY <2>5, <3>2, <3>5 DEF EmitNode, TypeOK
  <2> QED BY <1>5, <2>1, <2>2, <2>3, <2>4, <2>5 DEF LoopStep
<1>6. ASSUME NEW q \in Requests, RequestStep(q) PROVE TypeOK'
  <2>1. ASSUME NEW op \in Operations, NEW s \in Sessions, NEW to \in Accounts,
               NEW ref \in Ids, Begin(q, op, s, to, ref)
        PROVE  TypeOK'
    <3>1. [pc |-> IF op = "reply" THEN "find" ELSE "send", op |-> op,
           session |-> s, to |-> to, ref |-> ref] \in Request
      BY DEF Request
    <3>2. req' \in [Requests -> Request \cup {Unused}]
      BY <2>1, <3>1 DEF Begin, TypeOK
    <3> QED BY <2>1, <3>2 DEF Begin, TypeOK, server
  <2>2. CASE Find(q) \/ Refuse(q)
    <3>1. Begun(q) /\ (Goto(q, "send") \/ Goto(q, "failed"))
      BY <2>2, RequestType DEF Find, Refuse
    <3>2. req' \in [Requests -> Request \cup {Unused}]
      BY <3>1, GotoEffect
    <3> QED BY <2>2, <3>2 DEF Find, Refuse, TypeOK, server
  <2>3. CASE Send(q) \/ SendUnanswered(q)
    <3>1. Begun(q) /\ Accepted(q)
      BY <2>3, RequestType DEF Send, SendUnanswered, Accepted
    <3>2. req[q] \in Request /\ q \in Ids
      BY <3>1, RequestType DEF Ids
    <3>3. queue' \in [Sessions -> Seq(Node)] /\ known' \in SUBSET Keys
      <4>1. CASE req[q].to \in Sessions
        <5>1. <<"content">> \in Parts
          BY DEF Parts
        <5>2. queue' = [queue EXCEPT ![req[q].to] =
                          Append(@, Message(q, FALSE, <<"content">>))]
          BY <3>1, <4>1 DEF Accepted
        <5>3. queue' \in [Sessions -> Seq(Node)]
          BY <3>2, <4>1, <5>1, <5>2, MessageType, QueueAppend
        <5> QED BY <3>1, <3>2, <4>1, <5>3 DEF Accepted, TypeOK, Keys, Request
      <4>2. CASE req[q].to \notin Sessions
        BY <3>1, <3>2, <4>2 DEF Accepted, TypeOK, Keys, Request
      <4> QED BY <4>1, <4>2
    <3>4. cause' \in SUBSET (Sessions \X Ids \X (ReceiptTypes \cup {"edited"}))
      BY <3>1, <3>2 DEF Accepted, TypeOK, Request
    <3>5. req' \in [Requests -> Request \cup {Unused}]
      BY <2>3, <3>1, GotoEffect DEF Send, SendUnanswered
    <3>6. lost' \in SUBSET Keys
      BY <2>3, <3>2 DEF Send, SendUnanswered, TypeOK, Keys, Request
    <3> QED BY <2>3, <3>3, <3>4, <3>5, <3>6
            DEF Send, SendUnanswered, Fault, TypeOK, server
  <2>4. CASE Mark(q)
    <3>1. Begun(q) /\ Goto(q, "save")
      BY <2>4, RequestType DEF Mark
    <3>2. req[q] \in Request /\ "edited" \in Statuses
      BY <3>1, RequestType DEF Statuses
    <3>3. req' \in [Requests -> Request \cup {Unused}]
      BY <3>1, GotoEffect
    <3>4. /\ rows' \in [Sessions -> [Ids -> Row \cup {NoRow}]]
          /\ faults' \in 0..MaxFaults
      <4>1. CASE /\ rows' = UpdateStatus(req[q].session, {req[q].ref}, "edited")
                 /\ UNCHANGED faults
        <5>1. req[q].session \in Sessions
          BY <3>2 DEF Request
        <5> QED BY <3>2, <4>1, <5>1, UpdateType DEF TypeOK
      <4>2. CASE Fault /\ UNCHANGED rows
        BY <4>2 DEF Fault, TypeOK
      <4> QED BY <2>4, <4>1, <4>2 DEF Mark
    <3> QED BY <2>4, <3>3, <3>4 DEF Mark, TypeOK, server
  <2>5. CASE Save(q)
    <3>1. Begun(q) /\ Goto(q, "emit")
      BY <2>5, RequestType DEF Save
    <3>2. req[q].session \in Sessions /\ q \in Ids
      BY <3>1, RequestType DEF Request, Ids
    <3>3. rows' \in [Sessions -> [Ids -> Row \cup {NoRow}]]
      BY <2>5, <3>2, OutboundRowType, UpsertType DEF Save
    <3>4. req' \in [Requests -> Request \cup {Unused}]
      BY <3>1, GotoEffect
    <3> QED BY <2>5, <3>3, <3>4 DEF Save, TypeOK, server
  <2>6. CASE SaveFails(q)
    <3>1. Begun(q) /\ Goto(q, "failed")
      BY <2>6, RequestType DEF SaveFails
    <3>2. req[q].session \in Sessions /\ q \in Ids
      BY <3>1, RequestType DEF Request, Ids
    <3>3. req' \in [Requests -> Request \cup {Unused}]
      BY <3>1, GotoEffect
    <3> QED BY <2>6, <3>2, <3>3 DEF SaveFails, Fault, TypeOK, server, Keys
  <2>7. CASE EmitSent(q)
    <3>1. Begun(q) /\ Goto(q, "done")
      BY <2>7, RequestType DEF EmitSent
    <3>2. req[q].session \in Sessions /\ q \in Ids
      BY <3>1, RequestType DEF Request, Ids
    <3>3. req' \in [Requests -> Request \cup {Unused}]
      BY <3>1, GotoEffect
    <3> QED BY <2>7, <3>2, <3>3 DEF EmitSent, TypeOK, server, MessageEvents
  <2> QED BY <1>6, <2>1, <2>2, <2>3, <2>4, <2>5, <2>6, <2>7 DEF RequestStep
<1>7. CASE Restart
  <2>1. \A q \in Requests :
          Begun(q) => [req[q] EXCEPT !.pc = "failed"] \in Request
    BY RequestType DEF Request
  <2>2. req' \in [Requests -> Request \cup {Unused}]
    BY <1>7, <2>1 DEF Restart, TypeOK
  <2> QED BY <1>7, <2>2 DEF Restart, Fault, TypeOK
<1>8. CASE UNCHANGED vars
  BY <1>8 DEF vars, server, TypeOK
<1> QED
  BY <1>1, <1>2, <1>3, <1>4, <1>5, <1>6, <1>7, <1>8 DEF Next, ServerStep

\* The types hold in every reachable state.
THEOREM TypeCorrect == Spec => []TypeOK
<1>1. Init => TypeOK
  BY TypeInit
<1>2. TypeOK /\ [Next]_vars => TypeOK'
  BY TypeStep
<1> QED
  BY <1>1, <1>2, PTL DEF Spec

-----------------------------------------------------------------------------
(* The inductive invariant.  A message node is for one message, known to the  *)
(* server, and says whose it is; a receipt node stands for a receipt that was *)
(* sent; a request and a queue loop past their write have the row; what is    *)
(* stored, owed or lost was known first.                                      *)

\* Whether a session's own account wrote the message.
Own(s, m) ==
  IF m \in Requests THEN Begun(m) /\ req[m].session = s ELSE author[m] = s

InQueue(s, n) == \E i \in DOMAIN queue[s] : queue[s][i] = n
Holds(s, l, n) == loop[s][l] # Idle /\ loop[s][l].node = n
OnItsWay(s, n) == InQueue(s, n) \/ \E l \in Loops : Holds(s, l, n)

\* A message node on its way to s, for the one message m.
MessageOK(s, n, m) ==
  /\ n.ids = {m}
  /\ <<s, m>> \in known
  /\ n.mine <=> Own(s, m)
  /\ n.parts \in Parts
  /\ m \in Requests => ~n.mine /\ n.parts = <<"content">>

\* A node is of one message, or of a receipt that was sent for all its ids.
NodeOK(s, n) ==
  /\ n.kind = "message" => \E m \in Ids : MessageOK(s, n, m)
  /\ n.kind # "message" => /\ n.parts = <<"receipt">>
                           /\ \A m \in n.ids : <<s, m, n.kind>> \in cause

NodeInv == \A s \in Sessions, n \in Node : OnItsWay(s, n) => NodeOK(s, n)

\* What is stored, lost or owed was known first, and what a request sent is
\* known only once the request is past the send.
LedgerOK(s, m) ==
  /\ Stored(s, m) \/ <<s, m>> \in lost \/ <<s, m>> \in owed => <<s, m>> \in known
  /\ <<s, m>> \in owed => m \in Incoming
  /\ m \in Requests /\ <<s, m>> \in known =>
       Begun(m) /\ req[m].pc \notin {"find", "send"}
LedgerInv == \A s \in Sessions, m \in Ids : LedgerOK(s, m)

\* A loop about to announce a message has stored it.
HandOK(s, l) ==
  loop[s][l].stage = "emit" /\ loop[s][l].node.kind = "message"
    => \A m \in loop[s][l].node.ids : Stored(s, m)
HandInv == \A s \in Sessions, l \in Loops : HandOK(s, l)

\* How far a request is tells what the server knows and whether it has a row.
RequestOK(q) ==
  Begun(q) =>
    /\ req[q].to # req[q].session
    /\ req[q].pc \in {"mark", "save", "emit", "done"} =>
         <<req[q].session, q>> \in known
    /\ req[q].pc \in {"mark", "save"} => ~Stored(req[q].session, q)
    /\ req[q].pc \in {"emit", "done"} => Stored(req[q].session, q)
    /\ req[q].pc = "mark" => <<req[q].session, req[q].ref, "edited">> \in cause
RequestInv == \A q \in Requests : RequestOK(q)

IInv ==
  /\ TypeOK /\ NodeInv /\ LedgerInv /\ HandInv /\ RequestInv
  /\ OwnSide /\ StatusIsEarned

\* The keys of a group come first, and once: while a node with keys is waiting
\* or being stored, its message is in no other place and has no row.
IsOf(n, m) == n.kind = "message" /\ m \in n.ids
Has(s, l, m) == loop[s][l] # Idle /\ IsOf(loop[s][l].node, m)
\* A message is queued, in hand or owed: one of these at most, and once.
OnceOK(s, m) ==
  /\ \A i, j \in DOMAIN queue[s] :
       IsOf(queue[s][i], m) /\ IsOf(queue[s][j], m) => i = j
  /\ \A l, k \in Loops : Has(s, l, m) /\ Has(s, k, m) => l = k
  /\ ~(Queued(s, m) /\ InHand(s, m))
  /\ <<s, m>> \in owed => ~Queued(s, m) /\ ~InHand(s, m)
OnceInv == \A s \in Sessions, m \in Ids : OnceOK(s, m)

KeysFirst(n) == Head(n.parts) = "keys"
KeyWaits(s, i, m) == IsOf(queue[s][i], m) /\ KeysFirst(queue[s][i])
KeyHeld(s, l, m) ==
  Has(s, l, m) /\ loop[s][l].stage # "emit" /\ KeysFirst(loop[s][l].node)
\* No row of a message whose keys are still to be stored.
KeysOK(s, m) ==
  /\ \A i \in DOMAIN queue[s] : KeyWaits(s, i, m) => ~Stored(s, m)
  /\ \A l \in Loops : KeyHeld(s, l, m) => ~Stored(s, m)
KeysInv == \A s \in Sessions, m \in Ids : KeysOK(s, m)

-----------------------------------------------------------------------------
(* What every step keeps.                                                     *)

\* The server, the receipts and edits, and the faults only add; nobody changes
\* who wrote what.
LEMMA Grows ==
  ASSUME [Next]_vars
  PROVE  /\ known \subseteq known' /\ cause \subseteq cause'
         /\ lost \subseteq lost' /\ told \subseteq told' /\ author' = author
<1> DEFINE Grown == /\ known \subseteq known' /\ cause \subseteq cause'
                    /\ lost \subseteq lost' /\ told \subseteq told'
                    /\ author' = author
<1>1. ServerStep => Grown
  BY DEF ServerStep, Deliver, Resend, SendReceipt, server
<1>2. ASSUME NEW s \in Sessions, ReplaceClient(s) PROVE Grown
  BY <1>2 DEF ReplaceClient, server
<1>3. ASSUME NEW s \in Sessions, NEW l \in Loops, LoopStep(s, l) PROVE Grown
  <2>1. CASE Take(s, l) \/ SaveIncoming(s, l) \/ ApplyReceipt(s, l)
    BY <2>1 DEF Take, SaveIncoming, ApplyReceipt, server
  <2>2. CASE Check(s, l)
    BY <2>2 DEF Check, Leave
  <2>3. CASE WriteFails(s, l)
    BY <2>3 DEF WriteFails, Leave
  <2>4. CASE EmitNode(s, l)
    BY <2>4 DEF EmitNode, Leave
  <2> QED BY <1>3, <2>1, <2>2, <2>3, <2>4 DEF LoopStep
<1>4. ASSUME NEW q \in Requests, RequestStep(q) PROVE Grown
  <2>1. CASE \E op \in Operations, s \in Sessions, to \in Accounts, ref \in Ids :
               Begin(q, op, s, to, ref)
    BY <2>1 DEF Begin, server
  <2>2. CASE Find(q) \/ Refuse(q) \/ Mark(q) \/ Save(q) \/ SaveFails(q) \/ EmitSent(q)
    BY <2>2 DEF Find, Refuse, Mark, Save, SaveFails, EmitSent, server
  <2>3. CASE Send(q) \/ SendUnanswered(q)
    BY <2>3 DEF Send, SendUnanswered, Accepted, server
  <2> QED BY <1>4, <2>1, <2>2, <2>3 DEF RequestStep
<1>5. Restart => Grown
  BY DEF Restart
<1>6. UNCHANGED vars => Grown
  BY DEF vars, server
<1> QED
  BY <1>1, <1>2, <1>3, <1>4, <1>5, <1>6 DEF Next

\* Only a request's own steps and a restart change it.
LEMMA RequestSteps ==
  [Next]_vars => \/ \E q \in Requests : RequestStep(q)
                 \/ Restart
                 \/ UNCHANGED req
<1>1. ServerStep => UNCHANGED req
  BY DEF ServerStep, Deliver, Resend, SendReceipt
<1>2. ASSUME NEW s \in Sessions, NEW l \in Loops, LoopStep(s, l)
      PROVE  UNCHANGED req
  BY <1>2 DEF LoopStep, Take, Check, SaveIncoming, ApplyReceipt, WriteFails, EmitNode
<1>3. (\E s \in Sessions : ReplaceClient(s)) \/ UNCHANGED vars => UNCHANGED req
  BY DEF ReplaceClient, vars
<1> QED
  BY <1>1, <1>2, <1>3 DEF Next

\* Where a request may go from where it is.
LEMMA RequestMoves ==
  ASSUME TypeOK, NEW q \in Requests, RequestStep(q)
  PROVE  /\ \A r \in Requests : r # q => req'[r] = req[r]
         /\ Begun(q)'
         /\ Begun(q) => /\ req'[q].session = req[q].session
                        /\ req'[q].op = req[q].op /\ req'[q].to = req[q].to
                        /\ req'[q].ref = req[q].ref
         /\ ~Begun(q) => req'[q].pc \in {"find", "send"}
<1>1. ASSUME NEW op \in Operations, NEW s \in Sessions, NEW to \in Accounts,
             NEW ref \in Ids, Begin(q, op, s, to, ref)
      PROVE  /\ \A r \in Requests : r # q => req'[r] = req[r]
             /\ Begun(q)' /\ ~Begun(q) /\ req'[q].pc \in {"find", "send"}
  BY <1>1 DEF Begin, Begun, TypeOK, Unused
<1>2. ASSUME NEW pc \in {"send", "mark", "save", "emit", "done", "failed"},
             Begun(q), Goto(q, pc)
      PROVE  /\ \A r \in Requests : r # q => req'[r] = req[r]
             /\ Begun(q)' /\ req'[q].session = req[q].session
             /\ req'[q].op = req[q].op /\ req'[q].to = req[q].to
             /\ req'[q].ref = req[q].ref
  BY <1>2, GotoEffect
<1>3. CASE \/ Find(q) \/ Refuse(q) \/ Send(q) \/ SendUnanswered(q) \/ Mark(q)
           \/ Save(q) \/ SaveFails(q) \/ EmitSent(q)
  <2>1. Begun(q)
    BY <1>3, RequestType DEF Find, Refuse, Send, SendUnanswered, Accepted, Mark,
       Save, SaveFails, EmitSent
  <2>2. \E pc \in {"send", "mark", "save", "emit", "done", "failed"} : Goto(q, pc)
    BY <1>3 DEF Find, Refuse, Send, SendUnanswered, Mark, Save, SaveFails, EmitSent
  <2> QED BY <1>2, <2>1, <2>2
<1> QED
  BY <1>1, <1>3 DEF RequestStep

\* A request once begun stays so, with its arguments.
LEMMA BegunStays ==
  ASSUME TypeOK, [Next]_vars, NEW q \in Requests, Begun(q)
  PROVE  /\ Begun(q)' /\ req'[q].session = req[q].session
         /\ req'[q].op = req[q].op /\ req'[q].to = req[q].to
         /\ req'[q].ref = req[q].ref
<1>1. ASSUME NEW r \in Requests, RequestStep(r)
      PROVE  /\ Begun(q)' /\ req'[q].session = req[q].session
             /\ req'[q].op = req[q].op /\ req'[q].to = req[q].to
             /\ req'[q].ref = req[q].ref
  BY <1>1, RequestMoves DEF Begun
<1>2. CASE Restart
  <2>1. req[q] \in Request
    BY RequestType
  <2>2. req'[q] = req[q] \/ req'[q] = [req[q] EXCEPT !.pc = "failed"]
    BY <1>2 DEF Restart
  <2>3. [req[q] EXCEPT !.pc = "failed"] # Unused
    BY <2>1 DEF Request, Unused
  <2> QED BY <2>1, <2>2, <2>3 DEF Begun, Request
<1>3. CASE UNCHANGED req
  BY <1>3 DEF Begun
<1> QED
  BY <1>1, <1>2, <1>3, RequestSteps

\* Who wrote a message the server knows is settled.
LEMMA OwnStays ==
  ASSUME TypeOK, LedgerInv, [Next]_vars, NEW s \in Sessions, NEW m \in Ids,
         <<s, m>> \in known
  PROVE  Own(s, m)' <=> Own(s, m)
<1>1. CASE m \in Requests
  <2>1. Begun(m)
    BY <1>1 DEF LedgerInv, LedgerOK
  <2> QED BY <1>1, <2>1, BegunStays DEF Own
<1>2. CASE m \notin Requests
  BY <1>2, Grows DEF Own
<1> QED
  BY <1>1, <1>2

\* The table is written by these steps, one row or some statuses at a time.
LEMMA RowSteps ==
  [Next]_vars => \/ \E s \in Sessions, l \in Loops :
                      SaveIncoming(s, l) \/ ApplyReceipt(s, l)
                 \/ \E q \in Requests : Mark(q) \/ Save(q)
                 \/ UNCHANGED rows
  BY DEF Next, ServerStep, LoopStep, RequestStep, Deliver, Resend, SendReceipt,
     ReplaceClient, Take, Check, WriteFails, EmitNode, Begin, Find, Refuse,
     Send, SendUnanswered, SaveFails, EmitSent, Restart, vars

\* How a row may change: it is saved, by a loop or by the request that sent the
\* message; or its status is set, by a receipt or by an edit.
SavedBy(s, l, m) ==
  LET hand == loop[s][l]
  IN  /\ SaveIncoming(s, l) /\ hand \in Hand /\ m \in hand.node.ids
      /\ rows'[s][m] = IncomingRow(hand)
SentBy(q, s, m) ==
  Save(q) /\ s = req[q].session /\ m = q /\ rows'[s][m] = OutboundRow(q)
Marked(s, m, status) ==
  /\ Stored(s, m) /\ rows'[s][m] \in Row
  /\ rows'[s][m].direction = rows[s][m].direction
  /\ rows'[s][m].type = rows[s][m].type
  /\ rows'[s][m].status = status
ReceivedBy(s, l, m) ==
  LET hand == loop[s][l]
  IN  /\ ApplyReceipt(s, l) /\ hand \in Hand /\ m \in hand.node.ids
      /\ Marked(s, m, ResolveReceiptStatus(hand.node.kind))
EditedBy(q, s, m) ==
  /\ req[q].pc = "mark" /\ s = req[q].session /\ m = req[q].ref
  /\ Marked(s, m, "edited")

\* A row that changes does so in one of these ways.
LEMMA RowChange ==
  ASSUME TypeOK, [Next]_vars, NEW s \in Sessions, NEW m \in Ids
  PROVE  \/ rows'[s][m] = rows[s][m]
         \/ \E l \in Loops : SavedBy(s, l, m) \/ ReceivedBy(s, l, m)
         \/ \E q \in Requests : SentBy(q, s, m) \/ EditedBy(q, s, m)
<1> SUFFICES ASSUME rows'[s][m] # rows[s][m]
             PROVE  \/ \E l \in Loops : SavedBy(s, l, m) \/ ReceivedBy(s, l, m)
                    \/ \E q \in Requests : SentBy(q, s, m) \/ EditedBy(q, s, m)
  OBVIOUS
<1>1. ASSUME NEW t \in Sessions, NEW l \in Loops, SaveIncoming(t, l)
      PROVE  t = s /\ SavedBy(s, l, m)
  <2>1. loop[t][l] \in Hand
    BY <1>1, HandType DEF SaveIncoming, Idle
  <2>2. PICK i \in loop[t][l].node.ids : rows' = Upsert(t, i, IncomingRow(loop[t][l]))
    BY <1>1 DEF SaveIncoming
  <2>3. i \in Ids /\ IncomingRow(loop[t][l]) \in Row
    BY <2>1, IncomingRowType DEF Hand, Node
  <2>4. t = s /\ i = m /\ rows'[s][m] = IncomingRow(loop[s][l])
    BY <2>2, <2>3, UpsertType
  <2> QED BY <1>1, <2>1, <2>2, <2>4 DEF SavedBy
<1>2. ASSUME NEW t \in Sessions, NEW l \in Loops, ApplyReceipt(t, l)
      PROVE  t = s /\ ReceivedBy(s, l, m)
  <2>1. loop[t][l] \in Hand
    BY <1>2, HandType DEF ApplyReceipt, Idle
  <2> DEFINE status == ResolveReceiptStatus(loop[t][l].node.kind)
             ids == loop[t][l].node.ids
  <2>2. rows' = UpdateStatus(t, ids, status)
    BY <1>2 DEF ApplyReceipt
  <2>3. status \in Statuses
    BY ReceiptStatusType
  <2> HIDE DEF status, ids
  <2>4. /\ s = t /\ m \in ids /\ Stored(s, m)
        /\ rows'[s][m] \in Row
        /\ rows'[s][m].direction = rows[s][m].direction
        /\ rows'[s][m].type = rows[s][m].type
        /\ rows'[s][m].status = status
    BY <2>2, <2>3, UpdateType
  <2> QED BY <1>2, <2>1, <2>4 DEF ReceivedBy, Marked, status, ids
<1>3. ASSUME NEW q \in Requests, Mark(q)
      PROVE  EditedBy(q, s, m)
  <2>1. req[q].pc = "mark" /\ req[q].session \in Sessions
    BY <1>3, RequestType DEF Mark, Request
  <2> DEFINE ids == {req[q].ref}
  <2>2. rows' = UpdateStatus(req[q].session, ids, "edited")
    BY <1>3 DEF Mark
  <2>3. "edited" \in Statuses
    BY DEF Statuses
  <2> HIDE DEF ids
  <2>4. /\ s = req[q].session /\ m \in ids /\ Stored(s, m)
        /\ rows'[s][m] \in Row
        /\ rows'[s][m].direction = rows[s][m].direction
        /\ rows'[s][m].type = rows[s][m].type
        /\ rows'[s][m].status = "edited"
    BY <2>1, <2>2, <2>3, UpdateType
  <2> QED BY <2>1, <2>4 DEF EditedBy, Marked, ids
<1>4. ASSUME NEW q \in Requests, Save(q)
      PROVE  SentBy(q, s, m)
  <2>1. req[q].session \in Sessions /\ q \in Ids
    BY <1>4, RequestType DEF Save, Request, Ids
  <2>2. rows' = Upsert(req[q].session, q, OutboundRow(q))
    BY <1>4 DEF Save
  <2>3. OutboundRow(q) \in Row
    BY OutboundRowType
  <2> QED BY <1>4, <2>1, <2>2, <2>3, UpsertType DEF SentBy
<1> QED
  BY <1>1, <1>2, <1>3, <1>4, RowSteps

\* A row once stored stays.
LEMMA StoredStays ==
  ASSUME TypeOK, [Next]_vars, NEW s \in Sessions, NEW m \in Ids, Stored(s, m)
  PROVE  Stored(s, m)'
<1>1. NoRow \notin Row
  BY DEF NoRow, Row
<1>2. \A l \in Loops : SavedBy(s, l, m) => rows'[s][m] \in Row
  BY IncomingRowType DEF SavedBy
<1>3. \A q \in Requests : SentBy(q, s, m) => rows'[s][m] \in Row
  BY OutboundRowType DEF SentBy
<1>4. /\ \A l \in Loops : ReceivedBy(s, l, m) => rows'[s][m] \in Row
      /\ \A q \in Requests : EditedBy(q, s, m) => rows'[s][m] \in Row
  BY DEF ReceivedBy, EditedBy, Marked
<1> QED
  BY <1>1, <1>2, <1>3, <1>4, RowChange DEF Stored

-----------------------------------------------------------------------------
(* Nodes on their way.                                                        *)

\* What is in the queues after a node has been appended, and after one has been
\* taken.
LEMMA InQueueAppend ==
  ASSUME TypeOK, NEW s \in Sessions, NEW n \in Node,
         queue' = [queue EXCEPT ![s] = Append(@, n)],
         NEW t \in Sessions, NEW x \in Node
  PROVE  InQueue(t, x)' <=> InQueue(t, x) \/ (t = s /\ x = n)
<1>1. CASE t # s
  BY <1>1, QueueAppend DEF InQueue
<1>2. CASE t = s
  <2> DEFINE last == Len(queue[s]) + 1
  <2>1. /\ DOMAIN queue'[s] = DOMAIN queue[s] \cup {last}
        /\ \A i \in DOMAIN queue[s] : queue'[s][i] = queue[s][i]
        /\ queue'[s][last] = n
    BY QueueAppend
  <2> HIDE DEF last
  <2> QED BY <1>2, <2>1 DEF InQueue
<1> QED
  BY <1>1, <1>2

\* A node taken leaves the queue; the others stay.
LEMMA InQueueTail ==
  ASSUME TypeOK, NEW s \in Sessions, queue[s] # <<>>,
         queue' = [queue EXCEPT ![s] = Tail(@)],
         NEW t \in Sessions, NEW x \in Node
  PROVE  /\ InQueue(t, x)' => InQueue(t, x)
         /\ InQueue(t, x) => InQueue(t, x)' \/ (t = s /\ x = Head(queue[s]))
         /\ InQueue(s, Head(queue[s]))
<1>1. InQueue(s, Head(queue[s]))
  BY QueueTail DEF InQueue
<1>2. CASE t # s
  BY <1>1, <1>2, QueueTail DEF InQueue
<1>3. CASE t = s
  <2>1. InQueue(t, x)' => InQueue(t, x)
    BY <1>3, QueueTail DEF InQueue
  <2>2. ASSUME InQueue(t, x), x # Head(queue[s]) PROVE InQueue(t, x)'
    <3>1. PICK i \in DOMAIN queue[s] : queue[s][i] = x
      BY <1>3, <2>2 DEF InQueue
    <3>2. i # 1
      BY <2>2, <3>1, QueueTail
    <3>3. i - 1 \in DOMAIN queue'[s] /\ queue'[s][i - 1] = x
      BY <3>1, <3>2, QueueTail
    <3> QED BY <1>3, <3>3 DEF InQueue
  <2> QED BY <1>1, <1>3, <2>1, <2>2
<1> QED
  BY <1>2, <1>3

\* What is in hand after one loop has put down what it had for something else.
LEMMA HoldsAfter ==
  ASSUME TypeOK, NEW s \in Sessions, NEW l \in Loops,
         NEW hand \in Hand \cup {Idle}, Hold(s, l, hand),
         NEW t \in Sessions, NEW k \in Loops, NEW x \in Node
  PROVE  Holds(t, k, x)' <=> IF t = s /\ k = l THEN hand # Idle /\ hand.node = x
                             ELSE Holds(t, k, x)
  BY HoldEffect DEF Holds

\* A message is waiting, or in hand, when a node for it is.
LEMMA QueuedIs ==
  ASSUME TypeOK, NEW s \in Sessions, NEW m \in Ids
  PROVE  Queued(s, m) <=> \E n \in Node : InQueue(s, n) /\ IsOf(n, m)
<1>1. \A i \in DOMAIN queue[s] : queue[s][i] \in Node
  BY LenProperties DEF TypeOK
<1> QED
  BY <1>1 DEF Queued, InQueue, IsOf

\* A message is in hand when a loop holds a node for it.
LEMMA InHandIs ==
  ASSUME TypeOK, NEW s \in Sessions, NEW m \in Ids
  PROVE  InHand(s, m) <=> \E l \in Loops, n \in Node : Holds(s, l, n) /\ IsOf(n, m)
<1>1. \A l \in Loops : loop[s][l] # Idle => loop[s][l].node \in Node
  BY HandType DEF Hand
<1> QED
  BY <1>1 DEF InHand, Holds, IsOf

\* Only these steps tell the server of a message.
LEMMA KnownSteps ==
  [Next]_vars => \/ UNCHANGED known
                 \/ \E s \in Sessions, m \in Incoming : Deliver(s, m)
                 \/ \E q \in Requests : Send(q) \/ SendUnanswered(q)
<1>1. ServerStep => \/ UNCHANGED known
                    \/ \E s \in Sessions, m \in Incoming : Deliver(s, m)
  BY DEF ServerStep, Resend, SendReceipt
<1>2. ASSUME NEW s \in Sessions, NEW l \in Loops, LoopStep(s, l)
      PROVE  UNCHANGED known
  BY <1>2 DEF LoopStep, Take, Check, SaveIncoming, ApplyReceipt, WriteFails, EmitNode
<1>3. ASSUME NEW q \in Requests, RequestStep(q)
      PROVE  Send(q) \/ SendUnanswered(q) \/ UNCHANGED known
  BY <1>3 DEF RequestStep, Begin, Find, Refuse, Mark, Save, SaveFails, EmitSent
<1>4. (\E s \in Sessions : ReplaceClient(s)) \/ Restart \/ UNCHANGED vars
        => UNCHANGED known
  BY DEF ReplaceClient, Restart, vars
<1> QED
  BY <1>1, <1>2, <1>3, <1>4 DEF Next

\* Only these steps announce anything.
LEMMA ToldSteps ==
  [Next]_vars => \/ told' = told
                 \/ \E s \in Sessions, l \in Loops : EmitNode(s, l)
                 \/ \E q \in Requests : EmitSent(q)
<1>1. ServerStep => told' = told
  BY DEF ServerStep, Deliver, Resend, SendReceipt
<1>2. ASSUME NEW s \in Sessions, NEW l \in Loops, LoopStep(s, l)
      PROVE  EmitNode(s, l) \/ told' = told
  BY <1>2 DEF LoopStep, Take, Check, SaveIncoming, ApplyReceipt, WriteFails
<1>3. ASSUME NEW q \in Requests, RequestStep(q)
      PROVE  EmitSent(q) \/ told' = told
  BY <1>3 DEF RequestStep, Begin, Find, Refuse, Send, SendUnanswered, Mark, Save,
     SaveFails
<1>4. (\E s \in Sessions : ReplaceClient(s)) \/ Restart \/ UNCHANGED vars
        => told' = told
  BY DEF ReplaceClient, Restart, vars
<1> QED
  BY <1>1, <1>2, <1>3, <1>4 DEF Next

\* Only a message that is sent again is no longer owed.
LEMMA OwedSteps ==
  [Next]_vars => \/ \E s \in Sessions, m \in Ids : Resend(s, m)
                 \/ owed \subseteq owed'
<1>1. ServerStep => \/ \E s \in Sessions, m \in Ids : Resend(s, m)
                    \/ UNCHANGED owed
  BY DEF ServerStep, Deliver, SendReceipt, server
<1>2. ASSUME NEW s \in Sessions, NEW l \in Loops, NEW d, Leave(s, l, d)
      PROVE  owed \subseteq owed'
  BY <1>2 DEF Leave, Retried
<1>3. ASSUME NEW s \in Sessions, NEW l \in Loops, LoopStep(s, l)
      PROVE  owed \subseteq owed'
  <2>1. CASE Take(s, l) \/ SaveIncoming(s, l) \/ ApplyReceipt(s, l)
    BY <2>1 DEF Take, SaveIncoming, ApplyReceipt, server
  <2>2. CASE Check(s, l)
    BY <1>2, <2>2 DEF Check
  <2>3. CASE WriteFails(s, l) \/ EmitNode(s, l)
    BY <1>2, <2>3 DEF WriteFails, EmitNode
  <2> QED BY <1>3, <2>1, <2>2, <2>3 DEF LoopStep
<1>4. ASSUME NEW q \in Requests, RequestStep(q) PROVE UNCHANGED owed
  BY <1>4 DEF RequestStep, Begin, Find, Refuse, Send, SendUnanswered, Mark, Save,
     SaveFails, EmitSent, server
<1>5. (\E s \in Sessions : ReplaceClient(s)) \/ Restart \/ UNCHANGED vars
        => owed \subseteq owed'
  BY DEF ReplaceClient, Restart, vars, server
<1> QED
  BY <1>1, <1>3, <1>4, <1>5 DEF Next

\* These steps change what waits at the server.
LEMMA QueueSteps ==
  [Next]_vars => \/ ServerStep
                 \/ \E s \in Sessions, l \in Loops : Take(s, l)
                 \/ \E q \in Requests :
                      Accepted(q) /\ (Send(q) \/ SendUnanswered(q))
                 \/ UNCHANGED queue
<1>1. ASSUME NEW s \in Sessions, NEW l \in Loops, LoopStep(s, l)
      PROVE  Take(s, l) \/ UNCHANGED queue
  BY <1>1 DEF LoopStep, Check, SaveIncoming, ApplyReceipt, WriteFails, EmitNode
<1>2. ASSUME NEW q \in Requests, RequestStep(q)
      PROVE  \/ Accepted(q) /\ (Send(q) \/ SendUnanswered(q))
             \/ UNCHANGED queue
  BY <1>2 DEF RequestStep, Begin, Find, Refuse, Send, SendUnanswered, Mark, Save,
     SaveFails, EmitSent
<1>3. (\E s \in Sessions : ReplaceClient(s)) \/ Restart \/ UNCHANGED vars
        => UNCHANGED queue
  BY DEF ReplaceClient, Restart, vars
<1> QED
  BY <1>1, <1>2, <1>3 DEF Next

\* These change what is in hand.
LEMMA LoopSteps ==
  [Next]_vars => \/ \E s \in Sessions, l \in Loops : LoopStep(s, l)
                 \/ \E s \in Sessions : ReplaceClient(s)
                 \/ Restart
                 \/ UNCHANGED loop
  BY DEF Next, ServerStep, RequestStep, Deliver, Resend, SendReceipt, Begin,
     Find, Refuse, Send, SendUnanswered, Mark, Save, SaveFails, EmitSent, vars

\* A loop takes the first node of the queue, or turns to what is left of the
\* one in hand, or goes on with it.
LEMMA HandMoves ==
  ASSUME TypeOK, NEW s \in Sessions, NEW l \in Loops, LoopStep(s, l)
  PROVE  \/ Take(s, l)
         \/ /\ loop[s][l] \in Hand /\ loop[s][l] # Idle
            /\ \/ \E dropped \in BOOLEAN :
                    Leave(s, l, dropped) /\ (dropped \/ EmitNode(s, l))
               \/ \E hand \in Hand :
                    /\ Hold(s, l, hand) /\ hand # Idle
                    /\ hand.node = loop[s][l].node
                    /\ loop[s][l].stage # "emit"
                    /\ hand.stage \in {"write", "emit"}
                    /\ hand.stage = "emit" =>
                         SaveIncoming(s, l) \/ ApplyReceipt(s, l)
<1>1. CASE Check(s, l)
  <2>1. loop[s][l] \in Hand /\ loop[s][l] # Idle
    BY <1>1, HandType DEF Check, Idle
  <2>2. CASE loop[s][l].current
    <3> DEFINE hand == [loop[s][l] EXCEPT !.stage = "write"]
    <3>1. /\ hand \in Hand /\ hand # Idle /\ hand.node = loop[s][l].node
          /\ hand.stage = "write"
      BY <2>1 DEF Hand, Idle
    <3>2. Hold(s, l, hand) /\ loop[s][l].stage # "emit"
      BY <1>1, <2>2 DEF Check
    <3> QED BY <2>1, <3>1, <3>2
  <2>3. CASE ~loop[s][l].current
    <3>1. Leave(s, l, TRUE)
      BY <1>1, <2>3 DEF Check
    <3> QED BY <2>1, <3>1
  <2> QED BY <2>2, <2>3
<1>2. CASE SaveIncoming(s, l) \/ ApplyReceipt(s, l)
  <2>1. loop[s][l] \in Hand /\ loop[s][l] # Idle
    BY <1>2, HandType DEF SaveIncoming, ApplyReceipt, Idle
  <2> DEFINE hand == [loop[s][l] EXCEPT !.stage = "emit"]
  <2>2. /\ hand \in Hand /\ hand # Idle /\ hand.node = loop[s][l].node
        /\ hand.stage = "emit"
    BY <2>1 DEF Hand, Idle
  <2>3. Hold(s, l, hand) /\ loop[s][l].stage # "emit"
    BY <1>2 DEF SaveIncoming, ApplyReceipt
  <2> QED BY <1>2, <2>1, <2>2, <2>3
<1>3. CASE WriteFails(s, l)
  <2>1. loop[s][l] \in Hand /\ loop[s][l] # Idle /\ Leave(s, l, TRUE)
    BY <1>3, HandType DEF WriteFails
  <2> QED BY <2>1
<1>4. CASE EmitNode(s, l)
  <2>1. loop[s][l] \in Hand /\ loop[s][l] # Idle /\ Leave(s, l, FALSE)
    BY <1>4, HandType DEF EmitNode
  <2> QED BY <1>4, <2>1
<1> QED
  BY <1>1, <1>2, <1>3, <1>4 DEF LoopStep

\* A node stays what it is: nobody changes whose message it is, and what the
\* server knows and what receipts it sent stays known.
LEMMA NodeStays ==
  ASSUME TypeOK, LedgerInv, [Next]_vars, NEW s \in Sessions, NEW n \in Node,
         NodeOK(s, n)
  PROVE  NodeOK(s, n)'
<1>1. ASSUME NEW m \in Ids, MessageOK(s, n, m) PROVE MessageOK(s, n, m)'
  BY <1>1, OwnStays, Grows DEF MessageOK
<1> QED
  BY <1>1, Grows DEF NodeOK

\* What is left of a node is as good as the node.
LEMMA NodeRest ==
  ASSUME NEW s \in Sessions, NEW hand \in Hand, NodeOK(s, hand.node),
         Rest(hand) # Idle
  PROVE  /\ hand.node.kind = "message"
         /\ NodeOK(s, Rest(hand).node)
         /\ Rest(hand).node.parts = <<"content">>
         /\ \A m \in Ids : IsOf(Rest(hand).node, m) <=> IsOf(hand.node, m)
<1>1. /\ hand.node.parts = <<"keys", "content">>
      /\ Rest(hand).node.kind = hand.node.kind
      /\ Rest(hand).node.ids = hand.node.ids
      /\ Rest(hand).node.mine = hand.node.mine
      /\ Rest(hand).node.parts = <<"content">>
  BY RestIs
<1>2. hand.node.kind = "message"
  BY <1>1 DEF NodeOK
<1>3. <<"content">> \in Parts
  BY DEF Parts
<1> QED
  BY <1>1, <1>2, <1>3 DEF NodeOK, MessageOK, IsOf

\* What the server accepts of a request is new to it, and goes to the queue of
\* another session if it goes to one.
LEMMA AcceptedIs ==
  ASSUME TypeOK, NEW q \in Requests, Accepted(q)
  PROVE  /\ Begun(q) /\ req[q] \in Request /\ q \in Ids
         /\ req[q].pc = "send" /\ req[q].session \in Sessions
         /\ known' = known \cup {<<req[q].session, q>>}
                       \cup (IF req[q].to \in Sessions THEN {<<req[q].to, q>>} ELSE {})
         /\ Message(q, FALSE, <<"content">>) \in Node
         /\ \A t \in Sessions, n \in Node :
              InQueue(t, n)' <=> \/ InQueue(t, n)
                                 \/ /\ t = req[q].to
                                    /\ n = Message(q, FALSE, <<"content">>)
<1>1. /\ req[q].pc = "send" /\ Begun(q) /\ req[q] \in Request /\ q \in Ids
      /\ req[q].session \in Sessions
  BY RequestType DEF Accepted, Ids, Request
<1>2. Message(q, FALSE, <<"content">>) \in Node
  <2>1. <<"content">> \in Parts
    BY DEF Parts
  <2> QED BY <1>1, <2>1, MessageType
<1>3. CASE req[q].to \in Sessions
  <2>1. /\ queue' = [queue EXCEPT ![req[q].to] =
                       Append(@, Message(q, FALSE, <<"content">>))]
        /\ known' = known \cup {<<req[q].session, q>>, <<req[q].to, q>>}
    BY <1>3 DEF Accepted
  <2>2. \A t \in Sessions, n \in Node :
          InQueue(t, n)' <=> \/ InQueue(t, n)
                             \/ /\ t = req[q].to
                                /\ n = Message(q, FALSE, <<"content">>)
    BY <1>2, <1>3, <2>1, InQueueAppend
  <2> QED BY <1>1, <1>2, <1>3, <2>1, <2>2
<1>4. CASE req[q].to \notin Sessions
  <2>1. known' = known \cup {<<req[q].session, q>>} /\ UNCHANGED queue
    BY <1>4 DEF Accepted
  <2> QED BY <1>1, <1>2, <1>4, <2>1 DEF InQueue
<1> QED
  BY <1>3, <1>4

\* Every node that joins a queue is a true one.
LEMMA QueueNodes ==
  ASSUME IInv, [Next]_vars, NEW s \in Sessions, NEW n \in Node, InQueue(s, n)',
         ~InQueue(s, n)
  PROVE  NodeOK(s, n)'
<1> USE DEF IInv
<1>1. ASSUME NEW t \in Sessions, NEW m \in Incoming, Deliver(t, m)
      PROVE  NodeOK(s, n)'
  <2>1. PICK parts \in Parts :
          queue' = [queue EXCEPT ![t] = Append(@, Message(m, author[m] = t, parts))]
    BY <1>1 DEF Deliver
  <2> DEFINE new == Message(m, author[m] = t, parts)
  <2>2. new \in Node /\ m \in Ids
    BY MessageType DEF Ids
  <2>7. queue' = [queue EXCEPT ![t] = Append(@, new)]
    BY <2>1
  <2> HIDE DEF new
  <2>3. t = s /\ n = new
    BY <2>2, <2>7, InQueueAppend
  <2>4. /\ n.kind = "message" /\ n.ids = {m} /\ n.parts = parts
        /\ n.mine = (author[m] = s)
    BY <2>3 DEF Message, new
  <2>5. m \notin Requests /\ <<s, m>> \in known' /\ author' = author
    BY <1>1, <2>3, MessagesAssumption DEF Deliver, server
  <2>6. MessageOK(s, n, m)'
    BY <2>4, <2>5 DEF MessageOK, Own
  <2> QED BY <2>2, <2>4, <2>6 DEF NodeOK
<1>2. ASSUME NEW t \in Sessions, NEW m \in Ids, Resend(t, m)
      PROVE  NodeOK(s, n)'
  <2> DEFINE mine == m \in Incoming /\ author[m] = t
             new == Message(m, mine, <<"content">>)
  <2>1. queue' = [queue EXCEPT ![t] = Append(@, new)]
    BY <1>2 DEF Resend
  <2>2. <<"content">> \in Parts
    BY DEF Parts
  <2>3. new \in Node
    BY <2>2, MessageType
  <2> HIDE DEF new
  <2>4. t = s /\ n = new
    BY <2>1, <2>3, InQueueAppend
  <2>5. /\ n.kind = "message" /\ n.ids = {m} /\ n.parts = <<"content">>
        /\ n.mine = mine
    BY <2>4 DEF Message, new
  <2>6. m \in Incoming /\ m \notin Requests /\ <<s, m>> \in known
    BY <1>2, <2>4, MessagesAssumption DEF Resend, LedgerInv, LedgerOK
  <2>7. known' = known /\ author' = author
    BY <1>2 DEF Resend
  <2>8. MessageOK(s, n, m)'
    BY <2>2, <2>4, <2>5, <2>6, <2>7 DEF MessageOK, Own
  <2> QED BY <2>5, <2>8 DEF NodeOK
<1>3. ASSUME NEW t \in Sessions, NEW ids \in SUBSET Ids, NEW type \in ReceiptTypes,
             SendReceipt(t, ids, type)
      PROVE  NodeOK(s, n)'
  <2>1. t = s /\ n = Receipt(ids, type)
    BY <1>3, ReceiptType, InQueueAppend DEF SendReceipt
  <2>2. n.kind = type /\ n.ids = ids /\ n.parts = <<"receipt">>
    BY <2>1 DEF Receipt
  <2>3. n.kind # "message"
    BY <2>2, ReceiptsAssumption
  <2>4. \A m \in ids : <<s, m, type>> \in cause'
    BY <1>3, <2>1 DEF SendReceipt
  <2> QED BY <2>2, <2>3, <2>4 DEF NodeOK
<1>4. ASSUME NEW t \in Sessions, NEW l \in Loops, Take(t, l)
      PROVE  NodeOK(s, n)'
  BY <1>4, InQueueTail DEF Take
<1>5. ASSUME NEW q \in Requests, Accepted(q)
      PROVE  NodeOK(s, n)'
  <2>1. /\ s = req[q].to /\ n = Message(q, FALSE, <<"content">>)
        /\ <<s, q>> \in known' /\ q \in Ids /\ Begun(q)
    BY <1>5, AcceptedIs
  <2>2. /\ n.kind = "message" /\ n.ids = {q} /\ n.parts = <<"content">>
        /\ n.mine = FALSE
    BY <2>1 DEF Message
  <2>3. req[q].to # req[q].session
    BY <1>5, <2>1 DEF RequestInv, RequestOK, Accepted
  <2>4. req'[q].session # s
    BY <2>1, <2>3, BegunStays
  <2>5. <<"content">> \in Parts
    BY DEF Parts
  <2>6. MessageOK(s, n, q)'
    BY <2>1, <2>2, <2>4, <2>5 DEF MessageOK, Own
  <2> QED BY <2>1, <2>2, <2>6 DEF NodeOK
<1>6. CASE UNCHANGED queue
  BY <1>6 DEF InQueue
<1> QED
  BY <1>1, <1>2, <1>3, <1>4, <1>5, <1>6, QueueSteps DEF ServerStep

\* Every node that comes into a hand is a true one.
LEMMA HandNodes ==
  ASSUME IInv, [Next]_vars, NEW s \in Sessions, NEW l \in Loops, NEW n \in Node,
         Holds(s, l, n)'
  PROVE  OnItsWay(s, n) \/ NodeOK(s, n)
<1> USE DEF IInv, OnItsWay
<1>1. ASSUME NEW t \in Sessions, NEW k \in Loops, LoopStep(t, k)
      PROVE  OnItsWay(s, n) \/ NodeOK(s, n)
  <2>1. CASE Take(t, k)
    <3>1. [stage |-> "check", node |-> Head(queue[t]), current |-> TRUE] \in Hand
      BY <2>1, QueueTail DEF Take, Hand
    <3>2. InQueue(t, Head(queue[t]))
      BY <2>1, QueueTail DEF Take, InQueue
    <3> QED BY <2>1, <3>1, <3>2, HoldsAfter DEF Take
  <2>2. CASE loop[t][k] \in Hand /\ loop[t][k] # Idle
             /\ \E dropped \in BOOLEAN : Leave(t, k, dropped)
    <3>1. /\ Hold(t, k, Rest(loop[t][k])) /\ Rest(loop[t][k]) \in Hand \cup {Idle}
          /\ Holds(t, k, loop[t][k].node)
      BY <2>2, LeaveEffect DEF Holds
    <3>2. NodeOK(t, loop[t][k].node)
      BY <2>2, <3>1 DEF NodeInv, Hand
    <3>3. Rest(loop[t][k]) # Idle => NodeOK(t, Rest(loop[t][k]).node)
      BY <2>2, <3>2, NodeRest
    <3> QED BY <3>1, <3>3, HoldsAfter
  <2>3. ASSUME NEW hand \in Hand, Hold(t, k, hand), loop[t][k] # Idle,
               hand.node = loop[t][k].node
        PROVE  OnItsWay(s, n)
    BY <2>3, HoldsAfter DEF Holds
  <2> QED BY <1>1, <2>1, <2>2, <2>3, HandMoves
<1>2. ASSUME NEW t \in Sessions, ReplaceClient(t)
      PROVE  Holds(s, l, n)
  <2>1. loop' = [loop EXCEPT ![t] =
                   [k \in Loops |-> IF loop[t][k] = Idle THEN Idle
                                    ELSE [loop[t][k] EXCEPT !.current = FALSE]]]
    BY <1>2 DEF ReplaceClient
  <2>2. \/ loop'[s][l] = loop[s][l]
        \/ loop[s][l] # Idle /\ loop'[s][l] = [loop[s][l] EXCEPT !.current = FALSE]
    BY <2>1 DEF TypeOK
  <2> QED BY <2>2, HandType DEF Holds, Hand
<1>3. CASE Restart
  BY <1>3 DEF Restart, Holds
<1>4. CASE UNCHANGED loop
  BY <1>4 DEF Holds
<1> QED
  BY <1>1, <1>2, <1>3, <1>4, LoopSteps

\* Every step keeps the nodes true.
LEMMA NodeStep == IInv /\ [Next]_vars => NodeInv'
<1> SUFFICES ASSUME IInv, [Next]_vars, NEW s \in Sessions, NEW n \in Node,
                    OnItsWay(s, n)'
             PROVE  NodeOK(s, n)'
  BY DEF NodeInv
<1>1. NodeOK(s, n) => NodeOK(s, n)'
  BY NodeStays DEF IInv
<1>2. CASE InQueue(s, n)'
  BY <1>1, <1>2, QueueNodes DEF IInv, NodeInv, OnItsWay
<1>3. CASE \E l \in Loops : Holds(s, l, n)'
  BY <1>1, <1>3, HandNodes DEF IInv, NodeInv
<1> QED
  BY <1>2, <1>3 DEF OnItsWay

-----------------------------------------------------------------------------
(* What is known, stored, owed and lost.                                      *)

\* A node that a loop has in hand is a true one, of one message or of receipts.
LEMMA HeldNode ==
  ASSUME TypeOK, NodeInv, NEW s \in Sessions, NEW l \in Loops, loop[s][l] # Idle
  PROVE  /\ loop[s][l] \in Hand /\ loop[s][l].node \in Node
         /\ Holds(s, l, loop[s][l].node)
         /\ NodeOK(s, loop[s][l].node)
<1>1. loop[s][l] \in Hand /\ loop[s][l].node \in Node
  BY HandType DEF Hand
<1>2. Holds(s, l, loop[s][l].node)
  BY DEF Holds
<1> QED
  BY <1>1, <1>2 DEF NodeInv, OnItsWay

\* A true node of a message says the truth of that message.
LEMMA NodeOf ==
  ASSUME NEW s \in Sessions, NEW n \in Node, NodeOK(s, n), NEW m \in Ids, IsOf(n, m)
  PROVE  MessageOK(s, n, m)
  BY DEF NodeOK, MessageOK, IsOf

\* Keys are found in messages written on phones only.
LEMMA KeysNode ==
  ASSUME NEW s \in Sessions, NEW n \in Node, NodeOK(s, n), KeysFirst(n)
  PROVE  /\ n.kind = "message"
         /\ n.parts \in {<<"keys">>, <<"keys", "content">>}
         /\ \A m \in n.ids : m \in Incoming
<1>1. n.parts # <<"receipt">> /\ n.parts # <<"content">>
  BY DEF KeysFirst
<1>2. n.kind = "message"
  BY <1>1 DEF NodeOK
<1>3. PICK m \in Ids : MessageOK(s, n, m)
  BY <1>2 DEF NodeOK
<1> QED
  BY <1>1, <1>2, <1>3 DEF MessageOK, Parts, Ids

\* What comes to be known is delivered or accepted in that step.
LEMMA KnownChange ==
  ASSUME TypeOK, [Next]_vars, NEW s \in Sessions, NEW m \in Ids,
         <<s, m>> \in known', <<s, m>> \notin known
  PROVE  \/ m \in Incoming /\ Deliver(s, m)
         \/ /\ m \in Requests /\ Accepted(m) /\ (Send(m) \/ SendUnanswered(m))
            /\ s \in {req[m].session, req[m].to}
<1>1. CASE UNCHANGED known
  BY <1>1
<1>2. ASSUME NEW t \in Sessions, NEW i \in Incoming, Deliver(t, i)
      PROVE  m \in Incoming /\ Deliver(s, m)
  BY <1>2 DEF Deliver
<1>3. ASSUME NEW q \in Requests, Send(q) \/ SendUnanswered(q)
      PROVE  /\ m \in Requests /\ Accepted(m) /\ (Send(m) \/ SendUnanswered(m))
             /\ s \in {req[m].session, req[m].to}
  <2>1. Accepted(q)
    BY <1>3 DEF Send, SendUnanswered
  <2>2. known' \subseteq known \cup {<<req[q].session, q>>, <<req[q].to, q>>}
    BY <2>1, AcceptedIs
  <2> QED BY <1>3, <2>1, <2>2
<1>4. \/ UNCHANGED known
      \/ \E t \in Sessions, i \in Incoming : Deliver(t, i)
      \/ \E q \in Requests : Send(q) \/ SendUnanswered(q)
  BY KnownSteps
<1> QED
  BY <1>1, <1>2, <1>3, <1>4

\* What is lost was in hand, or a request was about to save it.
LEMMA LostChange ==
  ASSUME TypeOK, [Next]_vars, NEW s \in Sessions, NEW m \in Ids,
         <<s, m>> \in lost', <<s, m>> \notin lost
  PROVE  \/ InHand(s, m) \/ Sending(s, m)
         \/ m \in Requests /\ SendUnanswered(m) /\ s = req[m].session
<1>1. ASSUME NEW t \in Sessions, NEW l \in Loops, Check(t, l) \/ WriteFails(t, l),
             ~UNCHANGED lost
      PROVE  InHand(s, m)
  <2>1. loop[t][l] # Idle /\ Leave(t, l, TRUE)
    BY <1>1, HandType DEF Check, WriteFails
  <2>3. lost' = IF loop[t][l].node.kind = "message"
                THEN lost \cup ({t} \X loop[t][l].node.ids) ELSE lost
    BY <2>1, LeaveEffect
  <2>2. loop[t][l].node.kind = "message" /\ s = t /\ m \in loop[t][l].node.ids
    BY <2>3
  <2> QED BY <2>1, <2>2 DEF InHand
<1>2. ASSUME NEW q \in Requests, SendUnanswered(q)
      PROVE  q = m /\ s = req[m].session
  BY <1>2 DEF SendUnanswered
<1>3. ASSUME NEW q \in Requests, SaveFails(q)
      PROVE  Sending(s, m)
  BY <1>3, RequestType DEF SaveFails, Sending
<1>4. CASE Restart
  BY <1>4 DEF Restart
<1>5. \/ UNCHANGED lost
      \/ \E t \in Sessions, l \in Loops : Check(t, l) \/ WriteFails(t, l)
      \/ \E q \in Requests : SendUnanswered(q) \/ SaveFails(q)
      \/ Restart
  <2>1. \A t \in Sessions, l \in Loops : EmitNode(t, l) => UNCHANGED lost
    BY DEF EmitNode, Leave
  <2> QED
    BY <2>1 DEF Next, ServerStep, LoopStep, RequestStep, Deliver, Resend,
       SendReceipt, ReplaceClient, Take, SaveIncoming, ApplyReceipt,
       Begin, Find, Refuse, Send, Mark, Save, EmitSent, vars
<1> QED
  BY <1>1, <1>2, <1>3, <1>4, <1>5

\* What comes to be owed was in hand with the sender's keys, and no longer is.
LEMMA OwedChange ==
  ASSUME TypeOK, NodeInv, [Next]_vars, NEW s \in Sessions, NEW m \in Ids,
         <<s, m>> \in owed', <<s, m>> \notin owed
  PROVE  \E l \in Loops : /\ Has(s, l, m) /\ KeysFirst(loop[s][l].node)
                         /\ loop'[s][l] = Idle
<1>1. ASSUME NEW t \in Sessions, NEW l \in Loops, LoopStep(t, l), ~UNCHANGED owed
      PROVE  /\ Has(s, l, m) /\ KeysFirst(loop[s][l].node)
             /\ loop'[s][l] = Idle
  <2>1. /\ loop[t][l] # Idle
        /\ loop'[t][l] = Rest(loop[t][l])
        /\ owed' = IF loop[t][l].node.parts = <<"keys">>
                   THEN owed \cup ({t} \X loop[t][l].node.ids) ELSE owed
    <3>1. CASE Take(t, l) \/ SaveIncoming(t, l) \/ ApplyReceipt(t, l)
      BY <1>1, <3>1 DEF Take, SaveIncoming, ApplyReceipt, server
    <3>5. ASSUME loop[t][l] # Idle, NEW dropped \in BOOLEAN, Leave(t, l, dropped)
          PROVE  /\ loop'[t][l] = Rest(loop[t][l])
                 /\ owed' = IF loop[t][l].node.parts = <<"keys">>
                            THEN owed \cup ({t} \X loop[t][l].node.ids) ELSE owed
      <4>1. /\ Hold(t, l, Rest(loop[t][l])) /\ Rest(loop[t][l]) \in Hand \cup {Idle}
            /\ owed' = IF loop[t][l].node.parts = <<"keys">>
                       THEN owed \cup ({t} \X loop[t][l].node.ids) ELSE owed
        BY <3>5, LeaveEffect
      <4> QED BY <4>1, HoldEffect
    <3>2. CASE Check(t, l)
      <4>1. Leave(t, l, TRUE) /\ loop[t][l] # Idle
        BY <1>1, <3>2, HandType DEF Check
      <4> QED BY <3>5, <4>1
    <3>3. CASE WriteFails(t, l)
      <4>1. Leave(t, l, TRUE) /\ loop[t][l] # Idle
        BY <3>3, HandType DEF WriteFails
      <4> QED BY <3>5, <4>1
    <3>4. CASE EmitNode(t, l)
      <4>1. Leave(t, l, FALSE) /\ loop[t][l] # Idle
        BY <3>4, HandType DEF EmitNode
      <4> QED BY <3>5, <4>1
    <3> QED BY <1>1, <3>1, <3>2, <3>3, <3>4 DEF LoopStep
  <2>2. s = t /\ m \in loop[t][l].node.ids /\ loop[t][l].node.parts = <<"keys">>
    BY <2>1
  <2>3. KeysFirst(loop[t][l].node)
    BY <2>2 DEF KeysFirst
  <2>4. loop[t][l].node.kind = "message" /\ loop[t][l] \in Hand
    BY <2>1, <2>3, HeldNode, KeysNode
  <2>5. loop'[t][l] = Idle
    BY <2>1, <2>2, <2>4, RestIs
  <2> QED BY <2>1, <2>2, <2>3, <2>4, <2>5 DEF Has, IsOf
<1>2. CASE Restart
  <2>1. PICK l \in Loops : /\ loop[s][l] # Idle /\ m \in loop[s][l].node.ids
                           /\ KeysFirst(loop[s][l].node)
    BY <1>2 DEF Restart, HasKeysInHand, KeysFirst
  <2>2. loop[s][l].node.kind = "message"
    BY <2>1, HeldNode, KeysNode
  <2>3. loop'[s][l] = Idle
    BY <1>2 DEF Restart
  <2> QED BY <2>1, <2>2, <2>3 DEF Has, IsOf
<1>3. \/ \E t \in Sessions, l \in Loops : LoopStep(t, l)
      \/ Restart \/ owed' \subseteq owed
  BY DEF Next, ServerStep, RequestStep, Deliver, Resend, SendReceipt,
     ReplaceClient, Begin, Find, Refuse, Send, SendUnanswered, Mark, Save,
     SaveFails, EmitSent, vars, server
<1> QED
  BY <1>1, <1>2, <1>3

\* A request whose message was sent does not go back before the sending.
LEMMA SentStays ==
  ASSUME TypeOK, [Next]_vars, NEW q \in Requests, Begun(q),
         req[q].pc \notin {"find", "send"}
  PROVE  req'[q].pc \notin {"find", "send"}
<1>1. ASSUME NEW r \in Requests, RequestStep(r)
      PROVE  req'[q].pc \notin {"find", "send"}
  <2>1. CASE r # q
    BY <1>1, <2>1, RequestMoves
  <2>2. CASE r = q
    <3>1. /\ ~Find(q) /\ ~Refuse(q) /\ ~Send(q) /\ ~SendUnanswered(q)
          /\ \A op \in Operations, s \in Sessions, to \in Accounts, ref \in Ids :
               ~Begin(q, op, s, to, ref)
      BY DEF Find, Refuse, Send, SendUnanswered, Accepted, Begin, Begun
    <3>2. \E pc \in {"save", "emit", "failed", "done"} : Goto(q, pc)
      BY <1>1, <2>2, <3>1 DEF RequestStep, Mark, Save, SaveFails, EmitSent
    <3> QED BY <3>2, GotoEffect
  <2> QED BY <2>1, <2>2
<1>2. CASE Restart
  <2>1. req[q] \in Request
    BY RequestType
  <2>2. req'[q] = req[q] \/ req'[q] = [req[q] EXCEPT !.pc = "failed"]
    BY <1>2 DEF Restart
  <2> QED BY <2>1, <2>2 DEF Request
<1>3. CASE UNCHANGED req
  BY <1>3
<1> QED
  BY <1>1, <1>2, <1>3, RequestSteps

\* What a loop saves is a message, of which it has a true node in hand.
LEMMA SavedIs ==
  ASSUME IInv, NEW s \in Sessions, NEW m \in Ids, NEW l \in Loops, SavedBy(s, l, m)
  PROVE  MessageOK(s, loop[s][l].node, m) /\ Has(s, l, m)
<1>1. loop[s][l] # Idle /\ IsOf(loop[s][l].node, m)
  BY HandType DEF SavedBy, SaveIncoming, IsOf, IInv
<1> QED
  BY <1>1, HeldNode, NodeOf DEF Has, IInv

\* What is stored in a step: by a loop, which has a node for it in hand, or by
\* the request that sent it.
LEMMA StoredChange ==
  ASSUME IInv, [Next]_vars, NEW s \in Sessions, NEW m \in Ids,
         Stored(s, m)', ~Stored(s, m)
  PROVE  \/ \E l \in Loops : SavedBy(s, l, m) /\ MessageOK(s, loop[s][l].node, m)
                              /\ Has(s, l, m)
         \/ m \in Requests /\ SentBy(m, s, m) /\ Begun(m) /\ req[m].pc = "save"
<1>1. rows'[s][m] # rows[s][m]
  BY DEF Stored
<1>2. ASSUME NEW l \in Loops, SavedBy(s, l, m)
      PROVE  MessageOK(s, loop[s][l].node, m) /\ Has(s, l, m)
  BY <1>2, SavedIs
<1>3. \A l \in Loops : ~ReceivedBy(s, l, m)
  BY DEF ReceivedBy, Marked
<1>4. \A q \in Requests : ~EditedBy(q, s, m)
  BY DEF EditedBy, Marked
<1>5. ASSUME NEW q \in Requests, SentBy(q, s, m)
      PROVE  q = m /\ Begun(m) /\ req[m].pc = "save"
  BY <1>5, RequestType DEF SentBy, Save, IInv
<1> QED
  BY <1>1, <1>2, <1>3, <1>4, <1>5, RowChange DEF IInv

\* Every step keeps the ledger.
LEMMA LedgerStep == IInv /\ [Next]_vars => LedgerInv'
<1> SUFFICES ASSUME IInv, [Next]_vars, NEW s \in Sessions, NEW m \in Ids
             PROVE  LedgerOK(s, m)'
  BY DEF LedgerInv
<1> USE DEF IInv
<1>1. LedgerOK(s, m) /\ known \subseteq known'
  BY Grows DEF LedgerInv
<1>3. ASSUME NEW l \in Loops, Has(s, l, m) PROVE MessageOK(s, loop[s][l].node, m)
  BY <1>3, HeldNode, NodeOf DEF Has
<1>4. InHand(s, m) => <<s, m>> \in known
  BY <1>3 DEF InHand, Has, IsOf, MessageOK
<1>5. Sending(s, m) => <<s, m>> \in known
  BY DEF Sending, RequestInv, RequestOK
<1>6. Stored(s, m)' => <<s, m>> \in known'
  BY <1>1, StoredChange DEF MessageOK, LedgerOK, SentBy, RequestInv, RequestOK
<1>7. <<s, m>> \in lost' => <<s, m>> \in known'
  <2>1. SendUnanswered(m) /\ m \in Requests => <<req[m].session, m>> \in known'
    BY AcceptedIs DEF SendUnanswered
  <2> QED BY <1>1, <1>4, <1>5, <2>1, LostChange DEF LedgerOK
<1>8. <<s, m>> \in owed' => <<s, m>> \in known' /\ m \in Incoming
  <2>1. CASE <<s, m>> \in owed
    BY <1>1, <2>1 DEF LedgerOK
  <2>2. CASE <<s, m>> \in owed' /\ <<s, m>> \notin owed
    <3>1. PICK l \in Loops : Has(s, l, m) /\ KeysFirst(loop[s][l].node)
      BY <2>2, OwedChange
    <3>2. m \in Incoming
      BY <3>1, HeldNode, KeysNode DEF Has, IsOf
    <3> QED BY <1>1, <1>3, <3>1, <3>2 DEF MessageOK
  <2> QED BY <2>1, <2>2
<1>9. ASSUME m \in Requests, <<s, m>> \in known'
      PROVE  Begun(m)' /\ req'[m].pc \notin {"find", "send"}
  <2>1. CASE <<s, m>> \in known
    BY <1>1, <1>9, <2>1, BegunStays, SentStays DEF LedgerOK
  <2>2. CASE <<s, m>> \notin known
    <3>1. Accepted(m) /\ (Send(m) \/ SendUnanswered(m))
      BY <1>9, <2>2, KnownChange, MessagesAssumption
    <3>2. Begun(m)
      BY <1>9, <3>1, AcceptedIs
    <3>3. \E pc \in {"mark", "save", "failed"} : Goto(m, pc)
      BY <3>1 DEF Send, SendUnanswered
    <3> QED BY <1>9, <3>2, <3>3, GotoEffect
  <2> QED BY <2>1, <2>2
<1> QED
  BY <1>6, <1>7, <1>8, <1>9 DEF LedgerOK

\* Past its write, a message in hand is stored.
LEMMA HandStep == IInv /\ [Next]_vars => HandInv'
<1> SUFFICES ASSUME IInv, [Next]_vars, NEW s \in Sessions, NEW l \in Loops
             PROVE  HandOK(s, l)'
  BY DEF HandInv
<1> USE DEF IInv
<1>1. ASSUME NEW m \in Ids PROVE Stored(s, m) => Stored(s, m)'
  BY StoredStays
<1>2. ASSUME loop'[s][l] # Idle, loop[s][l] # Idle, loop'[s][l] \in Hand,
             loop'[s][l].node = loop[s][l].node,
             loop'[s][l].stage = loop[s][l].stage
      PROVE  HandOK(s, l)'
  <2>1. HandOK(s, l) /\ \A m \in loop[s][l].node.ids : m \in Ids
    BY <1>2, HeldNode DEF HandInv, Node
  <2> QED BY <1>1, <1>2, <2>1 DEF HandOK
<1>3. CASE loop'[s][l] = loop[s][l]
  <2>1. CASE loop[s][l] = Idle
    BY <1>3, <2>1 DEF HandOK, Idle
  <2>2. CASE loop[s][l] # Idle
    BY <1>2, <1>3, <2>2, HandType
  <2> QED BY <2>1, <2>2
<1>4. ASSUME NEW t \in Sessions, NEW k \in Loops, LoopStep(t, k),
             loop'[s][l] # loop[s][l]
      PROVE  HandOK(s, l)'
  <2>1. CASE Take(t, k)
    <3> DEFINE hand == [stage |-> "check", node |-> Head(queue[t]), current |-> TRUE]
    <3>1. hand \in Hand /\ hand.stage = "check"
      BY <2>1, QueueTail DEF Take, Hand
    <3>2. Hold(t, k, hand)
      BY <2>1 DEF Take
    <3>3. loop'[s][l].stage = "check"
      BY <1>4, <3>1, <3>2, HoldEffect
    <3> QED BY <3>3 DEF HandOK
  <2>2. ASSUME loop[t][k] \in Hand, loop[t][k] # Idle, NEW dropped \in BOOLEAN,
               Leave(t, k, dropped)
        PROVE  HandOK(s, l)'
    <3>1. /\ Hold(t, k, Rest(loop[t][k])) /\ Rest(loop[t][k]) \in Hand \cup {Idle}
      BY <2>2, LeaveEffect
    <3>2. loop'[s][l] = Rest(loop[t][k])
      BY <1>4, <3>1, HoldEffect
    <3>3. Rest(loop[t][k]).stage # "emit"
      BY <2>2, RestIs DEF Idle
    <3> QED BY <3>2, <3>3 DEF HandOK
  <2>3. ASSUME NEW hand \in Hand, Hold(t, k, hand), loop[t][k] # Idle,
               hand.node = loop[t][k].node, hand.stage \in {"write", "emit"},
               hand.stage = "emit" => SaveIncoming(t, k) \/ ApplyReceipt(t, k)
        PROVE  HandOK(s, l)'
    <3>1. s = t /\ l = k /\ loop'[s][l] = hand
      BY <1>4, <2>3, HoldEffect
    <3>2. CASE hand.stage = "write"
      BY <3>1, <3>2 DEF HandOK
    <3>3. CASE SaveIncoming(t, k)
      <4>1. PICK m \in hand.node.ids : rows' = Upsert(s, m, IncomingRow(loop[s][l]))
        BY <2>3, <3>1, <3>3 DEF SaveIncoming
      <4>2. m \in Ids /\ IncomingRow(loop[s][l]) \in Row
        BY <2>3, <3>1, HeldNode, IncomingRowType DEF Node
      <4>3. rows'[s][m] \in Row
        BY <4>1, <4>2, UpsertType
      <4>4. Stored(s, m)'
        BY <4>3 DEF Stored, Row, NoRow
      <4>5. IsOf(hand.node, m)
        BY <2>3, <3>1, <3>3 DEF SaveIncoming, IsOf
      <4>6. hand.node.ids = {m}
        BY <2>3, <3>1, <4>2, <4>5, HeldNode, NodeOf DEF MessageOK
      <4> QED BY <3>1, <4>4, <4>6 DEF HandOK
    <3>4. CASE ApplyReceipt(t, k)
      BY <2>3, <3>1, <3>4 DEF ApplyReceipt, HandOK
    <3> QED BY <2>3, <3>2, <3>3, <3>4
  <2> QED BY <1>4, <2>1, <2>2, <2>3, HandMoves
<1>5. ASSUME NEW t \in Sessions, ReplaceClient(t), loop'[s][l] # loop[s][l]
      PROVE  HandOK(s, l)'
  <2>1. loop' = [loop EXCEPT ![t] =
                   [k \in Loops |-> IF loop[t][k] = Idle THEN Idle
                                    ELSE [loop[t][k] EXCEPT !.current = FALSE]]]
    BY <1>5 DEF ReplaceClient
  <2>2. /\ loop[s][l] # Idle /\ loop'[s][l] = [loop[s][l] EXCEPT !.current = FALSE]
    BY <1>5, <2>1 DEF TypeOK
  <2>3. loop[s][l] \in Hand
    BY <2>2, HandType
  <2>4. /\ loop'[s][l] \in Hand /\ loop'[s][l].node = loop[s][l].node
        /\ loop'[s][l].stage = loop[s][l].stage /\ loop'[s][l] # Idle
    BY <2>2, <2>3 DEF Hand, Idle
  <2> QED BY <1>2, <2>2, <2>4
<1>6. CASE Restart
  BY <1>6 DEF Restart, HandOK, Idle
<1>7. CASE UNCHANGED loop
  BY <1>3, <1>7
<1> QED
  BY <1>3, <1>4, <1>5, <1>6, <1>7, LoopSteps

\* The sender's own row is written by its request, by nobody else.
LEMMA SenderStores ==
  ASSUME IInv, [Next]_vars, NEW q \in Requests, NEW s \in Sessions,
         Begun(q), req[q].session = s, Stored(s, q)', ~Stored(s, q)
  PROVE  SentBy(q, s, q) /\ req[q].pc = "save"
<1>1. \A l \in Loops : ~MessageOK(s, loop[s][l].node, q)
  BY DEF MessageOK, Own
<1> QED
  BY <1>1, StoredChange DEF Ids

\* A request keeps to its order: known before it is marked and saved, stored
\* before it is announced and answered.
LEMMA RequestInvStep == IInv /\ [Next]_vars => RequestInv'
<1> SUFFICES ASSUME IInv, [Next]_vars, NEW q \in Requests, Begun(q)'
             PROVE  RequestOK(q)'
  BY DEF RequestInv, RequestOK
<1> USE DEF IInv
<1>1. /\ known \subseteq known' /\ cause \subseteq cause' /\ q \in Ids
      /\ \A s \in Sessions : Stored(s, q) => Stored(s, q)'
  BY Grows, StoredStays DEF Ids
<1>2. Begun(q) => req[q] \in Request /\ req[q].session \in Sessions
  BY RequestType DEF Request
<1>3. CASE req'[q] = req[q]
  <2>1. Begun(q) /\ RequestOK(q)
    BY <1>3 DEF Begun, RequestInv
  <2>2. ~Save(q)
    <3>1. Save(q) => req'[q].pc = "emit" /\ req[q].pc = "save"
      BY <2>1, GotoEffect DEF Save
    <3> QED BY <1>3, <3>1
  <2>3. Stored(req[q].session, q)' => Stored(req[q].session, q)
    <3> SUFFICES ASSUME rows'[req[q].session][q] # NoRow,
                        ~Stored(req[q].session, q)
                 PROVE  FALSE
      BY <1>3 DEF Stored
    <3> DEFINE s == req[q].session
    <3>1. PICK t \in Sessions : t = s
      BY <1>2, <2>1
    <3>2. Stored(t, q)' /\ ~Stored(t, q)
      BY <3>1 DEF Stored
    <3> QED BY <2>1, <2>2, <3>1, <3>2, SenderStores DEF SentBy
  <2> QED BY <1>1, <1>2, <1>3, <2>1, <2>3 DEF RequestOK, Begun, Stored
<1>4. CASE RequestStep(q) /\ Begun(q)
  <2>1. ASSUME NEW pc \in {"send", "mark", "save", "emit", "done", "failed"},
               Goto(q, pc)
        PROVE  /\ req'[q].pc = pc /\ req'[q].session = req[q].session
               /\ req'[q].to = req[q].to /\ req'[q].ref = req[q].ref
    BY <1>4, <2>1, GotoEffect
  <2>2. RequestOK(q) /\ req[q].to # req[q].session
    BY <1>4 DEF RequestInv, RequestOK
  <2>3. ASSUME Goto(q, "send") \/ Goto(q, "failed")
        PROVE  RequestOK(q)'
    BY <2>1, <2>2, <2>3 DEF RequestOK
  <2>4. CASE Send(q)
    <3>1. /\ <<req[q].session, q>> \in known'
          /\ req[q].op = "edit" => <<req[q].session, req[q].ref, "edited">> \in cause'
      BY <2>4, AcceptedIs DEF Send, Accepted
    <3>2. ~Stored(req[q].session, q) /\ rows' = rows
      BY <1>1, <1>2, <1>4, <2>4 DEF Send, Accepted, LedgerInv, LedgerOK
    <3>3. Goto(q, IF req[q].op = "edit" THEN "mark" ELSE "save")
      BY <2>4 DEF Send
    <3>4. CASE req[q].op = "edit"
      <4>1. Goto(q, "mark")
        BY <3>3, <3>4
      <4> QED BY <2>1, <2>2, <3>1, <3>2, <3>4, <4>1 DEF RequestOK, Stored
    <3>5. CASE req[q].op # "edit"
      <4>1. Goto(q, "save")
        BY <3>3, <3>5
      <4> QED BY <2>1, <2>2, <3>1, <3>2, <4>1 DEF RequestOK, Stored
    <3> QED BY <3>4, <3>5
  <2>5. CASE Mark(q)
    <3>1. Goto(q, "save") /\ req[q].pc = "mark"
      BY <2>5 DEF Mark
    <3>2. /\ ~Stored(req[q].session, q) /\ <<req[q].session, q>> \in known
      BY <1>4, <2>2, <3>1 DEF RequestOK
    <3>3. PICK s \in Sessions : s = req[q].session
      BY <1>2, <1>4
    <3>4. ~Stored(s, q)'
      BY <1>4, <3>1, <3>2, <3>3, SenderStores
    <3> QED BY <1>1, <2>1, <2>2, <3>1, <3>2, <3>3, <3>4 DEF RequestOK, Stored
  <2>6. CASE Save(q)
    <3>1. Goto(q, "emit") /\ req[q].pc = "save"
      BY <2>6 DEF Save
    <3>2. rows'[req[q].session][q] \in Row
      BY <1>1, <1>2, <1>4, <2>6, OutboundRowType, UpsertType DEF Save
    <3>3. rows'[req[q].session][q] # NoRow
      BY <3>2 DEF Row, NoRow
    <3> QED BY <1>1, <1>4, <2>1, <2>2, <3>1, <3>3 DEF RequestOK, Stored
  <2>7. CASE EmitSent(q)
    <3>1. Goto(q, "done") /\ req[q].pc = "emit" /\ rows' = rows
      BY <2>7 DEF EmitSent
    <3> QED BY <1>1, <1>4, <2>1, <2>2, <3>1 DEF RequestOK, Stored
  <2>8. CASE Find(q) \/ Refuse(q) \/ SendUnanswered(q) \/ SaveFails(q)
    <3>1. Goto(q, "send") \/ Goto(q, "failed")
      BY <2>8 DEF Find, Refuse, SendUnanswered, SaveFails
    <3> QED BY <2>3, <3>1
  <2>9. \A op \in Operations, s \in Sessions, to \in Accounts, ref \in Ids :
          ~Begin(q, op, s, to, ref)
    BY <1>4 DEF Begin, Begun
  <2> QED BY <1>4, <2>4, <2>5, <2>6, <2>7, <2>8, <2>9 DEF RequestStep
<1>5. CASE RequestStep(q) /\ ~Begun(q)
  <2>1. ASSUME NEW op \in Operations, NEW s \in Sessions, NEW to \in Accounts,
               NEW ref \in Ids, Begin(q, op, s, to, ref)
        PROVE  RequestOK(q)'
    <3>1. /\ req'[q].pc \in {"find", "send"} /\ req'[q].to = to
          /\ req'[q].session = s /\ to # s
      BY <2>1 DEF Begin, TypeOK
    <3> QED BY <3>1 DEF RequestOK
  <2>2. ~( \/ Find(q) \/ Refuse(q) \/ Send(q) \/ SendUnanswered(q) \/ Mark(q)
           \/ Save(q) \/ SaveFails(q) \/ EmitSent(q))
    BY <1>5, RequestType DEF Find, Refuse, Send, SendUnanswered, Accepted, Mark,
       Save, SaveFails, EmitSent
  <2> QED BY <1>5, <2>1, <2>2 DEF RequestStep
<1>6. CASE Restart
  <2>1. \/ req'[q] = req[q]
        \/ Begun(q) /\ req'[q] = [req[q] EXCEPT !.pc = "failed"]
    BY <1>6 DEF Restart
  <2>2. CASE Begun(q) /\ req'[q] = [req[q] EXCEPT !.pc = "failed"]
    <3>1. req'[q].pc = "failed" /\ req'[q].to = req[q].to
          /\ req'[q].session = req[q].session
      BY <1>2, <2>2 DEF Request
    <3> QED BY <2>2, <3>1 DEF RequestInv, RequestOK
  <2> QED BY <1>3, <2>1, <2>2
<1>7. ASSUME NEW r \in Requests, RequestStep(r), r # q
      PROVE  req'[q] = req[q]
  BY <1>7, RequestMoves
<1> QED
  BY <1>3, <1>4, <1>5, <1>6, <1>7, RequestSteps

-----------------------------------------------------------------------------
(* Sides and statuses.                                                        *)

\* Every step keeps a row on the side of who wrote the message: a loop saves it
\* there, and so does the request that sent it, in whatever order.
LEMMA SideStep == IInv /\ [Next]_vars => OwnSide'
<1> SUFFICES ASSUME IInv, [Next]_vars, NEW s \in Sessions, NEW m \in Ids,
                    Stored(s, m)'
             PROVE  rows'[s][m].direction = "outbound" <=> Own(s, m)'
  BY DEF OwnSide, Own
<1> USE DEF IInv
<1>1. <<s, m>> \in known => (Own(s, m)' <=> Own(s, m))
  BY OwnStays
<1>2. Stored(s, m) => <<s, m>> \in known
                        /\ (rows[s][m].direction = "outbound" <=> Own(s, m))
  BY DEF LedgerInv, LedgerOK, OwnSide, Own
<1>3. CASE Stored(s, m) /\ rows'[s][m].direction = rows[s][m].direction
  BY <1>1, <1>2, <1>3
<1>4. CASE rows'[s][m] = rows[s][m]
  BY <1>3, <1>4 DEF Stored
<1>5. ASSUME NEW l \in Loops, SavedBy(s, l, m)
      PROVE  rows'[s][m].direction = "outbound" <=> Own(s, m)'
  <2>1. MessageOK(s, loop[s][l].node, m)
    BY <1>5, SavedIs
  <2>2. rows'[s][m].direction = "outbound" <=> loop[s][l].node.mine
    BY <1>5 DEF SavedBy, IncomingRow
  <2> QED BY <1>1, <2>1, <2>2 DEF MessageOK
<1>6. ASSUME NEW q \in Requests, SentBy(q, s, m)
      PROVE  rows'[s][m].direction = "outbound" <=> Own(s, m)'
  <2>1. m = q /\ s = req[q].session /\ rows'[s][m].direction = "outbound"
    BY <1>6 DEF SentBy, OutboundRow
  <2>2. Begun(q)
    BY <1>6, RequestType DEF SentBy, Save
  <2> QED BY <2>1, <2>2, BegunStays DEF Own
<1>7. /\ \A l \in Loops : ReceivedBy(s, l, m) =>
           Stored(s, m) /\ rows'[s][m].direction = rows[s][m].direction
      /\ \A q \in Requests : EditedBy(q, s, m) =>
           Stored(s, m) /\ rows'[s][m].direction = rows[s][m].direction
  BY DEF ReceivedBy, EditedBy, Marked
<1> QED
  BY <1>3, <1>4, <1>5, <1>6, <1>7, RowChange

\* Every step keeps the statuses earned: one is set by a receipt in hand, or by
\* a request that had its edit accepted.
LEMMA StatusStep == IInv /\ [Next]_vars => StatusIsEarned'
<1> SUFFICES ASSUME IInv, [Next]_vars, NEW s \in Sessions, NEW m \in Ids,
                    rows'[s][m] # NoRow, NEW status, status = rows'[s][m].status
             PROVE  Means(s, m, status)'
  BY DEF StatusIsEarned, Stored, Means
<1> USE DEF IInv
<1>1. Means(s, m, status) => Means(s, m, status)'
  BY Grows DEF Means
<1>2. CASE rows'[s][m] = rows[s][m]
  BY <1>1, <1>2 DEF StatusIsEarned, Stored
<1>3. CASE \E l \in Loops : SavedBy(s, l, m)
  <2>1. status \in {"sent", "received"}
    BY <1>3 DEF SavedBy, IncomingRow
  <2> QED BY <2>1 DEF Means
<1>4. CASE \E q \in Requests : SentBy(q, s, m)
  <2>1. status = "sent"
    BY <1>4 DEF SentBy, OutboundRow
  <2> QED BY <2>1 DEF Means
<1>5. ASSUME NEW l \in Loops, ReceivedBy(s, l, m)
      PROVE  Means(s, m, status)'
  <2>1. /\ loop[s][l].stage = "write" /\ loop[s][l].node.kind # "message"
        /\ m \in loop[s][l].node.ids
        /\ status = ResolveReceiptStatus(loop[s][l].node.kind)
    BY <1>5 DEF ReceivedBy, ApplyReceipt, Marked
  <2>2. <<s, m, loop[s][l].node.kind>> \in cause'
    BY <2>1, HandType, HeldNode, Grows DEF NodeOK
  <2> QED BY <2>1, <2>2 DEF Means, ResolveReceiptStatus
<1>6. ASSUME NEW q \in Requests, EditedBy(q, s, m)
      PROVE  Means(s, m, status)'
  <2>1. /\ req[q].pc = "mark" /\ s = req[q].session /\ m = req[q].ref
        /\ status = "edited"
    BY <1>6 DEF EditedBy, Marked
  <2>2. <<s, m, "edited">> \in cause'
    BY <2>1, RequestType, Grows DEF RequestInv, RequestOK
  <2> QED BY <2>1, <2>2 DEF Means
<1> QED
  BY <1>2, <1>3, <1>4, <1>5, <1>6, RowChange

\* The initial state satisfies the inductive invariant.
LEMMA InvInit == Init => IInv
<1> SUFFICES ASSUME Init PROVE IInv
  OBVIOUS
<1>1. TypeOK
  BY TypeInit
<1>2. \A s \in Sessions, m \in Ids : ~Stored(s, m)
  BY DEF Init, Stored
<1>3. \A s \in Sessions, l \in Loops : loop[s][l] = Idle
  BY DEF Init
<1>4. \A s \in Sessions : DOMAIN queue[s] = {}
  BY DEF Init
<1>5. \A q \in Requests : ~Begun(q)
  BY DEF Init, Begun
<1>6. NodeInv
  BY <1>3, <1>4 DEF NodeInv, OnItsWay, InQueue, Holds
<1>7. LedgerInv /\ RequestInv /\ OwnSide /\ StatusIsEarned
  BY <1>2, <1>5 DEF Init, LedgerInv, LedgerOK, RequestInv, RequestOK, OwnSide,
     StatusIsEarned
<1>8. HandInv
  BY <1>3 DEF HandInv, HandOK, Idle
<1> QED
  BY <1>1, <1>6, <1>7, <1>8 DEF IInv

\* The inductive invariant holds in every reachable state.
THEOREM Invariance == Spec => []IInv
<1>1. Init => IInv
  BY InvInit
<1>2. IInv /\ [Next]_vars => IInv'
  BY TypeStep, NodeStep, LedgerStep, HandStep, RequestInvStep, SideStep,
     StatusStep DEF IInv
<1> QED
  BY <1>1, <1>2, PTL DEF Spec

\* A row is outbound in the session whose account wrote the message and inbound
\* elsewhere, whoever saves it, and last.
THEOREM SidesKept == Spec => []OwnSide
<1>1. IInv => OwnSide
  BY DEF IInv
<1> QED
  BY <1>1, Invariance, PTL

\* No status is made up: a receipt or an edit of this session's message stands
\* behind every one but "sent" and "received".
THEOREM StatusesEarned == Spec => []StatusIsEarned
<1>1. IInv => StatusIsEarned
  BY DEF IInv
<1> QED
  BY <1>1, Invariance, PTL

-----------------------------------------------------------------------------
(* No message disappears.                                                     *)

\* A node leaves a queue only into a hand.
LEMMA QueueLeaves ==
  ASSUME TypeOK, [Next]_vars, NEW s \in Sessions, NEW n \in Node, InQueue(s, n)
  PROVE  InQueue(s, n)' \/ \E l \in Loops : Holds(s, l, n)'
<1>1. ASSUME NEW t \in Sessions, NEW new \in Node,
             queue' = [queue EXCEPT ![t] = Append(@, new)]
      PROVE  InQueue(s, n)'
  BY <1>1, InQueueAppend
<1>2. CASE ServerStep
  <2>1. ASSUME NEW t \in Sessions, NEW m \in Incoming, Deliver(t, m)
        PROVE  InQueue(s, n)'
    <3>1. PICK parts \in Parts :
            queue' = [queue EXCEPT ![t] = Append(@, Message(m, author[m] = t, parts))]
      BY <2>1 DEF Deliver
    <3> DEFINE new == Message(m, author[m] = t, parts)
    <3>2. new \in Node
      BY MessageType DEF Ids
    <3>3. queue' = [queue EXCEPT ![t] = Append(@, new)]
      BY <3>1
    <3> HIDE DEF new
    <3> QED BY <1>1, <3>2, <3>3
  <2>2. ASSUME NEW t \in Sessions, NEW m \in Ids, Resend(t, m)
        PROVE  InQueue(s, n)'
    <3> DEFINE new == Message(m, m \in Incoming /\ author[m] = t, <<"content">>)
    <3>1. <<"content">> \in Parts
      BY DEF Parts
    <3>2. new \in Node
      BY <3>1, MessageType
    <3>3. queue' = [queue EXCEPT ![t] = Append(@, new)]
      BY <2>2 DEF Resend
    <3> HIDE DEF new
    <3> QED BY <1>1, <3>2, <3>3
  <2>3. ASSUME NEW t \in Sessions, NEW ids \in SUBSET Ids, NEW type \in ReceiptTypes,
               SendReceipt(t, ids, type)
        PROVE  InQueue(s, n)'
    BY <1>1, <2>3, ReceiptType DEF SendReceipt
  <2> QED BY <1>2, <2>1, <2>2, <2>3 DEF ServerStep
<1>3. ASSUME NEW t \in Sessions, NEW l \in Loops, Take(t, l)
      PROVE  InQueue(s, n)' \/ Holds(s, l, n)'
  <2> DEFINE hand == [stage |-> "check", node |-> Head(queue[t]), current |-> TRUE]
  <2>1. /\ hand \in Hand /\ hand # Idle /\ hand.node = Head(queue[t])
        /\ Hold(t, l, hand)
    BY <1>3, QueueTail DEF Take, Hand, Idle
  <2> HIDE DEF hand
  <2>2. InQueue(s, n)' \/ (s = t /\ n = Head(queue[t]))
    BY <1>3, InQueueTail DEF Take
  <2>3. \A x \in Node : x = hand.node => Holds(t, l, x)'
    BY <2>1, HoldsAfter
  <2> QED BY <2>1, <2>2, <2>3
<1>4. ASSUME NEW q \in Requests, Accepted(q)
      PROVE  InQueue(s, n)'
  BY <1>4, AcceptedIs
<1>5. CASE UNCHANGED queue
  BY <1>5 DEF InQueue
<1> QED
  BY <1>2, <1>3, <1>4, <1>5, QueueSteps

\* A message in hand stays in hand until it is stored or dropped.
LEMMA HandLeaves ==
  ASSUME IInv, [Next]_vars, NEW s \in Sessions, NEW m \in Ids, InHand(s, m)
  PROVE  InHand(s, m)' \/ Stored(s, m) \/ <<s, m>> \in lost'
<1> USE DEF IInv
<1>1. PICK l \in Loops : Has(s, l, m)
  BY DEF InHand, Has, IsOf
<1>2. /\ loop[s][l] # Idle /\ loop[s][l] \in Hand /\ loop[s][l].node \in Node
      /\ loop[s][l].node.kind = "message" /\ m \in loop[s][l].node.ids
      /\ Holds(s, l, loop[s][l].node)
  BY <1>1, HeldNode DEF Has, IsOf
<1>3. ASSUME NEW n \in Node, n = loop[s][l].node, Holds(s, l, n)'
      PROVE  InHand(s, m)'
  BY <1>2, <1>3 DEF Holds, InHand
<1>4. ASSUME NEW t \in Sessions, NEW k \in Loops, LoopStep(t, k)
      PROVE  InHand(s, m)' \/ Stored(s, m) \/ <<s, m>> \in lost'
  <2>1. PICK hand \in Hand \cup {Idle} : Hold(t, k, hand)
    <3>1. CASE Take(t, k)
      <4>1. [stage |-> "check", node |-> Head(queue[t]), current |-> TRUE] \in Hand
        BY <3>1, QueueTail DEF Take, Hand
      <4> QED BY <3>1, <4>1 DEF Take
    <3>2. ASSUME loop[t][k] # Idle, NEW dropped \in BOOLEAN, Leave(t, k, dropped)
          PROVE  \E hand \in Hand \cup {Idle} : Hold(t, k, hand)
      BY <3>2, LeaveEffect
    <3> QED BY <1>4, <3>1, <3>2, HandMoves
  <2>2. CASE ~(t = s /\ k = l)
    <3>1. \A n \in Node : Holds(s, l, n) => Holds(s, l, n)'
      BY <2>1, <2>2, HoldsAfter
    <3> QED BY <1>2, <1>3, <3>1
  <2>3. CASE t = s /\ k = l
    <3>1. ~Take(t, k)
      BY <1>2, <2>3 DEF Take
    <3>2. CASE EmitNode(t, k)
      BY <1>2, <2>3, <3>2 DEF EmitNode, HandInv, HandOK
    <3>3. ASSUME NEW dropped \in BOOLEAN, Leave(t, k, dropped), dropped
          PROVE  <<s, m>> \in lost'
      <4>1. lost' = lost \cup ({s} \X loop[s][l].node.ids)
        BY <1>2, <2>3, <3>3, LeaveEffect
      <4> QED BY <1>2, <4>1
    <3>4. ASSUME NEW new \in Hand, Hold(t, k, new), new # Idle,
                 new.node = loop[t][k].node
          PROVE  InHand(s, m)'
      <4>1. \A n \in Node : n = loop[s][l].node => Holds(s, l, n)'
        BY <2>3, <3>4, HoldsAfter
      <4> QED BY <1>2, <1>3, <4>1
    <3>5. CASE \E dropped \in BOOLEAN :
                 Leave(t, k, dropped) /\ (dropped \/ EmitNode(t, k))
      BY <3>2, <3>3, <3>5
    <3>6. CASE \E new \in Hand : /\ Hold(t, k, new) /\ new # Idle
                                 /\ new.node = loop[t][k].node
      BY <3>4, <3>6
    <3> QED BY <1>4, <3>1, <3>5, <3>6, HandMoves
  <2> QED BY <2>2, <2>3
<1>5. ASSUME NEW t \in Sessions, ReplaceClient(t)
      PROVE  InHand(s, m)'
  <2>1. loop' = [loop EXCEPT ![t] =
                   [k \in Loops |-> IF loop[t][k] = Idle THEN Idle
                                    ELSE [loop[t][k] EXCEPT !.current = FALSE]]]
    BY <1>5 DEF ReplaceClient
  <2>2. \/ loop'[s][l] = loop[s][l]
        \/ loop'[s][l] = [loop[s][l] EXCEPT !.current = FALSE]
    BY <1>2, <2>1 DEF TypeOK
  <2>3. loop'[s][l] # Idle /\ loop'[s][l].node = loop[s][l].node
    BY <1>2, <2>2 DEF Hand, Idle
  <2> QED BY <1>2, <1>3, <2>3 DEF Holds
<1>6. CASE Restart
  <2>1. <<s, m>> \in Keys
    BY DEF Keys
  <2> QED BY <1>6, <2>1 DEF Restart
<1>7. CASE UNCHANGED loop
  BY <1>2, <1>3, <1>7 DEF Holds
<1> QED
  BY <1>4, <1>5, <1>6, <1>7, LoopSteps

\* A message that a request has sent and not saved stays its business until it
\* is stored or lost.
LEMMA SendingLeaves ==
  ASSUME IInv, [Next]_vars, NEW s \in Sessions, NEW m \in Ids, Sending(s, m)
  PROVE  Sending(s, m)' \/ Stored(s, m)' \/ <<s, m>> \in lost'
<1> USE DEF IInv
<1>1. /\ m \in Requests /\ Begun(m) /\ req[m] \in Request
      /\ req[m].session = s /\ req[m].pc \in {"mark", "save"}
  BY RequestType DEF Sending
<1>2. CASE req'[m] = req[m]
  BY <1>1, <1>2 DEF Sending, Begun
<1>3. CASE RequestStep(m)
  <2>1. CASE Mark(m)
    <3>1. Goto(m, "save")
      BY <2>1 DEF Mark
    <3> QED BY <1>1, <3>1, GotoEffect DEF Sending
  <2>2. CASE Save(m)
    <3>1. rows'[s][m] \in Row
      BY <1>1, <2>2, OutboundRowType, UpsertType DEF Save
    <3> QED BY <3>1 DEF Stored, Row, NoRow
  <2>3. CASE SaveFails(m)
    BY <1>1, <2>3 DEF SaveFails
  <2>4. /\ ~Find(m) /\ ~Refuse(m) /\ ~Send(m) /\ ~SendUnanswered(m) /\ ~EmitSent(m)
        /\ \A op \in Operations, t \in Sessions, to \in Accounts, ref \in Ids :
             ~Begin(m, op, t, to, ref)
    BY <1>1 DEF Find, Refuse, Send, SendUnanswered, Accepted, EmitSent, Begin, Begun
  <2> QED BY <1>3, <2>1, <2>2, <2>3, <2>4 DEF RequestStep
<1>4. ASSUME NEW q \in Requests, RequestStep(q), q # m
      PROVE  req'[m] = req[m]
  BY <1>1, <1>4, RequestMoves
<1>5. CASE Restart
  <2>1. <<s, m>> \in Keys
    BY DEF Keys
  <2> QED BY <1>5, <2>1 DEF Restart
<1> QED
  BY <1>1, <1>2, <1>3, <1>4, <1>5, RequestSteps

\* Every step leaves each message somewhere.
LEMMA LossStep == IInv /\ NoSilentLoss /\ [Next]_vars => NoSilentLoss'
<1> DEFINE There(s, m) ==
      \/ Stored(s, m) \/ Queued(s, m) \/ InHand(s, m) \/ Sending(s, m)
      \/ <<s, m>> \in owed \/ <<s, m>> \in lost
<1> SUFFICES ASSUME IInv, NoSilentLoss, TypeOK', [Next]_vars,
                    NEW s \in Sessions, NEW m \in Ids, <<s, m>> \in known'
             PROVE  There(s, m)'
  BY TypeStep DEF NoSilentLoss, IInv
<1> USE DEF IInv
<1>1. ASSUME NEW n \in Node, InQueue(s, n)', IsOf(n, m)
      PROVE  There(s, m)'
  BY <1>1 DEF InQueue, IsOf, Queued
<1>2. ASSUME NEW n \in Node, NEW l \in Loops, Holds(s, l, n)', IsOf(n, m)
      PROVE  There(s, m)'
  BY <1>2 DEF Holds, IsOf, InHand
<1>3. CASE <<s, m>> \notin known
  <2>1. CASE m \in Incoming /\ Deliver(s, m)
    <3>1. PICK parts \in Parts :
            queue' = [queue EXCEPT ![s] = Append(@, Message(m, author[m] = s, parts))]
      BY <2>1 DEF Deliver
    <3> DEFINE new == Message(m, author[m] = s, parts)
    <3>2. new \in Node /\ IsOf(new, m)
      BY MessageType DEF Message, IsOf
    <3>3. queue' = [queue EXCEPT ![s] = Append(@, new)]
      BY <3>1
    <3> HIDE DEF new
    <3>4. \A n \in Node : n = new => InQueue(s, n)'
      BY <3>2, <3>3, InQueueAppend
    <3> QED BY <1>1, <3>2, <3>4
  <2>2. CASE /\ m \in Requests /\ Accepted(m) /\ (Send(m) \/ SendUnanswered(m))
             /\ s \in {req[m].session, req[m].to}
    <3>1. CASE s = req[m].to
      <4> DEFINE new == Message(m, FALSE, <<"content">>)
      <4>1. new \in Node /\ IsOf(new, m)
        BY <2>2, AcceptedIs DEF Message, IsOf
      <4>2. \A n \in Node : n = new => InQueue(s, n)'
        BY <2>2, <3>1, AcceptedIs
      <4> HIDE DEF new
      <4> QED BY <1>1, <4>1, <4>2
    <3>2. CASE s = req[m].session /\ Send(m)
      <4>1. Begun(m) /\ \E pc \in {"mark", "save"} : Goto(m, pc)
        BY <2>2, <3>2, AcceptedIs DEF Send
      <4> QED BY <2>2, <3>2, <4>1, GotoEffect DEF Sending
    <3>3. CASE s = req[m].session /\ SendUnanswered(m)
      BY <3>3 DEF SendUnanswered
    <3> QED BY <2>2, <3>1, <3>2, <3>3
  <2> QED BY <1>3, <2>1, <2>2, KnownChange
<1>4. CASE <<s, m>> \in known
  <2>1. CASE Stored(s, m)
    BY <2>1, StoredStays
  <2>2. CASE Queued(s, m)
    <3>1. PICK n \in Node : InQueue(s, n) /\ IsOf(n, m)
      BY <2>2, QueuedIs
    <3> QED BY <1>1, <1>2, <3>1, QueueLeaves
  <2>3. CASE InHand(s, m)
    BY <2>3, HandLeaves, StoredStays
  <2>4. CASE Sending(s, m)
    BY <2>4, SendingLeaves
  <2>5. CASE <<s, m>> \in owed
    <3>1. ASSUME NEW t \in Sessions, NEW i \in Ids, Resend(t, i)
          PROVE  There(s, m)'
      <4>1. CASE t = s /\ i = m
        <5> DEFINE new == Message(m, m \in Incoming /\ author[m] = s, <<"content">>)
        <5>1. <<"content">> \in Parts
          BY DEF Parts
        <5>2. new \in Node /\ IsOf(new, m)
          BY <5>1, MessageType DEF Message, IsOf
        <5>3. queue' = [queue EXCEPT ![s] = Append(@, new)]
          BY <3>1, <4>1 DEF Resend
        <5> HIDE DEF new
        <5>4. \A n \in Node : n = new => InQueue(s, n)'
          BY <5>2, <5>3, InQueueAppend
        <5> QED BY <1>1, <5>2, <5>4
      <4>2. CASE ~(t = s /\ i = m)
        BY <2>5, <3>1, <4>2 DEF Resend
      <4> QED BY <4>1, <4>2
    <3>2. \/ \E t \in Sessions, i \in Ids : Resend(t, i)
          \/ owed \subseteq owed'
      BY OwedSteps
    <3> QED BY <2>5, <3>1, <3>2
  <2>6. CASE <<s, m>> \in lost
    BY <2>6, Grows
  <2> QED BY <1>4, <2>1, <2>2, <2>3, <2>4, <2>5, <2>6 DEF NoSilentLoss
<1> QED
  BY <1>3, <1>4

\* Every message the server took from, or has for, a session is stored, on its
\* way, to be resent, or was dropped by a fault or a replaced client.
THEOREM NothingVanishes == Spec => []NoSilentLoss
<1>1. Init => NoSilentLoss
  BY DEF Init, NoSilentLoss
<1>2. IInv /\ NoSilentLoss /\ [Next]_vars => NoSilentLoss'
  BY LossStep
<1> QED
  BY <1>1, <1>2, Invariance, PTL DEF Spec
-----------------------------------------------------------------------------
(* A message is in one place, and its keys come first.                        *)

\* What a loop has of a message it has taken, or has had before the step.
LEMMA HasStays ==
  ASSUME IInv, [Next]_vars, NEW s \in Sessions, NEW l \in Loops, NEW m \in Ids,
         ~Take(s, l)
  PROVE  /\ Has(s, l, m)' => Has(s, l, m)
         /\ KeyHeld(s, l, m)' => KeyHeld(s, l, m)
<1> USE DEF IInv
<1>1. CASE loop'[s][l] = loop[s][l]
  BY <1>1 DEF Has, KeyHeld
<1>2. ASSUME NEW t \in Sessions, NEW k \in Loops, LoopStep(t, k)
      PROVE  /\ Has(s, l, m)' => Has(s, l, m)
             /\ KeyHeld(s, l, m)' => KeyHeld(s, l, m)
  <2>1. CASE ~(t = s /\ k = l)
    <3>1. PICK hand \in Hand \cup {Idle} : Hold(t, k, hand)
      <4>1. CASE Take(t, k)
        <5>1. [stage |-> "check", node |-> Head(queue[t]), current |-> TRUE] \in Hand
          BY <4>1, QueueTail DEF Take, Hand
        <5> QED BY <4>1, <5>1 DEF Take
      <4>2. ASSUME loop[t][k] # Idle, NEW dropped \in BOOLEAN, Leave(t, k, dropped)
            PROVE  \E hand \in Hand \cup {Idle} : Hold(t, k, hand)
        BY <4>2, LeaveEffect
      <4> QED BY <1>2, <4>1, <4>2, HandMoves
    <3>2. loop'[s][l] = loop[s][l]
      BY <2>1, <3>1, HoldEffect
    <3> QED BY <1>1, <3>2
  <2>2. CASE t = s /\ k = l
    <3>1. ASSUME loop[s][l] \in Hand, loop[s][l] # Idle,
                 NEW dropped \in BOOLEAN, Leave(s, l, dropped)
          PROVE  /\ Has(s, l, m)' => Has(s, l, m)
                 /\ KeyHeld(s, l, m)' => KeyHeld(s, l, m)
      <4>1. loop'[s][l] = Rest(loop[s][l])
        BY <3>1, LeaveEffect, HoldEffect
      <4>2. loop'[s][l] # Idle =>
              /\ IsOf(loop'[s][l].node, m) <=> IsOf(loop[s][l].node, m)
              /\ ~KeysFirst(loop'[s][l].node)
        BY <3>1, <4>1, RestIs DEF IsOf, KeysFirst
      <4> QED BY <3>1, <4>2 DEF Has, KeyHeld
    <3>2. ASSUME loop[s][l] # Idle, NEW hand \in Hand, Hold(s, l, hand),
                 hand.node = loop[s][l].node, loop[s][l].stage # "emit"
          PROVE  /\ Has(s, l, m)' => Has(s, l, m)
                 /\ KeyHeld(s, l, m)' => KeyHeld(s, l, m)
      <4>1. loop'[s][l] = hand
        BY <3>2, HoldEffect
      <4> QED BY <3>2, <4>1 DEF Has, KeyHeld
    <3> QED BY <1>2, <2>2, <3>1, <3>2, HandMoves
  <2> QED BY <2>1, <2>2
<1>3. ASSUME NEW t \in Sessions, ReplaceClient(t)
      PROVE  /\ Has(s, l, m)' => Has(s, l, m)
             /\ KeyHeld(s, l, m)' => KeyHeld(s, l, m)
  <2>1. loop' = [loop EXCEPT ![t] =
                   [k \in Loops |-> IF loop[t][k] = Idle THEN Idle
                                    ELSE [loop[t][k] EXCEPT !.current = FALSE]]]
    BY <1>3 DEF ReplaceClient
  <2>2. \/ loop'[s][l] = loop[s][l]
        \/ loop[s][l] # Idle /\ loop'[s][l] = [loop[s][l] EXCEPT !.current = FALSE]
    BY <2>1 DEF TypeOK
  <2>3. loop[s][l] # Idle => loop[s][l] \in Hand
    BY HandType
  <2>4. loop[s][l] # Idle => /\ loop'[s][l].node = loop[s][l].node
                             /\ loop'[s][l].stage = loop[s][l].stage
    BY <2>2, <2>3 DEF Hand
  <2> QED BY <1>1, <2>2, <2>4 DEF Has, KeyHeld
<1>4. CASE Restart
  <2>1. loop'[s][l] = Idle
    BY <1>4 DEF Restart
  <2> QED BY <2>1 DEF Has, KeyHeld
<1> QED
  BY <1>1, <1>2, <1>3, <1>4, LoopSteps

\* A loop that takes a node has what was first in the queue, and no other loop
\* is touched.
LEMMA TakeEffect ==
  ASSUME TypeOK, NEW s \in Sessions, NEW l \in Loops, Take(s, l)
  PROVE  /\ queue[s] # <<>> /\ queue' = [queue EXCEPT ![s] = Tail(@)]
         /\ loop[s][l] = Idle /\ loop'[s][l] # Idle
         /\ loop'[s][l].node = Head(queue[s])
         /\ \A t \in Sessions, k \in Loops :
              t # s \/ k # l => loop'[t][k] = loop[t][k]
         /\ rows' = rows /\ owed' = owed
<1> DEFINE hand == [stage |-> "check", node |-> Head(queue[s]), current |-> TRUE]
<1>1. /\ queue[s] # <<>> /\ queue' = [queue EXCEPT ![s] = Tail(@)]
      /\ loop[s][l] = Idle /\ Hold(s, l, hand) /\ rows' = rows /\ owed' = owed
  BY DEF Take, server
<1>2. hand \in Hand /\ hand # Idle /\ hand.node = Head(queue[s])
  BY <1>1, QueueTail DEF Hand, Idle
<1> HIDE DEF hand
<1> QED
  BY <1>1, <1>2, HoldEffect

\* A node appended for a message that is nowhere yet leaves it in one place.
LEMMA OnceAppend ==
  ASSUME TypeOK, NEW s \in Sessions, NEW m \in Ids, OnceOK(s, m),
         NEW t \in Sessions, NEW n \in Node,
         queue' = [queue EXCEPT ![t] = Append(@, n)], loop' = loop,
         owed' \subseteq owed,
         t = s /\ IsOf(n, m) => /\ ~Queued(s, m) /\ ~InHand(s, m)
                                /\ <<s, m>> \notin owed'
  PROVE  OnceOK(s, m)'
<1>1. Queued(s, m) <=> \E i \in DOMAIN queue[s] : IsOf(queue[s][i], m)
  BY DEF Queued, IsOf
<1>2. Queued(s, m)' <=> \E i \in DOMAIN queue'[s] : IsOf(queue'[s][i], m)
  BY DEF Queued, IsOf
<1>3. InHand(s, m)' <=> InHand(s, m)
  BY DEF InHand
<1>4. \A l \in Loops : Has(s, l, m)' <=> Has(s, l, m)
  BY DEF Has
<1>5. CASE t # s
  <2>1. queue'[s] = queue[s]
    BY <1>5, QueueAppend
  <2> QED BY <1>1, <1>2, <1>3, <1>4, <2>1 DEF OnceOK
<1>6. CASE t = s
  <2> DEFINE last == Len(queue[s]) + 1
  <2>1. /\ DOMAIN queue'[s] = DOMAIN queue[s] \cup {last}
        /\ \A i \in DOMAIN queue[s] : queue'[s][i] = queue[s][i]
        /\ queue'[s][last] = n
    BY <1>6, QueueAppend
  <2> HIDE DEF last
  <2>2. CASE IsOf(n, m)
    BY <1>1, <1>2, <1>3, <1>4, <1>6, <2>1, <2>2 DEF OnceOK
  <2>3. CASE ~IsOf(n, m)
    BY <1>1, <1>2, <1>3, <1>4, <1>6, <2>1, <2>3 DEF OnceOK
  <2> QED BY <2>2, <2>3
<1> QED
  BY <1>5, <1>6

\* A node taken from the queue is in one hand, and no longer in the queue.
LEMMA OnceTake ==
  ASSUME TypeOK, NEW s \in Sessions, NEW m \in Ids, OnceOK(s, m),
         NEW t \in Sessions, NEW l \in Loops, Take(t, l)
  PROVE  OnceOK(s, m)'
<1>1. Queued(s, m) <=> \E i \in DOMAIN queue[s] : IsOf(queue[s][i], m)
  BY DEF Queued, IsOf
<1>2. Queued(s, m)' <=> \E i \in DOMAIN queue'[s] : IsOf(queue'[s][i], m)
  BY DEF Queued, IsOf
<1>3. InHand(s, m) <=> \E k \in Loops : Has(s, k, m)
  BY DEF InHand, Has, IsOf
<1>4. InHand(s, m)' <=> \E k \in Loops : Has(s, k, m)'
  BY DEF InHand, Has, IsOf
<1>5. /\ \A k \in Loops : t # s \/ k # l => loop'[s][k] = loop[s][k]
      /\ owed' = owed /\ loop[t][l] = Idle /\ loop'[t][l] # Idle
      /\ loop'[t][l].node = Head(queue[t])
  BY TakeEffect
<1>6. \A k \in Loops : t # s \/ k # l => (Has(s, k, m)' <=> Has(s, k, m))
  BY <1>5 DEF Has
<1>7. CASE t # s
  <2>1. queue'[s] = queue[s]
    BY <1>7, TakeEffect, QueueTail
  <2> QED BY <1>1, <1>2, <1>3, <1>4, <1>5, <1>6, <1>7, <2>1 DEF OnceOK
<1>8. CASE t = s
  <2>1. /\ 1 \in DOMAIN queue[s] /\ Head(queue[s]) = queue[s][1]
        /\ \A i \in DOMAIN queue'[s] :
             /\ i \in Nat /\ i + 1 \in DOMAIN queue[s] /\ i + 1 # 1
             /\ queue'[s][i] = queue[s][i + 1]
    BY <1>8, TakeEffect, QueueTail
  <2>2. ~Has(s, l, m)
    BY <1>5, <1>8 DEF Has
  <2>3. Has(s, l, m)' <=> IsOf(queue[s][1], m)
    BY <1>5, <1>8, <2>1 DEF Has
  <2>4. \A i, j \in DOMAIN queue'[s] :
          IsOf(queue'[s][i], m) /\ IsOf(queue'[s][j], m) => i = j
    <3>1. ASSUME NEW i \in DOMAIN queue'[s], NEW j \in DOMAIN queue'[s],
                 IsOf(queue'[s][i], m), IsOf(queue'[s][j], m)
          PROVE  i = j
      <4>1. i + 1 = j + 1
        BY <2>1, <3>1 DEF OnceOK
      <4> QED BY <2>1, <4>1
    <3> QED BY <3>1
  <2>5. CASE IsOf(queue[s][1], m)
    <3>1. Queued(s, m) /\ ~InHand(s, m) /\ <<s, m>> \notin owed
      BY <1>1, <2>1, <2>5 DEF OnceOK
    <3>2. ~Queued(s, m)'
      BY <1>2, <2>1, <2>5 DEF OnceOK
    <3>3. \A k \in Loops : Has(s, k, m)' => k = l
      BY <1>3, <1>6, <3>1
    <3> QED BY <1>5, <2>4, <3>1, <3>2, <3>3 DEF OnceOK
  <2>6. CASE ~IsOf(queue[s][1], m)
    <3>1. \A k \in Loops : Has(s, k, m)' <=> Has(s, k, m)
      BY <1>6, <2>2, <2>3, <2>6
    <3>2. Queued(s, m)' => Queued(s, m)
      BY <1>1, <1>2, <2>1
    <3>3. InHand(s, m)' <=> InHand(s, m)
      BY <1>3, <1>4, <3>1
    <3> QED BY <1>5, <2>4, <3>1, <3>2, <3>3 DEF OnceOK
  <2> QED BY <2>5, <2>6
<1> QED
  BY <1>7, <1>8

\* Hands that are emptied, or answer with a retry, leave a message in one place.
LEMMA OnceHand ==
  ASSUME NEW s \in Sessions, NEW m \in Ids, OnceOK(s, m), queue' = queue,
         \A l \in Loops : Has(s, l, m)' => Has(s, l, m),
         <<s, m>> \in owed' => <<s, m>> \in owed \/ (InHand(s, m) /\ ~InHand(s, m)')
  PROVE  OnceOK(s, m)'
<1>1. InHand(s, m) <=> \E k \in Loops : Has(s, k, m)
  BY DEF InHand, Has, IsOf
<1>2. InHand(s, m)' <=> \E k \in Loops : Has(s, k, m)'
  BY DEF InHand, Has, IsOf
<1>3. Queued(s, m)' <=> Queued(s, m)
  BY DEF Queued
<1> QED
  BY <1>1, <1>2, <1>3 DEF OnceOK
\* What the server does not know of a session is nowhere.
LEMMA UnknownIs ==
  ASSUME IInv, NEW s \in Sessions, NEW m \in Ids, <<s, m>> \notin known
  PROVE  /\ ~Queued(s, m) /\ ~InHand(s, m) /\ ~Stored(s, m)
         /\ <<s, m>> \notin owed /\ <<s, m>> \notin lost
<1>1. \A n \in Node : OnItsWay(s, n) => ~IsOf(n, m)
  BY NodeOf DEF IInv, NodeInv, MessageOK
<1> QED
  BY <1>1, QueuedIs, InHandIs DEF OnItsWay, IInv, LedgerInv, LedgerOK

\* Every step leaves a message in one place.
LEMMA OnceStep == IInv /\ OnceInv /\ [Next]_vars => OnceInv'
<1> SUFFICES ASSUME IInv, OnceInv, [Next]_vars, NEW s \in Sessions, NEW m \in Ids
             PROVE  OnceOK(s, m)'
  BY DEF OnceInv
<1> USE DEF IInv
<1>1. OnceOK(s, m)
  BY DEF OnceInv
<1>2. ASSUME NEW t \in Sessions, NEW i \in Incoming, Deliver(t, i)
      PROVE  OnceOK(s, m)'
  <2>1. PICK parts \in Parts :
          queue' = [queue EXCEPT ![t] = Append(@, Message(i, author[i] = t, parts))]
    BY <1>2 DEF Deliver
  <2> DEFINE new == Message(i, author[i] = t, parts)
  <2>2. new \in Node /\ (IsOf(new, m) => m = i)
    BY MessageType DEF Ids, Message, IsOf
  <2>3. queue' = [queue EXCEPT ![t] = Append(@, new)]
    BY <2>1
  <2> HIDE DEF new
  <2>4. loop' = loop /\ owed' = owed /\ <<t, i>> \notin known
    BY <1>2 DEF Deliver, server
  <2> QED BY <1>1, <2>2, <2>3, <2>4, UnknownIs, OnceAppend
<1>3. ASSUME NEW t \in Sessions, NEW i \in Ids, Resend(t, i)
      PROVE  OnceOK(s, m)'
  <2> DEFINE new == Message(i, i \in Incoming /\ author[i] = t, <<"content">>)
  <2>1. queue' = [queue EXCEPT ![t] = Append(@, new)]
    BY <1>3 DEF Resend
  <2>2. <<"content">> \in Parts
    BY DEF Parts
  <2>3. new \in Node /\ (IsOf(new, m) => m = i)
    BY <2>2, MessageType DEF Message, IsOf
  <2> HIDE DEF new
  <2>4. /\ loop' = loop /\ owed' = owed \ {<<t, i>>} /\ <<t, i>> \in owed
    BY <1>3 DEF Resend
  <2>5. t = s /\ i = m => /\ ~Queued(s, m) /\ ~InHand(s, m)
                          /\ <<s, m>> \notin owed'
    BY <1>1, <2>4 DEF OnceOK
  <2> QED BY <1>1, <2>1, <2>3, <2>4, <2>5, OnceAppend
<1>4. ASSUME NEW t \in Sessions, NEW ids \in SUBSET Ids, NEW type \in ReceiptTypes,
             SendReceipt(t, ids, type)
      PROVE  OnceOK(s, m)'
  <2>1. Receipt(ids, type) \in Node /\ ~IsOf(Receipt(ids, type), m)
    BY ReceiptType, ReceiptsAssumption DEF Receipt, IsOf
  <2>2. /\ queue' = [queue EXCEPT ![t] = Append(@, Receipt(ids, type))]
        /\ loop' = loop /\ owed' = owed
    BY <1>4 DEF SendReceipt
  <2> QED BY <1>1, <2>1, <2>2, OnceAppend
<1>5. ASSUME NEW t \in Sessions, NEW l \in Loops, Take(t, l)
      PROVE  OnceOK(s, m)'
  BY <1>1, <1>5, OnceTake
<1>6. ASSUME NEW q \in Requests, Accepted(q), Send(q) \/ SendUnanswered(q),
             queue' # queue
      PROVE  OnceOK(s, m)'
  <2> DEFINE new == Message(q, FALSE, <<"content">>)
  <2>1. /\ req[q].to \in Sessions
        /\ queue' = [queue EXCEPT ![req[q].to] = Append(@, new)]
    BY <1>6 DEF Accepted
  <2>2. new \in Node /\ q \in Ids /\ req[q].pc = "send"
    BY <1>6, AcceptedIs
  <2>3. IsOf(new, m) => m = q
    BY DEF Message, IsOf
  <2> HIDE DEF new
  <2>4. <<req[q].to, q>> \notin known
    BY <2>1, <2>2 DEF LedgerInv, LedgerOK
  <2>5. loop' = loop /\ owed' = owed
    BY <1>6 DEF Send, SendUnanswered, server
  <2> QED BY <1>1, <2>1, <2>2, <2>3, <2>4, <2>5, UnknownIs, OnceAppend
<1>7. CASE queue' = queue
  <2>1. \A t \in Sessions, l \in Loops : ~Take(t, l)
    <3>1. ASSUME NEW t \in Sessions, NEW l \in Loops, Take(t, l) PROVE FALSE
      <4>1. /\ queue[t] \in Seq(Node) /\ queue[t] # <<>>
            /\ queue'[t] = Tail(queue[t])
        BY <3>1, TakeEffect DEF TypeOK
      <4>2. Len(queue'[t]) = Len(queue[t]) - 1 /\ Len(queue[t]) \in Nat
        BY <4>1, HeadTailProperties, LenProperties
      <4> QED BY <1>7, <4>2
    <3> QED BY <3>1
  <2>2. \A l \in Loops : Has(s, l, m)' => Has(s, l, m)
    BY <2>1, HasStays
  <2>3. ASSUME <<s, m>> \in owed', <<s, m>> \notin owed
        PROVE  InHand(s, m) /\ ~InHand(s, m)'
    <3>1. PICK l \in Loops : Has(s, l, m) /\ loop'[s][l] = Idle
      BY <2>3, OwedChange
    <3>2. \A k \in Loops : ~Has(s, k, m)'
      BY <1>1, <2>2, <3>1 DEF OnceOK, Has
    <3> QED BY <3>1, <3>2 DEF InHand, Has, IsOf
  <2> QED BY <1>1, <1>7, <2>2, <2>3, OnceHand
<1> QED
  BY <1>2, <1>3, <1>4, <1>5, <1>6, <1>7, QueueSteps DEF ServerStep
\* A node with keys was waiting before, or its message is new to the server.
LEMMA KeyComes ==
  ASSUME IInv, [Next]_vars, NEW s \in Sessions, NEW m \in Ids, NEW n \in Node,
         InQueue(s, n)', IsOf(n, m), KeysFirst(n), ~InQueue(s, n)
  PROVE  <<s, m>> \notin known
<1> USE DEF IInv
<1>1. ASSUME NEW t \in Sessions, NEW i \in Incoming, Deliver(t, i)
      PROVE  <<s, m>> \notin known
  <2>1. PICK parts \in Parts :
          queue' = [queue EXCEPT ![t] = Append(@, Message(i, author[i] = t, parts))]
    BY <1>1 DEF Deliver
  <2> DEFINE new == Message(i, author[i] = t, parts)
  <2>2. new \in Node /\ (IsOf(new, m) => m = i)
    BY MessageType DEF Ids, Message, IsOf
  <2>3. queue' = [queue EXCEPT ![t] = Append(@, new)]
    BY <2>1
  <2> HIDE DEF new
  <2>4. t = s /\ n = new
    BY <2>2, <2>3, InQueueAppend
  <2> QED BY <1>1, <2>2, <2>4 DEF Deliver
<1>2. ASSUME NEW t \in Sessions, NEW i \in Ids, Resend(t, i)
      PROVE  FALSE
  <2> DEFINE new == Message(i, i \in Incoming /\ author[i] = t, <<"content">>)
  <2>1. queue' = [queue EXCEPT ![t] = Append(@, new)]
    BY <1>2 DEF Resend
  <2>2. <<"content">> \in Parts
    BY DEF Parts
  <2>4. new \in Node
    BY <2>2, MessageType
  <2>5. new.parts = <<"content">>
    BY DEF Message
  <2>3. new \in Node /\ ~KeysFirst(new)
    BY <2>4, <2>5 DEF KeysFirst
  <2> HIDE DEF new
  <2> QED BY <2>1, <2>3, InQueueAppend
<1>3. ASSUME NEW t \in Sessions, NEW ids \in SUBSET Ids, NEW type \in ReceiptTypes,
             SendReceipt(t, ids, type)
      PROVE  FALSE
  <2>1. Receipt(ids, type) \in Node /\ ~KeysFirst(Receipt(ids, type))
    BY ReceiptType DEF Receipt, KeysFirst
  <2> QED BY <1>3, <2>1, InQueueAppend DEF SendReceipt
<1>4. ASSUME NEW t \in Sessions, NEW l \in Loops, Take(t, l)
      PROVE  FALSE
  BY <1>4, InQueueTail DEF Take
<1>5. ASSUME NEW q \in Requests, Accepted(q)
      PROVE  FALSE
  <2>1. ~KeysFirst(Message(q, FALSE, <<"content">>))
    BY DEF Message, KeysFirst
  <2> QED BY <1>5, <2>1, AcceptedIs
<1>6. CASE UNCHANGED queue
  BY <1>6 DEF InQueue
<1> QED
  BY <1>1, <1>2, <1>3, <1>4, <1>5, <1>6, QueueSteps DEF ServerStep

\* While a node with the keys of a message waits or is about to be stored, no
\* step stores the message.
LEMMA NotStored ==
  ASSUME IInv, OnceInv, [Next]_vars, NEW s \in Sessions, NEW m \in Ids,
         ~Stored(s, m), Stored(s, m)'
  PROVE  /\ \A i \in DOMAIN queue'[s] : ~KeyWaits(s, i, m)'
         /\ \A l \in Loops : ~KeyHeld(s, l, m)'
<1> USE DEF IInv
<1>1. OnceOK(s, m)
  BY DEF OnceInv
<1>2. ASSUME NEW k \in Loops, SavedBy(s, k, m), Has(s, k, m)
      PROVE  /\ \A i \in DOMAIN queue'[s] : ~KeyWaits(s, i, m)'
             /\ \A l \in Loops : ~KeyHeld(s, l, m)'
  <2> DEFINE hand == [loop[s][k] EXCEPT !.stage = "emit"]
  <2>1. hand \in Hand /\ hand.stage = "emit"
    BY <1>2 DEF SavedBy, Hand
  <2>2. Hold(s, k, hand) /\ queue' = queue
    BY <1>2 DEF SavedBy, SaveIncoming
  <2> HIDE DEF hand
  <2>3. /\ loop'[s][k].stage = "emit"
        /\ \A l \in Loops : l # k => loop'[s][l] = loop[s][l]
    BY <2>1, <2>2, HoldEffect
  <2>4. ~Queued(s, m)
    BY <1>1, <1>2 DEF OnceOK, InHand, Has, IsOf
  <2>5. \A i \in DOMAIN queue'[s] : ~KeyWaits(s, i, m)'
    BY <2>2, <2>4 DEF Queued, KeyWaits, IsOf
  <2>6. ASSUME NEW l \in Loops, l # k PROVE ~KeyHeld(s, l, m)'
    <3>1. ~Has(s, l, m)
      BY <1>1, <1>2, <2>6 DEF OnceOK
    <3> QED BY <2>3, <2>6, <3>1 DEF KeyHeld, Has
  <2>7. ~KeyHeld(s, k, m)'
    BY <2>3 DEF KeyHeld
  <2> QED BY <2>5, <2>6, <2>7
<1>3. ASSUME m \in Requests, SentBy(m, s, m)
      PROVE  /\ \A i \in DOMAIN queue'[s] : ~KeyWaits(s, i, m)'
             /\ \A l \in Loops : ~KeyHeld(s, l, m)'
  <2>1. queue' = queue /\ loop' = loop
    BY <1>3 DEF SentBy, Save
  <2>2. ASSUME NEW n \in Node, OnItsWay(s, n), IsOf(n, m) PROVE ~KeysFirst(n)
    <3>1. NodeOK(s, n)
      BY <2>2 DEF NodeInv
    <3> QED BY <1>3, <2>2, <3>1, KeysNode, MessagesAssumption DEF IsOf
  <2>3. \A i \in DOMAIN queue[s] :
          queue[s][i] \in Node /\ OnItsWay(s, queue[s][i])
    BY LenProperties DEF OnItsWay, InQueue, TypeOK
  <2>4. \A l \in Loops : loop[s][l] # Idle =>
          loop[s][l].node \in Node /\ OnItsWay(s, loop[s][l].node)
    BY HeldNode DEF OnItsWay
  <2> QED BY <2>1, <2>2, <2>3, <2>4 DEF KeyWaits, KeyHeld, Has
<1> QED
  BY <1>2, <1>3, StoredChange

\* Every step keeps the keys first.
LEMMA KeysStep == IInv /\ OnceInv /\ KeysInv /\ [Next]_vars => KeysInv'
<1> SUFFICES ASSUME IInv, OnceInv, KeysInv, TypeOK', [Next]_vars,
                    NEW s \in Sessions, NEW m \in Ids
             PROVE  KeysOK(s, m)'
  BY TypeStep DEF KeysInv, IInv
<1> USE DEF IInv
<1>1. KeysOK(s, m)
  BY DEF KeysInv
<1>2. \A n \in Node : InQueue(s, n) /\ IsOf(n, m) /\ KeysFirst(n) => ~Stored(s, m)
  BY <1>1 DEF KeysOK, InQueue, KeyWaits
<1>3. ASSUME NEW i \in DOMAIN queue'[s], KeyWaits(s, i, m)'
      PROVE  ~Stored(s, m)
  <2>1. PICK n \in Node : n = queue'[s][i]
    BY LenProperties DEF TypeOK
  <2>2. InQueue(s, n)' /\ IsOf(n, m) /\ KeysFirst(n)
    BY <1>3, <2>1 DEF InQueue, KeyWaits
  <2> QED BY <1>2, <2>2, KeyComes, UnknownIs
<1>4. ASSUME NEW l \in Loops, KeyHeld(s, l, m)'
      PROVE  ~Stored(s, m)
  <2>1. CASE Take(s, l)
    <3>1. /\ queue[s] # <<>> /\ queue' = [queue EXCEPT ![s] = Tail(@)]
          /\ loop'[s][l].node = Head(queue[s])
      BY <2>1, TakeEffect
    <3>2. Head(queue[s]) \in Node /\ InQueue(s, Head(queue[s]))
      BY <3>1, QueueTail, InQueueTail
    <3>3. IsOf(Head(queue[s]), m) /\ KeysFirst(Head(queue[s]))
      BY <1>4, <3>1 DEF KeyHeld, Has
    <3> QED BY <1>2, <3>2, <3>3
  <2>2. CASE ~Take(s, l)
    BY <1>1, <1>4, <2>2, HasStays DEF KeysOK
  <2> QED BY <2>1, <2>2
<1>5. CASE Stored(s, m)' /\ ~Stored(s, m)
  BY <1>5, NotStored DEF KeysOK
<1>6. CASE Stored(s, m)
  BY <1>3, <1>4, <1>6 DEF KeysOK
<1>7. CASE ~Stored(s, m)'
  BY <1>7 DEF KeysOK
<1> QED
  BY <1>5, <1>6, <1>7

\* A message waits in the queue, is in one loop's hands or is to be resent, one
\* of the three and once; and the keys of a group message wait, or are about to
\* be stored, only while it has no row.  This is why the second of two loops
\* never stores a message's "unknown" part over its content.
THEOREM OncePlaced == Spec => [](OnceInv /\ KeysInv)
<1> DEFINE Inv == OnceInv /\ KeysInv
<1>1. Init => Inv
  <2> SUFFICES ASSUME Init, NEW s \in Sessions, NEW m \in Ids
               PROVE  OnceOK(s, m) /\ KeysOK(s, m)
    BY DEF OnceInv, KeysInv
  <2>1. /\ queue[s] = <<>> /\ DOMAIN queue[s] = {} /\ owed = {}
        /\ \A l \in Loops : loop[s][l] = Idle
    BY DEF Init
  <2> QED BY <2>1 DEF OnceOK, KeysOK, Queued, InHand, Has, KeyHeld
<1>2. IInv /\ Inv /\ [Next]_vars => Inv'
  BY OnceStep, KeysStep
<1> QED
  BY <1>1, <1>2, Invariance, PTL DEF Spec

-----------------------------------------------------------------------------
(* The refinement.  What is stored, known and lost gives the fate of a message, *)
(* the rows its side and its content.                                         *)

Contents == {k \in Keys : rows[k[1]][k[2]].type = "content"}
Announced ==
  Heard("message.sent", "outbound") \cup Heard("message.received", "inbound")
Done(q) == Begun(q) /\ req[q].pc = "done"
Answered == {<<req[q].session, q>> :
               q \in {r \in Requests : Begun(r) /\ req[r].pc = "done"}}
SameSides == \A k \in Keys : Side(k[1], k[2])' = Side(k[1], k[2])

\* A step that makes messages due or lost, and nothing else, is one of the log's.
LEMMA LogArrives ==
  ASSUME NEW due \in SUBSET Keys, NEW gone \in SUBSET Keys,
         \A k \in due \cup gone : Fate(k[1], k[2]) = "unknown",
         \A k \in Keys : Fate(k[1], k[2])' = IF k \in due THEN "due"
                                             ELSE IF k \in gone THEN "lost"
                                             ELSE Fate(k[1], k[2]),
         SameSides, Contents' = Contents, Announced' = Announced,
         Answered' = Answered
  PROVE  Log!Next
<1>1. Log!Become(due, gone)
  BY DEF Log!Become
<1>2. due \cup gone \subseteq Log!Now({"unknown"})
  BY DEF Log!Now
<1>3. Log!Arrive(due, gone)
  BY <1>1, <1>2 DEF Log!Arrive, SameSides, Contents, Announced, Answered
<1> QED
  BY <1>3 DEF Log!Next
\* So is one that loses messages that were due;
LEMMA LogLoses ==
  ASSUME NEW gone \in SUBSET Keys,
         \A k \in gone : Fate(k[1], k[2]) = "due",
         \A k \in Keys : Fate(k[1], k[2])' = IF k \in gone THEN "lost"
                                             ELSE Fate(k[1], k[2]),
         SameSides, Contents' = Contents, Announced' = Announced,
         Answered' = Answered
  PROVE  Log!Next
<1>1. Log!Become({}, gone)
  BY DEF Log!Become
<1>2. gone \subseteq Log!Now({"due"})
  BY DEF Log!Now
<1>3. Log!Lose(gone)
  BY <1>1, <1>2 DEF Log!Lose, SameSides, Contents, Announced, Answered
<1> QED
  BY <1>3 DEF Log!Next

\* one that stores a message that was known, on the side it was on;
LEMMA LogStores ==
  ASSUME NEW k \in Keys, NEW d \in {"inbound", "outbound"},
         Fate(k[1], k[2]) # "unknown", Side(k[1], k[2]) \in {"none", d},
         \A j \in Keys : Fate(j[1], j[2])' = IF j = k THEN "stored"
                                             ELSE Fate(j[1], j[2]),
         \A j \in Keys : Side(j[1], j[2])' = IF j = k THEN d ELSE Side(j[1], j[2]),
         Contents' \in {Contents, Contents \cup {k}}, Announced' = Announced,
         Answered' = Answered
  PROVE  Log!Next
<1>1. /\ [j \in Keys |-> Fate(j[1], j[2])]' =
           [[j \in Keys |-> Fate(j[1], j[2])] EXCEPT ![k] = "stored"]
      /\ [j \in Keys |-> Side(j[1], j[2])]' =
           [[j \in Keys |-> Side(j[1], j[2])] EXCEPT ![k] = d]
  OBVIOUS
<1>2. Log!Store(k, d)
  BY <1>1 DEF Log!Store, Contents, Announced, Answered
<1> QED
  BY <1>2 DEF Log!Next, Log!Sides

\* and one that announces a stored message as of its side, and may answer the
\* request that sent it.
LEMMA LogAnnounces ==
  ASSUME NEW k \in Keys, NEW d \in {"inbound", "outbound"},
         Fate(k[1], k[2]) = "stored", Side(k[1], k[2]) = d,
         \A j \in Keys : Fate(j[1], j[2])' = Fate(j[1], j[2]),
         SameSides, Contents' = Contents, Announced' = Announced \cup {<<d, k>>},
         \/ Answered' = Answered
         \/ d = "outbound" /\ Answered' = Answered \cup {k}
  PROVE  Log!Next
<1>1. /\ [j \in Keys |-> Fate(j[1], j[2])]' = [j \in Keys |-> Fate(j[1], j[2])]
      /\ [j \in Keys |-> Side(j[1], j[2])]' = [j \in Keys |-> Side(j[1], j[2])]
  BY DEF SameSides
<1>2. Log!Announce(k, d)
  BY <1>1 DEF Log!Announce, Contents, Announced, Answered
<1> QED
  BY <1>2 DEF Log!Next, Log!Sides

\* Only the step that announces what a request sent answers it.
LEMMA AnsweredStays ==
  ASSUME TypeOK, [Next]_vars, NEW q \in Requests, ~EmitSent(q)
  PROVE  Done(q)' <=> Done(q)
<1>1. CASE req'[q] = req[q]
  BY <1>1 DEF Done, Begun
<1>2. CASE RequestStep(q)
  <2>1. CASE \E op \in Operations, s \in Sessions, to \in Accounts, ref \in Ids :
               Begin(q, op, s, to, ref)
    <3>1. ~Begun(q)
      BY <2>1 DEF Begin, Begun
    <3>2. req'[q].pc \in {"find", "send"}
      BY <1>2, <3>1, RequestMoves
    <3> QED BY <3>1, <3>2 DEF Done
  <2>2. CASE \/ Find(q) \/ Refuse(q) \/ Send(q) \/ SendUnanswered(q) \/ Mark(q)
             \/ Save(q) \/ SaveFails(q)
    <3>1. Begun(q) /\ req[q].pc # "done"
      BY <2>2, RequestType DEF Find, Refuse, Send, SendUnanswered, Accepted, Mark,
         Save, SaveFails
    <3>2. \E pc \in {"send", "mark", "save", "emit", "failed"} : Goto(q, pc)
      BY <2>2 DEF Find, Refuse, Send, SendUnanswered, Mark, Save, SaveFails
    <3>3. req'[q].pc # "done"
      BY <3>1, <3>2, GotoEffect
    <3> QED BY <3>1, <3>3 DEF Done
  <2> QED BY <1>2, <2>1, <2>2 DEF RequestStep
<1>3. ASSUME NEW r \in Requests, RequestStep(r), r # q
      PROVE  req'[q] = req[q]
  BY <1>3, RequestMoves
<1>4. CASE Restart
  <2>1. Begun(q) => req[q] \in Request
    BY RequestType
  <2>2. \/ req'[q] = req[q]
        \/ /\ Begun(q) /\ req[q].pc # "done"
           /\ req'[q] = [req[q] EXCEPT !.pc = "failed"]
    BY <1>4 DEF Restart
  <2>3. req'[q] = req[q] \/ (~Done(q) /\ req'[q].pc = "failed")
    BY <2>1, <2>2 DEF Done, Request
  <2> QED BY <1>1, <2>3 DEF Done
<1> QED
  BY <1>1, <1>2, <1>3, <1>4, RequestSteps

\* The answers of the log stay, but for that step.
LEMMA SameAnswers ==
  ASSUME TypeOK, [Next]_vars, \A q \in Requests : ~EmitSent(q)
  PROVE  Answered' = Answered
<1>1. \A q \in Requests : Done(q)' <=> Done(q)
  BY AnsweredStays
<1>2. \A q \in Requests : Begun(q) => req'[q].session = req[q].session
  BY BegunStays
<1>3. ASSUME NEW x PROVE x \in Answered' <=> x \in Answered
  BY <1>1, <1>2 DEF Answered, Done
<1> QED
  BY <1>3

\* What is announced of messages is told by these steps only.
LEMMA SameHeard ==
  ASSUME TypeOK, [Next]_vars, \A q \in Requests : ~EmitSent(q),
         \A s \in Sessions, l \in Loops :
           EmitNode(s, l) => loop[s][l].node.kind # "message"
  PROVE  Announced' = Announced
<1>1. CASE told' = told
  BY <1>1 DEF Announced, Heard
<1>2. ASSUME NEW s \in Sessions, NEW l \in Loops, EmitNode(s, l)
      PROVE  Announced' = Announced
  <2>1. told' = told \cup {<<"message.status_updated", s, m>> :
                             m \in loop[s][l].node.ids}
    <3>1. EventOf(loop[s][l].node) = "message.status_updated"
      BY <1>2 DEF EventOf
    <3> QED BY <1>2, <3>1 DEF EmitNode
  <2>2. \A x \in Keys, event \in MessageEvents :
          <<event, x[1], x[2]>> \in told' <=> <<event, x[1], x[2]>> \in told
    BY <2>1 DEF MessageEvents
  <2> QED BY <2>2 DEF Announced, Heard, MessageEvents
<1>3. \/ told' = told
      \/ \E s \in Sessions, l \in Loops : EmitNode(s, l)
      \/ \E q \in Requests : EmitSent(q)
  BY ToldSteps
<1> QED
  BY <1>1, <1>2, <1>3
\* The fate of a message, by what is stored, known and lost.
FateRead(s, m) ==
  /\ Fate(s, m) = "stored" <=> Stored(s, m)
  /\ Fate(s, m) = "lost" <=> ~Stored(s, m) /\ <<s, m>> \in lost
  /\ Fate(s, m) = "due" <=> /\ ~Stored(s, m) /\ <<s, m>> \in known
                            /\ <<s, m>> \notin lost
  /\ Fate(s, m) = "unknown" <=> <<s, m>> \notin known
  /\ Fate(s, m) \in {"stored", "lost", "due", "unknown"}
\* In a reachable state the four fates tell these four situations apart.
LEMMA FateIs == IInv => \A s \in Sessions, m \in Ids : FateRead(s, m)
<1> SUFFICES ASSUME IInv, NEW s \in Sessions, NEW m \in Ids PROVE FateRead(s, m)
  OBVIOUS
<1> USE DEF FateRead
<1>1. Stored(s, m) \/ <<s, m>> \in lost => <<s, m>> \in known
  BY DEF IInv, LedgerInv, LedgerOK
<1>2. CASE Stored(s, m)
  BY <1>1, <1>2 DEF Fate
<1>3. CASE ~Stored(s, m) /\ <<s, m>> \in lost
  BY <1>1, <1>3 DEF Fate
<1>4. CASE ~Stored(s, m) /\ <<s, m>> \notin lost /\ <<s, m>> \in known
  BY <1>4 DEF Fate
<1>5. CASE ~Stored(s, m) /\ <<s, m>> \notin lost /\ <<s, m>> \notin known
  BY <1>5 DEF Fate
<1> QED
  BY <1>2, <1>3, <1>4, <1>5

\* A step that saves no row leaves sides and contents alone.
LEMMA SameRows ==
  ASSUME TypeOK, [Next]_vars, NEW s \in Sessions, NEW m \in Ids,
         \A l \in Loops : ~SavedBy(s, l, m),
         \A q \in Requests : ~SentBy(q, s, m)
  PROVE  /\ Stored(s, m)' <=> Stored(s, m)
         /\ Side(s, m)' = Side(s, m)
         /\ rows'[s][m].type = rows[s][m].type
<1>1. \/ rows'[s][m] = rows[s][m]
      \/ \E status : Marked(s, m, status)
  BY RowChange DEF ReceivedBy, EditedBy
<1>2. NoRow \notin Row
  BY DEF NoRow, Row
<1> QED
  BY <1>1, <1>2 DEF Marked, Stored, Side

\* A step that neither saves nor announces a message brings some, or loses some.
LEMMA QuietStep ==
  ASSUME IInv, IInv', [Next]_vars,
         \A s \in Sessions, m \in Ids :
           /\ \A l \in Loops : ~SavedBy(s, l, m)
           /\ \A q \in Requests : ~SentBy(q, s, m),
         Announced' = Announced, Answered' = Answered
  PROVE  Log!Next
<1>1. \A s \in Sessions, m \in Ids :
        /\ Stored(s, m)' <=> Stored(s, m)
        /\ Side(s, m)' = Side(s, m)
        /\ rows'[s][m].type = rows[s][m].type
  BY SameRows DEF IInv
<1>2. SameSides /\ Contents' = Contents
  BY <1>1 DEF SameSides, Contents, Keys
<1> DEFINE gone == {k \in Keys : ~Stored(k[1], k[2]) /\ k \in lost' /\ k \notin lost}
           due == {k \in Keys : k \in known' /\ k \notin known /\ k \notin lost'}
<1>3. \A s \in Sessions, m \in Ids : FateRead(s, m) /\ FateRead(s, m)'
  <2>1. (\A s \in Sessions, m \in Ids : FateRead(s, m))'
    BY FateIs, PTL
  <2> QED BY <2>1, FateIs
<1>4. \A s \in Sessions, m \in Ids : LedgerOK(s, m) /\ LedgerOK(s, m)'
  BY DEF IInv, LedgerInv
<1>5. known \subseteq known' /\ lost \subseteq lost'
  BY Grows
<1>6. CASE known' = known
  <2>1. ASSUME NEW s \in Sessions, NEW m \in Ids
        PROVE  /\ <<s, m>> \in gone => Fate(s, m) = "due"
               /\ Fate(s, m)' = IF <<s, m>> \in gone THEN "lost" ELSE Fate(s, m)
    <3>1. <<s, m>> \in lost' => <<s, m>> \in known
      BY <1>4, <1>6 DEF LedgerOK
    <3>2. <<s, m>> \in Keys
      BY DEF Keys
    <3> QED BY <1>1, <1>3, <1>5, <1>6, <3>1, <3>2 DEF FateRead
  <2> HIDE DEF gone
  <2>2. \A k \in gone : Fate(k[1], k[2]) = "due"
    BY <2>1 DEF gone, Keys
  <2>3. \A k \in Keys : Fate(k[1], k[2])' = IF k \in gone THEN "lost"
                                            ELSE Fate(k[1], k[2])
    BY <2>1 DEF Keys
  <2>4. gone \in SUBSET Keys
    BY DEF gone
  <2> QED BY <1>2, <2>2, <2>3, <2>4, LogLoses
<1>7. CASE known' # known
  <2>1. ASSUME NEW s \in Sessions, NEW m \in Ids,
               <<s, m>> \in lost', <<s, m>> \notin lost
        PROVE  <<s, m>> \notin known
    <3>1. PICK x \in Keys : x \in known' /\ x \notin known
      BY <1>5, <1>7 DEF IInv, TypeOK
    <3>2. \/ \E t \in Sessions, i \in Incoming : Deliver(t, i)
          \/ \E q \in Requests : Accepted(q) /\ (Send(q) \/ SendUnanswered(q))
      <4>1. PICK t \in Sessions, i \in Ids : x = <<t, i>>
        BY DEF Keys
      <4> QED BY <3>1, <4>1, KnownChange DEF IInv
    <3>3. PICK q \in Requests : SendUnanswered(q) /\ Accepted(q)
      BY <2>1, <3>2 DEF Deliver, Send
    <3>4. m = q /\ m \in Requests /\ req[m].pc = "send"
      BY <2>1, <3>3 DEF SendUnanswered, Accepted
    <3> QED BY <1>4, <3>4 DEF LedgerOK
  <2>2. ASSUME NEW s \in Sessions, NEW m \in Ids
        PROVE  /\ <<s, m>> \in due \cup gone => Fate(s, m) = "unknown"
               /\ Fate(s, m)' = IF <<s, m>> \in due THEN "due"
                                ELSE IF <<s, m>> \in gone THEN "lost"
                                ELSE Fate(s, m)
    <3>1. <<s, m>> \in lost' => <<s, m>> \in known'
      BY <1>4 DEF LedgerOK
    <3>2. Stored(s, m) => <<s, m>> \in known
      BY <1>4 DEF LedgerOK
    <3>3. <<s, m>> \in Keys
      BY DEF Keys
    <3> QED BY <1>1, <1>3, <1>5, <2>1, <3>1, <3>2, <3>3 DEF FateRead
  <2> HIDE DEF gone, due
  <2>3. \A k \in due \cup gone : Fate(k[1], k[2]) = "unknown"
    BY <2>2 DEF due, gone, Keys
  <2>4. \A k \in Keys : Fate(k[1], k[2])' = IF k \in due THEN "due"
                                            ELSE IF k \in gone THEN "lost"
                                            ELSE Fate(k[1], k[2])
    BY <2>2 DEF Keys
  <2>5. gone \in SUBSET Keys /\ due \in SUBSET Keys
    BY DEF gone, due
  <2> QED BY <1>2, <2>3, <2>4, <2>5, LogArrives
<1> QED
  BY <1>6, <1>7
\* A step that writes the row of a known message, with its content or for the
\* first time, stores it on the side it belongs to.
LEMMA SaveStep ==
  ASSUME IInv, IInv', [Next]_vars, NEW s \in Sessions, NEW m \in Ids,
         NEW new \in Row, rows' = Upsert(s, m, new),
         new.type = "content" \/ ~Stored(s, m),
         <<s, m>> \in known, known' = known, lost' = lost,
         Announced' = Announced, Answered' = Answered
  PROVE  Log!Next
<1> DEFINE k == <<s, m>>
           d == new.direction
<1>1. /\ rows'[s][m] = new
      /\ \A t \in Sessions, i \in Ids : t # s \/ i # m => rows'[t][i] = rows[t][i]
  BY UpsertType DEF IInv
<1>2. /\ Stored(s, m)' /\ Side(s, m)' = d
      /\ \A t \in Sessions, i \in Ids :
           t # s \/ i # m => /\ Stored(t, i)' <=> Stored(t, i)
                             /\ Side(t, i)' = Side(t, i)
                             /\ Fate(t, i)' = Fate(t, i)
  BY <1>1 DEF Stored, Side, Fate, Row, NoRow
<1>3. Fate(s, m)' = "stored" /\ Fate(s, m) # "unknown"
  <2>1. Fate(s, m)' = "stored"
    BY <1>2 DEF Fate
  <2> QED BY <2>1, FateIs DEF FateRead
<1>4. Side(s, m) \in {"none", d}
  <2>1. CASE ~Stored(s, m)
    BY <2>1 DEF Side
  <2>2. CASE Stored(s, m)
    <3>1. Own(s, m)' <=> Own(s, m)
      BY OwnStays DEF IInv
    <3>2. rows[s][m].direction = "outbound" <=> Own(s, m)
      BY <2>2 DEF IInv, OwnSide, Own
    <3>3. d = "outbound" <=> Own(s, m)'
      BY <1>1, <1>2 DEF IInv, OwnSide, Own
    <3>4. /\ rows[s][m].direction \in {"inbound", "outbound"}
          /\ d \in {"inbound", "outbound"}
      BY <2>2, RowType DEF IInv, Row
    <3> QED BY <2>2, <3>1, <3>2, <3>3, <3>4 DEF Side
  <2> QED BY <2>1, <2>2
<1>5. Contents' \in {Contents, Contents \cup {k}}
  <2>1. \A j \in Keys : j # k =>
          (rows'[j[1]][j[2]].type = "content" <=> rows[j[1]][j[2]].type = "content")
    BY <1>1 DEF Keys
  <2>2. k \in Keys /\ rows'[k[1]][k[2]] = new
    BY <1>1 DEF Keys
  <2>3. CASE new.type = "content"
    BY <2>1, <2>2, <2>3 DEF Contents
  <2>4. CASE new.type # "content" /\ ~Stored(s, m)
    <3>1. rows[k[1]][k[2]].type # "content"
      BY <2>4 DEF Stored, NoRow
    <3> QED BY <2>1, <2>2, <2>4, <3>1 DEF Contents
  <2> QED BY <2>3, <2>4
<1>6. k \in Keys /\ d \in {"inbound", "outbound"}
  BY DEF Keys, Row
<1>7. /\ Fate(k[1], k[2]) # "unknown" /\ Side(k[1], k[2]) \in {"none", d}
      /\ \A j \in Keys : Fate(j[1], j[2])' = IF j = k THEN "stored"
                                             ELSE Fate(j[1], j[2])
      /\ \A j \in Keys : Side(j[1], j[2])' = IF j = k THEN d ELSE Side(j[1], j[2])
  BY <1>2, <1>3, <1>4 DEF Keys
<1> HIDE DEF k, d
<1> QED
  BY <1>5, <1>6, <1>7, LogStores

\* A step that writes no row, nor changes what is known and lost, and tells of a
\* stored message, announces it.
LEMMA TellStep ==
  ASSUME IInv, NEW s \in Sessions, NEW m \in Ids, Stored(s, m),
         rows' = rows, known' = known, lost' = lost,
         NEW d \in {"inbound", "outbound"}, Own(s, m) <=> d = "outbound",
         Announced' = Announced \cup {<<d, <<s, m>>>>},
         \/ Answered' = Answered
         \/ d = "outbound" /\ Answered' = Answered \cup {<<s, m>>}
  PROVE  Log!Next
<1> DEFINE k == <<s, m>>
<1>1. k \in Keys
  BY DEF Keys
<1>2. Fate(s, m) = "stored"
  BY DEF Fate
<1>3. Side(s, m) = d
  <2>1. /\ rows[s][m].direction = "outbound" <=> Own(s, m)
        /\ rows[s][m].direction \in {"inbound", "outbound"}
    BY RowType DEF IInv, OwnSide, Own, Row
  <2> QED BY <2>1 DEF Side
<1>4. \A t \in Sessions, i \in Ids : Fate(t, i)' = Fate(t, i) /\ Side(t, i)' = Side(t, i)
  BY DEF Fate, Side, Stored
<1>5. /\ \A j \in Keys : Fate(j[1], j[2])' = Fate(j[1], j[2])
      /\ SameSides /\ Contents' = Contents
  BY <1>4 DEF SameSides, Contents, Keys
<1>6. Fate(k[1], k[2]) = "stored" /\ Side(k[1], k[2]) = d
  BY <1>2, <1>3
<1>7. /\ Announced' = Announced \cup {<<d, k>>}
      /\ Answered' = Answered \/ (d = "outbound" /\ Answered' = Answered \cup {k})
  OBVIOUS
<1> HIDE DEF k
<1> QED
  BY <1>1, <1>5, <1>6, <1>7, LogAnnounces
\* What is told of one message, as of a side, is announced.
LEMMA ToldIs ==
  ASSUME NEW s \in Sessions, NEW m \in Ids, NEW d \in {"inbound", "outbound"},
         NEW event, event = (IF d = "outbound" THEN "message.sent"
                             ELSE "message.received"),
         told' = told \cup {<<event, s, m>>}
  PROVE  Announced' = Announced \cup {<<d, <<s, m>>>>}
<1>1. <<s, m>> \in Keys
  BY DEF Keys
<1>2. \A k \in Keys : k = <<k[1], k[2]>>
  BY DEF Keys
<1>3. CASE d = "outbound"
  <2>1. Heard("message.sent", "outbound")'
          = Heard("message.sent", "outbound") \cup {<<"outbound", <<s, m>>>>}
    BY <1>1, <1>2, <1>3 DEF Heard
  <2>2. Heard("message.received", "inbound")' = Heard("message.received", "inbound")
    BY <1>3 DEF Heard
  <2> QED BY <1>3, <2>1, <2>2 DEF Announced
<1>4. CASE d = "inbound"
  <2>1. Heard("message.received", "inbound")'
          = Heard("message.received", "inbound") \cup {<<"inbound", <<s, m>>>>}
    BY <1>1, <1>2, <1>4 DEF Heard
  <2>2. Heard("message.sent", "outbound")' = Heard("message.sent", "outbound")
    BY <1>4 DEF Heard
  <2> QED BY <1>4, <2>1, <2>2 DEF Announced
<1> QED
  BY <1>3, <1>4

\* Every step of the program is one of the log's.
LEMMA LogStep ==
  ASSUME IInv, IInv', OnceInv, KeysInv, [Next]_vars
  PROVE  Log!Next
<1> USE DEF IInv
<1>1. ASSUME NEW s \in Sessions, NEW l \in Loops, SaveIncoming(s, l)
      PROVE  Log!Next
  <2> DEFINE hand == loop[s][l]
  <2>1. /\ hand \in Hand /\ hand # Idle /\ hand.stage = "write"
        /\ hand.node.kind = "message" /\ NodeOK(s, hand.node)
    BY <1>1, HandType, HeldNode DEF SaveIncoming, Idle
  <2>2. PICK m \in hand.node.ids : rows' = Upsert(s, m, IncomingRow(hand))
    BY <1>1 DEF SaveIncoming
  <2>3. m \in Ids /\ IncomingRow(hand) \in Row /\ Has(s, l, m)
    BY <2>1, IncomingRowType DEF Hand, Node, Has, IsOf
  <2>4. MessageOK(s, hand.node, m)
    BY <2>1, <2>3, NodeOf DEF Has, Hand
  <2>5. IncomingRow(hand).type = "content" \/ ~Stored(s, m)
    <3>1. CASE Head(hand.node.parts) = "content"
      BY <3>1 DEF IncomingRow
    <3>2. CASE Head(hand.node.parts) # "content"
      <4>1. KeysFirst(hand.node)
        BY <2>4, <3>2 DEF MessageOK, Parts, KeysFirst
      <4> QED BY <2>1, <2>3, <4>1 DEF KeysInv, KeysOK, KeyHeld
    <3> QED BY <3>1, <3>2
  <2>6. known' = known /\ lost' = lost /\ told' = told /\ req' = req
    BY <1>1 DEF SaveIncoming
  <2>7. Announced' = Announced /\ Answered' = Answered
    BY <2>6 DEF Announced, Heard, Answered, Begun
  <2> HIDE DEF hand
  <2> QED BY <2>2, <2>3, <2>4, <2>5, <2>6, <2>7, SaveStep DEF MessageOK
<1>2. ASSUME NEW q \in Requests, Save(q)
      PROVE  Log!Next
  <2>1. /\ Begun(q) /\ req[q].session \in Sessions /\ req[q].pc = "save"
        /\ q \in Ids /\ OutboundRow(q) \in Row
    BY <1>2, RequestType, OutboundRowType DEF Save, Request, Ids
  <2>2. ~Stored(req[q].session, q) /\ <<req[q].session, q>> \in known
    BY <2>1 DEF RequestInv, RequestOK
  <2>3. /\ rows' = Upsert(req[q].session, q, OutboundRow(q)) /\ Goto(q, "emit")
        /\ known' = known /\ lost' = lost /\ told' = told
    BY <1>2 DEF Save
  <2>4. \A r \in Requests : ~EmitSent(r)
    <3>1. ASSUME NEW r \in Requests, EmitSent(r) PROVE FALSE
      <4>1. req[r].pc = "emit" /\ Begun(r) /\ Goto(r, "done")
        BY <3>1, RequestType DEF EmitSent
      <4> QED BY <2>1, <2>3, <4>1, GotoEffect
    <3> QED BY <3>1
  <2>5. Announced' = Announced /\ Answered' = Answered
    BY <2>3, <2>4, SameAnswers DEF Announced, Heard
  <2> QED BY <2>1, <2>2, <2>3, <2>5, SaveStep
<1>3. ASSUME NEW s \in Sessions, NEW l \in Loops, EmitNode(s, l),
             loop[s][l].node.kind = "message"
      PROVE  Log!Next
  <2> DEFINE node == loop[s][l].node
  <2>1. loop[s][l] # Idle /\ node \in Node /\ NodeOK(s, node)
    BY <1>3, HandType, HeldNode DEF EmitNode
  <2>2. PICK m \in Ids : MessageOK(s, node, m)
    BY <1>3, <2>1 DEF NodeOK
  <2>3. node.ids = {m} /\ (node.mine <=> Own(s, m))
    BY <2>2 DEF MessageOK
  <2>4. Stored(s, m)
    BY <1>3, <2>3 DEF EmitNode, HandInv, HandOK
  <2>5. Leave(s, l, FALSE) /\ rows' = rows /\ known' = known /\ req' = req
    BY <1>3 DEF EmitNode
  <2>6. lost' = lost
    BY <2>1, <2>5, LeaveEffect
  <2>7. told' = told \cup {<<EventOf(node), s, m>>}
    BY <1>3, <2>3 DEF EmitNode
  <2>8. PICK d \in {"inbound", "outbound"} : d = "outbound" <=> Own(s, m)
    OBVIOUS
  <2>9. EventOf(node) = IF d = "outbound" THEN "message.sent" ELSE "message.received"
    BY <1>3, <2>3, <2>8 DEF EventOf
  <2> HIDE DEF node
  <2>10. Announced' = Announced \cup {<<d, <<s, m>>>>}
    BY <2>7, <2>9, ToldIs
  <2>11. Answered' = Answered
    BY <2>5 DEF Answered, Begun
  <2> QED BY <2>4, <2>5, <2>6, <2>8, <2>10, <2>11, TellStep
<1>4. ASSUME NEW q \in Requests, EmitSent(q)
      PROVE  Log!Next
  <2> DEFINE s == req[q].session
  <2>1. /\ Begun(q) /\ s \in Sessions /\ req[q].pc = "emit" /\ q \in Ids
    BY <1>4, RequestType DEF EmitSent, Request, Ids
  <2>2. Stored(s, q) /\ Own(s, q)
    BY <2>1 DEF RequestInv, RequestOK, Own
  <2>3. /\ rows' = rows /\ known' = known /\ lost' = lost /\ Goto(q, "done")
        /\ told' = told \cup {<<"message.sent", s, q>>}
    BY <1>4 DEF EmitSent
  <2>4. /\ req'[q].session = s /\ Done(q)'
        /\ \A r \in Requests : r # q => req'[r] = req[r]
    BY <2>1, <2>3, GotoEffect DEF Done
  <2> HIDE DEF s
  <2>5. Announced' = Announced \cup {<<"outbound", <<s, q>>>>}
    BY <2>1, <2>3, ToldIs
  <2>6. Answered' = Answered \cup {<<s, q>>}
    <3>1. \A r \in Requests : r # q => (Done(r)' <=> Done(r))
      BY <2>4 DEF Done, Begun
    <3>2. ASSUME NEW x PROVE x \in Answered' <=> x \in Answered \/ x = <<s, q>>
      BY <2>1, <2>4, <3>1 DEF Answered, Done, s
    <3> QED BY <3>2
  <2> QED BY <2>1, <2>2, <2>3, <2>5, <2>6, TellStep
<1>5. CASE /\ \A s \in Sessions, l \in Loops :
                /\ ~SaveIncoming(s, l)
                /\ EmitNode(s, l) => loop[s][l].node.kind # "message"
           /\ \A q \in Requests : ~Save(q) /\ ~EmitSent(q)
  BY <1>5, SameHeard, SameAnswers, QuietStep DEF SavedBy, SentBy
<1> QED
  BY <1>1, <1>2, <1>3, <1>4, <1>5

\* The table, and what is announced and answered, keep the promise of the log.
THEOREM Implements == Spec => KeepsLog
<1>1. Init => Log!Init
  <2> SUFFICES ASSUME Init PROVE Log!Init
    OBVIOUS
  <2>1. \A k \in Keys : /\ ~Stored(k[1], k[2]) /\ k \notin lost /\ k \notin known
                        /\ rows[k[1]][k[2]].type # "content"
    BY DEF Init, Keys, Stored, NoRow
  <2>2. \A k \in Keys : <<k[1], k[2]>> = k
    BY DEF Keys
  <2>3. \A k \in Keys : Fate(k[1], k[2]) = "unknown" /\ Side(k[1], k[2]) = "none"
    BY <2>1, <2>2 DEF Fate, Side
  <2>4. told = {} /\ \A q \in Requests : ~Begun(q)
    BY DEF Init, Begun
  <2> QED BY <2>1, <2>3, <2>4 DEF Log!Init, Heard
<1>2. IInv /\ IInv' /\ OnceInv /\ KeysInv /\ [Next]_vars => [Log!Next]_Log!vars
  BY LogStep
<1> QED
  BY <1>1, <1>2, Invariance, OncePlaced, PTL DEF Spec, KeepsLog, Log!Spec
=============================================================================
