---------------------------- MODULE MessagePages ----------------------------
(* Reading the messages of a session: pages by cursor                         *)
(* (MessageRepository.List, internal/store/message_repo.go) and the list of   *)
(* chats (ReadService.ListChats, internal/store/read_service.go), while       *)
(* messages are saved and the client library learns which phone number is     *)
(* behind a hidden id ("lid").  Each statement is one step.                   *)
EXTENDS Integers, FiniteSets

CONSTANTS
  Phones,        \* chats named by a phone number
  Lids,          \* chats named by a hidden id
  AnyChat,       \* the empty chatJid: no filter
  MaxLimit,      \* the largest page: 100 in the code
  DefaultLimit,  \* the page when none, or a larger one, is asked for: 50
  MaxRows,       \* bound: ids ever given
  MaxTime        \* bound: message timestamps

ASSUME ChatsAssumption ==
  Phones \cap Lids = {} /\ AnyChat \notin Phones \cup Lids
ASSUME LimitsAssumption ==
  /\ MaxLimit \in Nat /\ DefaultLimit \in 1..MaxLimit
  /\ MaxRows \in Nat /\ MaxTime \in Nat

VARIABLES
  table,   \* the session's rows of messages, by id
  nextId,  \* BIGSERIAL of messages
  pnOf,    \* whatsmeow_lid_map; a lid it does not have stands for itself
  reader,  \* a caller that asks for page after page
  shown,   \* history: how often it was given each row
  steady   \* history: rows that were there for it, and of its chat, all along

vars == <<table, nextId, pnOf, reader, shown, steady>>

Chats == Phones \cup Lids
RowIds == 1..MaxRows

\* An id taken by an INSERT that has not committed, or never will, has no row.
Row == [state: {"there"}, chat: Chats, time: 0..MaxTime]
NoRow == [state |-> "none"]
Rows == {i \in RowIds : table[i] # NoRow}
Reader == [state: {"idle", "reading", "ended"}, chat: Chats \cup {AnyChat},
           limit: 0..(MaxLimit + 1), cursor: 0..MaxRows]

TypeOK ==
  /\ table \in [RowIds -> Row \cup {NoRow}]
  /\ nextId \in 1..(MaxRows + 1)
  /\ pnOf \in [Lids -> Chats]
  /\ reader \in Reader
  /\ shown \in [RowIds -> Nat]
  /\ steady \in SUBSET RowIds

Init ==
  /\ table = [i \in RowIds |-> NoRow]
  /\ nextId = 1
  /\ pnOf = [l \in Lids |-> l]
  /\ reader = [state |-> "idle", chat |-> AnyChat, limit |-> 0, cursor |-> 0]
  /\ shown = [i \in RowIds |-> 0]
  /\ steady = {}

-----------------------------------------------------------------------------
(* The statements that read.                                                  *)

\* canonicalChatJIDExpr: COALESCE of the number behind a lid and the lid.
Canonical(names, chat) == IF chat \in Lids THEN names[chat] ELSE chat

\* WHERE canonical(chat_jid) = canonical($2) OR chat_jid = $2
Matches(names, chat, wanted) ==
  \/ wanted = AnyChat
  \/ Canonical(names, chat) = Canonical(names, wanted)
  \/ chat = wanted

Listing(wanted) == {i \in Rows : Matches(pnOf, table[i].chat, wanted)}

PageSize(limit) == IF limit <= 0 \/ limit > MaxLimit THEN DefaultLimit ELSE limit

\* AND id < $cursor, unless the cursor is zero.
After_Inclusive(i, cursor) == cursor > 0 => i <= cursor
After(i, cursor) == cursor > 0 => i < cursor

\* ORDER BY id DESC LIMIT: the rows with fewer than a page of rows above them.
Page_Ascending(wanted, limit, cursor) ==
  LET rest == {i \in Listing(wanted) : After(i, cursor)}
  IN  {i \in rest : Cardinality({j \in rest : j < i}) < PageSize(limit)}
Page(wanted, limit, cursor) ==
  LET rest == {i \in Listing(wanted) : After(i, cursor)}
  IN  {i \in rest : Cardinality({j \in rest : j > i}) < PageSize(limit)}

\* ListChats: one summary per canonical chat, with the number of its messages
\* and its last one, ORDER BY message_timestamp DESC, id DESC.
Later(i, j) ==
  table[i].time > table[j].time \/ (table[i].time = table[j].time /\ i > j)

Summary(ids, chat) ==
  [chat |-> chat, count |-> Cardinality(ids),
   last |-> CHOOSE i \in ids : \A j \in ids \ {i} : Later(i, j)]

ListChats_ByName ==
  {Summary({i \in Rows : table[i].chat = chat}, chat) :
     chat \in {table[i].chat : i \in Rows}}
ListChats ==
  {Summary({i \in Rows : Canonical(pnOf, table[i].chat) = chat}, chat) :
     chat \in {Canonical(pnOf, table[i].chat) : i \in Rows}}

-----------------------------------------------------------------------------
(* What happens meanwhile.                                                    *)

\* Rows that stop matching are no longer among those the reader must be shown.
StillSteady ==
  steady' = {i \in steady : Matches(pnOf', table'[i].chat, reader.chat)}

\* An INSERT takes its id before it commits; one that ends as an update, or
\* fails, leaves a gap.
TakeId ==
  /\ nextId <= MaxRows
  /\ nextId' = nextId + 1
  /\ UNCHANGED <<table, pnOf, reader, shown, steady>>

Put_Filter(i, chat, time) ==
  /\ table' = [table EXCEPT ![i] = [state |-> "there", chat |-> reader.chat,
                                    time |-> time]]
  /\ UNCHANGED <<nextId, pnOf, reader, shown>>
  /\ StillSteady
Put(i, chat, time) ==
  /\ table' = [table EXCEPT ![i] = [state |-> "there", chat |-> chat,
                                    time |-> time]]
  /\ UNCHANGED <<nextId, pnOf, reader, shown>>
  /\ StillSteady

CommitInsert(i, chat, time) ==
  i < nextId /\ table[i] = NoRow /\ Put(i, chat, time)

\* ON CONFLICT DO UPDATE keeps the id and overwrites chat and timestamp.
CommitUpdate(i, chat, time) ==
  table[i] # NoRow /\ Put(i, chat, time)

\* A number is the number of one lid: an older one loses it.
LearnNumber(lid, phone) ==
  /\ pnOf' = [k \in Lids |-> IF k = lid THEN phone
                             ELSE IF pnOf[k] = phone THEN k ELSE pnOf[k]]
  /\ UNCHANGED <<table, nextId, reader, shown>>
  /\ StillSteady

-----------------------------------------------------------------------------
(* A caller of GET /messages.  It asks for the rows before the last id it was *)
(* given, until there are none.                                               *)

OpenList(chat, limit) ==
  /\ reader.state # "reading"
  /\ reader' = [state |-> "reading", chat |-> chat, limit |-> limit,
                cursor |-> 0]
  /\ shown' = [i \in RowIds |-> 0]
  /\ steady' = Listing(chat)
  /\ UNCHANGED <<table, nextId, pnOf>>

NextPage ==
  /\ reader.state = "reading"
  /\ LET page == Page(reader.chat, reader.limit, reader.cursor)
     IN  IF page = {}
         THEN /\ reader' = [reader EXCEPT !.state = "ended"]
              /\ UNCHANGED shown
         ELSE /\ reader' = [reader EXCEPT
                              !.cursor = CHOOSE i \in page :
                                           \A j \in page : i <= j]
              /\ shown' = [i \in RowIds |-> IF i \in page THEN shown[i] + 1
                                            ELSE shown[i]]
  /\ UNCHANGED <<table, nextId, pnOf, steady>>

Next ==
  \/ TakeId
  \/ \E i \in RowIds, chat \in Chats, time \in 0..MaxTime :
       CommitInsert(i, chat, time) \/ CommitUpdate(i, chat, time)
  \/ \E lid \in Lids, phone \in Phones : LearnNumber(lid, phone)
  \/ \E chat \in Chats \cup {AnyChat}, limit \in 0..(MaxLimit + 1) :
       OpenList(chat, limit)
  \/ NextPage

Spec == Init /\ [][Next]_vars

-----------------------------------------------------------------------------
(* Properties.                                                                *)

\* No row is shown twice in a run through the pages, whatever is inserted,
\* committed late, moved to another chat or renamed meanwhile.
NeverTwice == \A i \in RowIds : shown[i] <= 1

\* A run through the pages that has come to its end has shown every row that
\* was there when it began and matched all along.
NothingSkipped ==
  reader.state = "ended" => \A i \in steady : shown[i] > 0

\* The chat list and the pages agree: every message is in exactly one chat of
\* the list, and asking for that chat gives as many messages as it says and
\* the one it calls the last, however chats were named when they were stored.
ChatsAddUp ==
  /\ \A c \in ListChats :
       c.count = Cardinality(Listing(c.chat)) /\ c.last \in Listing(c.chat)
  /\ \A i \in Rows :
       Cardinality({c \in ListChats : i \in Listing(c.chat)}) = 1
=============================================================================
