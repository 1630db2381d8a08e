-------------------------- MODULE AnalyticsSummary --------------------------
(* ReadService.GetAnalyticsSummary and GetDashboardSummary                    *)
(* (internal/store/read_service.go): four statements each, one after the      *)
(* other and in no transaction, whose results make one page of figures, while *)
(* messages are saved and days pass.                                          *)
(*                                                                            *)
(* Every figure is a number of messages and is kept as the set of the ids     *)
(* counted.  Inbound and outbound figures split the same sets; how many chats *)
(* and sessions the counted messages belong to is left out, and so are the    *)
(* list of sessions and the number of webhooks of the dashboard, two of its   *)
(* statements, which no other figure is about.                                *)
EXTENDS Integers, FiniteSets

CONSTANTS
  Sessions,    \* session ids
  AllSessions, \* no session asked for
  Chats,       \* chats, as the rows name them
  DayCount,    \* days of the range: 7 or 30
  TopLimit,    \* chats of the ranking: 8
  ActivityLimit, \* messages of the activity feed: 12
  DayLength,   \* units of time in a day
  MaxRows,     \* bound: messages
  MaxTime      \* bound: the last moment

ASSUME NamesAssumption == AllSessions \notin Sessions
ASSUME RangeAssumption ==
  /\ DayCount \in Nat \ {0} /\ TopLimit \in Nat \ {0}
  /\ ActivityLimit \in Nat \ {0} /\ DayLength \in Nat \ {0}
  /\ MaxRows \in Nat /\ MaxTime \in Nat /\ MaxTime >= DayCount * DayLength

VARIABLES
  messages,  \* the table, by id, of all sessions
  now,       \* the process's clock
  call,      \* the request and its results so far
  written    \* history: messages saved since the request began
vars == <<messages, now, call, written>>

RowIds == 1..MaxRows
Times == 0..MaxTime
Row == [session: Sessions, chat: Chats, time: Times]
NoRow == [time |-> -1]
Ids == {i \in RowIds : messages[i] # NoRow}

TopChat == [session: Sessions, chat: Chats, ids: SUBSET RowIds]
\* A dashboard asks for all sessions, and its totals are those of 24 hours.
Call ==
  [page: {"analytics", "dashboard"},
   pc: {"idle", "totals", "daily", "chats", "sessions", "activity", "done"},
   session: Sessions \cup {AllSessions}, since: Int, totals: SUBSET RowIds,
   daily: [0..(DayCount - 1) -> SUBSET RowIds],
   topChats: SUBSET TopChat, breakdown: [Sessions -> SUBSET RowIds],
   activity: SUBSET RowIds]
Empty ==
  [page |-> "analytics", pc |-> "idle",
   session |-> AllSessions, since |-> 0, totals |-> {},
   daily |-> [k \in 0..(DayCount - 1) |-> {}],
   topChats |-> {}, breakdown |-> [s \in Sessions |-> {}],
   activity |-> {}]

TypeOK ==
  /\ messages \in [RowIds -> Row \cup {NoRow}]
  /\ now \in Times
  /\ call \in Call
  /\ written \in SUBSET RowIds

\* The table starts empty, and the days before the first are behind it.
Init ==
  /\ messages = [i \in RowIds |-> NoRow]
  /\ now = DayCount * DayLength - 1
  /\ call = Empty
  /\ written = {}

-----------------------------------------------------------------------------
(* The statements.                                                            *)

\* startOfUTCDay
StartOfDay(t) == t - (t % DayLength)

\* WHERE message_timestamp >= since [AND session_id = session]
Since(since, session) ==
  {i \in Ids : /\ messages[i].time >= since
               /\ session \in {AllSessions, messages[i].session}}

\* date_trunc('day', message_timestamp), for the day k days after since.
OfDay(ids, since, k) ==
  {i \in ids : StartOfDay(messages[i].time) = since + k * DayLength}

\* buildDailySeries: the days of the range, those without a message too.
DailySeries_WithGaps(ids, since) ==
  [k \in {d \in 0..(DayCount - 1) : OfDay(ids, since, d) # {}} |->
     OfDay(ids, since, k)]
DailySeries(ids, since) ==
  [k \in 0..(DayCount - 1) |-> OfDay(ids, since, k)]

\* PARTITION BY session_id, chat_jid, the chat as it was stored.
ChatCounts(ids) ==
  {[session |-> s, chat |-> c,
    ids |-> {i \in ids : messages[i].session = s /\ messages[i].chat = c}] :
     s \in Sessions, c \in Chats}

\* ORDER BY message_count DESC, LIMIT: any choice among equals.
TopChats(ids) ==
  LET counts == {x \in ChatCounts(ids) : x.ids # {}}
  IN  {top \in SUBSET counts :
         /\ Cardinality(top) = IF Cardinality(counts) < TopLimit
                               THEN Cardinality(counts) ELSE TopLimit
         /\ \A x \in top, y \in counts \ top :
              Cardinality(x.ids) >= Cardinality(y.ids)}

\* ORDER BY message_timestamp DESC, id DESC, LIMIT.
Newer_ById(i, j) == i > j
Newer(i, j) ==
  \/ messages[i].time > messages[j].time
  \/ messages[i].time = messages[j].time /\ i > j

RecentActivity ==
  {i \in Ids : Cardinality({j \in Ids : Newer(j, i)}) < ActivityLimit}

Breakdown(ids) == [s \in Sessions |-> {i \in ids : messages[i].session = s}]

-----------------------------------------------------------------------------
(* GetAnalyticsSummary: now is read once, before the first statement.         *)

Begin(session) ==
  /\ call.pc \in {"idle", "done"}
  /\ call' = [Empty EXCEPT !.pc = "totals", !.session = session,
                           !.since = StartOfDay(now) - (DayCount - 1) * DayLength]
  /\ written' = {}
  /\ UNCHANGED <<messages, now>>

Found == Since(call.since, call.session)

CountRecentMessages ==
  /\ call.pc = "totals"
  /\ call' = [call EXCEPT !.totals = Found,
                          !.pc = IF call.page = "dashboard" THEN "activity"
                                 ELSE "daily"]
  /\ UNCHANGED <<messages, now, written>>

ListDailyCounts ==
  /\ call.pc = "daily"
  /\ call' = [call EXCEPT !.pc = "chats",
                          !.daily = DailySeries(Found, call.since)]
  /\ UNCHANGED <<messages, now, written>>

ListTopChats ==
  /\ call.pc = "chats"
  /\ \E top \in TopChats(Found) :
       call' = [call EXCEPT !.pc = "sessions", !.topChats = top]
  /\ UNCHANGED <<messages, now, written>>

ListSessionBreakdown_AllTime ==
  /\ call.pc = "sessions"
  /\ call' = [call EXCEPT !.pc = "done",
                          !.breakdown = Breakdown(Since(0, call.session))]
  /\ UNCHANGED <<messages, now, written>>
ListSessionBreakdown ==
  /\ call.pc = "sessions"
  /\ call' = [call EXCEPT !.pc = "done", !.breakdown = Breakdown(Found)]
  /\ UNCHANGED <<messages, now, written>>

\* GetDashboardSummary: now is read once sessions.List has answered.
BeginDashboard ==
  /\ call.pc \in {"idle", "done"}
  /\ call' = [Empty EXCEPT !.page = "dashboard", !.pc = "totals",
                           !.since = now - DayLength]
  /\ written' = {}
  /\ UNCHANGED <<messages, now>>

\* listRecentActivity, after countActiveWebhooks.
ListRecentActivity ==
  /\ call.pc = "activity"
  /\ call' = [call EXCEPT !.pc = "done", !.activity = RecentActivity]
  /\ UNCHANGED <<messages, now, written>>

\* A failed statement ends the request without a page.
Fail ==
  /\ call.pc \notin {"idle", "done"}
  /\ call' = [Empty EXCEPT !.session = call.session]
  /\ UNCHANGED <<messages, now, written>>

\* A message of this moment, or one that comes late; the server that stamps it
\* and this process have the same clock.  Rows appear in the order of their ids
\* (MessagePages has them in any order).
SaveMessage(i, row) ==
  /\ messages[i] = NoRow /\ \A j \in RowIds : j < i => j \in Ids
  /\ row.time <= now
  /\ messages' = [messages EXCEPT ![i] = row]
  /\ written' = written \cup {i}
  /\ UNCHANGED <<now, call>>

\* Saved again, a message keeps the server's timestamp; its chat may be named
\* otherwise.
SaveAgain(i, chat) ==
  /\ i \in Ids
  /\ messages' = [messages EXCEPT ![i].chat = chat]
  /\ UNCHANGED <<now, call, written>>

Tick ==
  /\ now < MaxTime
  /\ now' = now + 1
  /\ UNCHANGED <<messages, call, written>>

Next ==
  \/ \E session \in Sessions \cup {AllSessions} : Begin(session)
  \/ CountRecentMessages \/ ListDailyCounts \/ ListTopChats
  \/ ListSessionBreakdown
  \/ BeginDashboard \/ ListRecentActivity \/ Fail
  \/ \E i \in RowIds, row \in Row : SaveMessage(i, row)
  \/ \E i \in RowIds, chat \in Chats : SaveAgain(i, chat)
  \/ Tick

Spec == Init /\ [][Next]_vars

-----------------------------------------------------------------------------
(* Properties.                                                                *)

Series == UNION {call.daily[k] : k \in DOMAIN call.daily}
Listed == UNION {call.breakdown[s] : s \in Sessions}
SameDay == StartOfDay(now) = call.since + (DayCount - 1) * DayLength

\* What differs between two parts was saved while the page was read, whatever
\* the days and sessions asked for; and the page, read from four states of the
\* table, never goes backwards: as long as the day is the same, what the totals
\* count is in the series, and what the series counts is in the breakdown.
DifferenceIsNew ==
  call.page = "analytics" /\ call.pc = "done" =>
    /\ Listed \ call.totals \subseteq written
    /\ call.totals \ Series \subseteq written
    /\ SameDay => call.totals \subseteq Series /\ Series \subseteq Listed
    /\ \A x \in call.topChats : x.ids \ call.totals \subseteq written

\* The dashboard's count of 24 hours and its activity feed, of two statements,
\* tell of the same messages: one counted is in the feed unless the feed is
\* full of messages as recent, and one in the feed was counted unless it is
\* older or was saved in between.
DashboardAgrees ==
  call.page = "dashboard" /\ call.pc = "done" =>
    /\ \A i \in call.totals \ call.activity :
         /\ Cardinality(call.activity) = ActivityLimit
         /\ \A j \in call.activity : messages[j].time >= messages[i].time
    /\ \A j \in call.activity \ call.totals :
         j \in written \/ messages[j].time < call.since
=============================================================================
