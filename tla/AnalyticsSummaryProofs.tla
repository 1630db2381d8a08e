----------------------- MODULE AnalyticsSummaryProofs -----------------------
(* Theorems of AnalyticsSummary, for any sessions and chats, any length of a  *)
(* day, of the range, of the ranking and of the feed, and any number of       *)
(* messages.                                                                  *)
EXTENDS AnalyticsSummary, FiniteSetTheorems, FunctionTheorems, TLAPS

-----------------------------------------------------------------------------
(* Days.                                                                      *)

\* Multiples of a day that are no day apart are the same.
LEMMA Apart ==
  ASSUME NEW a \in Int, NEW b \in Int, a * DayLength < b * DayLength + DayLength
  PROVE  a <= b
<1> SUFFICES ASSUME a >= b + 1 PROVE FALSE
  OBVIOUS
<1>1. DayLength \in Nat /\ DayLength > 0
  BY RangeAssumption
<1> DEFINE d == a - (b + 1)
<1>2. d \in Nat /\ a = b + 1 + d
  OBVIOUS
<1> HIDE DEF d
<1>3. a * DayLength = b * DayLength + DayLength + d * DayLength
  BY <1>1, <1>2
<1>4. d * DayLength >= 0
  BY <1>1, <1>2
<1>5. a * DayLength \in Int /\ b * DayLength \in Int /\ d * DayLength \in Int
  BY <1>1, <1>2
<1> QED
  BY <1>1, <1>3, <1>4, <1>5

\* A moment lies in the day that starts at the last multiple of a day.
LEMMA DayStart ==
  ASSUME NEW t \in Int
  PROVE  /\ \E q \in Int : StartOfDay(t) = q * DayLength
         /\ StartOfDay(t) \in Int
         /\ StartOfDay(t) <= t /\ t < StartOfDay(t) + DayLength
<1>1. DayLength \in Nat /\ DayLength > 0
  BY RangeAssumption
<1> DEFINE q == t \div DayLength
           r == t % DayLength
<1>2. q \in Int /\ r \in 0..(DayLength - 1) /\ t = q * DayLength + r
  BY <1>1
<1> HIDE DEF q, r
<1>3. q * DayLength \in Int
  BY <1>1, <1>2
<1>4. StartOfDay(t) = q * DayLength
  BY <1>2, <1>3 DEF StartOfDay, r
<1> QED
  BY <1>1, <1>2, <1>3, <1>4

\* And no other multiple of a day starts that day.
LEMMA DayIs ==
  ASSUME NEW t \in Int, NEW q \in Int,
         q * DayLength <= t, t < q * DayLength + DayLength
  PROVE  StartOfDay(t) = q * DayLength
<1>1. PICK p \in Int : StartOfDay(t) = p * DayLength
  BY DayStart
<1>2. /\ p * DayLength <= t /\ t < p * DayLength + DayLength
      /\ p * DayLength \in Int /\ q * DayLength \in Int /\ DayLength \in Int
  BY <1>1, DayStart, RangeAssumption
<1>3. p <= q
  BY <1>2, Apart
<1>4. q <= p
  BY <1>2, Apart
<1>5. p = q
  BY <1>3, <1>4
<1> QED
  BY <1>1, <1>5

\* The last day of a range.
LastDay(since) == since + (DayCount - 1) * DayLength

\* A moment of the range lies in one of its days.
LEMMA DayOfRange ==
  ASSUME NEW p \in Int, NEW since \in Int, since = p * DayLength,
         NEW t \in Int, since <= t, t < LastDay(since) + DayLength
  PROVE  \E k \in 0..(DayCount - 1) : StartOfDay(t) = since + k * DayLength
<1>1. /\ DayLength \in Nat /\ DayLength > 0 /\ DayCount \in Nat /\ DayCount > 0
  BY RangeAssumption
<1>2. PICK q \in Int : StartOfDay(t) = q * DayLength
  BY DayStart
<1>3. /\ q * DayLength <= t /\ t < q * DayLength + DayLength
      /\ q * DayLength \in Int
  BY <1>2, DayStart
<1> DEFINE k == q - p
           last == p + DayCount - 1
<1>4. k \in Int /\ last \in Int /\ q = p + k
  BY <1>1
<1>5. q * DayLength = since + k * DayLength
  BY <1>1, <1>4
<1>6. last * DayLength = LastDay(since)
  BY <1>1 DEF LastDay
<1>7. last * DayLength \in Int
  BY <1>1
<1> HIDE DEF k, last
<1>8. p <= q
  BY <1>1, <1>3, Apart
<1>9. q <= last
  BY <1>1, <1>3, <1>4, <1>6, <1>7, Apart
<1>10. k \in 0..(DayCount - 1)
  BY <1>1, <1>4, <1>8, <1>9 DEF k, last
<1> QED
  BY <1>2, <1>5, <1>10

\* The day is still the one the range ends with as long as no other began.
LEMMA SameDayIs ==
  ASSUME NEW p \in Int, call.since \in Int, call.since = p * DayLength, now \in Int,
         LastDay(call.since) <= now
  PROVE  /\ LastDay(call.since) \in Int
         /\ SameDay <=> now < LastDay(call.since) + DayLength
<1>1. DayLength \in Nat /\ DayLength > 0 /\ DayCount \in Nat /\ DayCount > 0
  BY RangeAssumption
<1> DEFINE last == p + DayCount - 1
<1>2. last \in Int /\ last * DayLength = LastDay(call.since) /\ last * DayLength \in Int
  BY <1>1 DEF LastDay
<1> HIDE DEF last
<1>3. now < last * DayLength + DayLength => StartOfDay(now) = last * DayLength
  BY <1>2, DayIs
<1>4. now < StartOfDay(now) + DayLength
  BY DayStart
<1> QED
  BY <1>2, <1>3, <1>4 DEF SameDay, LastDay

-----------------------------------------------------------------------------
(* The rows, and the feed of the newest.                                      *)

\* What a row is made of.
LEMMA RowType ==
  ASSUME TypeOK, NEW i \in Ids
  PROVE  /\ i \in 1..MaxRows /\ i \in Int
         /\ messages[i].session \in Sessions /\ messages[i].chat \in Chats
         /\ messages[i].time \in Times /\ messages[i].time \in Int
<1>1. messages[i] \in Row
  BY DEF Ids, TypeOK
<1>2. i \in 1..MaxRows
  BY DEF Ids, RowIds
<1> QED
  BY <1>1, <1>2, RangeAssumption DEF Row, Times

\* The table is finite.
LEMMA IdsFinite == IsFiniteSet(Ids)
<1>1. IsFiniteSet(1..MaxRows)
  BY RangeAssumption, FS_Interval
<1>2. Ids \in SUBSET (1..MaxRows)
  BY DEF Ids, RowIds
<1> QED
  BY <1>1, <1>2, FS_Subset

\* How many rows are newer than a row.
Above(i) == {j \in Ids : Newer(j, i)}
Rank == [i \in Ids |-> Cardinality(Above(i))]

\* Newer is a strict and total order of the rows.
LEMMA NewerOrders ==
  ASSUME TypeOK, NEW i \in Ids, NEW j \in Ids
  PROVE  /\ ~Newer(i, i)
         /\ i # j => Newer(i, j) \/ Newer(j, i)
         /\ \A k \in Ids : Newer(i, j) /\ Newer(j, k) => Newer(i, k)
<1>1. /\ i \in Int /\ j \in Int /\ messages[i].time \in Int
      /\ messages[j].time \in Int
  BY RowType
<1>2. ~Newer(i, i)
  BY <1>1 DEF Newer
<1>3. i # j => Newer(i, j) \/ Newer(j, i)
  BY <1>1 DEF Newer
<1>4. ASSUME NEW k \in Ids, Newer(i, j), Newer(j, k) PROVE Newer(i, k)
  <2>1. k \in Int /\ messages[k].time \in Int
    BY RowType
  <2> QED BY <1>1, <1>4, <2>1 DEF Newer
<1> QED
  BY <1>2, <1>3, <1>4

\* The newer of two rows has the smaller rank, and no rank reaches the number
\* of rows.
LEMMA RankOrders ==
  ASSUME TypeOK, NEW i \in Ids
  PROVE  /\ Rank[i] \in Nat /\ Rank[i] < Cardinality(Ids)
         /\ \A j \in Ids : Newer(i, j) => Rank[i] < Rank[j]
<1>1. \A k \in Ids : IsFiniteSet(Above(k)) /\ Cardinality(Above(k)) \in Nat
  <2> SUFFICES ASSUME NEW k \in Ids
               PROVE  IsFiniteSet(Above(k)) /\ Cardinality(Above(k)) \in Nat
    OBVIOUS
  <2>1. Above(k) \in SUBSET Ids
    BY DEF Above
  <2>2. IsFiniteSet(Above(k))
    BY <2>1, IdsFinite, FS_Subset
  <2> QED BY <2>2, FS_CardinalityType
<1>2. /\ IsFiniteSet(Above(i) \cup {i}) /\ i \notin Above(i)
      /\ Cardinality(Above(i) \cup {i}) = Cardinality(Above(i)) + 1
  <2>1. i \notin Above(i)
    BY NewerOrders DEF Above
  <2> QED BY <1>1, <2>1, FS_AddElement
<1>3. Cardinality(Above(i)) + 1 <= Cardinality(Ids)
  <2>1. Above(i) \cup {i} \in SUBSET Ids
    BY DEF Above
  <2> QED BY <1>2, <2>1, IdsFinite, FS_Subset
<1>4. ASSUME NEW j \in Ids, Newer(i, j)
      PROVE  Cardinality(Above(i)) + 1 <= Cardinality(Above(j))
  <2>1. Above(i) \cup {i} \in SUBSET Above(j)
    <3> SUFFICES ASSUME NEW k \in Above(i) PROVE k \in Above(j)
      BY <1>4 DEF Above
    <3>1. k \in Ids /\ Newer(k, i)
      BY DEF Above
    <3>2. Newer(k, j)
      BY <1>4, <3>1, NewerOrders
    <3> QED BY <3>1, <3>2 DEF Above
  <2> QED BY <1>1, <1>2, <2>1, FS_Subset
<1>5. Cardinality(Ids) \in Nat
  BY IdsFinite, FS_CardinalityType
<1> QED
  BY <1>1, <1>3, <1>4, <1>5 DEF Rank

\* The ranks are the numbers below the number of rows, each of one row.
LEMMA RankIsBijection ==
  ASSUME TypeOK
  PROVE  /\ Rank \in Bijection(Ids, 0..(Cardinality(Ids) - 1))
         /\ Cardinality(Ids) \in Nat
<1> DEFINE n == Cardinality(Ids)
           T == 0..(n - 1)
<1>1. n \in Nat
  BY IdsFinite, FS_CardinalityType
<1>2. IsFiniteSet(T) /\ Cardinality(T) = n
  BY <1>1, FS_Interval
<1>3. \A i \in Ids : Rank[i] \in T
  BY <1>1, RankOrders
<1>4. Rank \in [Ids -> T]
  BY <1>3 DEF Rank
<1>5. ASSUME NEW i \in Ids, NEW j \in Ids, Rank[i] = Rank[j] PROVE i = j
  <2>1. /\ Newer(i, j) => Rank[i] < Rank[j]
        /\ Newer(j, i) => Rank[j] < Rank[i]
        /\ Rank[i] \in Int /\ Rank[j] \in Int
    BY <1>1, <1>3, RankOrders
  <2> QED BY <1>5, <2>1, NewerOrders
<1>6. Rank \in Injection(Ids, T)
  BY <1>4, <1>5, Fun_IsInj
<1>7. Rank \in Surjection(Ids, T)
  <2> HIDE DEF T, n
  <2> QED BY <1>2, <1>6, FS_Injection DEF n
<1> QED
  BY <1>1, <1>6, <1>7 DEF Bijection

\* The feed is full, unless it holds every row; and no row is left out that is
\* more recent than one in it.
LEMMA FeedIsNewest ==
  ASSUME TypeOK
  PROVE  /\ RecentActivity \subseteq Ids
         /\ \A i \in Ids \ RecentActivity :
              /\ Cardinality(RecentActivity) = ActivityLimit
              /\ \A j \in RecentActivity : messages[j].time >= messages[i].time
<1> DEFINE n == Cardinality(Ids)
           feed == RecentActivity
           T == 0..(ActivityLimit - 1)
<1>1. feed = {i \in Ids : Rank[i] < ActivityLimit}
  BY DEF RecentActivity, Rank, Above
<1>2. Rank \in Bijection(Ids, 0..(n - 1)) /\ n \in Nat /\ ActivityLimit \in Nat
  BY RankIsBijection, RangeAssumption
<1>3. \A i \in Ids : Rank[i] \in Nat /\ Rank[i] < n
  BY RankOrders
<1> HIDE DEF n, feed
<1>4. ASSUME NEW i \in Ids \ feed, NEW j \in feed
      PROVE  messages[j].time >= messages[i].time
  <2>1. j \in Ids /\ Rank[j] < ActivityLimit /\ ~(Rank[i] < ActivityLimit)
    BY <1>1
  <2>2. ~Newer(i, j)
    <3>1. Newer(i, j) => Rank[i] < Rank[j]
      BY <2>1, RankOrders
    <3> QED BY <1>2, <1>3, <2>1, <3>1
  <2>3. messages[i].time \in Int /\ messages[j].time \in Int
    BY <2>1, RowType
  <2> QED BY <2>2, <2>3 DEF Newer
<1>5. ASSUME NEW i \in Ids \ feed PROVE Cardinality(feed) = ActivityLimit
  <2>1. ActivityLimit <= Rank[i]
    BY <1>1, <1>2, <1>3
  <2>2. ActivityLimit < n
    BY <1>2, <1>3, <2>1
  <2> DEFINE f == [j \in feed |-> Rank[j]]
  <2>3. /\ \A j \in Ids : Rank[j] \in 0..(n - 1)
        /\ \A j, k \in Ids : Rank[j] = Rank[k] => j = k
        /\ \A r \in 0..(n - 1) : \E j \in Ids : Rank[j] = r
    BY <1>2 DEF Bijection, Injection, Surjection, IsInjective
  <2>4. f \in [feed -> T]
    BY <1>1, <1>2, <1>3
  <2>5. \A j, k \in feed : f[j] = f[k] => j = k
    BY <1>1, <2>3
  <2>6. ASSUME NEW r \in T PROVE \E j \in feed : f[j] = r
    <3>1. r \in 0..(n - 1) /\ r < ActivityLimit
      BY <1>2, <2>2
    <3>2. PICK j \in Ids : Rank[j] = r
      BY <2>3, <3>1
    <3> QED BY <1>1, <3>1, <3>2
  <2>7. f \in Bijection(feed, T)
    <3> HIDE DEF f, T
    <3> QED BY <2>4, <2>5, <2>6, Fun_IsBij
  <2>8. IsFiniteSet(feed)
    BY <1>1, IdsFinite, FS_Subset
  <2>9. Cardinality(T) = ActivityLimit
    BY <1>2, FS_Interval
  <2>10. ExistsBijection(feed, T)
    <3> HIDE DEF T, f
    <3> QED BY <2>7 DEF ExistsBijection
  <2> HIDE DEF T
  <2> QED BY <2>8, <2>9, <2>10, FS_Bijection
<1>6. feed \subseteq Ids
  BY <1>1
<1> QED
  BY <1>4, <1>5, <1>6 DEF feed

-----------------------------------------------------------------------------
(* The inductive invariant.                                                   *)

\* No message is of the future.
TimesInv == \A i \in Ids : messages[i].time <= now

\* A dashboard runs through statements of its own and asks for all sessions.
PagesInv ==
  /\ call.page = "analytics" => call.pc # "activity"
  /\ call.page = "dashboard" =>
       call.pc \in {"totals", "activity", "done"} /\ call.session = AllSessions

\* The range ends with the day the request began, which no message that was
\* there already lies behind.
RangeInv ==
  call.page = "analytics" /\ call.pc # "idle" =>
    /\ \E p \in Int : call.since = p * DayLength
    /\ LastDay(call.since) <= now
    /\ \A i \in Ids \ written :
         messages[i].time < LastDay(call.since) + DayLength

\* The totals are of the range, and lack only what was saved since.
TotalsInv ==
  call.pc \notin {"idle", "totals"} =>
    call.totals \subseteq Found /\ Found \ written \subseteq call.totals

\* So is the series, which has what the totals have until another day begins.
SeriesInv ==
  call.page = "analytics" /\ call.pc \in {"chats", "sessions", "done"} =>
    /\ Series \subseteq Found /\ Found \ written \subseteq Series
    /\ SameDay => call.totals \subseteq Series

\* The ranking counts messages of the range.
TopInv ==
  call.page = "analytics" /\ call.pc \in {"sessions", "done"} =>
    \A x \in call.topChats : x.ids \subseteq Found

\* The breakdown counts messages of the range, and what the series counts.
ListedInv ==
  call.page = "analytics" /\ call.pc = "done" =>
    Listed \subseteq Found /\ Series \subseteq Listed

\* The feed holds messages of the table, the newest.
FeedInv ==
  call.page = "dashboard" /\ call.pc = "done" =>
    /\ call.activity \subseteq Ids
    /\ \A i \in call.totals \ call.activity :
         /\ Cardinality(call.activity) = ActivityLimit
         /\ \A j \in call.activity : messages[j].time >= messages[i].time

IInv ==
  /\ TypeOK /\ TimesInv /\ PagesInv /\ RangeInv /\ TotalsInv
  /\ SeriesInv /\ TopInv /\ ListedInv /\ FeedInv

\* A request without results yet is a request.
LEMMA EmptyType == Empty \in Call
BY DEF Empty, Call

\* The invariant holds at the start.
LEMMA InitIInv == Init => IInv
<1> SUFFICES ASSUME Init PROVE IInv
  OBVIOUS
<1>1. /\ call.page = "analytics" /\ call.pc = "idle" /\ Ids = {}
  BY DEF Init, Empty, Ids
<1>2. now \in Times
  <2>1. /\ DayCount \in Nat /\ DayCount > 0 /\ DayLength \in Nat /\ DayLength > 0
        /\ MaxTime \in Nat /\ MaxTime >= DayCount * DayLength
    BY RangeAssumption
  <2>2. DayCount * DayLength \in Nat /\ DayCount * DayLength > 0
    BY <2>1
  <2> QED BY <2>1, <2>2 DEF Init, Times
<1>3. TypeOK
  BY <1>2, EmptyType DEF Init, TypeOK
<1> QED
  BY <1>1, <1>3 DEF IInv, TimesInv, PagesInv, RangeInv, TotalsInv, SeriesInv,
                    TopInv, ListedInv, FeedInv

\* What a step of the world does to the rows: it keeps the ones there are, with
\* their session and timestamp, and notes the new ones.
RowsStay ==
  /\ \A i \in Ids : /\ i \in Ids' /\ messages'[i].time = messages[i].time
                    /\ messages'[i].session = messages[i].session
  /\ written \subseteq written' /\ Ids' \ Ids \subseteq written'

\* Such a step keeps what the invariant says of the request.
LEMMA WorldKeeps ==
  ASSUME IInv, TypeOK', TimesInv', UNCHANGED call, now <= now', RowsStay
  PROVE  IInv'
<1>1. PagesInv'
  BY DEF IInv, PagesInv
<1>2. now \in Int /\ now' \in Int /\ call.since \in Int
  BY RangeAssumption DEF IInv, TypeOK, Times, Call
<1>3. /\ Found \subseteq Found' /\ Found' \ Found \subseteq written'
      /\ Found' \ written' \subseteq Found \ written
  BY DEF RowsStay, Found, Since
<1>4. Series' = Series /\ Listed' = Listed
  BY DEF Series, Listed
<1>5. RangeInv'
  <2> SUFFICES ASSUME call.page = "analytics" /\ call.pc # "idle"
               PROVE  /\ \E p \in Int : call.since = p * DayLength
                      /\ LastDay(call.since) <= now'
                      /\ \A i \in Ids' \ written' :
                           messages'[i].time < LastDay(call.since) + DayLength
    BY DEF RangeInv, LastDay
  <2>1. PICK p \in Int : call.since = p * DayLength
    BY DEF IInv, RangeInv
  <2>2. LastDay(call.since) \in Int /\ LastDay(call.since) <= now
    BY <1>2, <2>1, SameDayIs DEF IInv, RangeInv
  <2>3. LastDay(call.since) <= now'
    BY <1>2, <2>2
  <2>4. ASSUME NEW i \in Ids' \ written'
        PROVE  messages'[i].time < LastDay(call.since) + DayLength
    <3>1. i \in Ids \ written /\ messages'[i].time = messages[i].time
      BY DEF RowsStay
    <3> QED BY <3>1 DEF IInv, RangeInv
  <2> QED BY <2>1, <2>3, <2>4
<1>6. TotalsInv'
  BY <1>3 DEF IInv, TotalsInv
<1>7. SeriesInv'
  <2> SUFFICES ASSUME call.page = "analytics", call.pc \in {"chats", "sessions", "done"}
               PROVE  /\ Series \subseteq Found' /\ Found' \ written' \subseteq Series
                      /\ SameDay' => call.totals \subseteq Series
    BY <1>4 DEF SeriesInv
  <2>1. /\ Series \subseteq Found /\ Found \ written \subseteq Series
        /\ SameDay => call.totals \subseteq Series
    BY DEF IInv, SeriesInv
  <2>2. PICK p \in Int : call.since = p * DayLength
    BY DEF IInv, RangeInv
  <2>3. LastDay(call.since) <= now /\ LastDay(call.since) \in Int
    BY <1>2, <2>2, SameDayIs DEF IInv, RangeInv
  <2>4. SameDay <=> now < LastDay(call.since) + DayLength
    BY <1>2, <2>2, <2>3, SameDayIs
  <2>5. SameDay' => now' < LastDay(call.since) + DayLength
    <3>1. now' < StartOfDay(now') + DayLength
      BY <1>2, DayStart
    <3>2. SameDay' => StartOfDay(now') = LastDay(call.since)
      BY DEF SameDay, LastDay, StartOfDay
    <3> QED BY <3>1, <3>2
  <2>6. DayLength \in Int
    BY RangeAssumption
  <2>7. SameDay' => SameDay
    BY <1>2, <2>3, <2>4, <2>5, <2>6
  <2> QED BY <1>3, <2>1, <2>7
<1>8. TopInv'
  BY <1>3 DEF IInv, TopInv
<1>9. ListedInv'
  BY <1>3, <1>4 DEF IInv, ListedInv
<1>10. FeedInv'
  <2> SUFFICES ASSUME call.page = "dashboard", call.pc = "done"
               PROVE  /\ call.activity \subseteq Ids'
                      /\ \A i \in call.totals \ call.activity :
                           /\ Cardinality(call.activity) = ActivityLimit
                           /\ \A j \in call.activity :
                                messages'[j].time >= messages'[i].time
    BY DEF FeedInv
  <2>1. call.activity \subseteq Ids /\ call.totals \subseteq Ids
    BY DEF IInv, FeedInv, TotalsInv, Found, Since
  <2> QED BY <2>1 DEF RowsStay, IInv, FeedInv
<1> QED
  BY <1>1, <1>5, <1>6, <1>7, <1>8, <1>9, <1>10 DEF IInv

-----------------------------------------------------------------------------
(* The steps of the world.                                                    *)

\* A message is saved.
LEMMA SaveMessageIInv ==
  ASSUME IInv, NEW i \in RowIds, NEW row \in Row, SaveMessage(i, row)
  PROVE  IInv'
<1>1. /\ messages \in [RowIds -> Row \cup {NoRow}] /\ messages[i] = NoRow
      /\ row.time \in Times /\ row.time <= now
      /\ messages' = [messages EXCEPT ![i] = row]
      /\ written' = written \cup {i} /\ UNCHANGED <<now, call>>
  BY DEF IInv, TypeOK, SaveMessage, Row
<1>2. row # NoRow
  BY <1>1, RangeAssumption DEF NoRow, Times
<1>3. TypeOK'
  BY <1>1 DEF IInv, TypeOK
<1>4. Ids' = Ids \cup {i} /\ i \notin Ids
  BY <1>1, <1>2 DEF Ids
<1>5. \A j \in Ids : messages'[j] = messages[j]
  BY <1>1, <1>4 DEF Ids
<1>6. messages'[i] = row
  BY <1>1
<1>7. TimesInv'
  BY <1>1, <1>4, <1>5, <1>6 DEF IInv, TimesInv
<1>8. RowsStay
  BY <1>1, <1>4, <1>5 DEF RowsStay
<1>9. now <= now'
  BY <1>1, RangeAssumption DEF IInv, TypeOK, Times
<1> QED
  BY <1>1, <1>3, <1>7, <1>8, <1>9, WorldKeeps

\* A message is saved again, under another name of its chat.
LEMMA SaveAgainIInv ==
  ASSUME IInv, NEW i \in RowIds, NEW chat \in Chats, SaveAgain(i, chat)
  PROVE  IInv'
<1>1. /\ messages \in [RowIds -> Row \cup {NoRow}] /\ i \in Ids
      /\ messages' = [messages EXCEPT ![i].chat = chat]
      /\ UNCHANGED <<now, call, written>>
  BY DEF IInv, TypeOK, SaveAgain
<1>2. messages[i] \in Row
  BY <1>1 DEF Ids
<1>3. /\ messages'[i] \in Row /\ messages'[i].time = messages[i].time
      /\ messages'[i].session = messages[i].session
  BY <1>1, <1>2 DEF Row
<1>4. \A j \in RowIds : j # i => messages'[j] = messages[j]
  BY <1>1
<1>5. messages' \in [RowIds -> Row \cup {NoRow}]
  BY <1>1, <1>3
<1>6. TypeOK'
  BY <1>1, <1>5 DEF IInv, TypeOK
<1>7. messages'[i] # NoRow
  BY <1>3, RangeAssumption DEF Row, NoRow, Times
<1>8. Ids' = Ids
  BY <1>1, <1>4, <1>7 DEF Ids
<1>9. RowsStay
  BY <1>1, <1>3, <1>4, <1>8 DEF RowsStay, Ids
<1>10. TimesInv'
  BY <1>1, <1>8, <1>9 DEF IInv, TimesInv, RowsStay
<1>11. now <= now'
  BY <1>1, RangeAssumption DEF IInv, TypeOK, Times
<1> QED
  BY <1>1, <1>6, <1>9, <1>10, <1>11, WorldKeeps

\* Time passes.
LEMMA TickIInv == IInv /\ Tick => IInv'
<1> SUFFICES ASSUME IInv, Tick PROVE IInv'
  OBVIOUS
<1>1. /\ now \in Times /\ now' = now + 1 /\ now < MaxTime
      /\ UNCHANGED <<messages, call, written>>
  BY DEF IInv, TypeOK, Tick
<1>2. now' \in Times /\ now <= now' /\ now \in Int
  BY <1>1, RangeAssumption DEF Times
<1>3. TypeOK'
  BY <1>1, <1>2 DEF IInv, TypeOK
<1>4. Ids' = Ids
  BY <1>1 DEF Ids
<1>5. TimesInv'
  <2> SUFFICES ASSUME NEW i \in Ids PROVE messages[i].time <= now'
    BY <1>1, <1>4 DEF TimesInv
  <2>1. messages[i].time \in Int /\ messages[i].time <= now
    BY RowType DEF IInv, TimesInv
  <2> QED BY <1>1, <1>2, <2>1
<1>6. RowsStay
  BY <1>1, <1>4 DEF RowsStay
<1> QED
  BY <1>1, <1>2, <1>3, <1>5, <1>6, WorldKeeps

-----------------------------------------------------------------------------
(* The steps of the request.                                                  *)

\* The table, which none of them changes.
SameTable == UNCHANGED <<messages, now>>

\* A step that ends the request without a page, or before its totals.
LEMMA FreshCall ==
  ASSUME IInv, SameTable, written' \subseteq RowIds, call' \in Call,
         PagesInv', RangeInv', call'.pc \in {"idle", "totals"}
  PROVE  IInv'
<1>1. TypeOK' /\ TimesInv'
  BY DEF SameTable, IInv, TypeOK, TimesInv, Ids
<1>2. TotalsInv' /\ SeriesInv' /\ TopInv' /\ ListedInv' /\ FeedInv'
  BY DEF TotalsInv, SeriesInv, TopInv, ListedInv, FeedInv
<1> QED
  BY <1>1, <1>2 DEF IInv

\* The analytics page is asked for.
LEMMA BeginIInv ==
  ASSUME IInv, NEW session \in Sessions \cup {AllSessions}, Begin(session)
  PROVE  IInv'
<1> DEFINE since == StartOfDay(now) - (DayCount - 1) * DayLength
<1>1. /\ call' = [Empty EXCEPT !.pc = "totals", !.session = session, !.since = since]
      /\ written' = {} /\ SameTable
  BY DEF Begin, SameTable
<1>2. /\ DayCount \in Int /\ DayLength \in Int /\ now \in Int
      /\ (DayCount - 1) * DayLength \in Int
  BY RangeAssumption DEF IInv, TypeOK, Times
<1>3. /\ StartOfDay(now) \in Int /\ StartOfDay(now) <= now
      /\ now < StartOfDay(now) + DayLength
  BY <1>2, DayStart
<1>4. since \in Int /\ LastDay(since) = StartOfDay(now)
  BY <1>2, <1>3 DEF LastDay
<1>5. \E p \in Int : since = p * DayLength
  <2>1. PICK q \in Int : StartOfDay(now) = q * DayLength
    BY <1>2, DayStart
  <2>2. since = (q - (DayCount - 1)) * DayLength
    BY <1>2, <2>1
  <2>3. q - (DayCount - 1) \in Int
    BY <1>2
  <2> HIDE DEF since
  <2> QED BY <2>2, <2>3
<1> HIDE DEF since
<1>6. /\ call' \in Call /\ call'.pc = "totals" /\ call'.page = "analytics"
      /\ call'.since = since
  BY <1>1, <1>4, EmptyType DEF Empty, Call
<1>7. RangeInv'
  <2>1. \A i \in Ids' : messages'[i].time < LastDay(since) + DayLength
    <3> SUFFICES ASSUME NEW i \in Ids
                 PROVE  messages[i].time < LastDay(since) + DayLength
      BY <1>1 DEF SameTable, Ids
    <3>1. messages[i].time \in Int /\ messages[i].time <= now
      BY RowType DEF IInv, TimesInv
    <3> QED BY <1>2, <1>3, <1>4, <3>1
  <2>2. LastDay(call'.since) = LastDay(since) /\ now' = now
    BY <1>1, <1>6 DEF SameTable
  <2> QED BY <1>3, <1>4, <1>5, <1>6, <2>1, <2>2 DEF RangeInv, LastDay
<1>8. PagesInv'
  BY <1>6 DEF PagesInv
<1> QED
  BY <1>1, <1>6, <1>7, <1>8, FreshCall

\* The dashboard is asked for.
LEMMA BeginDashboardIInv == IInv /\ BeginDashboard => IInv'
<1> SUFFICES ASSUME IInv, BeginDashboard PROVE IInv'
  OBVIOUS
<1>1. /\ call' = [Empty EXCEPT !.page = "dashboard", !.pc = "totals",
                               !.since = now - DayLength]
      /\ written' = {} /\ SameTable
  BY DEF BeginDashboard, SameTable
<1>2. now - DayLength \in Int
  BY RangeAssumption DEF IInv, TypeOK, Times
<1>3. /\ call' \in Call /\ call'.pc = "totals" /\ call'.page = "dashboard"
      /\ call'.session = AllSessions
  BY <1>1, <1>2, EmptyType DEF Empty, Call
<1>4. PagesInv' /\ RangeInv'
  BY <1>3 DEF PagesInv, RangeInv
<1> QED
  BY <1>1, <1>3, <1>4, FreshCall

\* A statement fails.
LEMMA FailIInv == IInv /\ Fail => IInv'
<1> SUFFICES ASSUME IInv, Fail PROVE IInv'
  OBVIOUS
<1>1. call' = [Empty EXCEPT !.session = call.session] /\ written' = written /\ SameTable
  BY DEF Fail, SameTable
<1>2. call.session \in Sessions \cup {AllSessions} /\ written \subseteq RowIds
  BY DEF IInv, TypeOK, Call
<1>3. call' \in Call /\ call'.pc = "idle" /\ call'.page = "analytics"
  BY <1>1, <1>2, EmptyType DEF Empty, Call
<1>4. PagesInv' /\ RangeInv'
  BY <1>3 DEF PagesInv, RangeInv
<1> QED
  BY <1>1, <1>2, <1>3, <1>4, FreshCall

\* A statement that answers keeps the table and what was asked.
LEMMA SameRequest ==
  ASSUME IInv, call.pc # "idle", SameTable, written' = written, call' \in Call,
         call'.page = call.page, call'.session = call.session,
         call'.since = call.since
  PROVE  /\ TypeOK' /\ TimesInv' /\ RangeInv'
         /\ Found' = Found /\ Found \subseteq RowIds /\ Ids' = Ids
         /\ SameDay' <=> SameDay
         /\ \A i : messages'[i] = messages[i]
<1>1. Ids' = Ids /\ now' = now /\ messages' = messages
  BY DEF SameTable, Ids
<1>2. TypeOK' /\ TimesInv'
  BY <1>1 DEF IInv, TypeOK, TimesInv
<1>3. RangeInv'
  BY <1>1 DEF IInv, RangeInv, LastDay
<1>4. Found' = Found /\ Found \subseteq RowIds
  BY <1>1 DEF Found, Since, Ids
<1>5. SameDay' <=> SameDay
  BY <1>1 DEF SameDay, StartOfDay
<1> QED
  BY <1>1, <1>2, <1>3, <1>4, <1>5

\* The totals are counted.
LEMMA CountRecentMessagesIInv == IInv /\ CountRecentMessages => IInv'
<1> SUFFICES ASSUME IInv, CountRecentMessages PROVE IInv'
  OBVIOUS
<1>1. /\ call.pc = "totals" /\ SameTable /\ written' = written
      /\ call' = [call EXCEPT !.totals = Found,
                              !.pc = IF call.page = "dashboard" THEN "activity"
                                     ELSE "daily"]
  BY DEF CountRecentMessages, SameTable
<1>2. call \in Call /\ Found \in SUBSET RowIds
  BY DEF IInv, TypeOK, Found, Since, Ids
<1> DEFINE found == Found
<1> HIDE DEF found
<1>3. /\ call' \in Call /\ call'.page = call.page /\ call'.since = call.since
      /\ call'.session = call.session /\ call'.totals = found
      /\ call'.pc = IF call.page = "dashboard" THEN "activity" ELSE "daily"
  <2>1. /\ found \in SUBSET RowIds
        /\ call' = [call EXCEPT !.totals = found,
                                !.pc = IF call.page = "dashboard" THEN "activity"
                                       ELSE "daily"]
    BY <1>1, <1>2 DEF found
  <2> QED BY <1>2, <2>1 DEF Call
<1>4. TypeOK' /\ TimesInv' /\ RangeInv' /\ Found' = found
  BY <1>1, <1>3, SameRequest DEF found
<1>5. PagesInv' /\ TotalsInv'
  BY <1>1, <1>3, <1>4 DEF IInv, PagesInv, TotalsInv
<1>6. SeriesInv' /\ TopInv' /\ ListedInv' /\ FeedInv'
  BY <1>3 DEF SeriesInv, TopInv, ListedInv, FeedInv
<1> QED
  BY <1>4, <1>5, <1>6 DEF IInv

\* The series is counted: its days are those of the range, so that nothing of
\* the range that was there falls between them, nor anything at all as long as
\* the day is the same.
LEMMA ListDailyCountsIInv == IInv /\ ListDailyCounts => IInv'
<1> SUFFICES ASSUME IInv, ListDailyCounts PROVE IInv'
  OBVIOUS
<1> DEFINE daily == DailySeries(Found, call.since)
<1>1. /\ call.pc = "daily" /\ SameTable /\ written' = written
      /\ call' = [call EXCEPT !.pc = "chats", !.daily = daily]
  BY DEF ListDailyCounts, SameTable
<1>2. call \in Call /\ Found \in SUBSET RowIds
  BY DEF IInv, TypeOK, Found, Since, Ids
<1>3. /\ daily \in [0..(DayCount - 1) -> SUBSET RowIds]
      /\ \A k \in 0..(DayCount - 1) : daily[k] = OfDay(Found, call.since, k)
  BY <1>2 DEF DailySeries, OfDay
<1> HIDE DEF daily
<1>4. /\ call' \in Call /\ call'.page = call.page /\ call'.since = call.since
      /\ call'.session = call.session /\ call'.totals = call.totals
      /\ call'.pc = "chats" /\ call'.daily = daily
  BY <1>1, <1>2, <1>3 DEF Call
<1>5. /\ TypeOK' /\ TimesInv' /\ RangeInv' /\ Found' = Found
      /\ SameDay' <=> SameDay
  BY <1>1, <1>4, SameRequest
<1>6. call.page = "analytics" /\ call.pc \notin {"idle", "totals"}
  BY <1>1, <1>2 DEF IInv, PagesInv, Call
<1>7. PagesInv' /\ TotalsInv' /\ TopInv' /\ ListedInv' /\ FeedInv'
  BY <1>1, <1>4, <1>5, <1>6 DEF IInv, PagesInv, TotalsInv, TopInv, ListedInv, FeedInv
<1>8. Series' = UNION {daily[k] : k \in 0..(DayCount - 1)}
  BY <1>3, <1>4 DEF Series
<1>9. PICK p \in Int : call.since = p * DayLength
  BY <1>6 DEF IInv, RangeInv
<1>10. /\ call.since \in Int /\ now \in Int /\ LastDay(call.since) <= now
       /\ LastDay(call.since) \in Int /\ DayLength \in Int
  <2>1. call.since \in Int /\ now \in Int /\ LastDay(call.since) <= now
    BY <1>2, <1>6, RangeAssumption DEF IInv, TypeOK, Times, RangeInv, Call
  <2> QED BY <1>9, <2>1, SameDayIs, RangeAssumption
<1>11. ASSUME NEW i \in Found, messages[i].time < LastDay(call.since) + DayLength
       PROVE  i \in Series'
  <2>1. i \in Ids /\ messages[i].time >= call.since
    BY DEF Found, Since
  <2>2. messages[i].time \in Int
    BY <2>1, RowType DEF IInv
  <2>3. PICK k \in 0..(DayCount - 1) :
          StartOfDay(messages[i].time) = call.since + k * DayLength
    BY <1>9, <1>10, <1>11, <2>1, <2>2, DayOfRange
  <2>4. i \in daily[k]
    BY <1>3, <2>3 DEF OfDay
  <2> QED BY <1>8, <2>4
<1>12. Series' \subseteq Found
  BY <1>3, <1>8 DEF OfDay
<1>13. Found \ written \subseteq Series'
  <2> SUFFICES ASSUME NEW i \in Found \ written PROVE i \in Series'
    OBVIOUS
  <2>1. messages[i].time < LastDay(call.since) + DayLength
    BY <1>6 DEF IInv, RangeInv, Found, Since
  <2> QED BY <1>11, <2>1
<1>14. SameDay => call.totals \subseteq Series'
  <2> SUFFICES ASSUME SameDay, NEW i \in call.totals PROVE i \in Series'
    OBVIOUS
  <2>1. i \in Found /\ i \in Ids
    BY <1>6 DEF IInv, TotalsInv, Found, Since
  <2>2. messages[i].time \in Int /\ messages[i].time <= now
    BY <2>1, RowType DEF IInv, TimesInv
  <2>3. now < LastDay(call.since) + DayLength
    BY <1>9, <1>10, SameDayIs
  <2>4. messages[i].time < LastDay(call.since) + DayLength
    BY <1>10, <2>2, <2>3
  <2> QED BY <1>11, <2>1, <2>4
<1>15. SeriesInv'
  BY <1>1, <1>4, <1>5, <1>12, <1>13, <1>14 DEF SeriesInv
<1> QED
  BY <1>5, <1>7, <1>15 DEF IInv

\* The ranking is drawn up.
LEMMA ListTopChatsIInv == IInv /\ ListTopChats => IInv'
<1> SUFFICES ASSUME IInv, ListTopChats PROVE IInv'
  OBVIOUS
<1>1. PICK top \in TopChats(Found) :
        call' = [call EXCEPT !.pc = "sessions", !.topChats = top]
  BY DEF ListTopChats
<1>2. call.pc = "chats" /\ SameTable /\ written' = written
  BY DEF ListTopChats, SameTable
<1>3. call \in Call /\ Found \in SUBSET RowIds
  BY DEF IInv, TypeOK, Found, Since, Ids
<1>4. \A x \in ChatCounts(Found) : x \in TopChat /\ x.ids \subseteq Found
  BY <1>3 DEF ChatCounts, TopChat
<1>5. top \subseteq ChatCounts(Found)
  BY DEF TopChats
<1>6. top \in SUBSET TopChat /\ \A x \in top : x.ids \subseteq Found
  BY <1>4, <1>5
<1>7. /\ call' \in Call /\ call'.page = call.page /\ call'.since = call.since
      /\ call'.session = call.session /\ call'.totals = call.totals
      /\ call'.pc = "sessions" /\ call'.daily = call.daily /\ call'.topChats = top
  BY <1>1, <1>3, <1>6 DEF Call
<1>8. /\ TypeOK' /\ TimesInv' /\ RangeInv' /\ Found' = Found
      /\ SameDay' <=> SameDay
  BY <1>2, <1>7, SameRequest
<1>9. Series' = Series
  BY <1>7 DEF Series
<1>10. call.page = "analytics"
  BY <1>2, <1>3 DEF IInv, PagesInv, Call
<1>11. PagesInv' /\ TotalsInv' /\ ListedInv' /\ FeedInv'
  BY <1>2, <1>7, <1>8, <1>10 DEF IInv, PagesInv, TotalsInv, ListedInv, FeedInv
<1>12. SeriesInv' /\ TopInv'
  BY <1>2, <1>6, <1>7, <1>8, <1>9 DEF IInv, SeriesInv, TopInv
<1> QED
  BY <1>8, <1>11, <1>12 DEF IInv

\* The breakdown is drawn up, and the page is complete.
LEMMA ListSessionBreakdownIInv == IInv /\ ListSessionBreakdown => IInv'
<1> SUFFICES ASSUME IInv, ListSessionBreakdown PROVE IInv'
  OBVIOUS
<1> DEFINE rows == Breakdown(Found)
<1>1. /\ call.pc = "sessions" /\ SameTable /\ written' = written
      /\ call' = [call EXCEPT !.pc = "done", !.breakdown = rows]
  BY DEF ListSessionBreakdown, SameTable
<1>2. call \in Call /\ Found \in SUBSET RowIds /\ Found \subseteq Ids
  BY DEF IInv, TypeOK, Found, Since, Ids
<1>3. /\ rows \in [Sessions -> SUBSET RowIds]
      /\ \A s \in Sessions : rows[s] = {i \in Found : messages[i].session = s}
  BY <1>2 DEF Breakdown
<1> HIDE DEF rows
<1>4. /\ call' \in Call /\ call'.page = call.page /\ call'.since = call.since
      /\ call'.session = call.session /\ call'.totals = call.totals
      /\ call'.pc = "done" /\ call'.daily = call.daily
      /\ call'.topChats = call.topChats /\ call'.breakdown = rows
  BY <1>1, <1>2, <1>3 DEF Call
<1>5. /\ TypeOK' /\ TimesInv' /\ RangeInv' /\ Found' = Found
      /\ SameDay' <=> SameDay
  BY <1>1, <1>4, SameRequest
<1>6. Series' = Series /\ Listed' = UNION {rows[s] : s \in Sessions}
  BY <1>4 DEF Series, Listed
<1>7. Listed' = Found
  <2>1. \A i \in Found : messages[i].session \in Sessions
    BY <1>2, RowType DEF IInv
  <2>2. \A i \in Found : i \in rows[messages[i].session]
    BY <1>3, <2>1
  <2>3. \A s \in Sessions : rows[s] \subseteq Found
    BY <1>3
  <2> QED BY <1>6, <2>1, <2>2, <2>3
<1>8. call.page = "analytics"
  BY <1>1, <1>2 DEF IInv, PagesInv, Call
<1>9. PagesInv' /\ TotalsInv' /\ FeedInv'
  BY <1>1, <1>4, <1>5, <1>8 DEF IInv, PagesInv, TotalsInv, FeedInv
<1>10. SeriesInv' /\ TopInv'
  BY <1>1, <1>4, <1>5, <1>6 DEF IInv, SeriesInv, TopInv
<1>11. ListedInv'
  BY <1>1, <1>4, <1>5, <1>6, <1>7, <1>8 DEF IInv, SeriesInv, ListedInv
<1> QED
  BY <1>5, <1>9, <1>10, <1>11 DEF IInv

\* The feed is read, and the dashboard is complete.
LEMMA ListRecentActivityIInv == IInv /\ ListRecentActivity => IInv'
<1> SUFFICES ASSUME IInv, ListRecentActivity PROVE IInv'
  OBVIOUS
<1> DEFINE feed == RecentActivity
<1>1. /\ call.pc = "activity" /\ SameTable /\ written' = written
      /\ call' = [call EXCEPT !.pc = "done", !.activity = feed]
  BY DEF ListRecentActivity, SameTable
<1>2. /\ feed \subseteq Ids
      /\ \A i \in Ids \ feed :
           /\ Cardinality(feed) = ActivityLimit
           /\ \A j \in feed : messages[j].time >= messages[i].time
  BY FeedIsNewest DEF IInv
<1> HIDE DEF feed
<1>3. call \in Call /\ feed \in SUBSET RowIds
  BY <1>2 DEF IInv, TypeOK, Ids
<1>4. /\ call' \in Call /\ call'.page = call.page /\ call'.since = call.since
      /\ call'.session = call.session /\ call'.totals = call.totals
      /\ call'.pc = "done" /\ call'.activity = feed
  BY <1>1, <1>3 DEF Call
<1>5. /\ TypeOK' /\ TimesInv' /\ RangeInv' /\ Found' = Found /\ Ids' = Ids
      /\ \A i : messages'[i] = messages[i]
  BY <1>1, <1>4, SameRequest
<1>6. call.page = "dashboard"
  BY <1>1, <1>3 DEF IInv, PagesInv, Call
<1>7. PagesInv' /\ TotalsInv'
  BY <1>1, <1>4, <1>5, <1>6 DEF IInv, PagesInv, TotalsInv
<1>8. SeriesInv' /\ TopInv' /\ ListedInv'
  BY <1>4, <1>6 DEF SeriesInv, TopInv, ListedInv
<1>9. call.totals \subseteq Ids
  BY <1>1 DEF IInv, TotalsInv, Found, Since
<1>10. FeedInv'
  BY <1>2, <1>4, <1>5, <1>9 DEF FeedInv
<1> QED
  BY <1>5, <1>7, <1>8, <1>10 DEF IInv

\* A step that changes nothing keeps the invariant.
LEMMA StutterIInv == IInv /\ UNCHANGED vars => IInv'
<1> SUFFICES ASSUME IInv, UNCHANGED vars PROVE IInv'
  OBVIOUS
<1>1. UNCHANGED <<messages, now, call, written>>
  BY DEF vars
<1>2. TypeOK' /\ TimesInv'
  BY <1>1 DEF IInv, TypeOK, TimesInv, Ids
<1>3. RowsStay
  BY <1>1 DEF RowsStay, Ids
<1>4. now <= now'
  BY <1>1, RangeAssumption DEF IInv, TypeOK, Times
<1> QED
  BY <1>1, <1>2, <1>3, <1>4, WorldKeeps

\* The invariant always holds.
THEOREM Invariance == Spec => []IInv
<1>1. IInv /\ [Next]_vars => IInv'
  BY CountRecentMessagesIInv, ListDailyCountsIInv, ListTopChatsIInv,
     ListSessionBreakdownIInv, ListRecentActivityIInv, BeginIInv,
     BeginDashboardIInv, FailIInv, SaveMessageIInv, SaveAgainIInv, TickIInv,
     StutterIInv DEF Next
<1> QED BY <1>1, InitIInv, PTL DEF Spec

-----------------------------------------------------------------------------
(* The theorems.                                                              *)

\* The table, the clock and the request's results keep their types.
THEOREM TypeCorrect == Spec => []TypeOK
<1>1. IInv => TypeOK
  BY DEF IInv
<1> QED BY <1>1, Invariance, PTL

\* The figures of an analytics page, counted by four statements from four states
\* of the table, differ only in messages saved while it was read, and grow from
\* one to the next unless a day ends meanwhile
\* (ReadService.GetAnalyticsSummary).
THEOREM FiguresAgree == Spec => []DifferenceIsNew
<1>1. ASSUME IInv, call.page = "analytics", call.pc = "done"
      PROVE  /\ Listed \ call.totals \subseteq written
             /\ call.totals \ Series \subseteq written
             /\ SameDay => call.totals \subseteq Series /\ Series \subseteq Listed
             /\ \A x \in call.topChats : x.ids \ call.totals \subseteq written
  <2>1. call.totals \subseteq Found /\ Found \ written \subseteq call.totals
    BY <1>1 DEF IInv, TotalsInv
  <2>2. /\ Found \ written \subseteq Series /\ Listed \subseteq Found
        /\ SameDay => call.totals \subseteq Series /\ Series \subseteq Listed
    BY <1>1 DEF IInv, SeriesInv, ListedInv
  <2>3. \A x \in call.topChats : x.ids \subseteq Found
    BY <1>1 DEF IInv, TopInv
  <2> QED BY <2>1, <2>2, <2>3
<1>2. IInv => DifferenceIsNew
  BY <1>1 DEF DifferenceIsNew
<1> QED BY <1>2, Invariance, PTL

\* The dashboard's count of 24 hours and its feed tell of the same messages: one
\* counted is in the feed or older than a feed that is full, and one in the feed
\* was counted, is older, or was saved in between
\* (ReadService.GetDashboardSummary, listRecentActivity).
THEOREM FeedAgrees == Spec => []DashboardAgrees
<1>1. ASSUME IInv, call.page = "dashboard", call.pc = "done",
             NEW j \in call.activity \ call.totals
      PROVE  j \in written \/ messages[j].time < call.since
  <2>1. j \in Ids /\ Found \ written \subseteq call.totals
    BY <1>1 DEF IInv, FeedInv, TotalsInv
  <2>2. messages[j].time \in Int /\ call.since \in Int
    BY <1>1, <2>1, RowType DEF IInv, TypeOK, Call
  <2>3. call.session = AllSessions
    BY <1>1 DEF IInv, PagesInv
  <2>4. messages[j].time >= call.since => j \in Found
    BY <2>1, <2>3 DEF Found, Since
  <2> QED BY <2>1, <2>2, <2>4
<1>2. IInv => DashboardAgrees
  BY <1>1 DEF DashboardAgrees, IInv, FeedInv
<1> QED BY <1>2, Invariance, PTL
=============================================================================
