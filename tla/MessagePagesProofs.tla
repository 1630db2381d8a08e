------------------------ MODULE MessagePagesProofs ------------------------
(* Theorems of MessagePages, for any chats, any limits of a page, and any     *)
(* number of rows and timestamps.                                             *)
EXTENDS MessagePages, FiniteSetTheorems, TLAPS

-----------------------------------------------------------------------------
(* Least and greatest numbers.                                                *)

\* A set of natural numbers that is not empty has a least one.
LEMMA HasLeast ==
  ASSUME NEW S \in SUBSET Nat, S # {}
  PROVE  \E x \in S : \A y \in S : x <= y
<1> DEFINE less == OpToRel(<, Nat)
<1>1. \A x, y \in Nat : <<y, x>> \in less <=> y < x
  BY DEF OpToRel
<1>2. IsWellFoundedOn(less, Nat)
  BY NatLessThanWellFounded
<1> HIDE DEF less
<1>3. PICK x \in S : \A y \in S : <<y, x>> \notin less
  BY <1>2, WFMin
<1>4. ASSUME NEW y \in S PROVE x <= y
  <2>1. x \in Nat /\ y \in Nat /\ ~(y < x)
    BY <1>1, <1>3
  <2> QED BY <2>1
<1> QED
  BY <1>4

\* One that has a bound has a greatest one.
LEMMA HasGreatest ==
  ASSUME NEW n \in Nat, NEW S \in SUBSET (0..n), S # {}
  PROVE  \E x \in S : \A y \in S : y <= x
<1> DEFINE T == {n - x : x \in S}
<1>1. T \in SUBSET Nat /\ T # {}
  <2>1. ASSUME NEW x \in S PROVE n - x \in Nat
    OBVIOUS
  <2>2. ASSUME NEW t \in T PROVE t \in Nat
    BY <2>1
  <2>3. PICK x \in S : TRUE
    OBVIOUS
  <2>4. n - x \in T
    BY <2>3
  <2> QED BY <2>2, <2>4
<1>2. PICK t \in T : \A u \in T : t <= u
  <2> HIDE DEF T
  <2> QED BY <1>1, HasLeast
<1>3. PICK x \in S : t = n - x
  BY <1>2
<1>4. ASSUME NEW y \in S PROVE y <= x
  <2>1. n - y \in T
    OBVIOUS
  <2>2. n - x <= n - y
    BY <1>2, <1>3, <2>1
  <2>3. x \in Nat /\ y \in Nat
    OBVIOUS
  <2> HIDE DEF T
  <2> QED BY ONLY <2>2, <2>3, n \in Nat
<1> QED
  BY <1>4

-----------------------------------------------------------------------------
(* Pages.                                                                     *)

\* The rows a page is taken from.
Rest(wanted, cursor) == {i \in Listing(wanted) : After(i, cursor)}

\* A page holds the newest of the rest: every row above one of its rows, and at
\* least one row as long as there are any.
LEMMA PageIsTop ==
  ASSUME NEW wanted, NEW limit \in Int, NEW cursor
  PROVE  /\ Page(wanted, limit, cursor) \subseteq Rest(wanted, cursor)
         /\ \A i \in Page(wanted, limit, cursor), j \in Rest(wanted, cursor) :
              j > i => j \in Page(wanted, limit, cursor)
         /\ Page(wanted, limit, cursor) = {} => Rest(wanted, cursor) = {}
<1> DEFINE rest == Rest(wanted, cursor)
           above(i) == {j \in rest : j > i}
           page == Page(wanted, limit, cursor)
<1>1. page = {i \in rest : Cardinality(above(i)) < PageSize(limit)}
  BY DEF Page, Rest
<1>2. rest \in SUBSET RowIds
  BY DEF Rest, Listing, Rows
<1> HIDE DEF rest, page
<1>3. IsFiniteSet(rest) /\ rest \in SUBSET (0..MaxRows) /\ rest \subseteq Int
  <2>1. IsFiniteSet(1..MaxRows)
    BY LimitsAssumption, FS_Interval
  <2>2. IsFiniteSet(rest)
    BY <1>2, <2>1, FS_Subset DEF RowIds
  <2> QED BY <1>2, <2>2, LimitsAssumption DEF RowIds
<1>4. PageSize(limit) >= 1
  BY LimitsAssumption DEF PageSize
<1>5. PageSize(limit) \in Nat
  BY LimitsAssumption DEF PageSize
<1>6. ASSUME NEW i \in page, NEW j \in rest, j > i PROVE j \in page
  <2>1. i \in rest /\ Cardinality(above(i)) < PageSize(limit)
    BY <1>1, <1>6
  <2>2. above(j) \subseteq above(i)
    <3> SUFFICES ASSUME NEW k \in rest, k > j PROVE k > i
      OBVIOUS
    <3>1. i \in Int /\ j \in Int /\ k \in Int
      BY <1>3, <2>1
    <3> QED BY <1>6, <3>1
  <2>3. IsFiniteSet(above(i))
    BY <1>3, FS_Subset
  <2>4. /\ Cardinality(above(j)) <= Cardinality(above(i))
        /\ Cardinality(above(j)) \in Nat /\ Cardinality(above(i)) \in Nat
    <3> HIDE DEF above
    <3> QED BY <2>2, <2>3, FS_Subset, FS_CardinalityType
  <2>5. Cardinality(above(j)) < PageSize(limit)
    <3> HIDE DEF above
    <3> QED BY <1>5, <2>1, <2>4
  <2> QED BY <1>1, <2>5
<1>7. ASSUME rest # {} PROVE page # {}
  <2>1. PICK i \in rest : \A j \in rest : j <= i
    BY <1>3, <1>7, LimitsAssumption, HasGreatest
  <2>2. above(i) = {}
    <3> SUFFICES ASSUME NEW k \in rest PROVE ~(k > i)
      OBVIOUS
    <3>1. i \in Int /\ k \in Int /\ k <= i
      BY <1>3, <2>1
    <3> QED BY <3>1
  <2>3. Cardinality(above(i)) = 0
    BY <2>2, FS_EmptySet
  <2>4. Cardinality(above(i)) < PageSize(limit)
    BY <1>4, <1>5, <2>3
  <2> QED BY <1>1, <2>4
<1> QED
  BY <1>1, <1>6, <1>7 DEF rest, page

-----------------------------------------------------------------------------
(* The inductive invariant.                                                   *)

\* A lid stands for itself or for a phone number, never for another lid.
NamesInv == \A l \in Lids : pnOf[l] \in Phones \cup {l}

\* The rows shown are those from the cursor on.
ShownInv ==
  \A i \in RowIds : /\ shown[i] <= 1
                    /\ shown[i] > 0 => reader.cursor > 0 /\ i >= reader.cursor

\* The rows that must be shown are in the listing.
SteadyInv == steady \subseteq Listing(reader.chat)

\* The ones not shown yet are still ahead.
AheadInv ==
  reader.state = "reading" =>
    \A i \in steady : shown[i] > 0 \/ After(i, reader.cursor)

IInv == TypeOK /\ NamesInv /\ ShownInv /\ SteadyInv /\ AheadInv /\ NothingSkipped

\* The invariant holds at the start.
LEMMA InitIInv == Init => IInv
<1> SUFFICES ASSUME Init PROVE IInv
  OBVIOUS
<1>1. TypeOK
  BY LimitsAssumption DEF Init, TypeOK, Reader, Chats
<1>2. NamesInv /\ ShownInv
  BY LimitsAssumption DEF Init, NamesInv, ShownInv, RowIds
<1>3. SteadyInv /\ AheadInv /\ NothingSkipped
  BY DEF Init, SteadyInv, AheadInv, NothingSkipped
<1> QED
  BY <1>1, <1>2, <1>3 DEF IInv

\* A step that moves or renames rows, and leaves the reader alone, keeps what
\* the invariant says of the reader: rows are never removed.
LEMMA WritesKeepReader ==
  ASSUME IInv, TypeOK', UNCHANGED <<reader, shown>>, StillSteady,
         \A i \in Rows : table'[i] # NoRow
  PROVE  (ShownInv /\ SteadyInv /\ AheadInv /\ NothingSkipped)'
<1>1. steady' \subseteq steady
  BY DEF StillSteady
<1>2. ShownInv'
  BY DEF IInv, ShownInv
<1>3. SteadyInv'
  <2> SUFFICES ASSUME NEW i \in steady' PROVE i \in Listing(reader.chat)'
    BY DEF SteadyInv
  <2>1. i \in Rows
    BY <1>1 DEF IInv, SteadyInv, Listing
  <2>2. Matches(pnOf', table'[i].chat, reader'.chat)
    BY DEF StillSteady
  <2> QED BY <2>1, <2>2 DEF Listing, Rows, Matches, Canonical
<1>4. AheadInv'
  BY <1>1 DEF IInv, AheadInv, After
<1>5. NothingSkipped'
  BY <1>1 DEF IInv, NothingSkipped
<1> QED
  BY <1>2, <1>3, <1>4, <1>5

\* What a page does to the reader.
LEMMA NextPageIInv == IInv /\ NextPage => IInv'
<1> SUFFICES ASSUME IInv, NextPage PROVE IInv'
  OBVIOUS
<1> DEFINE page == Page(reader.chat, reader.limit, reader.cursor)
           rest == Rest(reader.chat, reader.cursor)
<1>1. /\ reader \in Reader /\ reader.state = "reading" /\ MaxLimit \in Nat
      /\ reader.limit \in Int /\ reader.cursor \in Nat /\ shown \in [RowIds -> Nat]
  BY LimitsAssumption DEF NextPage, IInv, TypeOK, Reader
<1>2. /\ page \subseteq rest
      /\ \A i \in page, j \in rest : j > i => j \in page
      /\ page = {} => rest = {}
  BY <1>1, PageIsTop
<1>3. UNCHANGED <<table, nextId, pnOf, steady>>
  BY DEF NextPage
<1>4. Listing(reader.chat) \subseteq RowIds
  BY DEF Listing, Rows
<1>5. /\ rest = {i \in Listing(reader.chat) : After(i, reader.cursor)}
      /\ rest \subseteq RowIds /\ RowIds \subseteq Nat
  BY <1>4 DEF Rest, RowIds
<1>6. reader'.chat = reader.chat /\ (SteadyInv' <=> steady \subseteq Listing(reader.chat))
  <2>1. reader'.chat = reader.chat
    BY <1>1 DEF NextPage, Reader
  <2> QED BY <1>3, <2>1 DEF SteadyInv, Listing, Rows, Matches, Canonical
<1>7. NamesInv' /\ SteadyInv'
  BY <1>3, <1>6 DEF IInv, NamesInv, SteadyInv
<1>8. CASE page = {}
  <2>1. /\ reader' = [reader EXCEPT !.state = "ended"] /\ shown' = shown
    BY <1>8 DEF NextPage
  <2>2. TypeOK'
    BY <1>1, <1>3, <2>1 DEF IInv, TypeOK, Reader
  <2>3. ShownInv' /\ AheadInv'
    BY <1>1, <2>1 DEF IInv, ShownInv, AheadInv, Reader
  <2>4. \A i \in steady : shown[i] > 0
    BY <1>1, <1>2, <1>5, <1>8 DEF IInv, AheadInv, SteadyInv
  <2>5. NothingSkipped'
    BY <1>3, <2>1, <2>4 DEF NothingSkipped
  <2> QED BY <1>7, <2>2, <2>3, <2>5 DEF IInv
<1>9. CASE page # {}
  <2> DEFINE least == CHOOSE i \in page : \A j \in page : i <= j
  <2>1. /\ reader' = [reader EXCEPT !.cursor = least]
        /\ shown' = [i \in RowIds |-> IF i \in page THEN shown[i] + 1 ELSE shown[i]]
    BY <1>9 DEF NextPage
  <2>2. least \in page /\ \A j \in page : least <= j
    <3>1. \E i \in page : \A j \in page : i <= j
      <4> HIDE DEF page, rest
      <4> QED BY <1>2, <1>5, <1>9, HasLeast
    <3> QED BY <3>1
  <2> HIDE DEF least, page, rest
  <2>3. least \in 1..MaxRows
    BY <1>2, <1>5, <2>2 DEF RowIds
  <2>4. /\ reader'.cursor = least /\ reader'.state = "reading"
        /\ reader' \in Reader
    BY <1>1, <2>1, <2>3, LimitsAssumption DEF Reader
  <2>5. \A i \in page : shown[i] = 0 /\ (reader.cursor > 0 => i < reader.cursor)
    BY <1>1, <1>2, <1>5 DEF IInv, ShownInv, After
  <2>6. TypeOK'
    BY <1>1, <1>3, <2>1, <2>4 DEF IInv, TypeOK
  <2>7. ShownInv'
    <3> SUFFICES ASSUME NEW i \in RowIds
                 PROVE  /\ shown'[i] <= 1
                        /\ shown'[i] > 0 => least > 0 /\ i >= least
      BY <2>4 DEF ShownInv
    <3>1. CASE i \in page
      BY <2>1, <2>2, <2>3, <2>5, <3>1
    <3>2. CASE i \notin page
      <4>1. shown'[i] = shown[i]
        BY <2>1, <3>2
      <4>2. shown[i] <= 1 /\ (shown[i] > 0 => reader.cursor > 0 /\ i >= reader.cursor)
        BY DEF IInv, ShownInv
      <4>3. reader.cursor > 0 => least < reader.cursor
        BY <2>2, <2>5
      <4> QED BY <1>1, <1>5, <2>3, <4>1, <4>2, <4>3
    <3> QED BY <3>1, <3>2
  <2>8. AheadInv'
    <3> SUFFICES ASSUME NEW i \in steady, shown'[i] = 0 PROVE After(i, least)
      BY <1>1, <1>3, <2>4, <2>6 DEF AheadInv, TypeOK, IInv
    <3>1. i \in RowIds /\ i \in Listing(reader.chat)
      BY <1>4 DEF IInv, SteadyInv
    <3>2. i \notin page /\ shown[i] = 0
      BY <1>1, <2>1, <3>1
    <3>3. i \in rest
      BY <1>1, <1>5, <3>1, <3>2 DEF IInv, AheadInv
    <3>4. ~(i > least) /\ i # least
      BY <1>2, <2>2, <3>2, <3>3
    <3> QED BY <1>5, <2>3, <3>1, <3>4 DEF After
  <2>9. NothingSkipped'
    BY <2>4 DEF NothingSkipped
  <2> QED BY <1>7, <2>6, <2>7, <2>8, <2>9 DEF IInv
<1> QED
  BY <1>8, <1>9

\* Every step keeps the invariant.
LEMMA NextIInv == IInv /\ [Next]_vars => IInv'
<1> SUFFICES ASSUME IInv, [Next]_vars PROVE IInv'
  OBVIOUS
<1>1. CASE TakeId
  <2>1. TypeOK'
    BY <1>1, LimitsAssumption DEF TakeId, IInv, TypeOK
  <2>2. Listing(reader.chat)' = Listing(reader.chat)
    BY <1>1 DEF TakeId, Listing, Rows, Matches, Canonical
  <2> QED BY <1>1, <2>1, <2>2 DEF TakeId, IInv, NamesInv, ShownInv, SteadyInv,
                                  AheadInv, NothingSkipped
<1>2. ASSUME NEW i \in RowIds, NEW chat \in Chats, NEW time \in 0..MaxTime,
             Put(i, chat, time)
      PROVE  IInv'
  <2>1. /\ table' = [table EXCEPT ![i] = [state |-> "there", chat |-> chat,
                                          time |-> time]]
        /\ UNCHANGED <<nextId, pnOf, reader, shown>> /\ StillSteady
    BY <1>2 DEF Put
  <2>2. table'[i] # NoRow /\ table' \in [RowIds -> Row \cup {NoRow}]
    BY <2>1 DEF IInv, TypeOK, Row, NoRow
  <2>3. TypeOK'
    BY <2>1, <2>2 DEF IInv, TypeOK, StillSteady
  <2>4. \A j \in Rows : table'[j] # NoRow
    BY <2>1, <2>2 DEF IInv, TypeOK, Rows
  <2>5. (ShownInv /\ SteadyInv /\ AheadInv /\ NothingSkipped)'
    BY <2>1, <2>3, <2>4, WritesKeepReader
  <2> QED BY <2>1, <2>3, <2>5 DEF IInv, NamesInv
<1>3. ASSUME NEW lid \in Lids, NEW phone \in Phones, LearnNumber(lid, phone)
      PROVE  IInv'
  <2>1. /\ UNCHANGED <<table, nextId, reader, shown>> /\ StillSteady
        /\ pnOf' = [k \in Lids |-> IF k = lid THEN phone
                                   ELSE IF pnOf[k] = phone THEN k ELSE pnOf[k]]
    BY <1>3 DEF LearnNumber
  <2>2. TypeOK' /\ NamesInv'
    BY <2>1 DEF IInv, TypeOK, NamesInv, Chats, StillSteady
  <2>3. \A j \in Rows : table'[j] # NoRow
    BY <2>1 DEF Rows
  <2>4. (ShownInv /\ SteadyInv /\ AheadInv /\ NothingSkipped)'
    BY <2>1, <2>2, <2>3, WritesKeepReader
  <2> QED BY <2>2, <2>4 DEF IInv
<1>4. ASSUME NEW chat \in Chats \cup {AnyChat}, NEW limit \in 0..(MaxLimit + 1),
             OpenList(chat, limit)
      PROVE  IInv'
  <2>1. /\ reader' = [state |-> "reading", chat |-> chat, limit |-> limit,
                      cursor |-> 0]
        /\ shown' = [i \in RowIds |-> 0] /\ steady' = Listing(chat)
        /\ UNCHANGED <<table, nextId, pnOf>>
    BY <1>4 DEF OpenList
  <2>2. /\ Listing(reader.chat)' = Listing(chat)
        /\ Listing(chat) \subseteq RowIds
    BY <2>1 DEF Listing, Rows, Matches, Canonical
  <2>3. TypeOK'
    BY <2>1, <2>2, LimitsAssumption DEF IInv, TypeOK, Reader
  <2>4. ShownInv' /\ AheadInv' /\ NothingSkipped'
    BY <2>1 DEF ShownInv, AheadInv, After, NothingSkipped
  <2>5. SteadyInv'
    BY <2>1, <2>2 DEF SteadyInv
  <2> QED BY <2>1, <2>3, <2>4, <2>5 DEF IInv, NamesInv
<1>5. CASE NextPage
  BY <1>5, NextPageIInv
<1>6. CASE UNCHANGED vars
  <2>1. Listing(reader.chat)' = Listing(reader.chat)
    BY <1>6 DEF vars, Listing, Rows, Matches, Canonical
  <2> QED BY <1>6, <2>1 DEF vars, IInv, TypeOK, NamesInv, ShownInv, SteadyInv,
                            AheadInv, NothingSkipped
<1> QED
  BY <1>1, <1>2, <1>3, <1>4, <1>5, <1>6 DEF Next, CommitInsert, CommitUpdate

\* It always holds.
THEOREM Invariance == Spec => []IInv
<1> QED BY InitIInv, NextIInv, PTL DEF Spec

-----------------------------------------------------------------------------
(* The list of chats.                                                         *)

\* The messages of one chat of the list.
Ids(chat) == {i \in Rows : Canonical(pnOf, table[i].chat) = chat}

\* A canonical name is its own canonical name, so the pages of a chat of the
\* list hold the rows the list counted.
LEMMA CanonicalListing ==
  ASSUME TypeOK, NamesInv, NEW i \in Rows
  PROVE  LET chat == Canonical(pnOf, table[i].chat)
         IN  Listing(chat) = Ids(chat) /\ i \in Ids(chat)
<1> DEFINE chat == Canonical(pnOf, table[i].chat)
<1>1. table[i] \in Row
  BY DEF TypeOK, Rows
<1>2. table[i].chat \in Chats
  BY <1>1 DEF Row
<1>3. chat \in Phones \/ (chat \in Lids /\ pnOf[chat] = chat)
  BY <1>2, ChatsAssumption DEF Canonical, Chats, NamesInv
<1>4. Canonical(pnOf, chat) = chat /\ chat # AnyChat
  <2> HIDE DEF chat
  <2> QED BY <1>3, ChatsAssumption DEF Canonical
<1>5. i \in Ids(chat)
  BY DEF Ids
<1> HIDE DEF chat
<1>6. Listing(chat) = Ids(chat)
  BY <1>4 DEF Listing, Ids, Matches
<1> QED
  BY <1>5, <1>6 DEF chat

\* A set of messages that is not empty has a last one.
LEMMA LastIsThere ==
  ASSUME TypeOK, NEW ids \in SUBSET Rows, ids # {}, NEW chat
  PROVE  Summary(ids, chat).last \in ids
<1> DEFINE times == {table[i].time : i \in ids}
<1>1. ASSUME NEW i \in ids PROVE table[i].time \in 0..MaxTime /\ i \in 1..MaxRows
  <2>1. table[i] \in Row
    BY DEF TypeOK, Rows
  <2> QED BY <2>1 DEF Row, Rows, RowIds
<1>2. times \in SUBSET (0..MaxTime)
  BY <1>1
<1>3. times # {}
  OBVIOUS
<1>4. PICK t \in times : \A u \in times : u <= t
  <2> HIDE DEF times
  <2> QED BY <1>2, <1>3, LimitsAssumption, HasGreatest
<1> DEFINE latest == {i \in ids : table[i].time = t}
<1>5. latest # {}
  BY <1>4
<1>6. latest \in SUBSET (0..MaxRows)
  <2> SUFFICES ASSUME NEW i \in latest PROVE i \in 0..MaxRows
    OBVIOUS
  <2>1. i \in 1..MaxRows
    BY <1>1
  <2> QED BY <2>1, LimitsAssumption
<1>7. PICK m \in latest : \A i \in latest : i <= m
  <2> HIDE DEF latest
  <2> QED BY <1>5, <1>6, LimitsAssumption, HasGreatest
<1>8. ASSUME NEW j \in ids \ {m} PROVE Later(m, j)
  <2>1. table[j].time \in Int /\ table[m].time = t /\ t \in Int
        /\ j \in Int /\ m \in Int
    BY <1>1
  <2>2. table[j].time <= t
    BY <1>4
  <2>3. table[j].time = t => j <= m
    BY <1>7
  <2> QED BY <2>1, <2>2, <2>3 DEF Later
<1>9. \E i \in ids : \A j \in ids \ {i} : Later(i, j)
  BY <1>8
<1> QED
  BY <1>9 DEF Summary

-----------------------------------------------------------------------------
(* The theorems.                                                              *)

\* Rows, names, the caller and what it was shown keep their types.
THEOREM TypeCorrect == Spec => []TypeOK
<1>1. IInv => TypeOK
  BY DEF IInv
<1> QED BY <1>1, Invariance, PTL

\* Paging by "id < cursor" shows no row twice, whatever is committed late,
\* moved to another chat or renamed between two pages (MessageRepository.List).
THEOREM ShownOnce == Spec => []NeverTwice
<1>1. IInv => NeverTwice
  BY DEF IInv, ShownInv, NeverTwice
<1> QED BY <1>1, Invariance, PTL

\* A run through the pages that came to an empty one has shown every row that
\* was there, and of the chat asked for, from the first page on.
THEOREM AllShown == Spec => []NothingSkipped
<1>1. IInv => NothingSkipped
  BY DEF IInv
<1> QED BY <1>1, Invariance, PTL

\* The list of chats and the pages agree, whichever of a chat's names its
\* messages were stored under: every message is in one chat of the list, which
\* counts what its pages hold and ends with one of them (ReadService.ListChats,
\* MessageRepository.List over canonicalChatJIDExpr).
THEOREM ListsAgree == Spec => []ChatsAddUp
<1>1. ASSUME TypeOK, NamesInv PROVE ChatsAddUp
  <2>1. ListChats = {Summary(Ids(chat), chat) :
                       chat \in {Canonical(pnOf, table[i].chat) : i \in Rows}}
    BY DEF ListChats, Ids
  <2>2. ASSUME NEW c \in ListChats
        PROVE  /\ c.count = Cardinality(Listing(c.chat))
               /\ c.last \in Listing(c.chat)
    <3>1. PICK i \in Rows : LET chat == Canonical(pnOf, table[i].chat)
                            IN  c = Summary(Ids(chat), chat)
      BY <2>1
    <3> DEFINE chat == Canonical(pnOf, table[i].chat)
    <3>2. Listing(chat) = Ids(chat) /\ i \in Ids(chat)
      BY <1>1, CanonicalListing
    <3>3. c = Summary(Ids(chat), chat)
      BY <3>1
    <3> HIDE DEF chat
    <3>4. Ids(chat) \in SUBSET Rows
      BY DEF Ids
    <3>5. c.last \in Ids(chat)
      BY <1>1, <3>2, <3>3, <3>4, LastIsThere
    <3>6. c.chat = chat /\ c.count = Cardinality(Ids(chat))
      BY <3>3 DEF Summary
    <3> QED BY <3>2, <3>5, <3>6
  <2>3. ASSUME NEW i \in Rows
        PROVE  Cardinality({c \in ListChats : i \in Listing(c.chat)}) = 1
    <3> DEFINE chat == Canonical(pnOf, table[i].chat)
               those == {c \in ListChats : i \in Listing(c.chat)}
    <3>1. Listing(chat) = Ids(chat) /\ i \in Ids(chat)
      BY <1>1, CanonicalListing
    <3>2. Summary(Ids(chat), chat) \in those
      <4>1. Summary(Ids(chat), chat) \in ListChats
        BY <2>1
      <4>2. Summary(Ids(chat), chat).chat = chat
        BY DEF Summary
      <4> HIDE DEF chat
      <4> QED BY <3>1, <4>1, <4>2
    <3>3. ASSUME NEW c \in those PROVE c = Summary(Ids(chat), chat)
      <4>1. PICK j \in Rows : LET other == Canonical(pnOf, table[j].chat)
                              IN  c = Summary(Ids(other), other)
        BY <2>1
      <4> DEFINE other == Canonical(pnOf, table[j].chat)
      <4>2. Listing(other) = Ids(other)
        BY <1>1, CanonicalListing
      <4>3. c = Summary(Ids(other), other)
        BY <4>1
      <4> HIDE DEF other
      <4>4. i \in Ids(other)
        BY <4>2, <4>3 DEF Summary
      <4>5. other = chat
        BY <4>4 DEF Ids
      <4> QED BY <4>3, <4>5
    <3>4. those = {Summary(Ids(chat), chat)}
      BY <3>2, <3>3
    <3>5. Cardinality(those) = 1
      <4> HIDE DEF those
      <4> QED BY <3>4, FS_Singleton
    <3> QED BY <3>5
  <2> QED BY <2>2, <2>3 DEF ChatsAddUp
<1>2. IInv => ChatsAddUp
  BY <1>1 DEF IInv
<1> QED BY <1>2, Invariance, PTL
=============================================================================
