---------------------------- MODULE BrowserProofs ----------------------------
(* Theorems of Browser, for any sessions and chats, and any number of clicks  *)
(* and of failures.                                                           *)
EXTENDS Browser, TLAPS

-----------------------------------------------------------------------------
(* The modal's functions.                                                     *)

\* A state of the modal, with one interval for the session that is watched and
\* none for any other.
GoodUI(u) ==
  /\ u \in UI
  /\ \A s \in Sessions : u.timers[s] = (IF u.watcher = s THEN 1 ELSE 0)

\* The fields of a state of the modal.
LEMMA UIFields ==
  ASSUME NEW u \in UI
  PROVE  /\ u.open \in BOOLEAN /\ u.shows \in Shown /\ u.watcher \in Choice
         /\ u.timers \in [Sessions -> Nat]
         /\ u = [open |-> u.open, shows |-> u.shows, watcher |-> u.watcher,
                 timers |-> u.timers]
BY DEF UI

\* What a modal can show.
LEMMA ShownTypes ==
  /\ Nothing \in Shown
  /\ \A s \in Sessions :
       /\ OfQR(s) \in Shown /\ [OfQR(s) EXCEPT !.kind = "recovery"] \in Shown
       /\ [kind |-> "form", session |-> s] \in Shown
BY DEF Nothing, Shown, OfQR, Choice

\* A modal nobody has opened.
LEMMA BlankIsGood == GoodUI(BlankUI)
<1>1. BlankUI \in UI
  BY ShownTypes DEF BlankUI, UI, Choice
<1> QED
  BY <1>1, NoSessionAssumption DEF BlankUI, GoodUI

\* stopQRWatcher ends the interval it knows, which is the only one there is.
LEMMA StopQRWatcherStops ==
  ASSUME NEW u, GoodUI(u)
  PROVE  /\ GoodUI(StopQRWatcher(u)) /\ StopQRWatcher(u).watcher = NoSession
         /\ \A s \in Sessions : StopQRWatcher(u).timers[s] = 0
<1>1. u \in UI /\ \A s \in Sessions : u.timers[s] = (IF u.watcher = s THEN 1 ELSE 0)
  BY DEF GoodUI
<1>2. CASE u.watcher = NoSession
  BY <1>1, <1>2, NoSessionAssumption DEF StopQRWatcher, GoodUI
<1>3. CASE u.watcher # NoSession
  <2> DEFINE w == u.watcher
             timers == [u.timers EXCEPT ![w] = @ - 1]
  <2>1. w \in Sessions /\ u.timers \in [Sessions -> Nat]
    BY <1>1, <1>3, UIFields DEF Choice
  <2>2. /\ timers \in [Sessions -> Nat]
        /\ \A s \in Sessions : timers[s] = 0
    BY <1>1, <2>1
  <2>3. StopQRWatcher(u) = [u EXCEPT !.timers = timers, !.watcher = NoSession]
    BY <1>1, <1>3, UIFields DEF StopQRWatcher
  <2> HIDE DEF timers
  <2>4. /\ StopQRWatcher(u) \in UI /\ StopQRWatcher(u).watcher = NoSession
        /\ StopQRWatcher(u).timers = timers
    BY <1>1, <2>2, <2>3 DEF UI, Choice
  <2> QED BY <2>2, <2>4, NoSessionAssumption DEF GoodUI
<1> QED
  BY <1>2, <1>3

\* Opening, closing and rendering, and a new watcher, keep a modal good.
LEMMA ModalWrites ==
  ASSUME NEW u, GoodUI(u), NEW shows \in Shown
  PROVE  /\ GoodUI(OpenModal(u, shows)) /\ GoodUI(CloseModal(u))
         /\ GoodUI(Render(u, shows)) /\ GoodUI(RenderError(u))
<1>1. /\ u \in UI
      /\ \A s \in Sessions : u.timers[s] = (IF u.watcher = s THEN 1 ELSE 0)
  BY DEF GoodUI
<1>2. ASSUME NEW v, GoodUI(v), NEW o \in BOOLEAN, NEW x \in Shown
      PROVE  GoodUI([v EXCEPT !.open = o, !.shows = x])
  <2> DEFINE w == [v EXCEPT !.open = o, !.shows = x]
  <2>1. w \in UI /\ w.timers = v.timers /\ w.watcher = v.watcher
    BY <1>2 DEF GoodUI, UI
  <2> HIDE DEF w
  <2>2. GoodUI(w)
    BY <1>2, <2>1 DEF GoodUI
  <2> QED BY <2>2 DEF w
<1>3. GoodUI(StopQRWatcher(u))
  BY StopQRWatcherStops
<1>4. GoodUI(OpenModal(u, shows))
  BY <1>2, <1>3 DEF OpenModal
<1>5. GoodUI(CloseModal(u))
  BY <1>2, <1>3, ShownTypes DEF CloseModal
<1>6. \A x \in Shown : GoodUI(Render(u, x))
  <2>1. \A x \in Shown : [u EXCEPT !.shows = x] \in UI
                         /\ [u EXCEPT !.shows = x].timers = u.timers
                         /\ [u EXCEPT !.shows = x].watcher = u.watcher
    BY <1>1 DEF UI
  <2> QED BY <1>1, <2>1 DEF Render, GoodUI
<1>7. GoodUI(RenderError(u))
  BY <1>6, ShownTypes DEF RenderError
<1> QED
  BY <1>4, <1>5, <1>6, <1>7

\* A watcher that starts is the only one: startQRCodeWatcher stops the other.
LEMMA WatcherStarts ==
  ASSUME NEW u, GoodUI(u), NEW s \in Sessions
  PROVE  GoodUI(StartQRCodeWatcher(u, s)) /\ GoodUI(ShowQRCodeFlow(u, s))
<1>1. ASSUME NEW v, GoodUI(v) PROVE GoodUI(StartQRCodeWatcher(v, s))
  <2> DEFINE w == StopQRWatcher(v)
  <2>1. w \in UI /\ \A r \in Sessions : w.timers[r] = 0
    BY <1>1, StopQRWatcherStops DEF GoodUI
  <2>2. StartQRCodeWatcher(v, s) = [w EXCEPT !.watcher = s, !.timers[s] = @ + 1]
    BY DEF StartQRCodeWatcher
  <2> HIDE DEF w
  <2> DEFINE timers == [w.timers EXCEPT ![s] = @ + 1]
  <2>3. /\ timers \in [Sessions -> Nat]
        /\ \A r \in Sessions : timers[r] = (IF s = r THEN 1 ELSE 0)
    BY <2>1, UIFields
  <2>4. StartQRCodeWatcher(v, s) = [w EXCEPT !.watcher = s, !.timers = timers]
    BY <2>1, <2>2, UIFields
  <2> HIDE DEF timers
  <2>5. /\ StartQRCodeWatcher(v, s) \in UI
        /\ StartQRCodeWatcher(v, s).watcher = s
        /\ StartQRCodeWatcher(v, s).timers = timers
    BY <2>1, <2>3, <2>4 DEF UI, Choice
  <2> QED BY <2>3, <2>5 DEF GoodUI
<1>2. GoodUI(OpenModal(u, OfQR(s)))
  BY ModalWrites, ShownTypes
<1> QED
  BY <1>1, <1>2 DEF ShowQRCodeFlow

-----------------------------------------------------------------------------
(* The calls.                                                                 *)

AnyCall == ModalCall \cup ChatCall \cup PageCall

\* The calls of the dashboard.
LEMMA ModalCalls ==
  ASSUME NEW s \in Sessions
  PROVE  /\ Sync(s) \in AnyCall
         /\ \A stage \in {"asked"} \cup SessionStatus :
              [Sync(s) EXCEPT !.stage = stage] \in AnyCall
         /\ \A op \in {"reopen", "create"} :
              LET c == [op |-> op, session |-> s, stage |-> "asked"]
              IN  c \in AnyCall /\ [c EXCEPT !.stage = "summary"] \in AnyCall
         /\ [op |-> "pair", session |-> s, stage |-> "asked"] \in AnyCall
BY DEF AnyCall, ModalCall, Sync

\* The calls of the chat page, and which calls of any page they are.
LEMMA ChatCalls ==
  /\ LoadSessions \subseteq AnyCall
  /\ \A v \in View, resume \in BOOLEAN :
       LoadChats(v, resume) \subseteq AnyCall /\ LoadMessages(v, resume) \subseteq AnyCall
  /\ \A c \in AnyCall : c.op \in {"chats", "messages", "post"} => c \in ChatCall
<1>1. LoadSessions \subseteq AnyCall
  BY DEF LoadSessions, AnyCall, ChatCall, Choice, ChatChoice
<1>2. ASSUME NEW v \in View, NEW resume \in BOOLEAN
      PROVE  LoadChats(v, resume) \subseteq AnyCall /\ LoadMessages(v, resume) \subseteq AnyCall
  <2>1. v.session \in Choice /\ v.chat \in ChatChoice
    BY DEF View
  <2>2. NoChat \in ChatChoice
    BY DEF ChatChoice
  <2> QED BY <2>1, <2>2 DEF LoadChats, LoadMessages, AnyCall, ChatCall
<1>3. ASSUME NEW c \in AnyCall, c.op \in {"chats", "messages", "post"}
      PROVE  c \in ChatCall
  BY <1>3 DEF AnyCall, ModalCall, PageCall
<1> QED
  BY <1>1, <1>2, <1>3

\* The calls of the analytics page.
LEMMA PageCalls ==
  /\ ListSessions \subseteq AnyCall
  /\ \A f \in Figures : LoadAnalytics(f) \subseteq AnyCall
BY DEF ListSessions, LoadAnalytics, Figures, AnyCall, PageCall, Choice

-----------------------------------------------------------------------------
(* The inductive invariant.  The watcher's intervals are natural numbers only *)
(* because there is at most one: the type needs the invariant.                *)

IInv == TypeOK /\ GoodUI(ui)

\* What a step of the dashboard has to keep.
DashboardKept ==
  status' \in [Sessions -> SessionStatus] /\ GoodUI(ui') /\ calls' \subseteq AnyCall

\* The user on the dashboard.
LEMMA ModalClickKeeps == IInv /\ ModalClick => DashboardKept
<1> SUFFICES ASSUME IInv, ModalClick PROVE DashboardKept
  OBVIOUS
<1>1. /\ status \in [Sessions -> SessionStatus] /\ calls \subseteq AnyCall
      /\ GoodUI(ui)
  BY DEF IInv, TypeOK, ModalTypeOK, AnyCall
<1>2. ASSUME NEW s \in Sessions, ClickQR(s) PROVE DashboardKept
  <2>1. GoodUI(ShowQRCodeFlow(ui, s)) /\ Sync(s) \in AnyCall
    BY <1>1, WatcherStarts, ModalCalls
  <2> QED BY <1>1, <1>2, <2>1 DEF ClickQR, Call, DashboardKept
<1>3. ASSUME NEW s \in Sessions, ReopenQRCode(s) PROVE DashboardKept
  <2>1. /\ GoodUI(OpenModal(ui, OfQR(s)))
        /\ [op |-> "reopen", session |-> s, stage |-> "asked"] \in AnyCall
    BY <1>1, ModalWrites, ShownTypes, ModalCalls
  <2> QED BY <1>1, <1>3, <2>1 DEF ReopenQRCode, Call, DashboardKept
<1>4. ASSUME NEW s \in Sessions, CreateSession(s) PROVE DashboardKept
  <2>1. [op |-> "create", session |-> s, stage |-> "asked"] \in AnyCall
    BY ModalCalls
  <2> QED BY <1>1, <1>4, <2>1 DEF CreateSession, Call, DashboardKept
<1>5. ASSUME NEW s \in Sessions, OpenPairCodeFlow(s) PROVE DashboardKept
  <2>1. GoodUI(OpenModal(ui, [kind |-> "form", session |-> s]))
    BY <1>1, ModalWrites, ShownTypes
  <2> QED BY <1>1, <1>5, <2>1 DEF OpenPairCodeFlow, DashboardKept
<1>6. ASSUME NEW s \in Sessions, GeneratePairCode(s) PROVE DashboardKept
  <2>1. [op |-> "pair", session |-> s, stage |-> "asked"] \in AnyCall
    BY ModalCalls
  <2> QED BY <1>1, <1>6, <2>1 DEF GeneratePairCode, Call, DashboardKept
<1>7. CASE ClickClose
  <2>1. GoodUI(CloseModal(ui))
    BY <1>1, ModalWrites, ShownTypes
  <2> QED BY <1>1, <1>7, <2>1 DEF ClickClose, DashboardKept
<1> QED
  BY <1>2, <1>3, <1>4, <1>5, <1>6, <1>7 DEF ModalClick

\* The answers on the dashboard, late ones for other modals among them.
LEMMA ModalAnswerKeeps ==
  ASSUME IInv, NEW s \in Sessions, Poll(s) \/ ModalAnswer(s)
  PROVE  DashboardKept
<1>1. /\ status \in [Sessions -> SessionStatus] /\ calls \subseteq AnyCall
      /\ GoodUI(ui) /\ GoodUI(CloseModal(ui)) /\ GoodUI(RenderError(ui))
      /\ GoodUI(StartQRCodeWatcher(ui, s)) /\ GoodUI(ShowQRCodeFlow(ui, s))
      /\ \A x \in Shown : GoodUI(Render(ui, x)) /\ GoodUI(OpenModal(ui, x))
  BY ModalWrites, WatcherStarts, ShownTypes DEF IInv, TypeOK, ModalTypeOK, AnyCall
<1>2. CASE Poll(s)
  BY <1>1, <1>2, ModalCalls DEF Poll, Call, DashboardKept
<1>3. CASE AnswerSession(s)
  <2>1. [Sync(s) EXCEPT !.stage = status[s]] \in AnyCall
    BY <1>1, ModalCalls
  <2> QED BY <1>1, <1>3, <2>1 DEF AnswerSession, Returns, DashboardKept
<1>4. CASE SyncConnected(s)
  BY <1>1, <1>4 DEF SyncConnected, Returns, DashboardKept
<1>5. CASE SyncRendered(s)
  <2>1. /\ GoodUI(Render(ui, OfQR(s)))
        /\ GoodUI(Render(ui, [OfQR(s) EXCEPT !.kind = "recovery"]))
    BY <1>1, ShownTypes
  <2> QED BY <1>1, <1>5, <2>1 DEF SyncRendered, Returns, DashboardKept
<1>6. CASE AnswerReopen(s)
  <2> DEFINE c == [op |-> "reopen", session |-> s, stage |-> "asked"]
             next == [c EXCEPT !.stage = "summary"]
  <2>1. next \in AnyCall
    BY ModalCalls
  <2>2. GoodUI(Render(ui, OfQR(s)))
    BY <1>1, ShownTypes
  <2>3. /\ calls' = (calls \ {c}) \cup {next} \/ calls' = (calls \ {c}) \cup {}
        /\ ui' \in {ui, Render(ui, OfQR(s)), RenderError(ui)} /\ status' = status
    BY <1>6 DEF AnswerReopen, Returns
  <2> HIDE DEF c, next
  <2> QED BY <1>1, <2>1, <2>2, <2>3 DEF DashboardKept
<1>7. CASE ReopenWatches(s)
  <2>1. Sync(s) \in AnyCall
    BY ModalCalls
  <2> QED BY <1>1, <1>7, <2>1 DEF ReopenWatches, Returns, DashboardKept
<1>8. CASE AnswerCreate(s)
  <2> DEFINE c == [op |-> "create", session |-> s, stage |-> "asked"]
             next == [c EXCEPT !.stage = "summary"]
  <2>1. next \in AnyCall
    BY ModalCalls
  <2>2. /\ calls' = (calls \ {c}) \cup {next} \/ calls' = (calls \ {c}) \cup {}
        /\ ui' = ui /\ status' = status
    BY <1>8 DEF AnswerCreate, Returns
  <2> HIDE DEF c, next
  <2> QED BY <1>1, <2>1, <2>2 DEF DashboardKept
<1>9. CASE CreateShows(s)
  <2>1. Sync(s) \in AnyCall /\ GoodUI(OpenModal(ui, Nothing))
    BY <1>1, ModalCalls, ShownTypes
  <2> QED BY <1>1, <1>9, <2>1 DEF CreateShows, Returns, DashboardKept
<1>10. CASE AnswerPair(s)
  <2>1. GoodUI(OpenModal(ui, Nothing))
    BY <1>1, ShownTypes
  <2> QED BY <1>1, <1>10, <2>1 DEF AnswerPair, Returns, DashboardKept
<1> QED
  BY <1>2, <1>3, <1>4, <1>5, <1>6, <1>7, <1>8, <1>9, <1>10 DEF ModalAnswer

\* Any step on the dashboard.
LEMMA DashboardIInv == IInv /\ OnDashboard(ModalNext) => IInv'
<1> SUFFICES ASSUME IInv, OnDashboard(ModalNext) PROVE IInv'
  OBVIOUS
<1>1. /\ page = "dashboard" /\ ModalNext
      /\ UNCHANGED <<page, link, saved, view, figures>>
  BY DEF OnDashboard, chatVars
<1>2. /\ status \in [Sessions -> SessionStatus] /\ calls \subseteq AnyCall
      /\ GoodUI(ui)
  BY DEF IInv, TypeOK, ModalTypeOK, AnyCall
<1>3. ModalCallFails => DashboardKept
  <2>1. GoodUI(RenderError(ui))
    BY <1>2, ModalWrites, ShownTypes
  <2> QED BY <1>2, <2>1 DEF ModalCallFails, Fails, Returns, DashboardKept
<1>4. StatusChanges => DashboardKept
  BY <1>2 DEF StatusChanges, DashboardKept
<1>5. DashboardKept
  BY <1>1, <1>3, <1>4, ModalClickKeeps, ModalAnswerKeeps DEF ModalNext
<1>6. GoodUI(ui)' /\ TypeOK'
  BY <1>1, <1>5 DEF DashboardKept, GoodUI, IInv, TypeOK, ModalTypeOK, ChatTypeOK,
                    FiguresTypeOK, AnyCall
<1> QED
  BY <1>6 DEF IInv

\* Any step on the chat page.
LEMMA ChatIInv == IInv /\ OnChat(ChatNext) => IInv'
<1> SUFFICES ASSUME IInv, OnChat(ChatNext) PROVE IInv'
  OBVIOUS
<1>1. /\ page = "chat" /\ ChatNext /\ UNCHANGED <<page, status, ui, figures>>
  BY DEF OnChat, dashboardVars
<1>2. /\ view \in View /\ saved \in Choice /\ link \in Thread
      /\ calls \subseteq AnyCall
  BY DEF IInv, TypeOK, ChatTypeOK, AnyCall
<1> DEFINE kept == /\ view' \in View /\ saved' \in Choice /\ link' \in Thread
                   /\ calls' \subseteq AnyCall
<1>3. \A v \in View, resume \in BOOLEAN :
        LoadChats(v, resume) \subseteq AnyCall /\ LoadMessages(v, resume) \subseteq AnyCall
  BY ChatCalls
<1>4. ASSUME NEW s \in Choice, SelectSession(s) PROVE kept
  <2>1. view' \in View
    BY <1>2, <1>4 DEF SelectSession, View, ChatChoice, Thread, NoThread, Choice
  <2> QED BY <1>2, <1>3, <1>4, <2>1 DEF SelectSession, Call
<1>5. ASSUME NEW c \in Chats, ClickChat(c) \/ OpenQuickChat(c) PROVE kept
  <2>1. c \in ChatChoice /\ NoThread \in Thread
    BY DEF ChatChoice, NoThread, Thread, Choice
  <2>2. \/ view' = [view EXCEPT !.chat = c]
        \/ view' = [view EXCEPT !.chat = c, !.thread = NoThread]
    BY <1>5 DEF ClickChat, OpenQuickChat
  <2>3. view' \in View
    BY <1>2, <2>1, <2>2 DEF View
  <2> QED BY <1>2, <1>3, <1>5, <2>3 DEF ClickChat, OpenQuickChat, Call
<1>6. ASSUME ReloadMessages \/ PollChats \/ PollMessages PROVE kept
  BY <1>2, <1>3, <1>6 DEF ReloadMessages, PollChats, PollMessages, Call
<1>7. ASSUME SubmitComposer PROVE kept
  <2>1. [op |-> "post", session |-> view.session, chat |-> view.chat,
         resume |-> TRUE] \in AnyCall
    BY <1>2 DEF View, AnyCall, ChatCall
  <2> QED BY <1>2, <1>7, <2>1 DEF SubmitComposer, Call
<1>8. ASSUME SessionsLoaded PROVE kept
  <2>1. PICK session : /\ session \in Choice
                       /\ view' = [view EXCEPT !.loaded = TRUE, !.session = session]
                       /\ saved' = IF session = NoSession THEN saved ELSE session
    <3>1. PICK first \in Choice :
            LET session == CHOOSE s \in Choice :
                  IF link.session # NoSession THEN s = link.session
                  ELSE IF saved # NoSession THEN s = saved ELSE s = first
            IN  /\ view' = [view EXCEPT !.loaded = TRUE, !.session = session]
                /\ saved' = IF session = NoSession THEN saved ELSE session
      BY <1>8 DEF SessionsLoaded
    <3> DEFINE is(s) == IF link.session # NoSession THEN s = link.session
                        ELSE IF saved # NoSession THEN s = saved ELSE s = first
               session == CHOOSE s \in Choice : is(s)
    <3>2. \E s \in Choice : is(s)
      BY <1>2 DEF Thread
    <3>3. session \in Choice
      <4> HIDE DEF is
      <4> QED BY <3>2
    <3>4. /\ view' = [view EXCEPT !.loaded = TRUE, !.session = session]
          /\ saved' = IF session = NoSession THEN saved ELSE session
      BY <3>1
    <3> HIDE DEF session
    <3> QED BY <3>3, <3>4
  <2>2. view' \in View /\ saved' \in Choice
    BY <1>2, <2>1 DEF View
  <2>3. LoadChats(view', FALSE) \subseteq AnyCall
    BY <1>3, <2>2
  <2>4. calls' \subseteq AnyCall /\ link' = link
    BY <1>2, <1>8, <2>3 DEF SessionsLoaded, Returns
  <2> QED BY <1>2, <2>2, <2>4
<1>9. ASSUME NEW c \in calls, ChatAnswer(c) PROVE kept
  <2>1. c.op \in {"chats", "messages", "post"} => c \in ChatCall
    BY <1>2, ChatCalls
  <2>2. CASE ChatsLoaded(c)
    <3>1. c.session \in Choice /\ c.resume \in BOOLEAN
      BY <2>1, <2>2 DEF ChatsLoaded, ChatCall
    <3>2. view' \in View
      BY <1>2, <2>2, <3>1 DEF ChatsLoaded, View, ChatChoice, Thread
    <3>3. LoadMessages(view', c.resume) \subseteq AnyCall
      BY <1>3, <3>1, <3>2
    <3> QED BY <1>2, <2>2, <3>2, <3>3 DEF ChatsLoaded, Returns
  <2>3. CASE MessagesLoaded(c)
    <3>1. c.session \in Choice /\ c.chat \in ChatChoice
      BY <2>1, <2>3 DEF MessagesLoaded, ChatCall
    <3>2. view' \in View
      BY <1>2, <2>3, <3>1 DEF MessagesLoaded, View, Thread
    <3> QED BY <1>2, <1>3, <2>3, <3>2 DEF MessagesLoaded, Returns
  <2>4. CASE Posted(c)
    BY <1>2, <1>3, <2>4 DEF Posted, Returns
  <2> QED BY <1>9, <2>2, <2>3, <2>4 DEF ChatAnswer
<1>10. ASSUME ChatCallFails PROVE kept
  BY <1>2, <1>10 DEF ChatCallFails, Fails, Returns
<1>11. kept
  BY <1>1, <1>4, <1>5, <1>6, <1>7, <1>8, <1>9, <1>10 DEF ChatNext, ChatClick
<1> HIDE DEF kept
<1>12. TypeOK' /\ GoodUI(ui)'
  BY <1>1, <1>11 DEF kept, IInv, TypeOK, ModalTypeOK, ChatTypeOK, FiguresTypeOK,
                     AnyCall, GoodUI
<1> QED
  BY <1>12 DEF IInv

\* Any step on the analytics page.
LEMMA AnalyticsIInv == IInv /\ OnAnalytics(AnalyticsNext) => IInv'
<1> SUFFICES ASSUME IInv, OnAnalytics(AnalyticsNext) PROVE IInv'
  OBVIOUS
<1>1. /\ page = "analytics" /\ AnalyticsNext
      /\ UNCHANGED <<page, status, ui, link, saved, view>>
  BY DEF OnAnalytics, dashboardVars, chatVars
<1>2. figures \in Figures /\ calls \subseteq AnyCall
  BY DEF IInv, TypeOK, FiguresTypeOK, AnyCall
<1>3. \A f \in Figures : LoadAnalytics(f) \subseteq AnyCall
  BY PageCalls
<1> DEFINE kept == figures' \in Figures /\ calls' \subseteq AnyCall
<1>4. ASSUME SessionsListed PROVE kept
  <2>1. figures' \in Figures
    BY <1>2, <1>4 DEF SessionsListed, Figures
  <2> QED BY <1>2, <1>3, <1>4, <2>1 DEF SessionsListed, Returns
<1>5. ASSUME NEW s \in Choice, ChooseSession(s) PROVE kept
  <2>1. figures' \in Figures
    BY <1>2, <1>5 DEF ChooseSession, Figures
  <2> QED BY <1>2, <1>3, <1>5, <2>1 DEF ChooseSession, Call
<1>6. ASSUME NEW s \in Choice, FiguresLoaded(s) PROVE kept
  BY <1>2, <1>6 DEF FiguresLoaded, Returns, Figures
<1>7. ASSUME RefreshAnalytics \/ PollAnalytics PROVE kept
  BY <1>2, <1>3, <1>7 DEF RefreshAnalytics, PollAnalytics, Call
<1>8. ASSUME AnalyticsCallFails PROVE kept
  BY <1>2, <1>8 DEF AnalyticsCallFails, Fails, Returns
<1>9. kept
  BY <1>1, <1>4, <1>5, <1>6, <1>7, <1>8 DEF AnalyticsNext
<1> HIDE DEF kept
<1>10. TypeOK' /\ GoodUI(ui)'
  BY <1>1, <1>9 DEF kept, IInv, TypeOK, ModalTypeOK, ChatTypeOK, FiguresTypeOK,
                    AnyCall, GoodUI
<1> QED
  BY <1>10 DEF IInv

-----------------------------------------------------------------------------
(* From one page to another.                                                  *)

\* A page that opens is blank, knows its address, and makes its first calls.
LEMMA FirstPage ==
  ASSUME NEW p \in Pages
  PROVE  /\ BlankView \in View /\ BlankFigures \in Figures
         /\ Addresses(p) \subseteq Thread /\ FirstCalls(p) \subseteq AnyCall
         /\ AnyStatus = [Sessions -> SessionStatus] /\ Unseen \in AnyStatus
<1>1. BlankView \in View
  BY DEF BlankView, View, Choice, ChatChoice, Thread, NoThread
<1>2. BlankFigures \in Figures
  BY DEF BlankFigures, Figures, Choice
<1>3. Addresses(p) \subseteq Thread
  BY DEF Addresses, NoThread, Thread, Choice, ChatChoice
<1>4. FirstCalls(p) \subseteq AnyCall
  <2>1. LoadSessions \subseteq AnyCall /\ ListSessions \subseteq AnyCall
        /\ LoadAnalytics(BlankFigures) \subseteq AnyCall
    BY <1>2, ChatCalls, PageCalls
  <2> QED BY <2>1 DEF FirstCalls, Pages
<1>5. AnyStatus = [Sessions -> SessionStatus] /\ Unseen \in AnyStatus
  BY DEF AnyStatus, Unseen, SessionStatus
<1> QED
  BY <1>1, <1>2, <1>3, <1>4, <1>5

\* The invariant holds on the first page.
LEMMA InitIInv == Init => IInv
<1> SUFFICES ASSUME Init PROVE IInv
  OBVIOUS
<1>1. /\ page \in Pages /\ ui = BlankUI /\ view = BlankView
      /\ figures = BlankFigures /\ link \in Addresses(page) /\ saved = NoSession
      /\ calls = FirstCalls(page)
      /\ status \in IF page = "dashboard" THEN AnyStatus ELSE {Unseen}
  BY DEF Init
<1>2. /\ view \in View /\ figures \in Figures /\ link \in Thread
      /\ calls \subseteq AnyCall /\ status \in [Sessions -> SessionStatus]
      /\ saved \in Choice
  BY <1>1, FirstPage DEF Choice
<1>3. GoodUI(ui)
  BY <1>1, BlankIsGood
<1> QED
  BY <1>1, <1>2, <1>3 DEF IInv, TypeOK, ModalTypeOK, ChatTypeOK, FiguresTypeOK,
                          AnyCall, GoodUI

\* It holds on the page that is opened.
LEMMA OpenIInv ==
  ASSUME NEW p \in Pages, Open(p), link' \in Thread, saved' \in Choice
  PROVE  IInv'
<1>1. /\ page' = p /\ ui' = BlankUI /\ view' = BlankView
      /\ figures' = BlankFigures /\ calls' = FirstCalls(p)
      /\ status' \in IF p = "dashboard" THEN AnyStatus ELSE {Unseen}
  BY DEF Open
<1>2. /\ view' \in View /\ figures' \in Figures
      /\ calls' \subseteq AnyCall /\ status' \in [Sessions -> SessionStatus]
  BY <1>1, FirstPage
<1>3. GoodUI(ui')
  BY <1>1, BlankIsGood
<1>4. TypeOK' /\ GoodUI(ui)'
  BY <1>1, <1>2, <1>3 DEF TypeOK, ModalTypeOK, ChatTypeOK, FiguresTypeOK,
                          AnyCall, GoodUI
<1> QED
  BY <1>4 DEF IInv

\* Every step keeps it.
LEMMA NextIInv == IInv /\ [Next]_vars => IInv'
<1> SUFFICES ASSUME IInv, [Next]_vars PROVE IInv'
  OBVIOUS
<1>1. saved \in Choice
  BY DEF IInv, TypeOK, ChatTypeOK
<1>2. CASE Visit
  <2>1. PICK p \in Pages : Open(p) /\ link' \in Addresses(p)
    BY <1>2 DEF Visit
  <2>2. link' \in Thread /\ saved' \in Choice
    BY <1>1, <1>2, <2>1, FirstPage DEF Visit
  <2> QED BY <2>1, <2>2, OpenIInv
<1>3. ASSUME NEW s \in Sessions, OpenChat(s) PROVE IInv'
  <2>1. Open("chat") /\ "chat" \in Pages
    BY <1>3 DEF OpenChat, Pages
  <2>2. link' \in Thread /\ saved' \in Choice
    BY <1>3 DEF OpenChat, Thread, Choice, ChatChoice
  <2> QED BY <2>1, <2>2, OpenIInv
<1>4. ASSUME NEW s \in Choice, SavePreferences(s) PROVE IInv'
  <2>1. TypeOK' /\ GoodUI(ui)'
    BY <1>4 DEF SavePreferences, dashboardVars, IInv, TypeOK, ModalTypeOK,
                ChatTypeOK, FiguresTypeOK, GoodUI
  <2> QED BY <2>1 DEF IInv
<1>5. CASE UNCHANGED vars
  <2>1. TypeOK' /\ GoodUI(ui)'
    BY <1>5 DEF vars, dashboardVars, chatVars, IInv, TypeOK, ModalTypeOK,
                ChatTypeOK, FiguresTypeOK, GoodUI
  <2> QED BY <2>1 DEF IInv
<1> QED
  BY <1>2, <1>3, <1>4, <1>5, DashboardIInv, ChatIInv, AnalyticsIInv DEF Next

\* It always holds.
THEOREM Invariance == Spec => []IInv
<1> QED BY InitIInv, NextIInv, PTL DEF Spec

-----------------------------------------------------------------------------
(* The theorems.                                                              *)

\* Every page keeps the types of its state and of its calls in flight, however
\* late they answer, and leaves nothing of itself to the next.
THEOREM TypeCorrect == Spec => []TypeOK
<1>1. IInv => TypeOK
  BY DEF IInv
<1> QED BY <1>1, Invariance, PTL

\* There is one watcher at most, and the one that state.stopQRWatcher can stop,
\* whatever is clicked and in whatever order the calls made for modals that are
\* gone are answered (startQRCodeWatcher, reopenQRCode of public/dashboard.js).
THEOREM WatcherIsOne == Spec => []OneWatcher
<1>1. IInv => OneWatcher
  BY DEF IInv, GoodUI, OneWatcher
<1> QED BY <1>1, Invariance, PTL
=============================================================================
