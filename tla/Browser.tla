------------------------------- MODULE Browser ------------------------------
(* One window of a browser on the pages of the gateway.  Leaving a page drops *)
(* its state and its calls in flight; the address and the default session of  *)
(* the browser's storage are what the next page knows.                        *)
EXTENDS SessionModal, ChatPage, AnalyticsPage

VARIABLE page

Pages == {"dashboard", "chat", "analytics", "settings"}

dashboardVars == <<status, ui>>
chatVars == <<link, saved, view>>
vars == <<page, dashboardVars, chatVars, figures, calls, clicks, failures>>

PageCall == [op: {"list", "figures"}, session: Choice]

\* Only the dashboard looks at the status of the sessions.
AnyStatus == [Sessions -> SessionStatus]
Unseen == [s \in Sessions |-> "pending"]

TypeOK ==
  /\ page \in Pages
  /\ ModalTypeOK /\ ChatTypeOK /\ FiguresTypeOK
  /\ calls \subseteq ModalCall \cup ChatCall \cup PageCall
  /\ page # "dashboard" => ui = BlankUI /\ status = Unseen
  /\ page # "chat" => view = BlankView

\* Only the chat page reads a session and a chat from its address.
Addresses(p) ==
  {NoThread} \cup (IF p = "chat" THEN [session: Sessions, chat: Chats] ELSE {})

\* The first calls of a page.
FirstCalls(p) ==
  CASE p = "chat" -> LoadSessions
    [] p = "analytics" -> ListSessions \cup LoadAnalytics(BlankFigures)
    [] OTHER -> {}

Init ==
  /\ page \in Pages
  /\ status \in IF page = "dashboard" THEN AnyStatus ELSE {Unseen}
  /\ ui = BlankUI /\ view = BlankView /\ figures = BlankFigures
  /\ link \in Addresses(page) /\ saved = NoSession
  /\ calls = FirstCalls(page) /\ clicks = 0 /\ failures = 0

-----------------------------------------------------------------------------
(* Each page's steps, while it is the one that is open.                       *)

OnDashboard(Step) ==
  page = "dashboard" /\ Step /\ UNCHANGED <<page, chatVars, figures>>

OnChat(Step) ==
  page = "chat" /\ Step /\ UNCHANGED <<page, dashboardVars, figures>>

OnAnalytics(Step) ==
  page = "analytics" /\ Step /\ UNCHANGED <<page, dashboardVars, chatVars>>

\* The page that opens makes its first calls; those of the last one are lost.
Open(p) ==
  /\ Click
  /\ page' = p
  /\ ui' = BlankUI /\ view' = BlankView /\ figures' = BlankFigures
  /\ calls' = FirstCalls(p)
  /\ status' \in IF p = "dashboard" THEN AnyStatus ELSE {Unseen}

\* The links of every page; an address with a chat is typed.
Visit ==
  /\ \E p \in Pages : Open(p) /\ link' \in Addresses(p)
  /\ UNCHANGED saved

\* The chat button of a session on the dashboard.
OpenChat(s) ==
  /\ page = "dashboard" /\ ~ui.open
  /\ Open("chat")
  /\ link' = [session |-> s, chat |-> NoChat]
  /\ saved' = s

\* The settings page saves the default session.
SavePreferences(s) ==
  /\ page = "settings" /\ Click
  /\ saved' = s
  /\ UNCHANGED <<page, dashboardVars, link, view, figures, calls>>

Next ==
  \/ OnDashboard(ModalNext) \/ OnChat(ChatNext) \/ OnAnalytics(AnalyticsNext)
  \/ Visit \/ (\E s \in Sessions : OpenChat(s))
  \/ (\E s \in Choice : SavePreferences(s))

Spec == Init /\ [][Next]_vars

\* Intervals fire, and every call is answered or fails, in no order.
Fairness ==
  /\ \A s \in Sessions :
       /\ WF_vars(OnDashboard(Poll(s))) /\ WF_vars(OnDashboard(AnswerSession(s)))
       /\ WF_vars(OnDashboard(SyncConnected(s)))
       /\ WF_vars(OnDashboard(SyncRendered(s)))
       /\ WF_vars(OnDashboard(AnswerReopen(s)))
       /\ WF_vars(OnDashboard(ReopenWatches(s)))
       /\ WF_vars(OnDashboard(AnswerCreate(s)))
       /\ WF_vars(OnDashboard(CreateShows(s)))
       /\ WF_vars(OnDashboard(AnswerPair(s)))
  /\ WF_vars(OnChat(PollChats)) /\ WF_vars(OnChat(PollMessages))
  /\ WF_vars(OnChat(SessionsLoaded))
  /\ \A c \in ChatCall : WF_vars(OnChat(ChatAnswer(c)))
  /\ WF_vars(OnAnalytics(PollAnalytics)) /\ WF_vars(OnAnalytics(SessionsListed))
  /\ \A s \in Choice : WF_vars(OnAnalytics(FiguresLoaded(s)))

FairSpec == Spec /\ Fairness
=============================================================================
