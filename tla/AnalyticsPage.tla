---------------------------- MODULE AnalyticsPage ---------------------------
(* The analytics page (public/analytics.js): figures for the session chosen,  *)
(* or for all of them, which are those of whichever call answered last.  The  *)
(* range is one more part of the choice, and left out.                        *)
EXTENDS PageBase

VARIABLE figures   \* the choice, and what the figures shown are of

\* loaded: the list to choose from; shown: NoFigures until the first answer.
\* NoSession stands for all sessions.
NoFigures == "nothing"
Figures == [loaded: BOOLEAN, chosen: Choice, shown: Choice \cup {NoFigures}]
BlankFigures == [loaded |-> FALSE, chosen |-> NoSession, shown |-> NoFigures]

FiguresTypeOK == figures \in Figures

ListSessions == {[op |-> "list", session |-> NoSession]}
LoadAnalytics(f) == {[op |-> "figures", session |-> f.chosen]}

\* loadSessions, then loadAnalytics.
SessionsListed ==
  /\ figures' = [figures EXCEPT !.loaded = TRUE]
  /\ \E c \in ListSessions : Returns(c, LoadAnalytics(figures'))
  /\ Quietly

ChooseSession(s) ==
  /\ figures.loaded /\ Click
  /\ figures' = [figures EXCEPT !.chosen = s]
  /\ Call(LoadAnalytics(figures'))

RefreshAnalytics ==
  /\ Click
  /\ Call(LoadAnalytics(figures))
  /\ UNCHANGED figures

PollAnalytics ==
  /\ Call(LoadAnalytics(figures)) /\ Quietly
  /\ UNCHANGED figures

FiguresLoaded(s) ==
  /\ Returns([op |-> "figures", session |-> s], {}) /\ Quietly
  /\ figures' = [figures EXCEPT !.shown = s]

AnalyticsCallFails ==
  /\ \E c \in calls : Fails(c)
  /\ UNCHANGED figures

AnalyticsNext ==
  \/ SessionsListed \/ (\E s \in Choice : ChooseSession(s) \/ FiguresLoaded(s))
  \/ RefreshAnalytics \/ PollAnalytics \/ AnalyticsCallFails

=============================================================================
