---------------------------- MODULE SessionModal ----------------------------
(* The dashboard page (public/dashboard.js): the list of sessions, and one    *)
(* modal in which a session is paired.  The modal belongs to whoever wrote it *)
(* last: the handlers that open it, and the answers of calls made for modals  *)
(* that may have been closed or replaced since.                               *)
(*                                                                            *)
(* Metrics, the list and the activity feed are rendered and nothing reads     *)
(* them; the buttons of a list that is out of date are what the user clicks.  *)
EXTENDS PageBase

VARIABLES
  status,   \* of each session, as the API reports it
  ui        \* the modal, and state.stopQRWatcher

\* pending: a login that waits for its code or for the phone, or a session that
\* was dropped, for which the modal offers a new code.
SessionStatus == {"connected", "pending"}

\* shows: a code or a wait of a session, the recovery button, or the form that
\* asks for a phone; "none" is text that belongs to no session's login.
Shown == [kind: {"none", "qr", "recovery", "form"}, session: Choice]
Nothing == [kind |-> "none", session |-> NoSession]

\* watcher: the session state.stopQRWatcher would stop; timers: the intervals
\* of startPolling that run for each session.
UI == [open: BOOLEAN, shows: Shown, watcher: Choice, timers: [Sessions -> Nat]]
BlankUI == [open |-> FALSE, shows |-> Nothing, watcher |-> NoSession,
            timers |-> [s \in Sessions |-> 0]]

ModalCall == [op: {"sync"}, session: Sessions, stage: {"asked"} \cup SessionStatus]
  \cup [op: {"reopen", "create"}, session: Sessions, stage: {"asked", "summary"}]
  \cup [op: {"pair"}, session: Sessions, stage: {"asked"}]

ModalTypeOK ==
  /\ status \in [Sessions -> SessionStatus]
  /\ ui \in UI

-----------------------------------------------------------------------------
(* The functions that write the modal, from one state of it to the next.      *)

StopQRWatcher_KeepsTimer(u) == [u EXCEPT !.watcher = NoSession]
StopQRWatcher_Twice(u) ==
  IF u.watcher = NoSession THEN u
  ELSE [u EXCEPT !.timers[u.watcher] = @ - 1]
StopQRWatcher(u) ==
  IF u.watcher = NoSession THEN u
  ELSE [u EXCEPT !.timers[u.watcher] = @ - 1, !.watcher = NoSession]

OpenModal(u, shows) == [StopQRWatcher(u) EXCEPT !.open = TRUE, !.shows = shows]

\* What a closed modal holds is not seen, and openModal replaces it.
CloseModal_Hides(u) == [u EXCEPT !.open = FALSE, !.shows = Nothing]
CloseModal(u) == [StopQRWatcher(u) EXCEPT !.open = FALSE, !.shows = Nothing]

Render(u, shows) == IF u.open THEN [u EXCEPT !.shows = shows] ELSE u

\* modalResult shows the error; the buttons in modalActions stay.
RenderError(u) ==
  IF u.shows.kind \in {"form", "recovery"} THEN u ELSE Render(u, Nothing)

StartQRCodeWatcher(u, s) ==
  [StopQRWatcher(u) EXCEPT !.watcher = s, !.timers[s] = @ + 1]

OfQR(s) == [kind |-> "qr", session |-> s]
Sync(s) == [op |-> "sync", session |-> s, stage |-> "asked"]

\* showQRCodeFlow: startPolling runs its task at once.
ShowQRCodeFlow(u, s) == StartQRCodeWatcher(OpenModal(u, OfQR(s)), s)

-----------------------------------------------------------------------------
(* The user.  The open modal covers the page, so the list and the form can be *)
(* clicked only when it is closed.                                            *)

ClickQR(s) ==
  /\ ~ui.open /\ Click
  /\ ui' = ShowQRCodeFlow(ui, s)
  /\ Call({Sync(s)})
  /\ UNCHANGED status

\* reopenQRCode, from the list or from the button in the modal.
ReopenQRCode(s) ==
  /\ ~ui.open \/ ui.shows = [kind |-> "recovery", session |-> s]
  /\ Click
  /\ ui' = OpenModal(ui, OfQR(s))
  /\ Call({[op |-> "reopen", session |-> s, stage |-> "asked"]})
  /\ UNCHANGED status

\* handleCreateSession, whose button is disabled until the call is over.
CreateSession(s) ==
  /\ ~ui.open /\ \A c \in calls : c.op # "create"
  /\ Click
  /\ Call({[op |-> "create", session |-> s, stage |-> "asked"]})
  /\ UNCHANGED <<status, ui>>

OpenPairCodeFlow(s) ==
  /\ ~ui.open /\ Click
  /\ ui' = OpenModal(ui, [kind |-> "form", session |-> s])
  /\ UNCHANGED <<status, calls>>

GeneratePairCode(s) ==
  /\ ui.open /\ ui.shows = [kind |-> "form", session |-> s]
  /\ Click
  /\ Call({[op |-> "pair", session |-> s, stage |-> "asked"]})
  /\ UNCHANGED <<status, ui>>

ClickClose ==
  /\ ui.open /\ Click
  /\ ui' = CloseModal(ui)
  /\ UNCHANGED <<status, calls>>

-----------------------------------------------------------------------------
(* The watcher and the answers of the API.                                    *)

Poll_RunsOnce(s) == s \in {} /\ UNCHANGED <<status, ui, calls>>
Poll(s) ==
  /\ ui.timers[s] > 0
  /\ Call({Sync(s)}) /\ Quietly
  /\ UNCHANGED <<status, ui>>

\* syncQRCodeModal: GET /sessions/{id} answers.
AnswerSession(s) ==
  /\ Returns(Sync(s), {[Sync(s) EXCEPT !.stage = status[s]]}) /\ Quietly
  /\ UNCHANGED <<status, ui>>

\* The session was connected: loadSummary, then closeModal, whichever is open.
SyncConnected(s) ==
  /\ Returns([Sync(s) EXCEPT !.stage = "connected"], {}) /\ Quietly
  /\ ui' = CloseModal(ui)
  /\ UNCHANGED status

\* It was not: GET /sessions/{id}/qr answers with a code, or with 404, for
\* which a session that was dropped gets the recovery button.
SyncRendered(s) ==
  /\ Returns([Sync(s) EXCEPT !.stage = "pending"], {})
  /\ ui' \in {Render(ui, OfQR(s)), Render(ui, [OfQR(s) EXCEPT !.kind = "recovery"])}
  /\ Quietly /\ UNCHANGED status

\* POST /sessions/{id}/qr answers with a code, or without one, or is refused.
AnswerReopen(s) ==
  LET c == [op |-> "reopen", session |-> s, stage |-> "asked"]
  IN  /\ \/ /\ Returns(c, {[c EXCEPT !.stage = "summary"]})
            /\ ui' \in {ui, Render(ui, OfQR(s))}
         \/ /\ Returns(c, {})
            /\ ui' \in {ui, RenderError(ui)}
      /\ Quietly /\ UNCHANGED status

\* reopenQRCode goes on after loadSummary, whatever has become of its modal.
ReopenWatches(s) ==
  /\ Returns([op |-> "reopen", session |-> s, stage |-> "summary"], {Sync(s)})
  /\ ui' = StartQRCodeWatcher(ui, s)
  /\ Quietly /\ UNCHANGED status

AnswerCreate(s) ==
  LET c == [op |-> "create", session |-> s, stage |-> "asked"]
  IN  /\ Returns(c, {[c EXCEPT !.stage = "summary"]}) \/ Returns(c, {})
      /\ Quietly /\ UNCHANGED <<status, ui>>

\* handleCreateSession goes on after loadSummary: the QR code, the pairing code
\* (renderPairCodeModal), or nothing when no phone was given.
CreateShows(s) ==
  LET c == [op |-> "create", session |-> s, stage |-> "summary"]
  IN  /\ \/ Returns(c, {Sync(s)}) /\ ui' = ShowQRCodeFlow(ui, s)
         \/ Returns(c, {}) /\ ui' \in {ui, OpenModal(ui, Nothing)}
      /\ Quietly /\ UNCHANGED status

\* POST /sessions/{id}/pair-code: renderPairCodeModal opens the modal, or the
\* refusal is shown in it.
AnswerPair(s) ==
  /\ Returns([op |-> "pair", session |-> s, stage |-> "asked"], {})
  /\ ui' \in {OpenModal(ui, Nothing), RenderError(ui)}
  /\ Quietly /\ UNCHANGED status

\* A call fails: what it would have done is left undone.
ModalCallFails ==
  /\ \E c \in calls :
       /\ Fails(c)
       /\ ui' \in IF c.op \in {"reopen", "pair"} THEN {ui, RenderError(ui)} ELSE {ui}
  /\ UNCHANGED status

\* The gateway, of which the page knows what it last asked.
StatusChanges ==
  /\ \E s \in Sessions, new \in SessionStatus :
       new # status[s] /\ status' = [status EXCEPT ![s] = new]
  /\ UNCHANGED <<ui, calls>> /\ Quietly

-----------------------------------------------------------------------------
ModalClick ==
  \/ \E s \in Sessions : \/ ClickQR(s) \/ ReopenQRCode(s) \/ CreateSession(s)
                         \/ OpenPairCodeFlow(s) \/ GeneratePairCode(s)
  \/ ClickClose

ModalAnswer(s) ==
  \/ AnswerSession(s) \/ SyncConnected(s) \/ SyncRendered(s)
  \/ AnswerReopen(s) \/ ReopenWatches(s)
  \/ AnswerCreate(s) \/ CreateShows(s) \/ AnswerPair(s)

ModalNext ==
  \/ ModalClick
  \/ \E s \in Sessions : Poll(s) \/ ModalAnswer(s)
  \/ ModalCallFails \/ StatusChanges

-----------------------------------------------------------------------------
(* Properties.                                                                *)

\* One watcher at most, and the one that state.stopQRWatcher can stop: no order
\* of clicks and late answers leaves an interval polling that nobody can end.
OneWatcher ==
  \A s \in Sessions : ui.timers[s] = (IF ui.watcher = s THEN 1 ELSE 0)

\* A session that stays connected is not watched for ever, although answers of
\* other modals stop, start and replace the watcher.
WatchEnds ==
  \A s \in Sessions :
    <>[](status[s] = "connected") => <>[](ui.watcher # s)

\* An open modal in which a session is watched comes to show that session,
\* whatever late answers for other sessions were written into it.
ModalFollows ==
  \A s \in Sessions :
    <>[](ui.open /\ ui.watcher = s) => <>[](ui.shows.session = s)
=============================================================================
