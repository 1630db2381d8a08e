------------------------------ MODULE ChatPage ------------------------------
(* The chat page (public/chat.js): the session and the chat selected, the     *)
(* chats and the messages shown, which are those of whichever call answered   *)
(* last.  Two polls and every click start calls of their own; an answer is    *)
(* shown whether or not it is for what is selected by then.                   *)
(*                                                                            *)
(* Messages, files and the message a reply or an edit refers to are left out, *)
(* and so is the search, which filters what is shown.                         *)
EXTENDS PageBase

CONSTANTS Chats,    \* chat JIDs, any of which a session may have
          NoChat

VARIABLES
  link,   \* sessionId and chatJid of the page's address
  saved,  \* the default session in the browser's storage
  view    \* the state of the page

ChatChoice == Chats \cup {NoChat}
Thread == [session: Choice, chat: ChatChoice]
NoThread == [session |-> NoSession, chat |-> NoChat]

\* loaded: the sessions are listed; inbox: the session state.chats is of;
\* thread: what state.messages is of.
View == [loaded: BOOLEAN, session: Choice, chat: ChatChoice,
         inbox: Choice, thread: Thread]
BlankView == [loaded |-> FALSE, session |-> NoSession, chat |-> NoChat,
              inbox |-> NoSession, thread |-> NoThread]

\* resume: submitComposer awaits the call, and goes on after it.
ChatCall == [op: {"sessions", "chats", "messages", "post"},
             session: Choice, chat: ChatChoice, resume: BOOLEAN]

ChatTypeOK ==
  /\ link \in Thread
  /\ saved \in Choice
  /\ view \in View

-----------------------------------------------------------------------------
(* The calls a state of the page makes.                                       *)

LoadSessions == {[op |-> "sessions", session |-> NoSession, chat |-> NoChat,
                  resume |-> FALSE]}

LoadChats(v, resume) ==
  IF v.session = NoSession THEN {}
  ELSE {[op |-> "chats", session |-> v.session, chat |-> NoChat,
         resume |-> resume]}

LoadMessages(v, resume) ==
  IF NoSession = v.session \/ NoChat = v.chat THEN {}
  ELSE {[op |-> "messages", session |-> v.session, chat |-> v.chat,
         resume |-> resume]}

-----------------------------------------------------------------------------
(* The user.                                                                  *)

SelectSession(s) ==
  /\ view.loaded /\ Click
  /\ view' = [view EXCEPT !.session = s, !.chat = NoChat, !.thread = NoThread]
  /\ saved' = s
  /\ Call(LoadChats(view', FALSE))
  /\ UNCHANGED link

ClickChat(c) ==
  /\ view.inbox # NoSession /\ Click
  /\ view' = [view EXCEPT !.chat = c]
  /\ Call(LoadMessages(view', FALSE))
  /\ UNCHANGED <<link, saved>>

\* Nothing is loaded: the next poll does.
OpenQuickChat(c) ==
  /\ view.session # NoSession /\ Click
  /\ view' = [view EXCEPT !.chat = c, !.thread = NoThread]
  /\ UNCHANGED <<calls, link, saved>>

ReloadMessages ==
  /\ Click
  /\ Call(LoadMessages(view, FALSE))
  /\ UNCHANGED <<link, saved, view>>

\* submitComposer: the call names the session and the chat of this moment.
SubmitComposer ==
  /\ view.session # NoSession /\ view.chat # NoChat /\ Click
  /\ Call({[op |-> "post", session |-> view.session, chat |-> view.chat,
            resume |-> TRUE]})
  /\ UNCHANGED <<link, saved, view>>

-----------------------------------------------------------------------------
(* The polls and the answers.                                                 *)

PollChats_OnlyEmpty ==
  /\ LoadChats(view, FALSE) # {} /\ view.inbox = NoSession
  /\ Call(LoadChats(view, FALSE)) /\ Quietly
  /\ UNCHANGED <<link, saved, view>>
PollChats ==
  /\ LoadChats(view, FALSE) # {}
  /\ Call(LoadChats(view, FALSE)) /\ Quietly
  /\ UNCHANGED <<link, saved, view>>

PollMessages ==
  /\ LoadMessages(view, FALSE) # {}
  /\ Call(LoadMessages(view, FALSE)) /\ Quietly
  /\ UNCHANGED <<link, saved, view>>

\* loadSessions: the session of the address, the default one, or the first.
SessionsLoaded ==
  /\ \E first \in Choice :
       LET session == CHOOSE s \in Choice :
             IF link.session # NoSession THEN s = link.session
             ELSE IF saved # NoSession THEN s = saved ELSE s = first
       IN  /\ view' = [view EXCEPT !.loaded = TRUE, !.session = session]
           /\ saved' = IF session = NoSession THEN saved ELSE session
  /\ \E c \in LoadSessions : Returns(c, LoadChats(view', FALSE))
  /\ Quietly /\ UNCHANGED link

\* loadChats: if no chat is selected, the one of the address or the first of
\* the list is; then loadMessages, of the session selected by now.
ChatsLoaded(c) ==
  /\ c.op = "chats"
  /\ \E first \in ChatChoice :
       view' = [view EXCEPT !.inbox = c.session,
                            !.chat = IF @ # NoChat THEN @
                                     ELSE IF link.chat # NoChat THEN link.chat
                                     ELSE first]
  /\ Returns(c, LoadMessages(view', c.resume))
  /\ Quietly /\ UNCHANGED <<link, saved>>

MessagesLoaded(c) ==
  /\ c.op = "messages"
  /\ view' = [view EXCEPT !.thread = [session |-> c.session, chat |-> c.chat]]
  /\ Returns(c, IF c.resume THEN LoadMessages(view, FALSE) ELSE {})
  /\ Quietly /\ UNCHANGED <<link, saved>>

\* submitComposer, or the refusal of its call.
Posted(c) ==
  /\ c.op = "post"
  /\ \/ Returns(c, LoadChats(view, TRUE)) \/ Returns(c, {})
  /\ Quietly /\ UNCHANGED <<link, saved, view>>

ChatCallFails ==
  /\ \E c \in calls : Fails(c)
  /\ UNCHANGED <<link, saved, view>>

-----------------------------------------------------------------------------
ChatClick ==
  \/ \E s \in Choice : SelectSession(s)
  \/ \E c \in Chats : ClickChat(c) \/ OpenQuickChat(c)
  \/ ReloadMessages \/ SubmitComposer

ChatAnswer(c) == ChatsLoaded(c) \/ MessagesLoaded(c) \/ Posted(c)

ChatNext ==
  \/ ChatClick \/ PollChats \/ PollMessages
  \/ SessionsLoaded \/ (\E c \in calls : ChatAnswer(c))
  \/ ChatCallFails

-----------------------------------------------------------------------------
(* Properties.                                                                *)

\* The page comes to show the chats and the messages of what stays selected,
\* although slow answers for what was selected before replace them: they can
\* for a while, and a poll repairs it (chat.js:150, 180).
ChatSettles ==
  /\ \A s \in Sessions, c \in Chats :
       <>[](view.session = s /\ view.chat = c)
         => <>[](view.thread = [session |-> s, chat |-> c])
  /\ \A s \in Sessions : <>[](view.session = s) => <>[](view.inbox = s)
=============================================================================
