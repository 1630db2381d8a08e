\* Two sessions with two chats, three clicks anywhere, one failed call.
CONSTANTS
  Sessions = {s1, s2}
  NoSession = none
  Chats = {c1, c2}
  NoChat = nochat
  MaxClicks = 3
  MaxFailures = 1
SPECIFICATION FairSpec
INVARIANTS TypeOK OneWatcher
PROPERTIES WatchEnds ModalFollows ChatSettles 
CHECK_DEADLOCK FALSE
