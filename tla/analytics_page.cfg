\* Two sessions, three messages, days of two moments, a range of two days, a
\* ranking of one chat and a feed of two messages: messages saved and a midnight
\* between any two statements.
CONSTANTS
  Sessions = {s1, s2}
  AllSessions = all
  Chats = {c1, c2}
  DayCount = 2
  TopLimit = 1
  ActivityLimit = 2
  DayLength = 2
  MaxRows = 3
  MaxTime = 4
SPECIFICATION Spec
SYMMETRY Symmetry
INVARIANTS TypeOK DifferenceIsNew DashboardAgrees
