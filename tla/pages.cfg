\* Two phone numbers, two lids that may exchange them, pages of one or two rows,
\* and timestamps out of the order of the ids: every way rows can be committed,
\* moved and renamed between two pages.
CONSTANTS
  Phones = {p1, p2}
  Lids = {d1, d2}
  AnyChat = any
  MaxLimit = 2
  DefaultLimit = 1
  MaxRows = 3
  MaxTime = 1
SPECIFICATION Spec
SYMMETRY Symmetry
INVARIANTS TypeOK NeverTwice NothingSkipped ChatsAddUp
