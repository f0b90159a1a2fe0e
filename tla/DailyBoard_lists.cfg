\* Two Dailies, the unfiltered and the pending list, two requests at once.
CONSTANTS
  d1 = d1  d2 = d2  c1 = c1  c2 = c2
  Dailies = {d1, d2}
  Commands = {c1, c2}
  Boards = {"all", "pending"}
  MaxUpsets = 1
SPECIFICATION BoardSpec
SYMMETRY DailySymmetry
INVARIANTS MarkHolds NoPhantomCompletion ToldIsShown
\* Every request is sent once.
CHECK_DEADLOCK FALSE
