\* Two replicas of the cron, a completion, an edit and a deletion of one
\* Daily, a failure, two days; every transaction ends.
CONSTANTS
  d1 = d1  c1 = c1  e1 = e1  x1 = x1  w1 = w1  w2 = w2
  Dailies = {d1}
  Completions = {c1}
  Edits = {e1}
  Deletions = {x1}
  Target <- AllFirst
  Workers = {w1, w2}
  Null = Null
  Day = 1
  Horizon = 4
  DueDates <- AtStart
  BatchSize = 1
  MaxTime = 2
  MaxFaults = 1
SPECIFICATION FairSpec
INVARIANTS CyclesEndOnce OneMissPerLapse OneOutcomePerDeadline
PROPERTY OverdueIsSettled
\* Requests and time are finite: at their end everything may have happened.
CHECK_DEADLOCK FALSE
