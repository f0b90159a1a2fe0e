\* One Daily, two rounds of observation, two sessions, a repair and a launch.
CONSTANTS
  Dailies = {"d1"}
  Marks = 2
  MaxRounds = 2
  MaxSessions = 2
  MaxRepairs = 1
  MaxSent = 1
SPECIFICATION FairSpec
INVARIANTS OpenOnlyOnReceipt RepairNotUndone SessionsApart
PROPERTIES BudgetKept RoundsAndGateSettle
