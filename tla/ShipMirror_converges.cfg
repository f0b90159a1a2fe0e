\* Two handlers of different event types overlap; every drain is complete and
\* nothing fails.
CONSTANTS
  created = created  completed = completed  launched = launched
  landed = landed  failed = failed  missed = missed  r1 = r1
  NoTx = NoTx
  Deliveries = {created, completed, missed}
  Repairs = {}
  Kind <- EachKind
  Amount <- EachAmount
  FullHull = 2
  RollMin = 1
  RollMax = 2
  MaxBegins = 3
  MaxFaults = 0
  MaxReplays = 0
  MaxSkips = 0
SPECIFICATION MirrorSpec
INVARIANT MirrorConverges
CHECK_DEADLOCK FALSE
