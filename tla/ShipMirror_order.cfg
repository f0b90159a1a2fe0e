\* A reward, a failed expedition, an investment and damage on their way to the
\* mirror.
CONSTANTS
  created = created  completed = completed  launched = launched
  landed = landed  failed = failed  missed = missed  r1 = r1
  NoTx = NoTx
  Deliveries = {created, landed, failed, launched, missed}
  Repairs = {}
  Kind <- EachKind
  Amount <- EachAmount
  FullHull = 2
  RollMin = 1
  RollMax = 2
  MaxBegins = 6
  MaxFaults = 1
  MaxReplays = 0
  MaxSkips = 1
SPECIFICATION MirrorSpec
INVARIANTS MirrorFaithfulInOrder MirrorShowsRealStates
\* The deliveries and requests are finitely many: the system rests when all ended.
CHECK_DEADLOCK FALSE
